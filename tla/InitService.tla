----------------------------- MODULE InitService -----------------------------
(***************************************************************************)
(* The life cycle of the services that init runs (init/service.cpp), with  *)
(* everything that drives it: control messages from the property service   *)
(* (init.cpp, handle_control_message), the service builtins of .rc scripts *)
(* (builtins.cpp), the restart timer (init.cpp, RestartProcesses) and the  *)
(* SIGCHLD handler (sigchld_handler.cpp).                                  *)
(*                                                                         *)
(* init is single threaded: each of those entry points runs to completion, *)
(* so each is one action.  What interleaves with them is the kernel: a     *)
(* service's process may exit at any moment and stays a zombie until the   *)
(* SIGCHLD handler gets to it.                                             *)
(*                                                                         *)
(* Abstractions.  A process is identified with its service: a service has  *)
(* at most one, pid_ names it exactly while it is alive or a zombie.  Time *)
(* is left out: whether five seconds have passed since a service was       *)
(* started is a choice of RestartProcesses, and whether a crash of a       *)
(* critical service is the one that exceeds its limit is a choice of       *)
(* ReapOneProcess (module CriticalService models that clock).  The onrestart*)
(* commands modelled are "restart <service>" and "exec".                   *)
(***************************************************************************)
EXTENDS FiniteSets

CONSTANTS
    Service,         \* every service, those of "exec" commands included
    Temporary,       \* the ones "exec" and "exec_background" create
    Oneshot,         \* services with the option oneshot
    Critical,        \* services with the option critical
    Disabled,        \* services with the option disabled
    Class,           \* services of the class the class_ commands name
    OnRestart,       \* the services "onrestart restart" of a service names
    OnRestartExec    \* the exec services "onrestart exec" of a service creates

ASSUME ServiceAssumption ==
    /\ Temporary \subseteq Service
    /\ Oneshot \subseteq Service
    /\ Critical \subseteq Service \ Temporary
    /\ Disabled \subseteq Service \ Temporary
    /\ Class \subseteq Service
    /\ OnRestart \in [Service -> SUBSET (Service \ Temporary)]
    /\ OnRestartExec \in [Service -> SUBSET Temporary]

VARIABLES
    list,    \* ServiceList::services_
    svc,     \* the Service objects
    exec,    \* Service::is_exec_service_running_
    waiting, \* waiting_for_prop: a command waits for a property
    fatal,   \* LOG(FATAL) in Reap: init reboots the device
    goal     \* history: the last thing asked of each service

vars == <<list, svc, exec, waiting, fatal, goal>>

-----------------------------------------------------------------------------
(* The Service object                                                       *)

\* The SVC_ flags that change during a service's life
Flag == {"DISABLED", "ONESHOT", "RUNNING", "RESTARTING", "RESET", "RC_DISABLED",
         "RESTART", "DISABLED_START", "EXEC", "SHUTDOWN_CRITICAL"}

\* What init.svc.<name> can say; "" before the first notification
State == {"", "running", "stopping", "stopped", "restarting"}

\* flags_, pid_ as the state of the process it names ("none" is pid_ = 0),
\* process_cgroup_empty_, and the property init.svc.<name>
ServiceObject == [flags : SUBSET Flag,
                  proc  : {"none", "alive", "zombie"},
                  empty : BOOLEAN,
                  state : State]

\* A freshly parsed service, or one "exec" has just made
Parsed(s) ==
    [flags |-> (IF s \in Oneshot \cup Temporary THEN {"ONESHOT"} ELSE {})
               \cup (IF s \in Disabled THEN {"DISABLED", "RC_DISABLED"} ELSE {}),
     proc  |-> "none",
     empty |-> FALSE,
     state |-> ""]

\* Temporary services have no init.svc property
NotifyStateChange(s, r, new) ==
    IF s \in Temporary THEN r ELSE [r EXCEPT !.state = new]

\* gone: killProcessGroup returned 0, every process of the group is dead.
\* Otherwise it failed, or gave up waiting, and the process may live on.
KillProcessGroup(r, gone) ==
    IF r.empty \/ ~gone THEN r
    ELSE [r EXCEPT !.empty = TRUE,
                   !.proc = IF @ = "alive" THEN "zombie" ELSE @]

\* What Start() may meet when it has to fork: success; no console or no
\* executable; no security context or no process
StartOutcome == {"ok", "missing", "failed"}

StartResult(r, o) == "RUNNING" \in r.flags \/ o = "ok"

\* The flags Start() clears before anything else
StartClears == {"DISABLED", "RESTARTING", "RESET", "RESTART", "DISABLED_START"}

\* Mutant: the flags are cleared only once the executable is known to exist.
MutNotStarted(r, o) == r

NotStarted(r, o) ==
    [r EXCEPT !.flags = (@ \ StartClears) \cup (IF o = "missing" THEN {"DISABLED"} ELSE {})]

\* Mutant: the cgroup of the previous process is taken for the new one's.
MutForked(s, r) ==
    NotifyStateChange(s, [r EXCEPT !.flags = (@ \ StartClears) \cup {"RUNNING"},
                                   !.proc = "alive"], "running")

Forked(s, r) ==
    NotifyStateChange(s, [r EXCEPT !.flags = (@ \ StartClears) \cup {"RUNNING"},
                                   !.proc = "alive",
                                   !.empty = FALSE], "running")

\* A oneshot service in stopping status is marked to be restarted in Reap()
AlreadyRunning(r) ==
    LET disabled == r.flags \cap {"DISABLED", "RESET"} # {}
    IN  [r EXCEPT !.flags = (@ \ StartClears)
                            \cup (IF "ONESHOT" \in @ /\ disabled THEN {"RESTART"} ELSE {})]

Start(s, r, o) ==
    IF "RUNNING" \in r.flags THEN AlreadyRunning(r)
    ELSE IF o = "ok" THEN Forked(s, r)
    ELSE NotStarted(r, o)

ExecStart(s, r, o) ==
    LET r1 == Start(s, [r EXCEPT !.flags = @ \cup {"ONESHOT"}], o)
    IN  IF StartResult(r, o) THEN [r1 EXCEPT !.flags = @ \cup {"EXEC"}] ELSE r1

StartIfNotDisabled(s, r, o) ==
    IF "DISABLED" \notin r.flags THEN Start(s, r, o)
    ELSE [r EXCEPT !.flags = @ \cup {"DISABLED_START"}]

Enable(s, r, o) ==
    LET r1 == [r EXCEPT !.flags = @ \ {"DISABLED", "RC_DISABLED"}]
    IN  IF "DISABLED_START" \in r.flags THEN Start(s, r1, o) ELSE r1

\* Mutant: a stop leaves the service on the restart timer.
MutStopFlags(flags, how) ==
    LET f == (flags \ {"DISABLED_START"})
             \cup {IF how = "RESET" /\ "RC_DISABLED" \in flags THEN "DISABLED" ELSE how}
    IN  f \ (IF how = "RESTART" THEN {"DISABLED", "RESET"} ELSE {"RESTART"})

\* The flags StopOrReset(how) leaves; how is "DISABLED" for Stop(), "RESET" for
\* Reset(), "RESTART" for Restart()
StopFlags(flags, how) ==
    LET f == (flags \ {"RESTARTING", "DISABLED_START"})
             \cup {IF how = "RESET" /\ "RC_DISABLED" \in flags THEN "DISABLED" ELSE how}
    IN  f \ (IF how = "RESTART" THEN {"DISABLED", "RESET"} ELSE {"RESTART"})

StopOrReset(s, r, how, gone) ==
    LET r1 == [r EXCEPT !.flags = StopFlags(@, how)]
    IN  IF r.proc # "none"
        THEN NotifyStateChange(s, KillProcessGroup(r1, gone), "stopping")
        ELSE NotifyStateChange(s, r1, "stopped")

Stop(s, r, gone) == StopOrReset(s, r, "DISABLED", gone)

Reset(s, r, gone) == StopOrReset(s, r, "RESET", gone)

Restart(s, r, o, gone) ==
    IF "RUNNING" \in r.flags THEN StopOrReset(s, r, "RESTART", gone)
    ELSE IF "RESTARTING" \notin r.flags THEN Start(s, r, o)
    ELSE r

\* SIGTERM; used by the shutdown sequence only (module InitShutdown)
Terminate(s, r, gone) ==
    LET r1 == [r EXCEPT !.flags = (@ \ {"RESTARTING", "DISABLED_START"}) \cup {"DISABLED"}]
    IN  IF r.proc # "none"
        THEN NotifyStateChange(s, KillProcessGroup(r1, gone), "stopping")
        ELSE r1

UnSetExec(r) == [r EXCEPT !.flags = @ \ {"EXEC"}]

-----------------------------------------------------------------------------
Init ==
    /\ list = Service \ Temporary
    /\ svc = [s \in Service |-> Parsed(s)]
    /\ exec = FALSE
    /\ waiting = FALSE
    /\ fatal = FALSE
    /\ goal = [s \in Service |-> "none"]

\* The goal after a call of Start() that was asked for
Asked(r, o) == IF StartResult(r, o) THEN "up" ELSE "failed"

(* Requests about one service: control messages ctl.start, ctl.stop and     *)
(* ctl.restart, and the builtins start, stop and restart, which make the    *)
(* same calls.  A control message is served even while a command waits for  *)
(* an exec service.                                                         *)
DoControlStart(s) == \E o \in StartOutcome :
    /\ s \in list
    /\ svc' = [svc EXCEPT ![s] = Start(s, @, o)]
    /\ goal' = [goal EXCEPT ![s] = Asked(svc[s], o)]
    /\ UNCHANGED <<list, exec>>

DoControlStop(s) == \E gone \in BOOLEAN :
    /\ s \in list
    /\ svc' = [svc EXCEPT ![s] = Stop(s, @, gone)]
    /\ goal' = [goal EXCEPT ![s] = "down"]
    /\ UNCHANGED <<list, exec>>

\* The goal after Restart(): only the call of Start() it may make can fail
RestartAsked(r, o) == IF "RESTARTING" \in r.flags THEN "up" ELSE Asked(r, o)

DoControlRestart(s) == \E o \in StartOutcome, gone \in BOOLEAN :
    /\ s \in list
    /\ svc' = [svc EXCEPT ![s] = Restart(s, @, o, gone)]
    /\ goal' = [goal EXCEPT ![s] = RestartAsked(svc[s], o)]
    /\ UNCHANGED <<list, exec>>

(* Commands of the action queue, which does not move while init waits for   *)
(* an exec service or for a property.                                       *)
QueueMoves == ~exec /\ ~waiting

\* The wait of wait_for_prop begins unless the property has the value already, ...
do_wait_for_prop ==
    /\ QueueMoves
    /\ waiting' = TRUE
    /\ UNCHANGED <<list, svc, exec, fatal, goal>>

\* ... and it ends when somebody sets the property to that value, if ever
property_changed ==
    /\ waiting
    /\ waiting' = FALSE
    /\ UNCHANGED <<list, svc, exec, fatal, goal>>

do_enable(s) == \E o \in StartOutcome :
    /\ QueueMoves
    /\ s \in list
    /\ svc' = [svc EXCEPT ![s] = Enable(s, @, o)]
    /\ goal' = [goal EXCEPT ![s] =
                   IF "DISABLED_START" \in svc[s].flags THEN Asked(svc[s], o)
                   ELSE IF @ = "down" THEN "none" ELSE @]
    /\ UNCHANGED <<list, exec>>

do_class_start == \E o \in [Class -> StartOutcome] :
    /\ QueueMoves
    /\ svc' = [s \in Service |-> IF s \in Class \cap list
                                 THEN StartIfNotDisabled(s, svc[s], o[s]) ELSE svc[s]]
    /\ goal' = [s \in Service |-> IF s \in Class \cap list /\ "DISABLED" \notin svc[s].flags
                                  THEN Asked(svc[s], o[s]) ELSE goal[s]]
    /\ UNCHANGED <<list, exec>>

do_class_stop == \E gone \in [Class -> BOOLEAN] :
    /\ QueueMoves
    /\ svc' = [s \in Service |-> IF s \in Class \cap list
                                 THEN Stop(s, svc[s], gone[s]) ELSE svc[s]]
    /\ goal' = [s \in Service |-> IF s \in Class \cap list THEN "down" ELSE goal[s]]
    /\ UNCHANGED <<list, exec>>

do_class_reset == \E gone \in [Class -> BOOLEAN] :
    /\ QueueMoves
    /\ svc' = [s \in Service |-> IF s \in Class \cap list
                                 THEN Reset(s, svc[s], gone[s]) ELSE svc[s]]
    /\ goal' = [s \in Service |-> IF s \in Class \cap list THEN "down" ELSE goal[s]]
    /\ UNCHANGED <<list, exec>>

do_class_restart == \E o \in [Class -> StartOutcome], gone \in [Class -> BOOLEAN] :
    /\ QueueMoves
    /\ svc' = [s \in Service |-> IF s \in Class \cap list
                                 THEN Restart(s, svc[s], o[s], gone[s]) ELSE svc[s]]
    /\ goal' = [s \in Service |-> IF s \in Class \cap list
                                  THEN RestartAsked(svc[s], o[s]) ELSE goal[s]]
    /\ UNCHANGED <<list, exec>>

\* MakeTemporaryOneshotService, ExecStart(), AddService: a service that could
\* not be started is dropped and leaves no trace
do_exec(t) ==
    /\ QueueMoves
    /\ t \in Temporary \ list
    /\ svc' = [svc EXCEPT ![t] = ExecStart(t, Parsed(t), "ok")]
    /\ list' = list \cup {t}
    /\ exec' = TRUE
    /\ UNCHANGED goal

do_exec_background(t) ==
    /\ QueueMoves
    /\ t \in Temporary \ list
    /\ svc' = [svc EXCEPT ![t] = Start(t, Parsed(t), "ok")]
    /\ list' = list \cup {t}
    /\ UNCHANGED <<exec, goal>>

do_exec_start(s) == \E o \in StartOutcome :
    /\ QueueMoves
    /\ s \in list
    /\ svc' = [svc EXCEPT ![s] = ExecStart(s, @, o)]
    /\ exec' = StartResult(svc[s], o)
    /\ goal' = [goal EXCEPT ![s] = Asked(svc[s], o)]
    /\ UNCHANGED list

\* One round of the main loop's restart timer; due are the services whose five
\* seconds are over
RestartProcesses(due) == \E o \in [due -> StartOutcome] :
    /\ QueueMoves
    /\ due # {}
    /\ \A s \in due : s \in list /\ "RESTARTING" \in svc[s].flags
    /\ svc' = [s \in Service |-> IF s \in due THEN Start(s, svc[s], o[s]) ELSE svc[s]]
    /\ goal' = [s \in Service |-> IF s \in due /\ ~StartResult(svc[s], o[s])
                                  THEN "failed" ELSE goal[s]]
    /\ UNCHANGED <<list, exec>>

-----------------------------------------------------------------------------
(* The SIGCHLD handler                                                      *)

\* The process of a service exits, or is killed by someone else
Exit(s) ==
    /\ svc[s].proc = "alive"
    /\ svc' = [svc EXCEPT ![s].proc = "zombie"]
    /\ UNCHANGED <<list, exec, goal>>

\* Reap() up to the point where a temporary service returns
ReapKill(r, gone) ==
    UnSetExec(IF "ONESHOT" \notin r.flags \/ "RESTART" \in r.flags
              THEN KillProcessGroup(r, gone) ELSE r)

\* pid_ = 0, and oneshot processes go into the disabled state
ReapFlags(r) ==
    (r.flags \ {"RUNNING"})
    \cup (IF "ONESHOT" \in r.flags /\ "RESTART" \notin r.flags THEN {"DISABLED"} ELSE {})

ReapStopped(r) == ReapFlags(r) \cap {"DISABLED", "RESET"} # {}

\* Mutant: a temporary service returns from Reap() before UnSetExec().
MutReapTemporary(s) ==
    /\ s \in list \cap Temporary
    /\ svc[s].proc = "zombie"
    /\ list' = list \ {s}
    /\ svc' = [svc EXCEPT ![s] = Parsed(s)]
    /\ goal' = [goal EXCEPT ![s] = "none"]
    /\ UNCHANGED exec

\* ReapOneProcess for a temporary service: Reap(), RemoveService
ReapTemporary(s) ==
    /\ s \in list \cap Temporary
    /\ svc[s].proc = "zombie"
    /\ exec' = (exec /\ "EXEC" \notin svc[s].flags)
    /\ list' = list \ {s}
    /\ svc' = [svc EXCEPT ![s] = Parsed(s)]
    /\ goal' = [goal EXCEPT ![s] = "none"]

\* ReapOneProcess for a service that stays down
ReapToStopped(s) == \E gone \in BOOLEAN :
    /\ s \in list \ Temporary
    /\ svc[s].proc = "zombie"
    /\ ReapStopped(svc[s])
    /\ exec' = (exec /\ "EXEC" \notin svc[s].flags)
    /\ LET r == ReapKill(svc[s], gone)
       IN  svc' = [svc EXCEPT ![s] = NotifyStateChange(s,
                      [r EXCEPT !.flags = ReapFlags(r), !.proc = "none"], "stopped")]
    /\ UNCHANGED <<list, goal>>

\* The exec services the onrestart commands of s manage to start
Execed(s, o) == {t \in OnRestartExec[s] \ list : o[t] = "ok"}

\* ReapOneProcess for a service that will be restarted: its onrestart commands
\* restart other services and start exec services before Reap() returns
ReapToRestart(s) == \E gone \in [OnRestart[s] \cup {s} -> BOOLEAN],
                       o \in [OnRestart[s] \cup OnRestartExec[s] -> StartOutcome] :
    /\ s \in list \ Temporary
    /\ svc[s].proc = "zombie"
    /\ ~ReapStopped(svc[s])
    /\ LET r == ReapKill(svc[s], gone[s])
           reaped == NotifyStateChange(s,
                        [r EXCEPT !.flags = (ReapFlags(r) \ {"RESTART"}) \cup {"RESTARTING"},
                                  !.proc = "none"], "restarting")
       IN  svc' = [x \in Service |->
                     IF x = s THEN reaped
                     ELSE IF x \in OnRestart[s] THEN Restart(x, svc[x], o[x], gone[x])
                     ELSE IF x \in Execed(s, o) THEN ExecStart(x, Parsed(x), o[x])
                     ELSE svc[x]]
    /\ goal' = [x \in Service |-> IF x \in OnRestart[s] \ {s}
                                  THEN RestartAsked(svc[x], o[x]) ELSE goal[x]]
    /\ list' = list \cup Execed(s, o)
    /\ exec' = (Execed(s, o) # {} \/ (exec /\ "EXEC" \notin svc[s].flags))

\* The crash that is one too many for a critical service
ReapFatal(s) ==
    /\ s \in list \cap Critical
    /\ svc[s].proc = "zombie"
    /\ ~ReapStopped(svc[s])
    /\ "RESTART" \notin svc[s].flags
    /\ fatal' = TRUE
    /\ UNCHANGED <<list, svc, exec, waiting, goal>>

ReapOneProcess(s) == ReapTemporary(s) \/ ReapToStopped(s) \/ ReapToRestart(s)

-----------------------------------------------------------------------------
\* Requests, commands, exits and reaping
Handlers ==
    \/ \E s \in Service : \/ DoControlStart(s) \/ DoControlStop(s) \/ DoControlRestart(s)
                          \/ do_enable(s) \/ do_exec_start(s)
                          \/ Exit(s) \/ ReapOneProcess(s)
    \/ \E t \in Temporary : do_exec(t) \/ do_exec_background(t)
    \/ do_class_start \/ do_class_stop \/ do_class_reset \/ do_class_restart

\* The steps of a running init
Step == Handlers \/ \E due \in SUBSET Service : RestartProcesses(due)

Next == /\ ~fatal
        /\ \/ Step /\ UNCHANGED <<waiting, fatal>>
           \/ \E s \in Service : ReapFatal(s)
           \/ do_wait_for_prop \/ property_changed

Spec == Init /\ [][Next]_vars

\* The SIGCHLD pipe wakes the main loop until every zombie is reaped, and the
\* loop wakes up for every restart that is due; an exec service that someone
\* waits for is taken to exit.  The timer needs strong fairness: it rests while a
\* command waits, and its turn comes after each command that does not wait (scripts
\* are taken not to wait in every command for ever).  Nothing makes a property
\* change that a command waits for.
Going == ~fatal /\ UNCHANGED <<waiting, fatal>>
Fairness ==
    /\ \A s \in Service :
          /\ WF_vars(ReapOneProcess(s) /\ Going)
          /\ WF_vars("EXEC" \in svc[s].flags /\ Exit(s) /\ Going)
          /\ SF_vars(/\ \E due \in SUBSET Service : s \in due /\ RestartProcesses(due)
                     /\ Going)

FairSpec == Spec /\ Fairness

-----------------------------------------------------------------------------
(* Properties                                                               *)

\* Type invariant: Service objects and the service list.
TypeOK ==
    /\ list \subseteq Service
    /\ svc \in [Service -> ServiceObject]
    /\ exec \in BOOLEAN
    /\ waiting \in BOOLEAN
    /\ fatal \in BOOLEAN
    /\ goal \in [Service -> {"none", "up", "down", "failed"}]

\* What init.svc.<name> tells the rest of the system is true whatever order
\* requests, exits and reaping come in: it says "running" or "stopping" exactly
\* while the service has a process, "restarting" only while the restart timer
\* will start it or after that start was tried and failed, and "stopped" never
\* while the timer is armed.
StateIsTrue ==
    \A s \in list \ Temporary :
        /\ svc[s].state \in {"running", "stopping"} <=> svc[s].proc # "none"
        /\ svc[s].state = "restarting" => "RESTARTING" \in svc[s].flags \/ goal[s] = "failed"
        /\ "RESTARTING" \in svc[s].flags => svc[s].state = "restarting"

\* SVC_RUNNING, SVC_RESTARTING and the process agree: a service is never on the
\* restart timer while its process exists, so no second process is forked; and
\* a temporary service in the list is one whose process init has yet to reap.
OneProcess ==
    \A s \in Service :
        /\ svc[s].proc # "none" <=> "RUNNING" \in svc[s].flags
        /\ "RUNNING" \in svc[s].flags => s \in list /\ "RESTARTING" \notin svc[s].flags
        /\ s \in list \cap Temporary => "RUNNING" \in svc[s].flags

\* A stop is final: from Stop() or Reset() on, until something else is asked of
\* the service, neither the restart timer nor the reaper brings it back, even
\* when its process exits, or had exited, at any moment around the request.
StopHolds ==
    \A s \in list \ Temporary :
        goal[s] = "down" => /\ svc[s].flags \cap {"RESTARTING", "RESTART"} = {}
                            /\ svc[s].flags \cap {"DISABLED", "RESET"} # {}
                            /\ svc[s].state \in {"stopping", "stopped"}

\* A start or restart is never forgotten for a service that is not oneshot: it
\* has a process that will be restarted when it exits, or it is on the timer.
StartHolds ==
    \A s \in list \ Temporary :
        goal[s] = "up" /\ "ONESHOT" \notin svc[s].flags =>
            \/ "RUNNING" \in svc[s].flags /\ svc[s].flags \cap {"DISABLED", "RESET"} = {}
            \/ "RESTARTING" \in svc[s].flags

\* What was last asked of a service stays in force, a stop as well as a start,
\* whatever order requests, exits, reaping and the restart timer come in.
GoalHolds == StopHolds /\ StartHolds

\* init never waits for an exec service that is not there: while
\* is_exec_service_running_ holds back the action queue and the restart timer,
\* some service of the list is marked SVC_EXEC and its end will be noticed.
ExecIsAwaited == exec => \E s \in list : {"EXEC", "RUNNING"} \subseteq svc[s].flags

\* SVC_EXEC "stops init from processing more commands until it completes"
\* (service.h): the queue stands still as long as an exec service runs.  An exec among
\* the onrestart commands would run beside the one that is awaited, under the one flag.
ExecBlocks ==
    (\A s \in Service : OnRestartExec[s] = {})
        => ((\E s \in list : "EXEC" \in svc[s].flags) => exec)

\* A process that is alive can be killed: process_cgroup_empty_, which turns
\* KillProcessGroup into a no-op, never outlives the process it was set for.  (A
\* createProcessGroup() that fails is only logged; here it succeeds.)
KillReaches == \A s \in Service : svc[s].empty => svc[s].proc # "alive"

\* init waits as long as an exec service runs, and the waiting ends, though control messages may stop, restart
\* or start that very service meanwhile.
ExecUnblocks == []ExecBlocks /\ (exec ~> (~exec \/ fatal))

\* A service on the restart timer does not stay there, though exec services and waits
\* for properties suspend the timer again and again: it is started, or the start is
\* tried, unless a command waits for ever for a property that nobody sets.
RestartHappens ==
    \A s \in Service : ("RESTARTING" \in svc[s].flags)
                        ~> ("RESTARTING" \notin svc[s].flags \/ fatal \/ []waiting)

-----------------------------------------------------------------------------
(* The inductive invariant                                                  *)

\* What holds of one Service object r with goal g; in says whether it is in the
\* list.  The first four conjuncts are the shape of the object, the others what
\* its flags, its published state and its goal have to do with each other.
ServiceOK(s, r, g, in) ==
    /\ r \in ServiceObject
    /\ g \in {"none", "up", "down", "failed"}
    /\ in \in BOOLEAN
    /\ s \notin Temporary => in
    /\ r.proc # "none" <=> "RUNNING" \in r.flags
    /\ "RUNNING" \in r.flags => in /\ "RESTARTING" \notin r.flags
    /\ in /\ s \in Temporary => "RUNNING" \in r.flags
    /\ r.empty => r.proc # "alive"
    /\ s \notin Temporary =>
          /\ r.state \in {"running", "stopping"} <=> r.proc # "none"
          /\ r.state = "restarting" => "RESTARTING" \in r.flags \/ g = "failed"
          /\ "RESTARTING" \in r.flags => r.state = "restarting"
          /\ g = "down" => /\ r.flags \cap {"RESTARTING", "RESTART"} = {}
                           /\ r.flags \cap {"DISABLED", "RESET"} # {}
                           /\ r.state \in {"stopping", "stopped"}
          /\ g = "up" /\ "ONESHOT" \notin r.flags =>
                \/ "RUNNING" \in r.flags /\ r.flags \cap {"DISABLED", "RESET"} = {}
                \/ "RESTARTING" \in r.flags

IInv ==
    /\ TypeOK
    /\ \A s \in Service : ServiceOK(s, svc[s], goal[s], s \in list)
    /\ ExecIsAwaited

=============================================================================
