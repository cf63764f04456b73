---------------------------- MODULE InitShutdown ----------------------------
(***************************************************************************)
(* The shutdown sequence of init: HandlePowerctlMessage and DoReboot       *)
(* (init/reboot.cpp) composed with the services of module InitService.     *)
(*                                                                         *)
(* DoReboot is one call that never returns, in the only thread of init:    *)
(* requests and the restart timer are over once it runs.  Its loops over   *)
(* the services are one action each, since all that can come in between,   *)
(* the exit of a process, changes nothing they look at.  Processes are     *)
(* reaped only where it calls ReapAnyOutstandingChildren.  Timeouts are a  *)
(* choice.  vdc, fsck and lsof are processes of their own that DoReboot    *)
(* waits for; unmounting is the step that ends the phase "umount".         *)
(***************************************************************************)
EXTENDS InitService

CONSTANTS
    ShutdownCritical,  \* services with the option "shutdown critical"
    KillAfterApps,     \* tombstoned, logd, adbd
    ToStart,           \* watchdogd
    Animation,         \* services of class animation
    SurfaceFlinger,    \* {surfaceflinger}, if there is one and a bootanim
    Console,           \* services with the option console
    Vold               \* {vold}, if there is one

ASSUME ShutdownAssumption ==
    /\ ShutdownCritical \cup KillAfterApps \cup ToStart \cup Animation \subseteq Service
    /\ SurfaceFlinger \cup Console \cup Vold \subseteq Service \ Temporary

VARIABLES
    phase,   \* "up", "trigger" (shutting_down is set), then the parts of DoReboot
    crit,    \* the services with SVC_SHUTDOWN_CRITICAL
    lost,    \* history: services that ended, or failed to start, in DoReboot
    killed,  \* history: services whose process DoReboot has sent SIGKILL
    revived  \* history: services that onrestart commands restarted in DoReboot

shutdownVars == <<phase, crit, lost, killed, revived>>
allVars == <<vars, shutdownVars>>

Phase == {"up", "trigger", "terminate", "wait", "kill", "reap", "vold", "vdc", "apps",
          "umount", "fsck", "off"}

ShutdownInit ==
    /\ Init
    /\ phase = "up"
    /\ crit = ShutdownCritical
    /\ lost = {}
    /\ killed = {}
    /\ revived = {}

\* Terminate() or Stop() of the services S of the list, with the choices the kernel makes
ForEach(S, member) == \E gone \in [S \cap list -> BOOLEAN] :
    /\ svc' = [s \in Service |->
                  IF s \notin S \cap list THEN svc[s]
                  ELSE IF member = "Terminate" THEN Terminate(s, svc[s], gone[s])
                  ELSE Stop(s, svc[s], gone[s])]
    /\ goal' = [s \in Service |-> IF s \in S \cap list THEN "down" ELSE goal[s]]
    /\ UNCHANGED <<list, exec, waiting, fatal>>

-----------------------------------------------------------------------------
(* The main loop                                                            *)

Running ==
    /\ phase = "up"
    /\ Next
    /\ UNCHANGED shutdownVars

\* A powerctl request is accepted: the property or the exec service that is awaited is
\* forgotten
HandlePowerctlMessage ==
    /\ phase = "up" /\ ~fatal
    /\ svc' = [s \in Service |-> IF s \in list THEN UnSetExec(svc[s]) ELSE svc[s]]
    /\ exec' = FALSE
    /\ waiting' = FALSE
    /\ phase' = "trigger"
    /\ UNCHANGED <<list, fatal, goal, crit, lost, killed, revived>>

\* Until shutdown_done is executed the loop serves commands and requests, but
\* starts no process that is due
Trigger ==
    /\ phase = "trigger" /\ ~fatal
    /\ \/ Handlers /\ UNCHANGED <<waiting, fatal>>
       \/ \E s \in Service : ReapFatal(s)
       \/ do_wait_for_prop \/ property_changed
    /\ UNCHANGED shutdownVars

-----------------------------------------------------------------------------
(* DoReboot                                                                 *)

Started == (ToStart \cup (ShutdownCritical \ KillAfterApps)) \cap list

\* The services needed until the end are started and marked
StartShutdownCritical == \E o \in [Started -> StartOutcome] :
    /\ phase = "trigger" /\ QueueMoves /\ ~fatal
    /\ svc' = [s \in Service |-> IF s \in Started THEN Start(s, svc[s], o[s]) ELSE svc[s]]
    /\ goal' = [s \in Service |-> IF s \in Started THEN Asked(svc[s], o[s]) ELSE goal[s]]
    /\ lost' = {s \in Started : ~StartResult(svc[s], o[s])}
    /\ crit' = crit \cup (((KillAfterApps \cup ToStart) \cap list)
                          \cup (IF \E f \in SurfaceFlinger : "RUNNING" \in svc'[f].flags
                                THEN Animation \cap list ELSE {}))
    /\ phase' = "terminate"
    /\ UNCHANGED <<list, exec, waiting, fatal, killed, revived>>

\* SIGTERM for all others; with a timeout of zero the step is skipped
TerminateServices ==
    /\ phase = "terminate"
    /\ ForEach(Service \ crit, "Terminate")
    /\ phase' = "wait"
    /\ UNCHANGED <<crit, lost, killed, revived>>

SkipTerminate ==
    /\ phase = "terminate"
    /\ phase' = "kill"
    /\ UNCHANGED <<vars, crit, lost, killed, revived>>

ExitInReboot(s) ==
    /\ phase \notin {"up", "trigger", "off"} /\ ~fatal
    /\ Exit(s)
    /\ lost' = lost \cup {s}
    /\ UNCHANGED <<waiting, fatal, phase, crit, killed, revived>>

\* One call of ReapOneProcess by ReapAnyOutstandingChildren
ReapInReboot(s) ==
    /\ phase \in {"wait", "reap"} /\ ~fatal
    /\ \/ /\ ReapOneProcess(s) /\ UNCHANGED <<waiting, fatal>>
          /\ revived' = revived \cup (IF ReapStopped(svc[s]) THEN {}
                                     ELSE OnRestart[s] \cup OnRestartExec[s])
       \/ ReapFatal(s) /\ UNCHANGED revived
    /\ lost' = lost \cup {s}
    /\ killed' = killed \ {s}
    /\ UNCHANGED <<phase, crit>>

AllTerminated == \A s \in list \ (crit \cup Console) : svc[s].proc = "none"

\* break: all are gone
StopWaiting ==
    /\ phase = "wait" /\ ~fatal
    /\ AllTerminated
    /\ phase' = "kill"
    /\ UNCHANGED <<vars, crit, lost, killed, revived>>

\* Mutant: there is no limit to the wait.
MutTerminationTimeout == StopWaiting

\* termination_wait_timeout is over
TerminationTimeout ==
    /\ phase = "wait" /\ ~fatal
    /\ phase' = "kill"
    /\ UNCHANGED <<vars, crit, lost, killed, revived>>

\* Mutant: a service that was sent SIGTERM is not killed.
MutKilled == {s \in Service \ crit : "DISABLED" \notin svc[s].flags}
Killed == Service \ crit

KillServices ==
    /\ phase = "kill"
    /\ ForEach(Killed, "Stop")
    /\ killed' = {s \in Killed : svc[s].proc # "none"}
    /\ phase' = "reap"
    /\ UNCHANGED <<crit, lost, revived>>

NoZombie == \A s \in list : svc[s].proc # "zombie"

ReapDone ==
    /\ phase = "reap" /\ ~fatal
    /\ NoZombie
    /\ phase' = "vold"
    /\ UNCHANGED <<vars, crit, lost, killed, revived>>

VoldRuns == \E s \in Vold : "RUNNING" \in svc[s].flags

SkipVold ==
    /\ phase = "vold" /\ ~VoldRuns
    /\ phase' = "apps"
    /\ UNCHANGED <<vars, crit, lost, killed, revived>>

\* vdc is started to tell vold to shut down; logwrap waits for its end without a limit
ShutdownVold ==
    /\ phase = "vold" /\ VoldRuns
    /\ phase' = "vdc"
    /\ UNCHANGED <<vars, crit, lost, killed, revived>>

\* vdc ends, if it does, and vold is stopped
StopVold ==
    /\ phase = "vdc"
    /\ ForEach(Vold, "Stop")
    /\ phase' = "apps"
    /\ UNCHANGED <<crit, lost, killed, revived>>

StopKillAfterApps ==
    /\ phase = "apps"
    /\ ForEach(KillAfterApps, "Stop")
    /\ phase' = "umount"
    /\ UNCHANGED <<crit, lost, killed, revived>>

\* sync, TryUmountAndFsck without a process to wait for, RebootSystem
UmountAndReboot ==
    /\ phase = "umount"
    /\ phase' = "off"
    /\ UNCHANGED <<vars, crit, lost, killed, revived>>

\* A shutdown the user asked for checks the file systems, and a debugging build runs
\* lsof when one cannot be unmounted: logwrap waits for them as it does for vdc
DoFsck ==
    /\ phase = "umount"
    /\ phase' = "fsck"
    /\ UNCHANGED <<vars, crit, lost, killed, revived>>

FsckEnds ==
    /\ phase = "fsck"
    /\ phase' = "off"
    /\ UNCHANGED <<vars, crit, lost, killed, revived>>

\* What init does by itself
DoReboot ==
    \/ StartShutdownCritical \/ TerminateServices \/ SkipTerminate
    \/ (\E s \in Service : ReapInReboot(s)) \/ StopWaiting \/ TerminationTimeout
    \/ KillServices \/ ReapDone \/ SkipVold \/ ShutdownVold \/ StopKillAfterApps
    \/ UmountAndReboot \/ DoFsck

\* The processes that DoReboot waits for end by themselves
ChildEnds == StopVold \/ FsckEnds

ShutdownNext ==
    \/ Running \/ HandlePowerctlMessage \/ Trigger
    \/ DoReboot \/ ChildEnds
    \/ \E s \in Service : ExitInReboot(s)

ShutdownSpec == ShutdownInit /\ [][ShutdownNext]_allVars

\* DoReboot runs in init's only thread and waits for nothing but its own timeouts and
\* the processes of ChildEnds, which nothing makes end
ShutdownFairSpec == ShutdownSpec /\ WF_allVars(DoReboot)

-----------------------------------------------------------------------------
(* Properties                                                               *)

InReboot == phase \notin {"up", "trigger"}

Needed == (ToStart \cup (ShutdownCritical \ KillAfterApps)) \cap list

\* The processes that are neither kept for the shutdown nor resist SIGKILL are gone,
\* but for those that the reaping of others has restarted
OthersKilled ==
    phase \in {"vold", "vdc", "apps", "umount", "fsck", "off"} =>
        \A s \in list \ crit : svc[s].proc = "alive" => s \in killed \cup revived

\* The services the shutdown needs have a process, if they started and did not end
NeededRun ==
    InReboot /\ phase \notin {"apps", "umount", "fsck", "off"} =>
        \A s \in Needed \ lost : svc[s].proc # "none"

\* The services that onrestart commands may restart in DoReboot: those of a service
\* that it spares and that ends, or of one restarted so
Restartable ==
    UNION {OnRestart[s] \cup OnRestartExec[s] : s \in (crit \cap lost) \cup revived}

\* A comment of DoReboot says "kill all services except ones that are necessary for
\* the shutdown sequence".  It keeps to that but for onrestart commands: the services it
\* terminated or killed run none when they are reaped, but a service it spares and that
\* ends is reaped as if the system were to go on, and what its onrestart commands name
\* is started, even after it was killed.  So when the killing is done, the only other processes
\* alive are those that resist SIGKILL and those restarted in this way; nothing else
\* comes back while DoReboot waits, kills and unmounts.  And the services the shutdown
\* needs have a process until vold has shut down, unless they failed to start or ended
\* by themselves.
KilledForGood ==
    [][/\ OthersKilled' /\ NeededRun' /\ revived' \subseteq Restartable'
       /\ InReboot => \A s \in Service :
             svc[s].proc = "none" /\ svc'[s].proc = "alive" => s \in revived']_allVars

\* DoReboot comes to its end whatever services ignore SIGTERM, unless init aborts
\* because a critical service crashed too often, or hangs with vdc, fsck or lsof.
ShutdownEnds ==
    InReboot ~> \/ phase = "off" \/ fatal
                \/ [](phase = "vdc") \/ [](phase = "fsck")

=============================================================================
