-------------------------- MODULE InitServiceProofs --------------------------
(***************************************************************************)
(* Proofs about InitService and InitShutdown for any set of services and   *)
(* any options, and about CriticalService for any limit and window.        *)
(*                                                                         *)
(* Almost everything init does to services is a function of one Service    *)
(* object, so the argument is made once per member function of Service:    *)
(* each keeps ServiceOK of the object it is called on, with the goal its   *)
(* caller leaves behind.  The actions then only say which objects they     *)
(* touch.  DoReboot starts from a state that is in order in this sense.    *)
(***************************************************************************)
EXTENDS InitShutdown, CriticalService, TLAPS

-----------------------------------------------------------------------------
(* The member functions of Service                                          *)

\* A service as the parser leaves it is in order.
LEMMA ParsedOK ==
    ASSUME NEW s \in Service
    PROVE  ServiceOK(s, Parsed(s), "none", s \notin Temporary)
BY ServiceAssumption DEF ServiceOK, ServiceObject, Parsed, Flag, State

\* Start() keeps a service in order, however far it gets; the goal becomes "up" or
\* "failed".
LEMMA StartOK ==
    ASSUME NEW s \in Service, NEW r, NEW g, NEW o \in StartOutcome,
           ServiceOK(s, r, g, TRUE)
    PROVE  /\ ServiceOK(s, Start(s, r, o), Asked(r, o), TRUE)
           /\ {"RUNNING", "EXEC"} \subseteq r.flags =>
                 {"RUNNING", "EXEC"} \subseteq Start(s, r, o).flags
<1>1. CASE "RUNNING" \in r.flags
  BY <1>1, ZenonT(30) DEF ServiceOK, ServiceObject, Start, AlreadyRunning, StartClears, Flag, State,
              Asked, StartResult
<1>2. CASE "RUNNING" \notin r.flags /\ o = "ok"
  BY <1>2, ZenonT(30) DEF ServiceOK, ServiceObject, Start, Forked, StartClears, Flag, State,
              Asked, StartResult, NotifyStateChange
<1>3. CASE "RUNNING" \notin r.flags /\ o # "ok"
  BY <1>3, Zenon DEF ServiceOK, ServiceObject, Start, NotStarted, StartClears, Flag, State,
              Asked, StartResult
<1>4. QED
  BY <1>1, <1>2, <1>3, Zenon

\* StopOrReset() keeps a service in order for each of its callers.
LEMMA StopOrResetOK ==
    ASSUME NEW s \in Service, NEW r, NEW g, NEW gone \in BOOLEAN,
           NEW how \in {"DISABLED", "RESET", "RESTART"},
           how = "RESTART" => "RUNNING" \in r.flags,
           ServiceOK(s, r, g, TRUE)
    PROVE  /\ ServiceOK(s, StopOrReset(s, r, how, gone),
                        IF how = "RESTART" THEN "up" ELSE "down", TRUE)
           /\ {"RUNNING", "EXEC"} \subseteq r.flags =>
                 {"RUNNING", "EXEC"} \subseteq StopOrReset(s, r, how, gone).flags
<1> DEFINE f == StopFlags(r.flags, how)
           r1 == [r EXCEPT !.flags = StopFlags(@, how)]
           k == KillProcessGroup(r1, gone)
           n == StopOrReset(s, r, how, gone)
<1>1. /\ f \in SUBSET Flag
      /\ "RUNNING" \in f <=> "RUNNING" \in r.flags
      /\ "EXEC" \in f <=> "EXEC" \in r.flags
      /\ "RESTARTING" \notin f
      /\ how = "RESTART" => f \cap {"DISABLED", "RESET"} = {}
      /\ how # "RESTART" => f \cap {"DISABLED", "RESET"} # {} /\ "RESTART" \notin f
  BY DEF ServiceOK, ServiceObject, StopFlags, Flag
<1>2. r1 \in ServiceObject /\ r1.flags = f /\ r1.proc = r.proc /\ r1.empty = r.empty
      /\ r1.state = r.state
  BY <1>1 DEF ServiceOK, ServiceObject
<1> HIDE DEF f, r1
<1>3. CASE r.proc # "none"
  <2>1. /\ k \in ServiceObject
        /\ k.flags = f
        /\ k.proc # "none"
        /\ k.empty => k.proc # "alive"
    BY <1>2, <1>3, Zenon DEF ServiceOK, ServiceObject, KillProcessGroup
  <2>2. StopOrReset(s, r, how, gone) = NotifyStateChange(s, k, "stopping")
    BY <1>3 DEF StopOrReset, r1
  <2> HIDE DEF k
  <2>3. /\ n \in ServiceObject
        /\ n.flags = f
        /\ n.proc # "none"
        /\ n.empty => n.proc # "alive"
        /\ s \notin Temporary => n.state = "stopping"
    BY <2>1, <2>2, Zenon DEF ServiceObject, NotifyStateChange, State
  <2> HIDE DEF n
  <2>4. "RUNNING" \in f
    BY <1>1, <1>3 DEF ServiceOK
  <2>5. ServiceOK(s, n, IF how = "RESTART" THEN "up" ELSE "down", TRUE)
    BY <1>1, <2>3, <2>4 DEF ServiceOK
  <2>6. QED
    BY <1>1, <2>3, <2>5, Zenon DEF n
<1>4. CASE r.proc = "none"
  <2>1. StopOrReset(s, r, how, gone) = NotifyStateChange(s, r1, "stopped")
    BY <1>4 DEF StopOrReset, r1
  <2>2. "RUNNING" \notin f /\ how # "RESTART" /\ s \notin Temporary
    BY <1>1, <1>4 DEF ServiceOK
  <2>n. n = [r1 EXCEPT !.state = "stopped"]
    BY <2>1, <2>2 DEF NotifyStateChange
  <2> HIDE DEF n
  <2>3. /\ n \in ServiceObject
        /\ n.flags = f
        /\ n.proc = "none"
        /\ n.state = "stopped"
    BY <1>2, <1>4, <2>n, Zenon DEF ServiceObject, State
  <2>4. ServiceOK(s, n, "down", TRUE)
    BY <1>1, <2>2, <2>3 DEF ServiceOK
  <2>5. QED
    BY <1>1, <2>2, <2>3, <2>4, Zenon DEF n
<1>5. QED
  BY <1>3, <1>4, Zenon

\* Restart() keeps a service in order: it stops a running one, starts one that is not
\* running and leaves alone one that waits for its restart.
LEMMA RestartOK ==
    ASSUME NEW s \in Service, NEW r, NEW g, NEW o \in StartOutcome, NEW gone \in BOOLEAN,
           ServiceOK(s, r, g, TRUE)
    PROVE  /\ ServiceOK(s, Restart(s, r, o, gone), RestartAsked(r, o), TRUE)
           /\ {"RUNNING", "EXEC"} \subseteq r.flags =>
                 {"RUNNING", "EXEC"} \subseteq Restart(s, r, o, gone).flags
<1>1. CASE "RUNNING" \in r.flags
  <2>1. /\ Restart(s, r, o, gone) = StopOrReset(s, r, "RESTART", gone)
        /\ RestartAsked(r, o) = "up"
    BY <1>1 DEF Restart, RestartAsked, Asked, StartResult
  <2>2. QED
    BY <1>1, <2>1, StopOrResetOK, Zenon
<1>2. CASE "RUNNING" \notin r.flags /\ "RESTARTING" \notin r.flags
  <2>1. /\ Restart(s, r, o, gone) = Start(s, r, o)
        /\ RestartAsked(r, o) = Asked(r, o)
    BY <1>2 DEF Restart, RestartAsked
  <2>2. QED
    BY <2>1, StartOK, Zenon
<1>3. CASE "RUNNING" \notin r.flags /\ "RESTARTING" \in r.flags
  <2>1. /\ Restart(s, r, o, gone) = r
        /\ RestartAsked(r, o) = "up"
    BY <1>3 DEF Restart, RestartAsked
  <2>2. QED
    BY <1>3, <2>1 DEF ServiceOK
<1>4. QED
  BY <1>1, <1>2, <1>3, Zenon

\* Enable() keeps a service in order, whether or not a start was held back.
LEMMA EnableOK ==
    ASSUME NEW s \in Service, NEW r, NEW g, NEW o \in StartOutcome,
           ServiceOK(s, r, g, TRUE)
    PROVE  /\ ServiceOK(s, Enable(s, r, o),
                        IF "DISABLED_START" \in r.flags THEN Asked(r, o)
                        ELSE IF g = "down" THEN "none" ELSE g, TRUE)
           /\ {"RUNNING", "EXEC"} \subseteq r.flags =>
                 {"RUNNING", "EXEC"} \subseteq Enable(s, r, o).flags
<1> DEFINE r1 == [r EXCEPT !.flags = @ \ {"DISABLED", "RC_DISABLED"}]
<1>1. /\ ServiceOK(s, r1, IF g = "down" THEN "none" ELSE g, TRUE)
      /\ r1.flags = r.flags \ {"DISABLED", "RC_DISABLED"}
      /\ Asked(r1, o) = Asked(r, o)
  BY DEF ServiceOK, ServiceObject, Asked, StartResult
<1>2. Enable(s, r, o) = IF "DISABLED_START" \in r.flags THEN Start(s, r1, o) ELSE r1
  BY DEF Enable
<1>3. CASE "DISABLED_START" \in r.flags
  <2>1. /\ ServiceOK(s, Start(s, r1, o), Asked(r1, o), TRUE)
        /\ {"RUNNING", "EXEC"} \subseteq r1.flags =>
              {"RUNNING", "EXEC"} \subseteq Start(s, r1, o).flags
    <3> HIDE DEF r1
    <3>1. QED
      BY <1>1, StartOK, Zenon
  <2> HIDE DEF r1
  <2>2. {"RUNNING", "EXEC"} \subseteq r.flags => {"RUNNING", "EXEC"} \subseteq r1.flags
    BY <1>1
  <2>3. QED
    BY <1>1, <1>2, <1>3, <2>1, <2>2, Zenon
<1>4. CASE "DISABLED_START" \notin r.flags
  <2> HIDE DEF r1
  <2>1. {"RUNNING", "EXEC"} \subseteq r.flags => {"RUNNING", "EXEC"} \subseteq r1.flags
    BY <1>1
  <2>2. QED
    BY <1>1, <1>2, <1>4, <2>1, Zenon
<1>5. QED
  BY <1>3, <1>4, Zenon

\* ExecStart() keeps a service in order: the flags it adds make it oneshot.
LEMMA ExecStartOK ==
    ASSUME NEW s \in Service, NEW r, NEW g, NEW o \in StartOutcome,
           ServiceOK(s, r, g, TRUE)
    PROVE  /\ ServiceOK(s, ExecStart(s, r, o), Asked(r, o), TRUE)
           /\ {"RUNNING", "EXEC"} \subseteq r.flags \/ StartResult(r, o) =>
                 {"RUNNING", "EXEC"} \subseteq ExecStart(s, r, o).flags
<1> DEFINE r0 == [r EXCEPT !.flags = @ \cup {"ONESHOT"}]
           r1 == Start(s, r0, o)
<1>1. /\ ServiceOK(s, r0, g, TRUE)
      /\ r0.flags = r.flags \cup {"ONESHOT"}
      /\ Asked(r0, o) = Asked(r, o)
      /\ StartResult(r0, o) = StartResult(r, o)
  BY DEF ServiceOK, ServiceObject, Asked, StartResult, Flag
<1>2. ServiceOK(s, r1, Asked(r, o), TRUE)
  BY <1>1, StartOK, Zenon
<1>3. StartResult(r, o) => "RUNNING" \in r1.flags
  BY <1>1 DEF StartResult, Start, AlreadyRunning, Forked, NotifyStateChange, StartClears,
              ServiceOK, ServiceObject
<1>4. ExecStart(s, r, o) = IF StartResult(r, o) THEN [r1 EXCEPT !.flags = @ \cup {"EXEC"}]
                           ELSE r1
  BY DEF ExecStart
<1>5. {"RUNNING", "EXEC"} \subseteq r.flags => StartResult(r, o)
  BY DEF StartResult
<1> HIDE DEF r0, r1
<1>6. CASE StartResult(r, o)
  <2>1. /\ ExecStart(s, r, o) \in ServiceObject
        /\ ExecStart(s, r, o).flags = r1.flags \cup {"EXEC"}
        /\ ExecStart(s, r, o).proc = r1.proc
        /\ ExecStart(s, r, o).empty = r1.empty
        /\ ExecStart(s, r, o).state = r1.state
    BY <1>2, <1>4, <1>6 DEF ServiceOK, ServiceObject, Flag
  <2>2. QED
    BY <1>2, <1>3, <1>6, <2>1 DEF ServiceOK
<1>7. CASE ~StartResult(r, o)
  BY <1>2, <1>4, <1>5, <1>7, Zenon
<1>8. QED
  BY <1>6, <1>7, Zenon

\* Reap() of a service that is not restarted leaves it in order.
LEMMA ReapStoppedOK ==
    ASSUME NEW s \in Service \ Temporary, NEW r, NEW g, NEW gone \in BOOLEAN,
           ServiceOK(s, r, g, TRUE), r.proc = "zombie", ReapStopped(r)
    PROVE  LET k == ReapKill(r, gone)
           IN  ServiceOK(s, NotifyStateChange(s,
                  [k EXCEPT !.flags = ReapFlags(k), !.proc = "none"], "stopped"), g, TRUE)
<1> DEFINE k == ReapKill(r, gone)
           n == NotifyStateChange(s, [k EXCEPT !.flags = ReapFlags(k), !.proc = "none"], "stopped")
<1>1. k \in ServiceObject /\ k.flags = r.flags \ {"EXEC"}
  BY Zenon DEF ServiceOK, ServiceObject, ReapKill, UnSetExec, KillProcessGroup
<1> HIDE DEF k
<1>2. /\ n \in ServiceObject
      /\ n.flags = ReapFlags(k)
      /\ n.proc = "none"
      /\ n.state = "stopped"
  BY <1>1, Zenon DEF ServiceObject, NotifyStateChange, State, ReapFlags, Flag
<1>3. /\ "RUNNING" \notin ReapFlags(k)
      /\ ReapFlags(k) \cap {"DISABLED", "RESET"} # {}
      /\ "RESTARTING" \in ReapFlags(k) <=> "RESTARTING" \in r.flags
      /\ "RESTART" \in ReapFlags(k) <=> "RESTART" \in r.flags
      /\ "ONESHOT" \in ReapFlags(k) <=> "ONESHOT" \in r.flags
  BY <1>1 DEF ReapFlags, ReapStopped
<1>4. "RESTARTING" \notin r.flags /\ "RUNNING" \in r.flags
  BY DEF ServiceOK
<1>5. g = "up" => "ONESHOT" \in r.flags
  BY <1>4 DEF ServiceOK, ReapStopped, ReapFlags
<1> HIDE DEF n
<1>6. ServiceOK(s, n, g, TRUE)
  BY <1>2, <1>3, <1>4, <1>5 DEF ServiceOK
<1>7. QED
  BY <1>6, Zenon DEF n, k

\* Reap() of a service that is restarted leaves it on the timer and in order.
LEMMA ReapRestartOK ==
    ASSUME NEW s \in Service \ Temporary, NEW r, NEW g, NEW gone \in BOOLEAN,
           ServiceOK(s, r, g, TRUE), r.proc = "zombie", ~ReapStopped(r)
    PROVE  LET k == ReapKill(r, gone)
           IN  ServiceOK(s, NotifyStateChange(s,
                  [k EXCEPT !.flags = (ReapFlags(k) \ {"RESTART"}) \cup {"RESTARTING"},
                            !.proc = "none"], "restarting"), g, TRUE)
<1> DEFINE k == ReapKill(r, gone)
           n == NotifyStateChange(s,
                  [k EXCEPT !.flags = (ReapFlags(k) \ {"RESTART"}) \cup {"RESTARTING"},
                            !.proc = "none"], "restarting")
<1>1. k \in ServiceObject /\ k.flags = r.flags \ {"EXEC"}
  BY ZenonT(30) DEF ServiceOK, ServiceObject, ReapKill, UnSetExec, KillProcessGroup
<1> HIDE DEF k
<1>2. /\ n \in ServiceObject
      /\ n.flags = (ReapFlags(k) \ {"RESTART"}) \cup {"RESTARTING"}
      /\ n.proc = "none"
      /\ n.state = "restarting"
  BY <1>1, Zenon DEF ServiceObject, NotifyStateChange, State, ReapFlags, Flag
<1>3. "RUNNING" \notin n.flags /\ "RESTARTING" \in n.flags
  BY <1>2 DEF ReapFlags
<1>4. g # "down"
  BY DEF ServiceOK, ReapStopped, ReapFlags
<1> HIDE DEF n
<1>5. ServiceOK(s, n, g, TRUE)
  BY <1>2, <1>3, <1>4 DEF ServiceOK
<1>6. QED
  BY <1>5, Zenon DEF n, k

-----------------------------------------------------------------------------
(* Putting the services together                                            *)

\* The type invariant follows from the services being in order.
LEMMA TypeFromOK ==
    ASSUME list \subseteq Service, exec \in BOOLEAN, waiting \in BOOLEAN, fatal \in BOOLEAN,
           svc = [x \in Service |-> svc[x]], goal = [x \in Service |-> goal[x]],
           \A x \in Service : ServiceOK(x, svc[x], goal[x], x \in list)
    PROVE  TypeOK
BY DEF TypeOK, ServiceOK

\* A step that leaves the list alone and takes no awaited exec service away
LEMMA SameList ==
    ASSUME IInv, list' = list, exec' = exec, waiting' = waiting, fatal' = fatal,
           svc' = [x \in Service |-> svc'[x]], goal' = [x \in Service |-> goal'[x]],
           \A x \in Service :
              /\ ServiceOK(x, svc'[x], goal'[x], x \in list)
              /\ {"RUNNING", "EXEC"} \subseteq svc[x].flags
                    => {"RUNNING", "EXEC"} \subseteq svc'[x].flags
    PROVE  IInv'
<1>1. TypeOK'
  BY DEF TypeOK, ServiceOK, IInv
<1>2. ExecIsAwaited'
  BY DEF IInv, ExecIsAwaited, TypeOK
<1>3. QED
  BY <1>1, <1>2 DEF IInv

\* A step that changes one service of the list to n and its goal to g
LEMMA OneService ==
    ASSUME IInv, NEW s \in Service, NEW n, NEW g, s \in list,
           list' = list, exec' = exec, waiting' = waiting, fatal' = fatal,
           svc' = [svc EXCEPT ![s] = n], goal' = [goal EXCEPT ![s] = g],
           ServiceOK(s, n, g, TRUE),
           {"RUNNING", "EXEC"} \subseteq svc[s].flags => {"RUNNING", "EXEC"} \subseteq n.flags
    PROVE  IInv'
<1>1. /\ svc' = [x \in Service |-> svc'[x]]
      /\ goal' = [x \in Service |-> goal'[x]]
  BY Zenon DEF IInv, TypeOK
<1>2. ASSUME NEW x \in Service
      PROVE  /\ ServiceOK(x, svc'[x], goal'[x], x \in list)
             /\ {"RUNNING", "EXEC"} \subseteq svc[x].flags
                   => {"RUNNING", "EXEC"} \subseteq svc'[x].flags
  <2>1. CASE x = s
    <3>1. svc'[x] = n /\ goal'[x] = g /\ (x \in list) = TRUE
      BY <2>1 DEF IInv, TypeOK
    <3>2. QED
      BY <2>1, <3>1, Zenon
  <2>2. CASE x # s
    <3>1. svc'[x] = svc[x] /\ goal'[x] = goal[x]
      BY <2>2 DEF IInv, TypeOK
    <3>2. QED
      BY <3>1 DEF IInv
  <2>3. QED
    BY <2>1, <2>2
<1>3. QED
  BY <1>1, <1>2, SameList

\* Control messages and enable touch one service.
LEMMA ControlStep ==
    ASSUME IInv, NEW s \in Service, UNCHANGED <<waiting, fatal>>,
           DoControlStart(s) \/ DoControlStop(s) \/ DoControlRestart(s) \/ do_enable(s)
    PROVE  IInv'
<1>1. s \in list /\ list' = list /\ exec' = exec
  BY DEF DoControlStart, DoControlStop, DoControlRestart, do_enable
<1>2. ServiceOK(s, svc[s], goal[s], TRUE)
  BY <1>1, Zenon DEF IInv
<1>3. SUFFICES \E n, g :
                  /\ svc' = [svc EXCEPT ![s] = n]
                  /\ goal' = [goal EXCEPT ![s] = g]
                  /\ ServiceOK(s, n, g, TRUE)
                  /\ {"RUNNING", "EXEC"} \subseteq svc[s].flags
                        => {"RUNNING", "EXEC"} \subseteq n.flags
  <2>1. PICK n, g : /\ svc' = [svc EXCEPT ![s] = n]
                    /\ goal' = [goal EXCEPT ![s] = g]
                    /\ ServiceOK(s, n, g, TRUE)
                    /\ {"RUNNING", "EXEC"} \subseteq svc[s].flags
                          => {"RUNNING", "EXEC"} \subseteq n.flags
    BY <1>3, Zenon
  <2>2. QED
    BY <1>1, <2>1, OneService, Zenon
<1>4. CASE DoControlStart(s)
  <2>1. PICK o \in StartOutcome :
             /\ svc' = [svc EXCEPT ![s] = Start(s, svc[s], o)]
             /\ goal' = [goal EXCEPT ![s] = Asked(svc[s], o)]
    BY <1>4, Zenon DEF DoControlStart
  <2>2. QED
    BY <1>2, <2>1, StartOK, Zenon
<1>5. CASE DoControlStop(s)
  <2>1. PICK gone \in BOOLEAN :
             /\ svc' = [svc EXCEPT ![s] = StopOrReset(s, svc[s], "DISABLED", gone)]
             /\ goal' = [goal EXCEPT ![s] = "down"]
    BY <1>5, Zenon DEF DoControlStop, Stop
  <2>2. /\ ServiceOK(s, StopOrReset(s, svc[s], "DISABLED", gone), "down", TRUE)
        /\ {"RUNNING", "EXEC"} \subseteq svc[s].flags
              => {"RUNNING", "EXEC"} \subseteq StopOrReset(s, svc[s], "DISABLED", gone).flags
    BY <1>2, StopOrResetOK, Zenon
  <2>3. QED
    BY <2>1, <2>2, Zenon
<1>6. CASE DoControlRestart(s)
  <2>1. PICK o \in StartOutcome, gone \in BOOLEAN :
             /\ svc' = [svc EXCEPT ![s] = Restart(s, svc[s], o, gone)]
             /\ goal' = [goal EXCEPT ![s] = RestartAsked(svc[s], o)]
    BY <1>6, Zenon DEF DoControlRestart
  <2>2. QED
    BY <1>2, <2>1, RestartOK, Zenon
<1>7. CASE do_enable(s)
  <2>1. PICK o \in StartOutcome :
             /\ svc' = [svc EXCEPT ![s] = Enable(s, svc[s], o)]
             /\ goal' = [goal EXCEPT ![s] =
                            IF "DISABLED_START" \in svc[s].flags THEN Asked(svc[s], o)
                            ELSE IF goal[s] = "down" THEN "none" ELSE goal[s]]
    BY <1>7, Zenon DEF do_enable, IInv, TypeOK
  <2> DEFINE g == IF "DISABLED_START" \in svc[s].flags THEN Asked(svc[s], o)
                  ELSE IF goal[s] = "down" THEN "none" ELSE goal[s]
  <2>2. /\ ServiceOK(s, Enable(s, svc[s], o), g, TRUE)
        /\ {"RUNNING", "EXEC"} \subseteq svc[s].flags
              => {"RUNNING", "EXEC"} \subseteq Enable(s, svc[s], o).flags
    BY <1>2, EnableOK, Zenon
  <2>3. QED
    BY <2>1, <2>2, Zenon
<1>8. QED
  BY <1>4, <1>5, <1>6, <1>7, Zenon

\* The exit of a process makes it a zombie and nothing else.
LEMMA ExitStep ==
    ASSUME IInv, NEW s \in Service, UNCHANGED <<waiting, fatal>>, Exit(s)
    PROVE  IInv'
<1> SUFFICES ASSUME NEW n, NEW g, n = [svc[s] EXCEPT !.proc = "zombie"], g = goal[s]
             PROVE  IInv'
  BY Zenon
<1>1. s \in list /\ ServiceOK(s, svc[s], goal[s], TRUE)
  BY DEF IInv, ServiceOK, Exit
<1>2. /\ ServiceOK(s, n, g, TRUE)
      /\ n.flags = svc[s].flags
  BY <1>1 DEF ServiceOK, ServiceObject, Exit
<1>3. svc' = [svc EXCEPT ![s] = n] /\ goal' = [goal EXCEPT ![s] = g]
  BY DEF Exit, IInv, TypeOK
<1>4. list' = list /\ exec' = exec /\ waiting' = waiting /\ fatal' = fatal
  BY DEF Exit
<1>5. QED
  BY <1>1, <1>2, <1>3, <1>4, OneService, Zenon

\* The class commands apply one member function to each service of the class.
LEMMA ClassStep ==
    ASSUME IInv, UNCHANGED <<waiting, fatal>>,
           do_class_start \/ do_class_stop \/ do_class_reset \/ do_class_restart
    PROVE  IInv'
<1>1. list' = list /\ exec' = exec /\ waiting' = waiting /\ fatal' = fatal
  BY DEF do_class_start, do_class_stop, do_class_reset, do_class_restart
<1>2. /\ svc' = [x \in Service |-> svc'[x]]
      /\ goal' = [x \in Service |-> goal'[x]]
  BY DEF do_class_start, do_class_stop, do_class_reset, do_class_restart
<1>3. ASSUME NEW x \in Service
      PROVE  /\ ServiceOK(x, svc'[x], goal'[x], x \in list)
             /\ {"RUNNING", "EXEC"} \subseteq svc[x].flags
                   => {"RUNNING", "EXEC"} \subseteq svc'[x].flags
  <2>1. CASE x \notin Class \cap list
    <3>1. svc'[x] = svc[x] /\ goal'[x] = goal[x]
      BY <2>1 DEF do_class_start, do_class_stop, do_class_reset, do_class_restart
    <3>2. QED
      BY <3>1, ZenonT(30) DEF IInv
  <2>2. CASE x \in Class \cap list
    <3>1. (x \in list) = TRUE /\ ServiceOK(x, svc[x], goal[x], TRUE)
      BY <2>2, Zenon DEF IInv
    <3>2. CASE do_class_start /\ "DISABLED" \in svc[x].flags
      <4>1. /\ svc'[x] = [svc[x] EXCEPT !.flags = @ \cup {"DISABLED_START"}]
            /\ goal'[x] = goal[x]
        BY <2>2, <3>2 DEF do_class_start, StartIfNotDisabled
      <4>2. ServiceOK(x, svc'[x], goal'[x], TRUE)
        BY <3>1, <4>1 DEF ServiceOK, ServiceObject, Flag
      <4>3. svc'[x].flags = svc[x].flags \cup {"DISABLED_START"}
        BY <3>1, <4>1 DEF ServiceOK, ServiceObject
      <4>4. QED
        BY <3>1, <4>2, <4>3, Zenon
    <3>3. CASE do_class_start /\ "DISABLED" \notin svc[x].flags
      <4>1. PICK o \in StartOutcome : /\ svc'[x] = Start(x, svc[x], o)
                                      /\ goal'[x] = Asked(svc[x], o)
        BY <2>2, <3>3 DEF do_class_start, StartIfNotDisabled
      <4>2. QED
        BY <3>1, <4>1, StartOK, Zenon
    <3>4. CASE do_class_stop
      <4>1. PICK gone \in BOOLEAN : /\ svc'[x] = StopOrReset(x, svc[x], "DISABLED", gone)
                                    /\ goal'[x] = "down"
        BY <2>2, <3>4 DEF do_class_stop, Stop
      <4>2. QED
        BY <3>1, <4>1, StopOrResetOK, Zenon
    <3>5. CASE do_class_reset
      <4>1. PICK gone \in BOOLEAN : /\ svc'[x] = StopOrReset(x, svc[x], "RESET", gone)
                                    /\ goal'[x] = "down"
        BY <2>2, <3>5 DEF do_class_reset, Reset
      <4>2. QED
        BY <3>1, <4>1, StopOrResetOK, Zenon
    <3>6. CASE do_class_restart
      <4>1. PICK o \in StartOutcome, gone \in BOOLEAN :
                /\ svc'[x] = Restart(x, svc[x], o, gone)
                /\ goal'[x] = RestartAsked(svc[x], o)
        BY <2>2, <3>6 DEF do_class_restart
      <4>2. QED
        BY <3>1, <4>1, RestartOK, ZenonT(30)
    <3>7. QED
      BY <3>2, <3>3, <3>4, <3>5, <3>6
  <2>3. QED
    BY <2>1, <2>2
<1>4. QED
  BY <1>1, <1>2, <1>3, SameList, ZenonT(30)

\* The restart timer starts the services that are due.
LEMMA RestartProcessesStep ==
    ASSUME IInv, UNCHANGED <<waiting, fatal>>, NEW due \in SUBSET Service, RestartProcesses(due)
    PROVE  IInv'
<1>1. list' = list /\ exec' = exec /\ waiting' = waiting /\ fatal' = fatal
  BY DEF RestartProcesses
<1>2. /\ svc' = [x \in Service |-> svc'[x]]
      /\ goal' = [x \in Service |-> goal'[x]]
  BY DEF RestartProcesses
<1>3. ASSUME NEW x \in Service
      PROVE  /\ ServiceOK(x, svc'[x], goal'[x], x \in list)
             /\ {"RUNNING", "EXEC"} \subseteq svc[x].flags
                   => {"RUNNING", "EXEC"} \subseteq svc'[x].flags
  <2>1. CASE x \notin due
    <3>1. svc'[x] = svc[x] /\ goal'[x] = goal[x]
      BY <2>1, ZenonT(30) DEF RestartProcesses
    <3>2. QED
      BY <3>1 DEF IInv
  <2>2. CASE x \in due
    <3>1. PICK o \in StartOutcome :
             /\ svc'[x] = Start(x, svc[x], o)
             /\ goal'[x] = IF StartResult(svc[x], o) THEN goal[x] ELSE "failed"
      BY <2>2 DEF RestartProcesses
    <3>2. x \in list /\ "RESTARTING" \in svc[x].flags
      BY <2>2 DEF RestartProcesses
    <3>3. (x \in list) = TRUE /\ ServiceOK(x, svc[x], goal[x], TRUE)
      BY <3>2, Zenon DEF IInv
    <3>4. /\ ServiceOK(x, svc'[x], Asked(svc[x], o), TRUE)
          /\ {"RUNNING", "EXEC"} \subseteq svc[x].flags
                   => {"RUNNING", "EXEC"} \subseteq svc'[x].flags
      <4>1. /\ ServiceOK(x, Start(x, svc[x], o), Asked(svc[x], o), TRUE)
            /\ {"RUNNING", "EXEC"} \subseteq svc[x].flags
                   => {"RUNNING", "EXEC"} \subseteq Start(x, svc[x], o).flags
        BY <3>3, StartOK, Zenon
      <4>2. QED
        BY <3>1, <4>1, Zenon
    <3>5. CASE StartResult(svc[x], o)
      <4>1. /\ goal'[x] = goal[x]
            /\ goal[x] # "down"
            /\ goal[x] \in {"none", "up", "down", "failed"}
            /\ "RUNNING" \notin svc[x].flags
        BY <3>1, <3>2, <3>3, <3>5, ServiceAssumption DEF ServiceOK
      <4>2. ServiceOK(x, svc'[x], "up", TRUE)
        BY <3>4, <3>5, Zenon DEF Asked
      <4>3. "RUNNING" \in svc'[x].flags
        BY <3>1, <3>3, <3>5, <4>1 DEF Start, StartResult, Forked, NotifyStateChange,
                                      StartClears, ServiceOK, ServiceObject
      <4>4. ServiceOK(x, svc'[x], goal'[x], TRUE)
        BY <4>1, <4>2, <4>3 DEF ServiceOK
      <4>5. QED
        BY <3>3, <3>4, <4>4, ZenonT(30)
    <3>6. CASE ~StartResult(svc[x], o)
      BY <3>1, <3>3, <3>4, <3>6, Zenon DEF Asked
    <3>7. QED
      BY <3>5, <3>6
  <2>3. QED
    BY <2>1, <2>2
<1>4. QED
  BY <1>1, <1>2, <1>3, SameList

\* A step that adds services to the list and changes others
LEMMA NewList ==
    ASSUME IInv, list' \subseteq Service, exec' \in BOOLEAN, waiting' = waiting,
           fatal' = fatal, svc' = [x \in Service |-> svc'[x]], goal' = [x \in Service |-> goal'[x]],
           \A x \in Service : ServiceOK(x, svc'[x], goal'[x], x \in list'),
           exec' => \E x \in list' : {"EXEC", "RUNNING"} \subseteq svc'[x].flags
    PROVE  IInv'
BY DEF IInv, TypeOK, ServiceOK, ExecIsAwaited

\* A temporary service whose process has just been forked
LEMMA FreshOK ==
    ASSUME NEW t \in Temporary, NEW g \in {"none", "up", "down", "failed"}
    PROVE  /\ ServiceOK(t, Start(t, Parsed(t), "ok"), g, TRUE)
           /\ ServiceOK(t, ExecStart(t, Parsed(t), "ok"), g, TRUE)
           /\ {"RUNNING", "EXEC"} \subseteq ExecStart(t, Parsed(t), "ok").flags
<1> DEFINE r == Start(t, Parsed(t), "ok")
           e == ExecStart(t, Parsed(t), "ok")
           p == [Parsed(t) EXCEPT !.flags = @ \cup {"ONESHOT"}]
<1>1. /\ Parsed(t) \in ServiceObject
      /\ p \in ServiceObject
      /\ Parsed(t).flags \cap {"RUNNING", "RESTARTING"} = {}
      /\ p.flags \cap {"RUNNING", "RESTARTING"} = {}
  BY ServiceAssumption, Zenon DEF Parsed, ServiceObject, Flag, State
<1>2. \A q \in ServiceObject :
        q.flags \cap {"RUNNING", "RESTARTING"} = {} =>
           LET n == Start(t, q, "ok")
           IN  /\ n \in ServiceObject
               /\ n.proc = "alive"
               /\ n.empty = FALSE
               /\ "RUNNING" \in n.flags
               /\ "RESTARTING" \notin n.flags
  BY ZenonT(30) DEF Start, Forked, NotifyStateChange, StartClears, ServiceObject, Flag, State
<1>3. e = [Start(t, p, "ok") EXCEPT !.flags = @ \cup {"EXEC"}]
  BY DEF ExecStart, StartResult
<1>4. /\ e \in ServiceObject
      /\ e.proc = "alive"
      /\ e.empty = FALSE
      /\ {"RUNNING", "EXEC"} \subseteq e.flags
      /\ "RESTARTING" \notin e.flags
  <2> HIDE DEF p, e
  <2>1. QED
    BY <1>1, <1>2, <1>3 DEF ServiceObject, Flag
<1>5. ServiceOK(t, r, g, TRUE)
  BY <1>1, <1>2, ZenonT(30) DEF ServiceOK
<1> HIDE DEF e
<1>6. ServiceOK(t, e, g, TRUE)
  BY <1>4 DEF ServiceOK
<1>7. QED
  BY <1>4, <1>5, <1>6, Zenon DEF e

\* exec adds a temporary service to the list, or leaves no trace when it cannot start.
LEMMA ExecStep ==
    ASSUME IInv, UNCHANGED <<waiting, fatal>>, NEW t \in Temporary,
           do_exec(t) \/ do_exec_background(t)
    PROVE  IInv'
<1>1. /\ t \in Service
      /\ list' = list \cup {t}
      /\ list' \subseteq Service
      /\ exec' \in BOOLEAN
      /\ goal' = goal
      /\ goal[t] \in {"none", "up", "down", "failed"}
  BY ServiceAssumption, Zenon DEF do_exec, do_exec_background, IInv, TypeOK
<1>2. /\ svc' = [x \in Service |-> svc'[x]]
      /\ goal' = [x \in Service |-> goal'[x]]
      /\ \A x \in Service \ {t} : svc'[x] = svc[x] /\ goal'[x] = goal[x] /\ (x \in list) = (x \in list')
  BY <1>1 DEF do_exec, do_exec_background, IInv, TypeOK
<1>3. /\ do_exec(t) => svc'[t] = ExecStart(t, Parsed(t), "ok")
      /\ do_exec_background(t) => svc'[t] = Start(t, Parsed(t), "ok")
  BY <1>1 DEF do_exec, do_exec_background, IInv, TypeOK
<1>4. /\ ServiceOK(t, svc'[t], goal[t], TRUE)
      /\ do_exec(t) => {"RUNNING", "EXEC"} \subseteq svc'[t].flags
  <2>1. /\ ServiceOK(t, Start(t, Parsed(t), "ok"), goal[t], TRUE)
        /\ ServiceOK(t, ExecStart(t, Parsed(t), "ok"), goal[t], TRUE)
        /\ {"RUNNING", "EXEC"} \subseteq ExecStart(t, Parsed(t), "ok").flags
    BY <1>1, FreshOK, Zenon
  <2>2. QED
    BY <1>3, <2>1, Zenon
<1>5. ServiceOK(t, svc'[t], goal'[t], t \in list')
  <2>1. goal'[t] = goal[t] /\ (t \in list') = TRUE
    BY <1>1
  <2>2. QED
    BY <1>4, <2>1, Zenon
<1>6. \A x \in Service : ServiceOK(x, svc'[x], goal'[x], x \in list')
  BY <1>2, <1>5 DEF IInv
<1>7. exec' => \E x \in list' : {"EXEC", "RUNNING"} \subseteq svc'[x].flags
  <2>1. do_exec(t) => t \in list' /\ {"EXEC", "RUNNING"} \subseteq svc'[t].flags
    BY <1>1, <1>4, ZenonT(30)
  <2>2. do_exec_background(t) => ~exec'
    BY ZenonT(30) DEF do_exec_background, QueueMoves
  <2> QED
    BY <2>1, <2>2, Zenon
<1>8. QED
  BY <1>1, <1>2, <1>6, <1>7, NewList

\* exec_start sets the flag only for a service that has a process.
LEMMA ExecStartStep ==
    ASSUME IInv, UNCHANGED <<waiting, fatal>>, NEW s \in Service, do_exec_start(s)
    PROVE  IInv'
<1>1. PICK o \in StartOutcome :
           /\ svc' = [svc EXCEPT ![s] = ExecStart(s, svc[s], o)]
           /\ exec' = StartResult(svc[s], o)
           /\ goal' = [goal EXCEPT ![s] = Asked(svc[s], o)]
  BY Zenon DEF do_exec_start
<1>2. s \in list /\ list' = list /\ list' \subseteq Service /\ exec' \in BOOLEAN
  BY <1>1 DEF do_exec_start, StartResult, IInv, TypeOK
<1>3. ServiceOK(s, svc[s], goal[s], TRUE)
  BY <1>2, Zenon DEF IInv
<1>4. /\ svc'[s] = ExecStart(s, svc[s], o)
      /\ goal'[s] = Asked(svc[s], o)
      /\ svc' = [x \in Service |-> svc'[x]]
      /\ goal' = [x \in Service |-> goal'[x]]
      /\ \A x \in Service \ {s} : svc'[x] = svc[x] /\ goal'[x] = goal[x]
  BY <1>1, Zenon DEF IInv, TypeOK
<1>5. /\ ServiceOK(s, svc'[s], goal'[s], TRUE)
      /\ StartResult(svc[s], o) => {"RUNNING", "EXEC"} \subseteq svc'[s].flags
  <2>1. /\ ServiceOK(s, ExecStart(s, svc[s], o), Asked(svc[s], o), TRUE)
        /\ StartResult(svc[s], o) => {"RUNNING", "EXEC"} \subseteq ExecStart(s, svc[s], o).flags
    BY <1>3, ExecStartOK, Zenon
  <2>2. QED
    BY <1>4, <2>1, Zenon
<1>6. \A x \in Service : ServiceOK(x, svc'[x], goal'[x], x \in list')
  BY <1>2, <1>4, <1>5, ZenonT(30) DEF IInv
<1>7. exec' => \E x \in list' : {"EXEC", "RUNNING"} \subseteq svc'[x].flags
  BY <1>1, <1>2, <1>5
<1>8. QED
  BY <1>2, <1>4, <1>6, <1>7, NewList

\* The exec service init waits for is not the one a reap takes out of the list
\* or marks as gone, or init no longer waits.
LEMMA ReapTemporaryStep ==
    ASSUME IInv, UNCHANGED <<waiting, fatal>>, NEW s \in Service, ReapTemporary(s)
    PROVE  IInv'
<1>1. /\ s \in list \cap Temporary
      /\ list' = list \ {s}
      /\ list' \subseteq Service
      /\ exec' = (exec /\ "EXEC" \notin svc[s].flags)
      /\ exec' \in BOOLEAN
  BY DEF ReapTemporary, IInv, TypeOK
<1>2. /\ svc' = [x \in Service |-> svc'[x]]
      /\ goal' = [x \in Service |-> goal'[x]]
      /\ svc'[s] = Parsed(s)
      /\ goal'[s] = "none"
      /\ \A x \in Service \ {s} : svc'[x] = svc[x] /\ goal'[x] = goal[x] /\ (x \in list) = (x \in list')
  <2>1. /\ svc' = [svc EXCEPT ![s] = Parsed(s)]
        /\ goal' = [goal EXCEPT ![s] = "none"]
    BY DEF ReapTemporary
  <2>2. svc = [x \in Service |-> svc[x]] /\ goal = [x \in Service |-> goal[x]]
    BY DEF IInv, TypeOK
  <2>3. svc' = [x \in Service |-> svc'[x]] /\ goal' = [x \in Service |-> goal'[x]]
    BY <2>1, <2>2, Zenon
  <2>4. svc'[s] = Parsed(s) /\ goal'[s] = "none"
    BY <2>1, <2>2
  <2>5. QED
    BY <1>1, <2>1, <2>2, <2>3, <2>4
<1>3. ServiceOK(s, svc'[s], goal'[s], s \in list')
  BY <1>1, <1>2, ParsedOK
<1>4. \A x \in Service : ServiceOK(x, svc'[x], goal'[x], x \in list')
  BY <1>2, <1>3 DEF IInv
<1>5. exec' => \E x \in list' : {"EXEC", "RUNNING"} \subseteq svc'[x].flags
  BY <1>1, <1>2, ZenonT(30) DEF IInv, ExecIsAwaited
<1>6. QED
  BY <1>1, <1>2, <1>4, <1>5, NewList

\* Reaping a service that stays down ends the wait for it, if there was one.
LEMMA ReapToStoppedStep ==
    ASSUME IInv, UNCHANGED <<waiting, fatal>>, NEW s \in Service, ReapToStopped(s)
    PROVE  IInv'
<1>1. PICK gone \in BOOLEAN :
         LET r == ReapKill(svc[s], gone)
         IN  svc' = [svc EXCEPT ![s] = NotifyStateChange(s,
                      [r EXCEPT !.flags = ReapFlags(r), !.proc = "none"], "stopped")]
  BY Zenon DEF ReapToStopped
<1>2. /\ s \in Service \ Temporary
      /\ s \in list
      /\ svc[s].proc = "zombie"
      /\ ReapStopped(svc[s])
      /\ list' = list
      /\ list' \subseteq Service
      /\ goal' = goal
      /\ exec' = (exec /\ "EXEC" \notin svc[s].flags)
      /\ exec' \in BOOLEAN
  BY DEF ReapToStopped, IInv, TypeOK
<1>3. ServiceOK(s, svc[s], goal[s], TRUE)
  BY <1>2, Zenon DEF IInv
<1>4. /\ svc' = [x \in Service |-> svc'[x]]
      /\ goal' = [x \in Service |-> goal'[x]]
      /\ \A x \in Service \ {s} : svc'[x] = svc[x]
  BY <1>1, <1>2, Zenon DEF IInv, TypeOK
<1>5. ServiceOK(s, svc'[s], goal'[s], s \in list')
  <2>1. svc'[s] = LET r == ReapKill(svc[s], gone)
                  IN  NotifyStateChange(s,
                         [r EXCEPT !.flags = ReapFlags(r), !.proc = "none"], "stopped")
    BY <1>1 DEF IInv, TypeOK
  <2>2. LET r == ReapKill(svc[s], gone)
        IN  ServiceOK(s, NotifyStateChange(s,
               [r EXCEPT !.flags = ReapFlags(r), !.proc = "none"], "stopped"), goal[s], TRUE)
    BY <1>2, <1>3, ReapStoppedOK, Zenon
  <2>3. ServiceOK(s, svc'[s], goal[s], TRUE)
    BY <2>1, <2>2, Zenon
  <2>4. goal'[s] = goal[s] /\ (s \in list') = TRUE
    BY <1>2
  <2>5. QED
    BY <2>3, <2>4, Zenon
<1>6. \A x \in Service : ServiceOK(x, svc'[x], goal'[x], x \in list')
  BY <1>2, <1>4, <1>5 DEF IInv
<1>7. exec' => \E x \in list' : {"EXEC", "RUNNING"} \subseteq svc'[x].flags
  BY <1>2, <1>4, ZenonT(30) DEF IInv, ExecIsAwaited, TypeOK
<1>8. QED
  BY <1>2, <1>4, <1>6, <1>7, NewList

\* Reaping a service that comes back runs its onrestart commands.
LEMMA ReapToRestartStep ==
    ASSUME IInv, UNCHANGED <<waiting, fatal>>, NEW s \in Service, ReapToRestart(s)
    PROVE  IInv'
<1> DEFINE Reaped(gone) ==
              LET r == ReapKill(svc[s], gone)
              IN  NotifyStateChange(s,
                     [r EXCEPT !.flags = (ReapFlags(r) \ {"RESTART"}) \cup {"RESTARTING"},
                               !.proc = "none"], "restarting")
<1>0. \A x \in Service, ox \in StartOutcome, gx \in BOOLEAN :
         ServiceOK(x, svc[x], goal[x], TRUE) =>
            /\ ServiceOK(x, Restart(x, svc[x], ox, gx), RestartAsked(svc[x], ox), TRUE)
            /\ {"RUNNING", "EXEC"} \subseteq svc[x].flags =>
                  {"RUNNING", "EXEC"} \subseteq Restart(x, svc[x], ox, gx).flags
  BY RestartOK, Zenon
<1>1. PICK gone \in [OnRestart[s] \cup {s} -> BOOLEAN],
           o \in [OnRestart[s] \cup OnRestartExec[s] -> StartOutcome] :
         /\ svc' = [x \in Service |->
                     IF x = s THEN Reaped(gone[s])
                     ELSE IF x \in OnRestart[s] THEN Restart(x, svc[x], o[x], gone[x])
                     ELSE IF x \in Execed(s, o) THEN ExecStart(x, Parsed(x), o[x])
                     ELSE svc[x]]
         /\ goal' = [x \in Service |-> IF x \in OnRestart[s] \ {s}
                                       THEN RestartAsked(svc[x], o[x]) ELSE goal[x]]
         /\ list' = list \cup Execed(s, o)
         /\ exec' = (Execed(s, o) # {} \/ (exec /\ "EXEC" \notin svc[s].flags))
  BY Zenon DEF ReapToRestart
<1> DEFINE X == Execed(s, o)
<1>2. /\ s \in Service \ Temporary
      /\ s \in list
      /\ svc[s].proc = "zombie"
      /\ ~ReapStopped(svc[s])
  BY DEF ReapToRestart, IInv, TypeOK
<1>3. /\ OnRestart[s] \subseteq Service \ Temporary
      /\ X \subseteq Temporary \ list
      /\ X \subseteq OnRestartExec[s]
      /\ X \subseteq Service
      /\ \A x \in X : o[x] = "ok"
  BY ServiceAssumption, ZenonT(30) DEF Execed
<1> HIDE DEF Reaped, X
<1>4. /\ list' = list \cup X
      /\ list' \subseteq Service
      /\ exec' = (X # {} \/ (exec /\ "EXEC" \notin svc[s].flags))
      /\ exec' \in BOOLEAN
      /\ svc' = [x \in Service |-> svc'[x]]
      /\ goal' = [x \in Service |-> goal'[x]]
  BY <1>1, <1>3, ZenonT(30) DEF X, IInv, TypeOK
<1>5. ASSUME NEW x \in Service
      PROVE  /\ ServiceOK(x, svc'[x], goal'[x], x \in list')
             /\ x # s /\ x \in list /\ {"RUNNING", "EXEC"} \subseteq svc[x].flags
                   => {"RUNNING", "EXEC"} \subseteq svc'[x].flags
             /\ x \in X => {"RUNNING", "EXEC"} \subseteq svc'[x].flags
  <2>1. CASE x = s
    <3>1. ServiceOK(s, svc[s], goal[s], TRUE)
      BY <1>2, ZenonT(30) DEF IInv
    <3>2. gone[s] \in BOOLEAN
      BY <1>1
    <3>3. ServiceOK(s, Reaped(gone[s]), goal[s], TRUE)
      BY <1>2, <3>1, <3>2, ReapRestartOK, ZenonT(30) DEF Reaped
    <3>4. /\ svc'[x] = Reaped(gone[s])
          /\ goal'[x] = goal[s]
          /\ (x \in list') = TRUE
          /\ x \notin X
      BY <1>1, <1>2, <1>3, <1>4, <2>1, ZenonT(30)
    <3>5. QED
      BY <2>1, <3>3, <3>4, Zenon
  <2>2. CASE x # s /\ x \in OnRestart[s]
    <3>1. x \in list /\ x \notin X
      BY <1>3, <2>2 DEF IInv, ServiceOK
    <3>2. ServiceOK(x, svc[x], goal[x], TRUE)
      BY <3>1, Zenon DEF IInv
    <3>3. o[x] \in StartOutcome /\ gone[x] \in BOOLEAN
      BY <1>1, <2>2
    <3>4. /\ ServiceOK(x, Restart(x, svc[x], o[x], gone[x]), RestartAsked(svc[x], o[x]), TRUE)
          /\ {"RUNNING", "EXEC"} \subseteq svc[x].flags =>
                {"RUNNING", "EXEC"} \subseteq Restart(x, svc[x], o[x], gone[x]).flags
      BY <1>0, <3>2, <3>3, Zenon
    <3>5. /\ svc'[x] = Restart(x, svc[x], o[x], gone[x])
          /\ goal'[x] = RestartAsked(svc[x], o[x])
          /\ (x \in list') = TRUE
      BY <1>1, <1>4, <2>2, <3>1
    <3>6. QED
      BY <3>1, <3>4, <3>5, Zenon
  <2>3. CASE x # s /\ x \notin OnRestart[s] /\ x \in X
    <3>1. /\ x \in Temporary
          /\ x \notin list
          /\ goal[x] \in {"none", "up", "down", "failed"}
      BY <1>3, <2>3 DEF IInv, TypeOK
    <3>2. /\ ServiceOK(x, ExecStart(x, Parsed(x), "ok"), goal[x], TRUE)
          /\ {"RUNNING", "EXEC"} \subseteq ExecStart(x, Parsed(x), "ok").flags
      BY <3>1, FreshOK, ZenonT(30)
    <3>3. /\ svc'[x] = ExecStart(x, Parsed(x), "ok")
          /\ goal'[x] = goal[x]
          /\ (x \in list') = TRUE
      BY <1>1, <1>3, <1>4, <2>3 DEF X
    <3>4. QED
      BY <3>1, <3>2, <3>3, Zenon
  <2>4. CASE x # s /\ x \notin OnRestart[s] /\ x \notin X
    <3>1. svc'[x] = svc[x] /\ goal'[x] = goal[x] /\ (x \in list') = (x \in list)
      BY <1>1, <1>4, <2>4, SMTT(30) DEF X
    <3>2. QED
      BY <2>4, <3>1 DEF IInv
  <2>5. QED
    BY <2>1, <2>2, <2>3, <2>4, ZenonT(30)
<1>6. exec' => \E x \in list' : {"EXEC", "RUNNING"} \subseteq svc'[x].flags
  <2>1. CASE X # {}
    BY <1>3, <1>4, <1>5, <2>1, ZenonT(30)
  <2>2. CASE X = {}
    <3>1. SUFFICES ASSUME exec' PROVE \E x \in list' : {"EXEC", "RUNNING"} \subseteq svc'[x].flags
      OBVIOUS
    <3>2. exec /\ "EXEC" \notin svc[s].flags
      BY <1>4, <2>2, <3>1, Zenon
    <3>3. PICK x \in list : {"EXEC", "RUNNING"} \subseteq svc[x].flags
      BY <3>2 DEF IInv, ExecIsAwaited
    <3>4. x \in Service /\ x # s /\ x \in list'
      BY <1>4, <3>2, <3>3 DEF IInv, TypeOK
    <3>5. QED
      BY <1>5, <3>3, <3>4, ZenonT(30)
  <2>3. QED
    BY <2>1, <2>2, ZenonT(30)
<1>7. QED
  BY <1>4, <1>5, <1>6, NewList

-----------------------------------------------------------------------------
(* The theorems                                                             *)

\* The services as parsed are in order.
LEMMA InitInv == Init => IInv
<1>1. SUFFICES ASSUME Init PROVE IInv
  OBVIOUS
<1>2. ASSUME NEW x \in Service
      PROVE  ServiceOK(x, svc[x], goal[x], x \in list)
  <2>1. svc[x] = Parsed(x) /\ goal[x] = "none" /\ (x \in list) = (x \notin Temporary)
    BY <1>1 DEF Init
  <2>2. QED
    BY <2>1, ParsedOK
<1>3. TypeOK
  <2>1. /\ list \subseteq Service
        /\ exec \in BOOLEAN
        /\ waiting \in BOOLEAN
        /\ fatal \in BOOLEAN
        /\ svc = [x \in Service |-> svc[x]]
        /\ goal = [x \in Service |-> goal[x]]
    BY <1>1, Zenon DEF Init
  <2>2. QED
    BY <1>2, <2>1, TypeFromOK
<1>4. QED
  BY <1>1, <1>2, <1>3 DEF IInv, Init, ExecIsAwaited

\* Every step of init keeps them in order.
LEMMA NextInv == IInv /\ [Next]_vars => IInv'
<1>1. SUFFICES ASSUME IInv, [Next]_vars PROVE IInv'
  OBVIOUS
<1>2. CASE UNCHANGED vars
  BY <1>1, <1>2 DEF vars, IInv, TypeOK, ExecIsAwaited
<1>3. CASE \E s \in Service : ReapFatal(s)
  BY <1>1, <1>3 DEF ReapFatal, IInv, TypeOK, ExecIsAwaited
<1>4. CASE do_wait_for_prop \/ property_changed
  <2>1. UNCHANGED <<list, svc, exec, fatal, goal>> /\ waiting' \in BOOLEAN
    BY <1>4, Zenon DEF do_wait_for_prop, property_changed
  <2>2. TypeOK' /\ ExecIsAwaited'
    BY <1>1, <2>1, ZenonT(30) DEF IInv, TypeOK, ExecIsAwaited
  <2> QED
    BY <1>1, <2>1, <2>2, ZenonT(30) DEF IInv
<1>5. CASE Step /\ UNCHANGED <<waiting, fatal>>
  BY <1>1, <1>5, ControlStep, ExitStep, ClassStep, RestartProcessesStep, ExecStep,
     ExecStartStep, ReapTemporaryStep, ReapToStoppedStep, ReapToRestartStep
     DEF Step, Handlers, ReapOneProcess
<1>6. QED
  BY <1>1, <1>2, <1>3, <1>4, <1>5 DEF Next

\* The invariant behind all the others: what the flags, the process, the
\* published state and the last request of each service have to do with each
\* other, in every state of init.
THEOREM Invariance == Spec => []IInv
BY InitInv, NextInv, PTL DEF Spec

\* Every variable keeps its type.
THEOREM TypeCorrect == Spec => []TypeOK
BY Invariance, PTL DEF IInv

\* init.svc.<name> is true for every service.
THEOREM StateTrue == Spec => []StateIsTrue
<1>1. IInv => StateIsTrue
  BY ZenonT(30) DEF IInv, StateIsTrue, ServiceOK, TypeOK
<1>2. QED
  BY <1>1, Invariance, PTL

\* A service never has two processes and never waits for a restart while it has
\* one.
THEOREM NeverTwoProcesses == Spec => []OneProcess
<1>1. IInv => OneProcess
  BY ZenonT(30) DEF IInv, OneProcess, ServiceOK
<1>2. QED
  BY <1>1, Invariance, PTL

\* A stop or reset is not undone by a reap or by the restart timer, and a start or
\* restart of a service that is not oneshot is not lost.
THEOREM GoalKept == Spec => []GoalHolds
<1>1. IInv => StopHolds
  BY ZenonT(30) DEF IInv, StopHolds, ServiceOK, TypeOK
<1>2. IInv => StartHolds
  BY DEF IInv, StartHolds, ServiceOK, TypeOK
<1>3. QED
  BY <1>1, <1>2, Invariance, PTL DEF GoalHolds

\* init never waits for an exec service that does not exist.
THEOREM NoPhantomExec == Spec => []ExecIsAwaited
BY Invariance, PTL DEF IInv

\* KillProcessGroup is never a no-op for a process that is alive.
THEOREM KillAlwaysReaches == Spec => []KillReaches
<1>1. IInv => KillReaches
  BY ZenonT(30) DEF IInv, KillReaches, ServiceOK
<1>2. QED
  BY <1>1, Invariance, PTL

-----------------------------------------------------------------------------
(* The exec service that init waits for                                     *)

IsExec(r) == "EXEC" \in r.flags

\* If no onrestart command is an exec, there is one exec service at a time, and init waits for
\* it.
OneExec ==
    (\A s \in Service : OnRestartExec[s] = {})
        => /\ \A s \in list : IsExec(svc[s]) => exec
           /\ \A s, t \in list : IsExec(svc[s]) /\ IsExec(svc[t]) => s = t

\* No request makes an exec service of another one, or the other way round.
LEMMA ExecKept ==
    ASSUME NEW s \in Service, NEW r \in ServiceObject, NEW o
    PROVE  /\ IsExec(Start(s, r, o)) <=> IsExec(r)
           /\ IsExec(Enable(s, r, o)) <=> IsExec(r)
           /\ IsExec(StartIfNotDisabled(s, r, o)) <=> IsExec(r)
           /\ \A gone \in BOOLEAN : /\ IsExec(Stop(s, r, gone)) <=> IsExec(r)
                                    /\ IsExec(Reset(s, r, gone)) <=> IsExec(r)
                                    /\ IsExec(Restart(s, r, o, gone)) <=> IsExec(r)
<1>1. ASSUME NEW x \in ServiceObject PROVE IsExec(Start(s, x, o)) <=> IsExec(x)
  BY ZenonT(30) DEF IsExec, ServiceObject, Start, AlreadyRunning, Forked, NotStarted, StartClears,
         NotifyStateChange
<1>2. ASSUME NEW how \in {"DISABLED", "RESET", "RESTART"}, NEW gone \in BOOLEAN
      PROVE  IsExec(StopOrReset(s, r, how, gone)) <=> IsExec(r)
  <2> DEFINE f == StopFlags(r.flags, how)
             r1 == [r EXCEPT !.flags = f]
             k == KillProcessGroup(r1, gone)
  <2>1. "EXEC" \in f <=> IsExec(r)
    BY DEF StopFlags, IsExec
  <2> HIDE DEF f
  <2>2. r1.flags = f /\ r1 = [r1 EXCEPT !.flags = f]
    BY ZenonT(30) DEF ServiceObject
  <2>3. k.flags = f
    BY DEF KillProcessGroup, ServiceObject
  <2>4. \A new : /\ NotifyStateChange(s, r1, new).flags = f
                 /\ NotifyStateChange(s, k, new).flags = f
    BY <2>2, <2>3 DEF NotifyStateChange, ServiceObject, KillProcessGroup
  <2>5. StopOrReset(s, r, how, gone) \in {NotifyStateChange(s, k, "stopping"),
                                          NotifyStateChange(s, r1, "stopped")}
    BY DEF StopOrReset, f
  <2> HIDE DEF k, r1
  <2> QED
    BY <2>1, <2>4, <2>5 DEF IsExec
<1>3. IsExec(Enable(s, r, o)) <=> IsExec(r)
  <2> DEFINE r1 == [r EXCEPT !.flags = @ \ {"DISABLED", "RC_DISABLED"}]
  <2>1. r1 \in ServiceObject /\ (IsExec(r1) <=> IsExec(r))
    BY DEF ServiceObject, IsExec
  <2>2. Enable(s, r, o) \in {Start(s, r1, o), r1}
    BY DEF Enable
  <2> HIDE DEF r1
  <2> QED
    BY <1>1, <2>1, <2>2
<1>4. IsExec(StartIfNotDisabled(s, r, o)) <=> IsExec(r)
  <2> DEFINE r1 == [r EXCEPT !.flags = @ \cup {"DISABLED_START"}]
  <2>1. IsExec(r1) <=> IsExec(r)
    BY DEF ServiceObject, IsExec
  <2>2. StartIfNotDisabled(s, r, o) \in {Start(s, r, o), r1}
    BY DEF StartIfNotDisabled
  <2> HIDE DEF r1
  <2> QED
    BY <1>1, <2>1, <2>2
<1> QED
  BY <1>1, <1>2, <1>3, <1>4 DEF Stop, Reset, Restart

\* A step keeps OneExec if it makes no exec services, and does not end the wait.
LEMMA ExecSame ==
    ASSUME OneExec, list' = list, exec' = exec,
           \A s \in list : IsExec(svc'[s]) => IsExec(svc[s])
    PROVE  OneExec'
BY DEF OneExec, IsExec

\* exec and exec_start make a service an exec service only while there is none.
LEMMA ExecNew ==
    ASSUME OneExec, ~exec, NEW s \in Service, list' \subseteq list \cup {s},
           \A x \in list : x # s => svc'[x] = svc[x],
           IsExec(svc'[s]) => exec' \/ (s \in list /\ IsExec(svc[s]))
    PROVE  OneExec'
BY DEF OneExec, IsExec

\* The end of a service ends the wait for it, and for no other.
LEMMA ExecReaped ==
    ASSUME IInv, OneExec, NEW s \in Service, ReapOneProcess(s)
    PROVE  OneExec'
<1> SUFFICES ASSUME \A x \in Service : OnRestartExec[x] = {}
             PROVE  /\ \A x \in list' : IsExec(svc'[x]) => exec'
                    /\ \A x, y \in list' : IsExec(svc'[x]) /\ IsExec(svc'[y]) => x = y
  BY ZenonT(30) DEF OneExec, IsExec
<1>1. /\ svc \in [Service -> ServiceObject] /\ svc[s] \in ServiceObject
      /\ list \subseteq Service
  BY ZenonT(30) DEF IInv, TypeOK
<1>2. /\ \A x \in list : IsExec(svc[x]) => exec
      /\ \A x, y \in list : IsExec(svc[x]) /\ IsExec(svc[y]) => x = y
  BY ZenonT(30) DEF OneExec
<1>3. SUFFICES /\ s \in list /\ list' \subseteq list
               /\ exec' = (exec /\ ~IsExec(svc[s]))
               /\ s \in list' => ~IsExec(svc'[s])
               /\ \A x \in list' : x # s => (IsExec(svc'[x]) <=> IsExec(svc[x]))
  BY <1>2, Zenon
<1>4. CASE ReapTemporary(s)
  BY <1>1, <1>4 DEF ReapTemporary, IsExec
<1>5. ASSUME NEW gone \in BOOLEAN
      PROVE  /\ ReapKill(svc[s], gone) \in ServiceObject
             /\ ~IsExec(ReapKill(svc[s], gone))
  BY <1>1, ZenonT(30) DEF ReapKill, UnSetExec, KillProcessGroup, ServiceObject, IsExec
<1>6. CASE ReapToStopped(s)
  <2>1. PICK gone \in BOOLEAN :
          LET r == ReapKill(svc[s], gone)
          IN  svc' = [svc EXCEPT ![s] = NotifyStateChange(s,
                         [r EXCEPT !.flags = ReapFlags(r), !.proc = "none"], "stopped")]
    BY <1>6, Zenon DEF ReapToStopped
  <2> DEFINE r == ReapKill(svc[s], gone)
             dead == [r EXCEPT !.flags = ReapFlags(r), !.proc = "none"]
             n == NotifyStateChange(s, dead, "stopped")
  <2>2. r \in ServiceObject /\ ~IsExec(r)
    BY <1>5
  <2>3. ~IsExec(n)
    <3> HIDE DEF r
    <3> QED
      BY <2>2 DEF IsExec, ServiceObject, NotifyStateChange, ReapFlags
  <2>4. svc' = [svc EXCEPT ![s] = n]
    BY <2>1
  <2>5. s \in list /\ list' = list /\ exec' = (exec /\ ~IsExec(svc[s]))
    BY <1>6, ZenonT(30) DEF ReapToStopped, IsExec
  <2> HIDE DEF n
  <2> QED
    BY <1>1, <2>3, <2>4, <2>5
<1>7. CASE ReapToRestart(s)
  <2>1. PICK gone \in [OnRestart[s] \cup {s} -> BOOLEAN],
             o \in [OnRestart[s] \cup OnRestartExec[s] -> StartOutcome] :
          /\ LET r == ReapKill(svc[s], gone[s])
                 reaped == NotifyStateChange(s,
                        [r EXCEPT !.flags = (ReapFlags(r) \ {"RESTART"}) \cup {"RESTARTING"},
                                  !.proc = "none"], "restarting")
             IN  svc' = [x \in Service |->
                     IF x = s THEN reaped
                     ELSE IF x \in OnRestart[s] THEN Restart(x, svc[x], o[x], gone[x])
                     ELSE IF x \in Execed(s, o) THEN ExecStart(x, Parsed(x), o[x])
                     ELSE svc[x]]
          /\ s \in list /\ list' = list \cup Execed(s, o)
          /\ exec' = (Execed(s, o) # {} \/ (exec /\ "EXEC" \notin svc[s].flags))
    BY <1>7, ZenonT(30) DEF ReapToRestart
  <2> DEFINE r == ReapKill(svc[s], gone[s])
             n == NotifyStateChange(s,
                     [r EXCEPT !.flags = (ReapFlags(r) \ {"RESTART"}) \cup {"RESTARTING"},
                               !.proc = "none"], "restarting")
  <2>2. Execed(s, o) = {}
    BY DEF Execed
  <2>3. gone[s] \in BOOLEAN
    BY ZenonT(30)
  <2>4. r \in ServiceObject /\ ~IsExec(r)
    BY <1>5, <2>3
  <2>5. ~IsExec(n)
    <3> HIDE DEF r
    <3> QED
      BY <2>4, ZenonT(30) DEF IsExec, ServiceObject, NotifyStateChange, ReapFlags
  <2>6. ASSUME NEW x \in list', x # s PROVE IsExec(svc'[x]) <=> IsExec(svc[x])
    <3>1. x \in Service /\ svc[x] \in ServiceObject
      BY <1>1, <2>1, <2>2, <2>6
    <3>2. CASE x \in OnRestart[s]
      BY <2>1, <2>6, <3>1, <3>2, ExecKept, ZenonT(30)
    <3>3. CASE x \notin OnRestart[s]
      BY <2>1, <2>2, <2>6, <3>1, <3>3
    <3> QED
      BY <3>2, <3>3
  <2>7. svc'[s] = n
    BY <2>1
  <2> HIDE DEF n
  <2> QED
    BY <2>1, <2>2, <2>5, <2>6, <2>7, ZenonT(30) DEF IsExec
<1> QED
  BY <1>4, <1>6, <1>7 DEF ReapOneProcess

\* Every step keeps OneExec.
LEMMA ExecNext == IInv /\ OneExec /\ [Next]_vars => OneExec'
<1> SUFFICES ASSUME IInv, OneExec, [Next]_vars PROVE OneExec'
  OBVIOUS
<1>1. /\ svc \in [Service -> ServiceObject] /\ list \subseteq Service
      /\ \A s \in Service : svc[s] \in ServiceObject
  BY DEF IInv, TypeOK
<1>2. ASSUME NEW s \in Service, DoControlStart(s) \/ DoControlStop(s) \/ DoControlRestart(s)
                                \/ do_enable(s)
      PROVE  OneExec'
  <2>1. list' = list /\ exec' = exec
    BY <1>2, ZenonT(30) DEF DoControlStart, DoControlStop, DoControlRestart, do_enable
  <2>2. \E n : svc' = [svc EXCEPT ![s] = n] /\ (IsExec(n) <=> IsExec(svc[s]))
    <3>1. CASE DoControlStart(s)
      <4>1. PICK o \in StartOutcome : svc' = [svc EXCEPT ![s] = Start(s, svc[s], o)]
        BY <3>1, Zenon DEF DoControlStart
      <4>2. IsExec(Start(s, svc[s], o)) <=> IsExec(svc[s])
        BY <1>1, ExecKept
      <4> QED
        BY <4>1, <4>2, Zenon
    <3>2. CASE DoControlStop(s)
      <4>1. PICK gone \in BOOLEAN : svc' = [svc EXCEPT ![s] = Stop(s, svc[s], gone)]
        BY <3>2, Zenon DEF DoControlStop
      <4>2. IsExec(Stop(s, svc[s], gone)) <=> IsExec(svc[s])
        BY <1>1, ExecKept
      <4> QED
        BY <4>1, <4>2, Zenon
    <3>3. CASE DoControlRestart(s)
      <4>1. PICK o \in StartOutcome, gone \in BOOLEAN :
              svc' = [svc EXCEPT ![s] = Restart(s, svc[s], o, gone)]
        BY <3>3, Zenon DEF DoControlRestart
      <4>2. IsExec(Restart(s, svc[s], o, gone)) <=> IsExec(svc[s])
        BY <1>1, ExecKept, ZenonT(30)
      <4> QED
        BY <4>1, <4>2, Zenon
    <3>4. CASE do_enable(s)
      <4>1. PICK o \in StartOutcome : svc' = [svc EXCEPT ![s] = Enable(s, svc[s], o)]
        BY <3>4, Zenon DEF do_enable
      <4>2. IsExec(Enable(s, svc[s], o)) <=> IsExec(svc[s])
        BY <1>1, ExecKept
      <4> QED
        BY <4>1, <4>2, Zenon
    <3> QED
      BY <1>2, <3>1, <3>2, <3>3, <3>4, ZenonT(30)
  <2> QED
    BY <1>1, <2>1, <2>2, ExecSame
<1>3. ASSUME do_class_start \/ do_class_stop \/ do_class_reset \/ do_class_restart
      PROVE  OneExec'
  <2>1. list' = list /\ exec' = exec
    BY <1>3 DEF do_class_start, do_class_stop, do_class_reset, do_class_restart
  <2>2. ASSUME NEW s \in list PROVE IsExec(svc'[s]) => IsExec(svc[s])
    <3>1. s \in Service /\ svc[s] \in ServiceObject
      BY <1>1, ZenonT(30)
    <3>2. CASE do_class_start
      BY <3>1, <3>2, ExecKept, SMTT(30) DEF do_class_start
    <3>3. CASE do_class_stop
      BY <3>1, <3>3, ExecKept, SMTT(30) DEF do_class_stop
    <3>4. CASE do_class_reset
      BY <3>1, <3>4, ExecKept, SMTT(30) DEF do_class_reset
    <3>5. CASE do_class_restart
      BY <3>1, <3>5, ExecKept, SMTT(30) DEF do_class_restart
    <3> QED
      BY <1>3, <3>2, <3>3, <3>4, <3>5
  <2> QED
    BY <2>1, <2>2, ExecSame
<1>4. ASSUME NEW due \in SUBSET Service, RestartProcesses(due) PROVE OneExec'
  <2>1. list' = list /\ exec' = exec
    BY <1>4, ZenonT(30) DEF RestartProcesses
  <2>2. ASSUME NEW s \in list PROVE IsExec(svc'[s]) => IsExec(svc[s])
    BY <1>1, <1>4, <2>2, ExecKept, SMTT(30) DEF RestartProcesses
  <2> QED
    BY <2>1, <2>2, ExecSame, ZenonT(30)
<1>5. ASSUME NEW t \in Temporary, do_exec(t) \/ do_exec_background(t) PROVE OneExec'
  <2>1. t \in Service /\ Parsed(t) \in ServiceObject /\ ~IsExec(Parsed(t))
    BY ServiceAssumption DEF Parsed, ServiceObject, Flag, State, IsExec
  <2>2. ~exec /\ list' = list \cup {t} /\ (exec' \/ ~IsExec(svc'[t]))
    <3>1. CASE do_exec(t)
      BY <3>1, ZenonT(30) DEF do_exec, QueueMoves
    <3>2. CASE do_exec_background(t)
      <4>1. ~IsExec(Start(t, Parsed(t), "ok"))
        BY <2>1, ExecKept
      <4>2. svc' = [svc EXCEPT ![t] = Start(t, Parsed(t), "ok")]
        BY <3>2 DEF do_exec_background
      <4>3. ~IsExec(svc'[t])
        BY <1>1, <2>1, <4>1, <4>2, ZenonT(30)
      <4> QED
        BY <3>2, <4>3, ZenonT(30) DEF do_exec_background, QueueMoves
    <3> QED
      BY <1>5, <3>1, <3>2, ZenonT(30)
  <2>3. \A x \in list : x # t => svc'[x] = svc[x]
    BY <1>1, <1>5, ZenonT(30) DEF do_exec, do_exec_background
  <2> QED
    BY <2>1, <2>2, <2>3, ExecNew, ZenonT(30)
<1>6. ASSUME NEW s \in Service, do_exec_start(s) PROVE OneExec'
  <2>1. PICK o \in StartOutcome : /\ svc' = [svc EXCEPT ![s] = ExecStart(s, @, o)]
                                  /\ exec' = StartResult(svc[s], o)
    BY <1>6, Zenon DEF do_exec_start
  <2>2. ~exec /\ s \in list /\ list' = list
    BY <1>6, ZenonT(30) DEF do_exec_start, QueueMoves
  <2>3. ASSUME ~StartResult(svc[s], o) PROVE IsExec(svc'[s]) <=> IsExec(svc[s])
    <3> DEFINE r1 == [svc[s] EXCEPT !.flags = @ \cup {"ONESHOT"}]
    <3>1. r1 \in ServiceObject /\ (IsExec(r1) <=> IsExec(svc[s]))
      BY <1>1 DEF ServiceObject, Flag, IsExec
    <3>2. svc'[s] = Start(s, r1, o)
      BY <1>1, <2>1, <2>3, ZenonT(30) DEF ExecStart
    <3> HIDE DEF r1
    <3> QED
      BY <3>1, <3>2, ExecKept
  <2>4. \A x \in list : x # s => svc'[x] = svc[x]
    BY <1>1, <2>1, ZenonT(30)
  <2>5. IsExec(svc'[s]) => exec' \/ (s \in list /\ IsExec(svc[s]))
    BY <2>1, <2>2, <2>3, ZenonT(30)
  <2> QED
    BY <2>2, <2>4, <2>5, ExecNew, ZenonT(30)
<1>7. ASSUME NEW s \in Service, Exit(s) PROVE OneExec'
  <2>1. list' = list /\ exec' = exec
    BY <1>7 DEF Exit
  <2>2. ASSUME NEW x \in list PROVE IsExec(svc'[x]) => IsExec(svc[x])
    BY <1>1, <1>7 DEF Exit, IsExec, ServiceObject
  <2> QED
    BY <2>1, <2>2, ExecSame
<1>8. ASSUME UNCHANGED <<list, svc, exec>> PROVE OneExec'
  BY <1>8, ExecSame
<1> QED
  BY <1>2, <1>3, <1>4, <1>5, <1>6, <1>7, <1>8, ExecReaped
  DEF Next, Step, Handlers, ReapFatal, do_wait_for_prop, property_changed, vars

\* "Stops init from processing more commands until it completes": the action queue stands
\* still as long as an exec service runs, whatever is asked of that service meanwhile.
THEOREM ExecHoldsTheQueue == Spec => []ExecBlocks
<1>1. Init => OneExec
  <2>1. \A s \in Service : ~IsExec(Parsed(s))
    BY ZenonT(30) DEF IsExec, Parsed
  <2> QED
    BY <2>1, ZenonT(30) DEF Init, OneExec
<1>2. OneExec => ExecBlocks
  BY ZenonT(30) DEF OneExec, ExecBlocks, IsExec
<1> QED
  BY <1>1, <1>2, ExecNext, Invariance, PTL DEF Spec

-----------------------------------------------------------------------------
(* The shutdown sequence                                                    *)

\* Until DoReboot begins the services are as they always are; then only what matters for
\* KilledForGood is kept, since Terminate() leaves flags that no other operation does.
RebootInv ==
    /\ list \subseteq Service /\ Service \ Temporary \subseteq list
    /\ svc \in [Service -> ServiceObject]
    /\ ~InReboot => IInv /\ revived = {}
    /\ phase \in {"wait", "reap"} =>
          \A s \in list \ (crit \cup revived) : "DISABLED" \in svc[s].flags
    /\ phase \in {"reap", "vold", "vdc", "apps", "umount", "fsck", "off"} =>
          \A s \in list \ crit : svc[s].proc = "alive" => s \in killed \cup revived
    /\ revived \subseteq Restartable
    /\ NeededRun

\* Stop() and Terminate() disable a service; its process stays until it is reaped, and none
\* is started.
LEMMA Halted ==
    ASSUME NEW s \in Service, NEW r \in ServiceObject, NEW gone \in BOOLEAN,
           NEW n \in {Terminate(s, r, gone), Stop(s, r, gone)}
    PROVE  /\ n \in ServiceObject /\ "DISABLED" \in n.flags
           /\ r.proc = "none" <=> n.proc = "none"
           /\ n.proc = "alive" => r.proc = "alive"
<1> DEFINE t == [r EXCEPT !.flags = (@ \ {"RESTARTING", "DISABLED_START"}) \cup {"DISABLED"}]
           u == [r EXCEPT !.flags = StopFlags(@, "DISABLED")]
           Fine(x) == /\ x \in ServiceObject /\ "DISABLED" \in x.flags
                      /\ r.proc = "none" <=> x.proc = "none"
                      /\ x.proc = "alive" => r.proc = "alive"
<1>1. Fine(t)
  BY DEF ServiceObject, Flag
<1>2. Fine(u)
  BY DEF ServiceObject, Flag, StopFlags
<1>3. ASSUME NEW x, Fine(x) PROVE Fine(KillProcessGroup(x, gone))
  BY <1>3, ZenonT(30) DEF KillProcessGroup, ServiceObject
<1>4. ASSUME NEW x, Fine(x), NEW new \in State PROVE Fine(NotifyStateChange(s, x, new))
  BY <1>4 DEF NotifyStateChange, ServiceObject
<1>5. "stopping" \in State /\ "stopped" \in State
  BY DEF State
<1> HIDE DEF Fine, t, u
<1>6. Terminate(s, r, gone) = IF r.proc # "none"
                              THEN NotifyStateChange(s, KillProcessGroup(t, gone), "stopping")
                              ELSE t
  BY DEF Terminate, t
<1>7. Stop(s, r, gone) = IF r.proc # "none"
                         THEN NotifyStateChange(s, KillProcessGroup(u, gone), "stopping")
                         ELSE NotifyStateChange(s, u, "stopped")
  BY DEF Stop, StopOrReset, u
<1>8. Fine(n)
  BY <1>1, <1>2, <1>3, <1>4, <1>5, <1>6, <1>7
<1> QED
  BY <1>8 DEF Fine

\* The loops of DoReboot over services disable those of the list and start none.
LEMMA LoopFacts ==
    ASSUME list \subseteq Service, svc \in [Service -> ServiceObject],
           NEW S \in SUBSET Service, NEW member \in {"Terminate", "Stop"}, ForEach(S, member)
    PROVE  /\ list' = list /\ svc' \in [Service -> ServiceObject]
           /\ \A s \in S \cap list : "DISABLED" \in svc'[s].flags
           /\ \A s \in Service : /\ svc[s].proc = "none" <=> svc'[s].proc = "none"
                                 /\ svc'[s].proc = "alive" => svc[s].proc = "alive"
<1>1. PICK gone \in [S \cap list -> BOOLEAN] :
        /\ svc' = [s \in Service |->
                      IF s \notin S \cap list THEN svc[s]
                      ELSE IF member = "Terminate" THEN Terminate(s, svc[s], gone[s])
                      ELSE Stop(s, svc[s], gone[s])]
        /\ list' = list
  BY ZenonT(30) DEF ForEach
<1>2. ASSUME NEW s \in Service
      PROVE  /\ svc'[s] \in ServiceObject
             /\ s \in S \cap list => "DISABLED" \in svc'[s].flags
             /\ svc[s].proc = "none" <=> svc'[s].proc = "none"
             /\ svc'[s].proc = "alive" => svc[s].proc = "alive"
  <2>1. CASE s \in S \cap list
    <3>1. svc'[s] \in {Terminate(s, svc[s], gone[s]), Stop(s, svc[s], gone[s])}
      BY <1>1, <2>1
    <3>2. svc[s] \in ServiceObject /\ gone[s] \in BOOLEAN
      BY <2>1, ZenonT(30)
    <3> QED
      BY <3>1, <3>2, Halted, ZenonT(30)
  <2>2. CASE s \notin S \cap list
    BY <1>1, <2>2, ZenonT(30)
  <2> QED
    BY <2>1, <2>2, ZenonT(30)
<1> QED
  BY <1>1, <1>2

\* Restart() takes no process away, and an exec service that is started has one.
LEMMA Revival ==
    ASSUME NEW s \in Service, NEW r \in ServiceObject, NEW o \in StartOutcome,
           NEW gone \in BOOLEAN
    PROVE  /\ Restart(s, r, o, gone) \in ServiceObject
           /\ r.proc # "none" => Restart(s, r, o, gone).proc # "none"
           /\ ExecStart(s, Parsed(s), "ok") \in ServiceObject
           /\ ExecStart(s, Parsed(s), "ok").proc = "alive"
<1> DEFINE Kept(x, n) == n \in ServiceObject /\ (x.proc # "none" => n.proc # "none")
<1>1. ASSUME NEW x \in ServiceObject, NEW out \in StartOutcome
      PROVE  /\ Kept(x, Start(s, x, out))
             /\ "RUNNING" \notin x.flags /\ out = "ok" => Start(s, x, out).proc = "alive"
  <2>1. x.flags \in SUBSET Flag /\ "running" \in State
    BY DEF ServiceObject, State
  <2>2. CASE "RUNNING" \in x.flags
    <3> DEFINE F == (x.flags \ StartClears) \cup
                       (IF "ONESHOT" \in x.flags /\ x.flags \cap {"DISABLED", "RESET"} # {}
                        THEN {"RESTART"} ELSE {})
    <3>1. F \in SUBSET Flag
      BY <2>1, ZenonT(30) DEF Flag, StartClears
    <3>2. Start(s, x, out) = [x EXCEPT !.flags = F]
      BY <2>2, ZenonT(30) DEF Start, AlreadyRunning
    <3> HIDE DEF F
    <3> QED
      BY <2>2, <3>1, <3>2, ZenonT(30) DEF ServiceObject
  <2>3. CASE "RUNNING" \notin x.flags /\ out = "ok"
    <3> DEFINE F == (x.flags \ StartClears) \cup {"RUNNING"}
               y == [x EXCEPT !.flags = F, !.proc = "alive", !.empty = FALSE]
    <3>1. F \in SUBSET Flag
      BY <2>1, ZenonT(30) DEF Flag, StartClears
    <3>2. Start(s, x, out) = NotifyStateChange(s, y, "running")
      BY <2>3, ZenonT(30) DEF Start, Forked
    <3> HIDE DEF F
    <3>3. y \in ServiceObject /\ y.proc = "alive"
      BY <3>1, ZenonT(30) DEF ServiceObject
    <3> HIDE DEF y
    <3> QED
      BY <2>1, <3>2, <3>3, ZenonT(30) DEF NotifyStateChange, ServiceObject
  <2>4. CASE "RUNNING" \notin x.flags /\ out # "ok"
    <3> DEFINE F == (x.flags \ StartClears) \cup (IF out = "missing" THEN {"DISABLED"} ELSE {})
    <3>1. F \in SUBSET Flag
      BY <2>1, ZenonT(30) DEF Flag, StartClears
    <3>2. Start(s, x, out) = [x EXCEPT !.flags = F]
      BY <2>4, ZenonT(30) DEF Start, NotStarted
    <3> HIDE DEF F
    <3> QED
      BY <2>4, <3>1, <3>2, ZenonT(30) DEF ServiceObject
  <2> QED
    BY <2>2, <2>3, <2>4, Zenon
<1>2. Kept(r, StopOrReset(s, r, "RESTART", gone))
  <2> DEFINE F == StopFlags(r.flags, "RESTART")
             y == [r EXCEPT !.flags = F]
             k == KillProcessGroup(y, gone)
  <2>1. F \in SUBSET Flag /\ "stopping" \in State /\ "stopped" \in State
    BY DEF ServiceObject, Flag, StopFlags, State
  <2>2. StopOrReset(s, r, "RESTART", gone) = IF r.proc # "none"
                                             THEN NotifyStateChange(s, k, "stopping")
                                             ELSE NotifyStateChange(s, y, "stopped")
    BY ZenonT(30) DEF StopOrReset
  <2> HIDE DEF F
  <2>3. y \in ServiceObject /\ y.proc = r.proc
    BY <2>1, ZenonT(30) DEF ServiceObject
  <2> HIDE DEF y
  <2>4. k \in ServiceObject /\ (y.proc # "none" => k.proc # "none")
    BY <2>3, ZenonT(30) DEF KillProcessGroup, ServiceObject
  <2> HIDE DEF k
  <2> QED
    BY <2>1, <2>2, <2>3, <2>4, ZenonT(30) DEF NotifyStateChange, ServiceObject
<1>3. Kept(r, Restart(s, r, o, gone))
  <2>1. Restart(s, r, o, gone) \in {StopOrReset(s, r, "RESTART", gone), Start(s, r, o), r}
    BY ZenonT(30) DEF Restart
  <2> QED
    BY <1>1, <1>2, <2>1, Zenon
<1>4. ExecStart(s, Parsed(s), "ok") \in ServiceObject /\ ExecStart(s, Parsed(s), "ok").proc = "alive"
  <2> DEFINE x == [Parsed(s) EXCEPT !.flags = @ \cup {"ONESHOT"}]
             r1 == Start(s, x, "ok")
  <2>1. x \in ServiceObject /\ "RUNNING" \notin x.flags
    BY DEF Parsed, ServiceObject, Flag, State
  <2>2. r1 \in ServiceObject /\ r1.proc = "alive"
    <3> HIDE DEF x
    <3> QED
      BY <1>1, <2>1, ZenonT(30) DEF StartOutcome
  <2>3. ExecStart(s, Parsed(s), "ok") = [r1 EXCEPT !.flags = @ \cup {"EXEC"}]
    BY ZenonT(30) DEF ExecStart, StartResult
  <2> HIDE DEF r1
  <2> QED
    BY <2>2, <2>3, ZenonT(30) DEF ServiceObject, Flag
<1> QED
  BY <1>3, <1>4, Zenon

\* Reaping in DoReboot: the service that is reaped loses its process.  Other services change
\* only if its onrestart commands name them, and it runs those commands only if it was
\* spared or restarted, as all others are disabled.
LEMMA ReapFacts ==
    ASSUME RebootInv, phase \in {"wait", "reap"}, NEW s \in Service, ReapOneProcess(s),
           revived' = revived \cup (IF ReapStopped(svc[s]) THEN {}
                                    ELSE OnRestart[s] \cup OnRestartExec[s])
    PROVE  /\ list' \subseteq Service /\ Service \ Temporary \subseteq list'
           /\ list' \ list \subseteq revived'
           /\ svc' \in [Service -> ServiceObject]
           /\ svc'[s].proc = "none" /\ svc[s].proc = "zombie"
           /\ s \in list /\ (s \in list' /\ "DISABLED" \in svc[s].flags => "DISABLED" \in svc'[s].flags)
           /\ \A x \in Service : x # s =>
                 \/ svc'[x] = svc[x] /\ (x \in list' <=> x \in list)
                 \/ x \in revived' /\ (svc[x].proc # "none" \/ x \notin list => svc'[x].proc # "none")
           /\ revived' # revived => s \in crit \cup revived
<1>1. svc \in [Service -> ServiceObject] /\ svc[s] \in ServiceObject
  BY ZenonT(30) DEF RebootInv
<1>l. s \in list
  BY ZenonT(30) DEF ReapOneProcess, ReapTemporary, ReapToStopped, ReapToRestart
<1>r. revived' # revived => s \in crit \cup revived
  <2>1. "DISABLED" \in svc[s].flags => ReapStopped(svc[s])
    BY ZenonT(30) DEF ReapStopped, ReapFlags
  <2> QED
    BY <1>l, <2>1, ZenonT(30) DEF RebootInv
<1>2. CASE ReapTemporary(s)
  <2>1. Parsed(s) \in ServiceObject /\ Parsed(s).proc = "none"
    BY DEF Parsed, ServiceObject, Flag, State
  <2>2. svc' = [svc EXCEPT ![s] = Parsed(s)] /\ list' = list \ {s} /\ svc[s].proc = "zombie"
        /\ s \in Temporary
    BY <1>2 DEF ReapTemporary
  <2> QED
    BY <1>1, <1>l, <1>r, <2>1, <2>2, ZenonT(30) DEF RebootInv
<1>3. ASSUME NEW gone \in BOOLEAN
      PROVE  /\ ReapKill(svc[s], gone) \in ServiceObject
             /\ ReapKill(svc[s], gone).flags = svc[s].flags \ {"EXEC"}
  BY <1>1, ZenonT(30) DEF ReapKill, UnSetExec, KillProcessGroup, ServiceObject
<1>4. "stopped" \in State /\ "restarting" \in State
  BY DEF State
<1>5. CASE ReapToStopped(s)
  <2>1. PICK gone \in BOOLEAN :
          LET r == ReapKill(svc[s], gone)
          IN  svc' = [svc EXCEPT ![s] = NotifyStateChange(s,
                         [r EXCEPT !.flags = ReapFlags(r), !.proc = "none"], "stopped")]
    BY <1>5, Zenon DEF ReapToStopped
  <2> DEFINE r == ReapKill(svc[s], gone)
             F == ReapFlags(r)
             n == NotifyStateChange(s, [r EXCEPT !.flags = F, !.proc = "none"], "stopped")
  <2>2. r \in ServiceObject /\ r.flags = svc[s].flags \ {"EXEC"}
    BY <1>3, ZenonT(30)
  <2>3. F \in SUBSET Flag /\ ("DISABLED" \in svc[s].flags => "DISABLED" \in F)
    <3> HIDE DEF r
    <3> QED
      BY <2>2 DEF ReapFlags, ServiceObject, Flag
  <2>4. svc' = [svc EXCEPT ![s] = n]
    BY <2>1
  <2> HIDE DEF F
  <2>5. n \in ServiceObject /\ n.flags = F /\ n.proc = "none"
    <3> HIDE DEF r
    <3> QED
      BY <1>4, <2>2, <2>3, ZenonT(30) DEF NotifyStateChange, ServiceObject
  <2>6. list' = list /\ svc[s].proc = "zombie"
    BY <1>5 DEF ReapToStopped
  <2> HIDE DEF n, r
  <2>7. list' = list /\ list \subseteq Service /\ Service \ Temporary \subseteq list
    BY <2>6 DEF RebootInv
  <2> QED
    BY <1>1, <1>l, <1>r, <2>3, <2>4, <2>5, <2>6, <2>7, ZenonT(30)
<1>6. CASE ReapToRestart(s)
  <2>1. /\ s \in list /\ svc[s].proc = "zombie" /\ ~ReapStopped(svc[s])
        /\ OnRestart[s] \subseteq Service \ Temporary /\ OnRestartExec[s] \subseteq Service
    BY <1>6, ServiceAssumption, ZenonT(30) DEF ReapToRestart
  <2>2. "DISABLED" \notin svc[s].flags /\ revived' = revived \cup OnRestart[s] \cup OnRestartExec[s]
    BY <2>1, ZenonT(30) DEF ReapStopped, ReapFlags
  <2>3. PICK gone \in [OnRestart[s] \cup {s} -> BOOLEAN],
             o \in [OnRestart[s] \cup OnRestartExec[s] -> StartOutcome] :
          /\ LET r == ReapKill(svc[s], gone[s])
                 reaped == NotifyStateChange(s,
                        [r EXCEPT !.flags = (ReapFlags(r) \ {"RESTART"}) \cup {"RESTARTING"},
                                  !.proc = "none"], "restarting")
             IN  svc' = [x \in Service |->
                     IF x = s THEN reaped
                     ELSE IF x \in OnRestart[s] THEN Restart(x, svc[x], o[x], gone[x])
                     ELSE IF x \in Execed(s, o) THEN ExecStart(x, Parsed(x), o[x])
                     ELSE svc[x]]
          /\ list' = list \cup Execed(s, o)
    BY <1>6, ZenonT(30) DEF ReapToRestart
  <2> DEFINE r == ReapKill(svc[s], gone[s])
             F == (ReapFlags(r) \ {"RESTART"}) \cup {"RESTARTING"}
             n == NotifyStateChange(s, [r EXCEPT !.flags = F, !.proc = "none"], "restarting")
             E == Execed(s, o)
  <2>4. /\ E \subseteq OnRestartExec[s] /\ \A x \in E : o[x] = "ok" /\ x \notin list
    BY DEF Execed
  <2>5. svc' = [x \in Service |-> IF x = s THEN n
                     ELSE IF x \in OnRestart[s] THEN Restart(x, svc[x], o[x], gone[x])
                     ELSE IF x \in E THEN ExecStart(x, Parsed(x), o[x])
                     ELSE svc[x]]
        /\ list' = list \cup E
    BY <2>3, Zenon
  <2>6. gone[s] \in BOOLEAN
    BY ZenonT(30)
  <2>7. r \in ServiceObject
    BY <1>3, <2>6, ZenonT(30)
  <2>8. F \in SUBSET Flag
    <3> HIDE DEF r
    <3> QED
      BY <2>7 DEF ReapFlags, ServiceObject, Flag
  <2> HIDE DEF F, E
  <2>9. n \in ServiceObject /\ n.proc = "none"
    <3> HIDE DEF r
    <3> QED
      BY <1>4, <2>7, <2>8, ZenonT(30) DEF NotifyStateChange, ServiceObject
  <2> HIDE DEF n, r
  <2>10. ASSUME NEW x \in Service, x # s
         PROVE  /\ svc'[x] \in ServiceObject
                /\ \/ svc'[x] = svc[x] /\ (x \in list' <=> x \in list)
                   \/ /\ x \in revived'
                      /\ svc[x].proc # "none" \/ x \notin list => svc'[x].proc # "none"
    <3>1. svc[x] \in ServiceObject
      BY <1>1, ZenonT(30)
    <3>2. CASE x \in OnRestart[s] /\ x \in list
      <4>1. o[x] \in StartOutcome /\ gone[x] \in BOOLEAN
        BY <3>2, ZenonT(30)
      <4>2. svc'[x] = Restart(x, svc[x], o[x], gone[x]) /\ x \in revived'
        BY <2>2, <2>5, <2>10, <3>2, ZenonT(30)
      <4> QED
        BY <3>1, <3>2, <4>1, <4>2, Revival, ZenonT(30)
    <3>3. CASE x \in E /\ x \notin OnRestart[s]
      <4>1. o[x] = "ok" /\ x \in revived'
        BY <2>2, <2>4, <3>3, ZenonT(30)
      <4>2. svc'[x] = ExecStart(x, Parsed(x), "ok")
        BY <2>5, <2>10, <3>3, <4>1, ZenonT(30)
      <4>3. svc'[x] \in ServiceObject /\ svc'[x].proc = "alive"
        <5>1. "ok" \in StartOutcome /\ TRUE \in BOOLEAN
          BY DEF StartOutcome
        <5> QED
          BY <3>1, <4>2, <5>1, Revival, Zenon
      <4> QED
        BY <4>1, <4>3, ZenonT(30)
    <3>4. CASE x \notin OnRestart[s] /\ x \notin E
      BY <2>5, <2>10, <3>1, <3>4, ZenonT(30)
    <3> QED
      BY <2>1, <3>2, <3>3, <3>4, ZenonT(30) DEF RebootInv
  <2>11. svc' \in [Service -> ServiceObject] /\ svc'[s] = n
    BY <2>5, <2>9, <2>10, ZenonT(30)
  <2>12. list' \subseteq Service /\ Service \ Temporary \subseteq list' /\ list' \ list \subseteq revived'
    BY <2>1, <2>2, <2>4, <2>5, ZenonT(30) DEF RebootInv
  <2> QED
    BY <1>r, <2>1, <2>2, <2>9, <2>10, <2>11, <2>12, ZenonT(30)
<1> QED
  BY <1>2, <1>5, <1>6, ZenonT(30) DEF ReapOneProcess

\* Until DoReboot the shutdown changes nothing that services depend on.
LEMMA BeforeReboot ==
    ASSUME RebootInv, Running \/ HandlePowerctlMessage \/ Trigger
    PROVE  RebootInv' /\ ~InReboot
<1>1. ~InReboot /\ ~InReboot' /\ revived' = revived /\ phase' \in {"up", "trigger"}
  BY DEF Running, HandlePowerctlMessage, Trigger, InReboot, shutdownVars
<1>2. IInv
  BY <1>1 DEF RebootInv
<1>3. IInv'
  <2>1. CASE Running \/ Trigger
    <3>1. Next
      BY <2>1, ZenonT(30) DEF Running, Trigger, Next, Step
    <3> QED
      BY <1>2, <3>1, NextInv, ZenonT(30)
  <2>2. CASE HandlePowerctlMessage
    <3>1. /\ svc' = [s \in Service |-> IF s \in list THEN UnSetExec(svc[s]) ELSE svc[s]]
          /\ exec' = FALSE /\ waiting' = FALSE /\ UNCHANGED <<list, fatal, goal>>
      BY <2>2, ZenonT(30) DEF HandlePowerctlMessage
    <3>2. ASSUME NEW s \in Service PROVE ServiceOK(s, svc'[s], goal'[s], s \in list')
      <4>1. ServiceOK(s, svc[s], goal[s], s \in list)
        BY <1>2 DEF IInv
      <4>2. svc'[s] = svc[s] \/ svc'[s] = UnSetExec(svc[s])
        BY <3>1
      <4>3. ServiceOK(s, UnSetExec(svc[s]), goal[s], s \in list)
        BY <4>1, ZenonT(30) DEF ServiceOK, UnSetExec, ServiceObject
      <4> QED
        BY <3>1, <4>1, <4>2, <4>3, ZenonT(30)
    <3>3. TypeOK'
      BY <1>2, <3>1, <3>2, ZenonT(30) DEF IInv, TypeOK, ServiceOK
    <3> QED
      BY <3>1, <3>2, <3>3, ZenonT(30) DEF IInv, ExecIsAwaited
  <2> QED
    BY <2>1, <2>2
<1>4. list' \subseteq Service /\ svc' \in [Service -> ServiceObject]
  BY <1>3, ZenonT(30) DEF IInv, TypeOK
<1>5. Service \ Temporary \subseteq list'
  BY <1>3, ZenonT(30) DEF IInv, ServiceOK
<1>6. revived' = {}
  BY <1>1, ZenonT(30) DEF RebootInv
<1> QED
  BY <1>1, <1>3, <1>4, <1>5, <1>6, ZenonT(30) DEF RebootInv, InReboot, NeededRun

\* DoReboot starts what the shutdown needs: each has a process then, or has failed.
LEMMA StartsNeeded ==
    ASSUME RebootInv, StartShutdownCritical
    PROVE  RebootInv'
<1>1. PICK o \in [Started -> StartOutcome] :
        /\ svc' = [s \in Service |-> IF s \in Started THEN Start(s, svc[s], o[s]) ELSE svc[s]]
        /\ lost' = {s \in Started : ~StartResult(svc[s], o[s])}
        /\ phase = "trigger" /\ phase' = "terminate" /\ list' = list /\ revived' = revived
  BY Zenon DEF StartShutdownCritical
<1>2. IInv /\ list \subseteq Service
  BY <1>1, ZenonT(30) DEF RebootInv, InReboot
<1>3. revived' = {} /\ Service \ Temporary \subseteq list'
  BY <1>1, ZenonT(30) DEF RebootInv, InReboot
<1>4. ASSUME NEW s \in Started
      PROVE  /\ svc'[s] \in ServiceObject
             /\ s \notin lost' => svc'[s].proc # "none"
  <2>1. s \in Service /\ s \in list /\ o[s] \in StartOutcome /\ svc'[s] = Start(s, svc[s], o[s])
    BY <1>1, <1>2, ZenonT(30) DEF Started
  <2>2. ServiceOK(s, svc[s], goal[s], TRUE)
    BY <1>2, <2>1, Zenon DEF IInv
  <2>3. ServiceOK(s, svc'[s], Asked(svc[s], o[s]), TRUE)
    BY <2>1, <2>2, StartOK, ZenonT(30)
  <2>4. ASSUME s \notin lost' PROVE "RUNNING" \in svc'[s].flags
    <3>1. StartResult(svc[s], o[s])
      BY <1>1, <2>4
    <3>2. svc[s] \in ServiceObject
      BY <2>2 DEF ServiceOK
    <3>3. CASE "RUNNING" \in svc[s].flags
      BY <2>1, <3>2, <3>3, ZenonT(30) DEF Start, AlreadyRunning, StartClears, ServiceObject
    <3>4. CASE "RUNNING" \notin svc[s].flags
      BY <2>1, <3>1, <3>2, <3>4, ZenonT(30) DEF StartResult, Start, Forked, NotifyStateChange, ServiceObject
    <3> QED
      BY <3>3, <3>4
  <2> QED
    BY <2>3, <2>4, ZenonT(30) DEF ServiceOK
<1>5. svc' \in [Service -> ServiceObject]
  BY <1>1, <1>4, ZenonT(30) DEF RebootInv
<1>6. NeededRun'
  BY <1>1, <1>4 DEF NeededRun, Needed, Started
<1> QED
  BY <1>1, <1>2, <1>3, <1>5, <1>6 DEF RebootInv, InReboot

\* The only processes a step of DoReboot starts are those of onrestart commands.
NoneStarted ==
    \A s \in Service : svc[s].proc = "none" /\ svc'[s].proc = "alive" => s \in revived'

\* The loops over the services.
LEMMA LoopSteps ==
    ASSUME RebootInv, TerminateServices \/ KillServices \/ StopVold \/ StopKillAfterApps
    PROVE  RebootInv' /\ NoneStarted
<1>1. /\ list \subseteq Service /\ svc \in [Service -> ServiceObject]
      /\ crit' = crit /\ lost' = lost /\ revived' = revived /\ Restartable' = Restartable
  BY ZenonT(30) DEF RebootInv, TerminateServices, KillServices, StopVold, StopKillAfterApps,
         Restartable
<1>2. ASSUME NEW S \in SUBSET Service, NEW member \in {"Terminate", "Stop"}, ForEach(S, member)
      PROVE  /\ list' = list /\ svc' \in [Service -> ServiceObject]
             /\ \A s \in S \cap list : "DISABLED" \in svc'[s].flags
             /\ \A s \in Service : /\ svc[s].proc = "none" <=> svc'[s].proc = "none"
                                   /\ svc'[s].proc = "alive" => svc[s].proc = "alive"
  BY <1>1, <1>2, LoopFacts, ZenonT(30)
<1>3. CASE TerminateServices
  <2>1. ForEach(Service \ crit, "Terminate") /\ phase = "terminate" /\ phase' = "wait"
    BY <1>3, ZenonT(30) DEF TerminateServices
  <2>2. /\ list' = list /\ svc' \in [Service -> ServiceObject]
        /\ \A s \in (Service \ crit) \cap list : "DISABLED" \in svc'[s].flags
        /\ \A s \in Service : /\ svc[s].proc = "none" <=> svc'[s].proc = "none"
                              /\ svc'[s].proc = "alive" => svc[s].proc = "alive"
    BY <1>2, <2>1, ZenonT(30)
  <2> QED
    BY <1>1, <2>1, <2>2 DEF RebootInv, NoneStarted, InReboot, NeededRun, Needed, Restartable
<1>4. CASE KillServices
  <2>1. /\ ForEach(Service \ crit, "Stop") /\ phase = "kill" /\ phase' = "reap"
        /\ killed' = {s \in Service \ crit : svc[s].proc # "none"}
    BY <1>4, ZenonT(30) DEF KillServices, Killed
  <2>2. /\ list' = list /\ svc' \in [Service -> ServiceObject]
        /\ \A s \in (Service \ crit) \cap list : "DISABLED" \in svc'[s].flags
        /\ \A s \in Service : /\ svc[s].proc = "none" <=> svc'[s].proc = "none"
                              /\ svc'[s].proc = "alive" => svc[s].proc = "alive"
    BY <1>2, <2>1, ZenonT(30)
  <2> QED
    BY <1>1, <2>1, <2>2, ZenonT(30) DEF RebootInv, NoneStarted, InReboot, NeededRun, Needed, Restartable
<1>5. CASE StopVold \/ StopKillAfterApps
  <2>1. PICK S \in SUBSET Service : ForEach(S, "Stop")
    BY <1>5, ShutdownAssumption, ZenonT(30) DEF StopVold, StopKillAfterApps
  <2>2. /\ phase \in {"vdc", "apps"} /\ phase' \in {"apps", "umount"} /\ killed' = killed
    BY <1>5, ZenonT(30) DEF StopVold, StopKillAfterApps
  <2>3. /\ list' = list /\ svc' \in [Service -> ServiceObject]
        /\ \A s \in Service : /\ svc[s].proc = "none" <=> svc'[s].proc = "none"
                              /\ svc'[s].proc = "alive" => svc[s].proc = "alive"
    BY <1>2, <2>1
  <2> QED
    BY <1>1, <2>2, <2>3, ZenonT(30) DEF RebootInv, NoneStarted, InReboot, NeededRun, Needed, Restartable
<1> QED
  BY <1>3, <1>4, <1>5, ZenonT(30)

\* A process exits, or is reaped.
LEMMA EndSteps ==
    ASSUME RebootInv, NEW s \in Service, ExitInReboot(s) \/ ReapInReboot(s)
    PROVE  RebootInv' /\ NoneStarted
<1>1. /\ svc \in [Service -> ServiceObject] /\ list \subseteq Service /\ InReboot
      /\ lost' = lost \cup {s} /\ UNCHANGED <<phase, crit>>
  BY DEF RebootInv, ExitInReboot, ReapInReboot, InReboot
<1>2. CASE ExitInReboot(s)
  <2>1. /\ svc' = [svc EXCEPT ![s].proc = "zombie"] /\ svc[s].proc = "alive"
        /\ UNCHANGED <<list, killed, revived>>
    BY <1>2 DEF ExitInReboot, Exit
  <2>2. /\ svc' \in [Service -> ServiceObject]
        /\ svc'[s].proc = "zombie" /\ svc'[s].flags = svc[s].flags
        /\ \A x \in Service : x # s => svc'[x] = svc[x]
    BY <1>1, <2>1, ZenonT(30) DEF ServiceObject
  <2>3. revived' \subseteq Restartable'
    BY <1>1, <2>1, ZenonT(30) DEF RebootInv, Restartable
  <2> QED
    BY <1>1, <2>1, <2>2, <2>3, ZenonT(30) DEF RebootInv, NoneStarted, InReboot, NeededRun, Needed
<1>3. CASE ReapInReboot(s)
  <2>1. phase \in {"wait", "reap"} /\ killed' = killed \ {s}
    BY <1>3, ZenonT(30) DEF ReapInReboot
  <2>2. CASE ReapOneProcess(s) /\ revived' = revived \cup (IF ReapStopped(svc[s]) THEN {}
                                                  ELSE OnRestart[s] \cup OnRestartExec[s])
    <3>1. /\ list' \subseteq Service /\ Service \ Temporary \subseteq list'
          /\ list' \ list \subseteq revived'
          /\ svc' \in [Service -> ServiceObject]
          /\ svc'[s].proc = "none" /\ svc[s].proc = "zombie"
          /\ s \in list
          /\ s \in list' /\ "DISABLED" \in svc[s].flags => "DISABLED" \in svc'[s].flags
          /\ \A x \in Service : x # s =>
                \/ svc'[x] = svc[x] /\ (x \in list' <=> x \in list)
                \/ x \in revived' /\ (svc[x].proc # "none" \/ x \notin list => svc'[x].proc # "none")
          /\ revived' # revived => s \in crit \cup revived
      BY <2>1, <2>2, ReapFacts, ZenonT(30)
    <3>2. revived' \subseteq Restartable'
      <4>1. Restartable \subseteq Restartable' /\ revived \subseteq revived'
        BY <1>1, <2>2, ZenonT(30) DEF Restartable
      <4>2. CASE revived' = revived
        BY <4>1, <4>2, ZenonT(30) DEF RebootInv
      <4>3. CASE revived' # revived
        <5>1. s \in (crit' \cap lost') \cup revived'
          BY <1>1, <3>1, <4>1, <4>3, ZenonT(30)
        <5>2. OnRestart[s] \cup OnRestartExec[s] \subseteq Restartable'
          BY <5>1, ZenonT(30) DEF Restartable
        <5> QED
          BY <2>2, <4>1, <5>2, ZenonT(30) DEF RebootInv
      <4> QED
        BY <4>2, <4>3
    <3>3. revived \subseteq revived'
      BY <2>2, ZenonT(30)
    <3>4. NeededRun'
      BY <1>1, <2>1, <3>1, <3>3, ZenonT(30) DEF RebootInv, InReboot, NeededRun, Needed
    <3>5. \A x \in list' \ (crit \cup revived') : "DISABLED" \in svc'[x].flags
      BY <2>1, <3>1, <3>3, ZenonT(30) DEF RebootInv
    <3>6. phase = "reap" =>
             \A x \in list' \ crit : svc'[x].proc = "alive" => x \in killed' \cup revived'
      BY <2>1, <3>1, <3>3, ZenonT(30) DEF RebootInv
    <3>7. NoneStarted
      BY <3>1, ZenonT(30) DEF NoneStarted
    <3> QED
      BY <1>1, <2>1, <3>1, <3>2, <3>4, <3>5, <3>6, <3>7, ZenonT(30) DEF RebootInv, InReboot
  <2>3. CASE ReapFatal(s) /\ revived' = revived
    <3>1. UNCHANGED <<list, svc>> /\ svc[s].proc = "zombie"
      BY <2>3, ZenonT(30) DEF ReapFatal
    <3>2. revived' \subseteq Restartable'
      BY <1>1, <2>3, ZenonT(30) DEF RebootInv, Restartable
    <3> QED
      BY <1>1, <2>1, <2>3, <3>1, <3>2, ZenonT(30) DEF RebootInv, NoneStarted, InReboot, NeededRun, Needed
  <2> QED
    BY <1>3, <2>2, <2>3, ZenonT(30) DEF ReapInReboot
<1> QED
  BY <1>2, <1>3, ZenonT(30)

\* Going on to the next phase, and steps that change nothing.
LEMMA PhaseSteps ==
    ASSUME RebootInv, \/ SkipTerminate \/ StopWaiting \/ TerminationTimeout \/ ReapDone
                      \/ SkipVold \/ ShutdownVold \/ UmountAndReboot \/ DoFsck \/ FsckEnds
                      \/ UNCHANGED allVars
    PROVE  RebootInv' /\ NoneStarted
<1>1. UNCHANGED <<list, svc, exec, waiting, fatal, goal, crit, lost, killed, revived>>
  BY ZenonT(30) DEF SkipTerminate, StopWaiting, TerminationTimeout, ReapDone, SkipVold, ShutdownVold,
         UmountAndReboot, DoFsck, FsckEnds, allVars, vars, shutdownVars
<1>2. \/ phase \in {"terminate", "wait"} /\ phase' = "kill"
      \/ phase = "reap" /\ phase' = "vold"
      \/ phase = "vold" /\ phase' \in {"vdc", "apps"}
      \/ phase \in {"umount", "fsck"} /\ phase' \in {"fsck", "off"}
      \/ phase' = phase
  BY ZenonT(30) DEF SkipTerminate, StopWaiting, TerminationTimeout, ReapDone, SkipVold, ShutdownVold,
         UmountAndReboot, DoFsck, FsckEnds, allVars, vars, shutdownVars
<1>3. IInv => IInv'
  BY <1>1, ZenonT(30) DEF IInv, TypeOK, ExecIsAwaited
<1>4. Restartable' = Restartable
  BY <1>1, ZenonT(30) DEF Restartable
<1> QED
  BY <1>1, <1>2, <1>3, <1>4, ZenonT(30) DEF RebootInv, NoneStarted, InReboot, NeededRun, Needed

\* One step of KilledForGood.
ForGood ==
    /\ OthersKilled' /\ NeededRun' /\ revived' \subseteq Restartable'
    /\ InReboot => \A s \in Service :
          svc[s].proc = "none" /\ svc'[s].proc = "alive" => s \in revived'

\* Every step keeps the invariant, and once the shutdown's own services have been started
\* only onrestart commands start processes.
LEMMA RebootStep ==
    ASSUME RebootInv, [ShutdownNext]_allVars
    PROVE  RebootInv' /\ ForGood
<1>1. RebootInv' /\ (InReboot => NoneStarted)
  <2>1. StartShutdownCritical => ~InReboot
    BY ZenonT(30) DEF StartShutdownCritical, InReboot
  <2> QED
    BY <2>1, BeforeReboot, StartsNeeded, LoopSteps, EndSteps, PhaseSteps, ZenonT(30)
    DEF ShutdownNext, DoReboot, ChildEnds
<1>2. RebootInv' => OthersKilled' /\ NeededRun' /\ revived' \subseteq Restartable'
  BY DEF RebootInv, OthersKilled
<1> QED
  BY <1>1, <1>2 DEF ForGood, NoneStarted

\* DoReboot kills all services but the ones it needs and those that resist SIGKILL, and
\* only the onrestart commands of the services it spares, and of those restarted so, bring
\* one back, for any services and options.
THEOREM KilledStayDown == ShutdownSpec => KilledForGood
<1>1. ShutdownInit => RebootInv
  <2> SUFFICES ASSUME ShutdownInit PROVE RebootInv
    OBVIOUS
  <2>1. IInv /\ phase = "up" /\ revived = {}
    BY InitInv, ZenonT(30) DEF ShutdownInit
  <2>2. /\ list \subseteq Service /\ svc \in [Service -> ServiceObject]
        /\ Service \ Temporary \subseteq list
    BY <2>1, ZenonT(30) DEF IInv, TypeOK, ServiceOK
  <2> QED
    BY <2>1, <2>2, ZenonT(30) DEF RebootInv, InReboot, NeededRun
<1>2. RebootInv /\ [ShutdownNext]_allVars => RebootInv' /\ [ForGood]_allVars
  BY RebootStep, ZenonT(30)
<1> QED
  BY <1>1, <1>2, PTL DEF ShutdownSpec, KilledForGood, ForGood

-----------------------------------------------------------------------------
(* CriticalService: for every limit and window                              *)

\* Init establishes the inductive invariant.
LEMMA CriticalInitInv == CriticalInit => CriticalInv
  <1> SUFFICES ASSUME CriticalInit PROVE CriticalInv
    OBVIOUS
  <1>1. exits \in Seq(Nat) /\ Len(exits) = 0 /\ DOMAIN exits = {}
    BY DEF CriticalInit
  <1>2. CriticalTypeOK
    <2>1. now \in Nat /\ started \in Nat /\ crashed \in Nat /\ count \in 0..(Limit + 1)
      BY CriticalAssumption DEF CriticalInit
    <2>2. running \in BOOLEAN /\ aborted \in BOOLEAN
      BY ZenonT(30) DEF CriticalInit
    <2>3. QED
      BY <1>1, <2>1, <2>2 DEF CriticalTypeOK
  <1>3. QED
    BY <1>1, <1>2, CriticalAssumption DEF CriticalInit, CriticalInv

\* Steps that leave the crash record alone: the clock, a restart, a start.
LEMMA QuietStep ==
  ASSUME CriticalInv,
         UNCHANGED <<crashed, count, aborted, exits>>,
         now' \in Nat, now' >= now, running' \in BOOLEAN, started' \in Nat
  PROVE  CriticalInv'
  <1>1. CriticalTypeOK'
    BY DEF CriticalInv, CriticalTypeOK
  <1>2. (\A i \in DOMAIN exits : exits[i] <= now)' /\ crashed' <= now'
    <2>1. /\ \A i \in DOMAIN exits : exits[i] \in Nat /\ exits[i] <= now
          /\ crashed \in Nat /\ crashed <= now /\ now \in Nat
      BY SMTT(30) DEF CriticalInv, CriticalTypeOK
    <2>2. QED
      BY <2>1
  <1>3. QED
    BY <1>1, <1>2 DEF CriticalInv

\* What the exits look like after one more at the present time.
LEMMA Appended ==
  ASSUME CriticalInv, exits' = Append(exits, now)
  PROVE  /\ exits' \in Seq(Nat)
         /\ Len(exits') = Len(exits) + 1
         /\ DOMAIN exits' = 1..(Len(exits) + 1)
         /\ DOMAIN exits = 1..Len(exits)
         /\ \A i \in DOMAIN exits : exits'[i] = exits[i]
         /\ exits'[Len(exits) + 1] = now
         /\ Len(exits) \in Nat
         /\ \A i, j \in DOMAIN exits' : i <= j => exits'[i] <= exits'[j]
         /\ \A i \in DOMAIN exits' : exits'[i] <= now
  <1>1. exits \in Seq(Nat) /\ now \in Nat
    BY DEF CriticalInv, CriticalTypeOK
  <1>2. /\ exits' \in Seq(Nat)
        /\ Len(exits') = Len(exits) + 1
        /\ DOMAIN exits' = 1..(Len(exits) + 1)
        /\ DOMAIN exits = 1..Len(exits)
        /\ \A i \in DOMAIN exits : exits'[i] = exits[i]
        /\ exits'[Len(exits) + 1] = now
        /\ Len(exits) \in Nat
    BY <1>1, SMTT(30)
  <1>3. \A i \in DOMAIN exits' : exits'[i] <= now
    BY <1>1, <1>2, SMTT(30) DEF CriticalInv
  <1>4. \A i, j \in DOMAIN exits' : i <= j => exits'[i] <= exits'[j]
    <2>1. SUFFICES ASSUME NEW i \in DOMAIN exits', NEW j \in DOMAIN exits', i <= j
                   PROVE  exits'[i] <= exits'[j]
      BY ZenonT(30)
    <2>2. CASE j = Len(exits) + 1
      BY <2>2, <1>2, <1>3, ZenonT(30)
    <2>3. CASE j # Len(exits) + 1
      BY <2>1, <2>3, <1>2, SMTT(30) DEF CriticalInv
    <2>4. QED
      BY <2>2, <2>3, ZenonT(30)
  <1>5. QED
    BY <1>2, <1>3, <1>4, ZenonT(30)

\* One more exit in the current window.
LEMMA InWindowStep ==
  ASSUME CriticalInv, ReapInWindow
  PROVE  CriticalInv'
  <1> USE CriticalAssumption
  <1>0. aborted' = (count + 1 > Limit)
    BY ZenonT(30) DEF ReapInWindow, TooMany
  <1>1. /\ exits' = Append(exits, now) /\ count' = count + 1
        /\ ~aborted /\ running' = FALSE /\ now' = now /\ started' = started /\ crashed' = crashed
        /\ now < crashed + Window
    BY ZenonT(30) DEF ReapInWindow, InWindow, TooMany
  <1>2. /\ now \in Nat /\ started \in Nat /\ crashed \in Nat /\ count \in Nat
        /\ count <= Limit /\ count <= Len(exits) /\ crashed <= now
    BY <1>1 DEF CriticalInv, CriticalTypeOK
  <1>a. aborted' \in BOOLEAN
    BY <1>0
  <1>b. aborted' <=> count + 1 > Limit
    BY <1>0, Zenon
  <1>3. CriticalTypeOK'
    <2>1. now' \in Nat /\ started' \in Nat /\ crashed' \in Nat /\ count' \in 0..(Limit + 1)
      BY <1>1, <1>2
    <2>2. running' \in BOOLEAN
      BY <1>1, ZenonT(30)
    <2>3. exits' \in Seq(Nat)
      BY <1>1, Appended
    <2>4. QED
      BY <2>1, <2>2, <2>3, <1>a DEF CriticalTypeOK
  <1>4. /\ count' <= Len(exits')
        /\ ~aborted' => count' <= Limit
        /\ aborted' => count' = Limit + 1 /\ exits'[Len(exits')] < crashed' + Window
    <2>1. /\ count' <= Len(exits') /\ exits'[Len(exits')] < crashed' + Window
          /\ ~(count + 1 > Limit) => count' <= Limit
          /\ count + 1 > Limit => count' = Limit + 1
      BY <1>1, <1>2, Appended
    <2>2. QED
      BY <2>1, <1>b
  <1>5. \A i \in DOMAIN exits' : i > Len(exits') - count' => exits'[i] >= crashed'
    <2>1. SUFFICES ASSUME NEW i \in DOMAIN exits', i > Len(exits') - count'
                   PROVE  exits'[i] >= crashed'
      BY ZenonT(30)
    <2>2. CASE i = Len(exits) + 1
      BY <2>2, <1>1, <1>2, Appended, ZenonT(30)
    <2>3. CASE i # Len(exits) + 1
      <3>1. i \in DOMAIN exits /\ i > Len(exits) - count
        BY <2>1, <2>3, <1>1, <1>2, Appended, SMTT(30)
      <3>2. exits[i] >= crashed
        BY <3>1, ZenonT(30) DEF CriticalInv
      <3>3. QED
        BY <3>1, <3>2, <1>1, Appended, ZenonT(30)
    <2>4. QED
      BY <2>2, <2>3, ZenonT(30)
  <1>6. count' < Len(exits') => exits'[Len(exits') - count' + 1] = crashed' /\ count' > 0
    BY <1>1, <1>2, Appended, SMTT(30) DEF CriticalInv
  <1>7. \A i \in DOMAIN exits' : i <= Len(exits') - count' - Limit => exits'[i] + Window <= crashed'
    <2>1. SUFFICES ASSUME NEW i \in DOMAIN exits', i <= Len(exits') - count' - Limit
                   PROVE  exits'[i] + Window <= crashed'
      BY ZenonT(30)
    <2>2. i \in DOMAIN exits /\ i <= Len(exits) - count - Limit
      BY <2>1, <1>1, <1>2, Appended, SMTT(30)
    <2>3. exits'[i] = exits[i]
      BY <2>2, <1>1, Appended, ZenonT(30)
    <2>4. exits[i] + Window <= crashed
      BY <2>2, ZenonT(30) DEF CriticalInv
    <2>5. QED
      BY <2>3, <2>4, <1>1, ZenonT(30)
  <1>8. QED
    BY <1>1, <1>2, <1>3, <1>4, <1>5, <1>6, <1>7, Appended, ZenonT(30) DEF CriticalInv

\* An exit that begins a new window.
LEMMA NewWindowStep ==
  ASSUME CriticalInv, ReapNewWindow
  PROVE  CriticalInv'
  <1> USE CriticalAssumption
  <1>1. /\ exits' = Append(exits, now) /\ count' = 1 /\ ~aborted'
        /\ ~aborted /\ running' = FALSE /\ now' = now /\ started' = started /\ crashed' = now
        /\ ~(now < crashed + Window)
    BY ZenonT(30) DEF ReapNewWindow, InWindow
  <1>2. /\ now \in Nat /\ started \in Nat /\ crashed \in Nat /\ count \in Nat
        /\ count <= Limit /\ count <= Len(exits) /\ crashed <= now
    BY <1>1, SMTT(30) DEF CriticalInv, CriticalTypeOK
  <1>a. aborted' \in BOOLEAN
    BY ZenonT(30) DEF ReapNewWindow, CriticalInv, CriticalTypeOK
  <1>3. CriticalTypeOK'
    <2>1. now' \in Nat /\ started' \in Nat /\ crashed' \in Nat /\ count' \in 0..(Limit + 1)
      BY <1>1, <1>2, SMTT(30)
    <2>2. running' \in BOOLEAN
      BY <1>1, ZenonT(30)
    <2>3. exits' \in Seq(Nat)
      BY <1>1, Appended
    <2>4. QED
      BY <2>1, <2>2, <2>3, <1>a DEF CriticalTypeOK
  <1>4. \A i \in DOMAIN exits' : i > Len(exits') - count' => exits'[i] >= crashed'
    BY <1>1, <1>2, Appended
  <1>5. exits'[Len(exits') - count' + 1] = crashed'
    BY <1>1, <1>2, Appended
  <1>6. \A i \in DOMAIN exits' : i <= Len(exits') - count' - Limit => exits'[i] + Window <= crashed'
    <2>1. SUFFICES ASSUME NEW i \in DOMAIN exits', i <= Len(exits') - count' - Limit
                   PROVE  exits'[i] + Window <= crashed'
      OBVIOUS
    <2>2. i \in DOMAIN exits /\ i <= Len(exits) - count /\ count < Len(exits)
      BY <2>1, <1>1, <1>2, Appended, SMTT(30)
    <2>3. exits[Len(exits) - count + 1] = crashed /\ Len(exits) - count + 1 \in DOMAIN exits
      BY <2>2, <1>1, <1>2, Appended, SMTT(30) DEF CriticalInv
    <2>4. exits[i] <= crashed
      BY <2>2, <2>3, <1>1, <1>2, Appended, SMTT(30) DEF CriticalInv
    <2>5. exits'[i] = exits[i] /\ exits[i] \in Nat
      <3>1. exits'[i] = exits[i]
        BY <2>2, <1>1, Appended, ZenonT(30)
      <3>2. exits[i] \in Nat
        BY <2>2, SMTT(30) DEF CriticalInv, CriticalTypeOK
      <3>3. QED
        BY <3>1, <3>2, ZenonT(30)
    <2>6. QED
      BY <2>4, <2>5, <1>1, <1>2, SMTT(30)
  <1>7. QED
    BY <1>1, <1>2, <1>3, <1>4, <1>5, <1>6, Appended, SMTT(30) DEF CriticalInv

\* Every step preserves the invariant.
LEMMA CriticalNextInv ==
  ASSUME CriticalInv, [CriticalNext]_criticalVars
  PROVE  CriticalInv'
  <1>1. CASE Tick
    <2>1. /\ UNCHANGED <<running, started, crashed, count, aborted, exits>>
          /\ now' \in Nat /\ now' >= now
      BY <1>1, SMTT(30) DEF Tick, CriticalInv, CriticalTypeOK
    <2>2. running \in BOOLEAN /\ started \in Nat
      BY ZenonT(30) DEF CriticalInv, CriticalTypeOK
    <2>3. QED
      BY <2>1, <2>2, QuietStep, ZenonT(30)
  <1>2. CASE CriticalRestart \/ CriticalControlStart
    <2>1. CriticalStart
      BY <1>2 DEF CriticalRestart, CriticalControlStart
    <2>2. running' \in BOOLEAN
      BY <2>1, ZenonT(30) DEF CriticalStart
    <2>3. /\ UNCHANGED <<crashed, count, aborted, exits>>
          /\ now' \in Nat /\ now' >= now /\ started' \in Nat
      BY <2>1, SMTT(30) DEF CriticalStart, CriticalInv, CriticalTypeOK
    <2>4. QED
      BY <2>2, <2>3, QuietStep
  <1>3. CASE ReapRestart
    BY <1>3, QuietStep, Zenon DEF ReapRestart, CriticalInv, CriticalTypeOK
  <1>4. CASE ReapInWindow
    BY <1>4, InWindowStep
  <1>5. CASE ReapNewWindow
    BY <1>5, NewWindowStep
  <1>6. CASE UNCHANGED criticalVars
    BY <1>6, QuietStep DEF criticalVars, CriticalInv, CriticalTypeOK
  <1>7. QED
    BY <1>1, <1>2, <1>3, <1>4, <1>5, <1>6 DEF CriticalNext

\* The crash record kept by Reap() always describes the exits of the current window.
THEOREM CriticalInvariance == CriticalSpec => []CriticalInv
  BY CriticalInitInv, CriticalNextInv, PTL DEF CriticalSpec

\* When init aborts, more than Limit exits lie within one window.
LEMMA InvAlarm == CriticalInv => NoFalseAlarm
  <1> SUFFICES ASSUME CriticalInv, aborted
               PROVE  Len(exits) > Limit /\ exits[Len(exits) - Limit] + Window > exits[Len(exits)]
    BY DEF NoFalseAlarm
  <1>1. /\ count = Limit + 1 /\ exits[Len(exits)] < crashed + Window /\ count <= Len(exits)
        /\ \A i \in DOMAIN exits : i > Len(exits) - count => exits[i] >= crashed
        /\ exits \in Seq(Nat) /\ crashed \in Nat
    BY DEF CriticalInv, CriticalTypeOK
  <1>2. Len(exits) - Limit \in DOMAIN exits /\ Len(exits) \in DOMAIN exits
    BY <1>1, CriticalAssumption, SMTT(30)
  <1>3. exits[Len(exits) - Limit] >= crashed /\ exits[Len(exits) - Limit] \in Nat
        /\ exits[Len(exits)] \in Nat
    BY <1>1, <1>2, CriticalAssumption, SMTT(30)
  <1>4. QED
    BY <1>1, <1>2, <1>3, CriticalAssumption, SMTT(30)

\* Without an abort, exits that are 2 * Limit apart are a window apart.
LEMMA InvTwice == CriticalInv => TwiceLimitHolds
  <1> SUFFICES ASSUME CriticalInv, ~aborted, Len(exits) > 2 * Limit
               PROVE  ~(exits[Len(exits) - 2 * Limit] + Window > exits[Len(exits)])
    BY DEF TwiceLimitHolds
  <1>1. /\ exits \in Seq(Nat) /\ crashed \in Nat /\ count \in Nat /\ count <= Limit
        /\ count < Len(exits) => count > 0
        /\ \A i \in DOMAIN exits : i > Len(exits) - count => exits[i] >= crashed
        /\ \A i \in DOMAIN exits : i <= Len(exits) - count - Limit => exits[i] + Window <= crashed
    BY CriticalAssumption DEF CriticalInv, CriticalTypeOK
  <1>2. /\ Len(exits) \in Nat /\ DOMAIN exits = 1..Len(exits)
        /\ \A i \in DOMAIN exits : exits[i] \in Nat
    BY <1>1, SMTT(30)
  <1>3. Len(exits) \in DOMAIN exits /\ Len(exits) - 2 * Limit \in DOMAIN exits /\ count > 0
    BY <1>1, <1>2, CriticalAssumption, SMTT(30)
  <1>4. exits[Len(exits) - 2 * Limit] + Window <= crashed
    <2>1. Len(exits) - 2 * Limit <= Len(exits) - count - Limit
      BY <1>1, <1>2, CriticalAssumption, SMTT(30)
    <2>2. QED
      BY <1>1, <1>3, <2>1, ZenonT(30)
  <1>5. exits[Len(exits)] >= crashed
    <2>1. Len(exits) > Len(exits) - count
      BY <1>1, <1>2, <1>3
    <2>2. QED
      BY <1>1, <1>3, <2>1, ZenonT(30)
  <1>6. QED
    BY <1>1, <1>2, <1>3, <1>4, <1>5, CriticalAssumption, SMTT(30)

\* init never aborts for exits that are spread over more than a window.
THEOREM NeverFalseAlarm == CriticalSpec => []NoFalseAlarm
  BY CriticalInvariance, InvAlarm, PTL

\* Of exits within one window, number 2 * Limit + 1 at the latest makes init abort.
THEOREM TwiceLimitAlwaysHolds == CriticalSpec => []TwiceLimitHolds
  BY CriticalInvariance, InvTwice, PTL

\* The crash record is well-typed; the count never passes Limit + 1.
THEOREM CriticalTypeCorrect == CriticalSpec => []CriticalTypeOK
  <1>1. CriticalInv => CriticalTypeOK
    BY DEF CriticalInv
  <1>2. QED
    BY CriticalInvariance, <1>1, PTL
=============================================================================
