-------------------------- MODULE TombstonedProofs --------------------------
(***************************************************************************)
(* Proofs that the safety properties of Tombstoned hold for every number   *)
(* of connections, processes, dump slots and artifact files.               *)
(***************************************************************************)
EXTENDS Tombstoned, FiniteSetTheorems, SequenceTheorems, TLAPS

CrashRecord ==
  [status : {"free", "accepted", "queued", "running"},
   type : DumpType \cup {None}, pid : Pid \cup {None},
   output : Outputs]

InterceptRecord ==
  [status : {"free", "accepted", "registered"},
   pid : Pid \cup {None}, type : DumpType \cup {None}]

\* for_crash always names one of the two queues.
LEMMA QueueOfType == \A t : QueueOf(t) \in Queues
  BY DEF QueueOf, Queues

\* The running dumps of a queue are finitely many.
LEMMA RunningFinite == \A q : IsFiniteSet(Running(q)) /\ Cardinality(Running(q)) \in Nat
<1> SUFFICES ASSUME NEW q
             PROVE  IsFiniteSet(Running(q)) /\ Cardinality(Running(q)) \in Nat
  OBVIOUS
<1>1. Running(q) \in SUBSET Crash
  BY DEF Running
<1> QED
  BY <1>1, FS_Subset, FS_CardinalityType, ConstantsAssumption

\* A deleted Crash and a fresh Intercept have their types.
LEMMA FreeTypes == FreeCrash \in CrashRecord /\ FreeIntercept \in InterceptRecord
  BY DEF FreeCrash, FreeIntercept, CrashRecord, InterceptRecord, Outputs

\* What speaks of the crashes and the queues only is kept by a step that changes
\* neither.
LEMMA OwnershipFrame ==
  ASSUME CrashOwnership, crash' = crash, queue' = queue
  PROVE  CrashOwnership'
  BY DEF CrashOwnership

\* The counters stay right when no crash changes.
LEMMA CountsFrame ==
  ASSUME ConcurrencyBound, crash' = crash, num' = num
  PROVE  ConcurrencyBound'
<1>1. \A q \in Queues : Running(q)' = Running(q)
  BY DEF Running
<1> QED
  BY <1>1 DEF ConcurrencyBound

\* The idle event loop drains no queue.
LEMMA NoneIsNoQueue == \A q \in Queues : None # q
  BY ConstantsAssumption

\* The initial state satisfies the inductive invariant.
LEMMA InitInv == Init => IInv
<1> SUFFICES ASSUME Init PROVE IInv
  OBVIOUS
<1>1. TypeOK
  BY FreeTypes DEF Init, TypeOK, CrashRecord, InterceptRecord, AllArtifacts, Artifacts
<1>2. FieldsSet
  BY DEF Init, FieldsSet, FreeCrash, FreeIntercept
<1>3. ConcurrencyBound
  <2>1. \A q \in Queues : Running(q) = {}
    BY DEF Init, Running, FreeCrash
  <2>2. Cardinality({}) = 0
    BY FS_EmptySet
  <2>3. \A q \in Queues : MaxDumps[q] \in Nat
    BY ConstantsAssumption
  <2>4. \A q \in Queues : num[q] = 0
    BY DEF Init
  <2> QED
    BY <2>1, <2>2, <2>3, <2>4 DEF ConcurrencyBound
<1>4. NoStrandedRequest
  BY DEF Init, NoStrandedRequest
<1>5. CrashOwnership
  BY DEF Init, CrashOwnership, FreeCrash
<1>6. InterceptTable
  BY ConstantsAssumption DEF Init, InterceptTable, FreeIntercept
<1>7. InterceptedByRequest
  BY DEF Init, InterceptedByRequest, FreeCrash, NoOutput
<1> QED
  BY <1>1, <1>2, <1>3, <1>4, <1>5, <1>6, <1>7 DEF IInv

-----------------------------------------------------------------------------
(***************************************************************************)
(* perform_request, called with the request r of connection c: the part of *)
(* the invariant that does not speak of the queues is preserved, and the   *)
(* dump is counted exactly when it runs.                                   *)
(***************************************************************************)
PerformHypothesis(c, r) ==
  /\ IInv
  /\ c \in Crash
  /\ r \in CrashRecord
  /\ r.type \in DumpType /\ r.pid \in Pid
  /\ r.type = "JavaBacktrace" => r.pid = Peer[c]
  /\ crash[c].status # "running"
  /\ num[QueueOf(r.type)] < MaxDumps[QueueOf(r.type)]
  /\ PerformRequest(c, r)

\* The output handed to a crash has its type, and comes from an interceptor that
\* asked for it or from the ring.
LEMMA OutputForType ==
  ASSUME NEW c, NEW r, PerformHypothesis(c, r)
  PROVE  /\ OutputFor(r) \in Outputs
         /\ OutputFor(r).kind = "intercept" =>
              /\ OutputFor(r).pid = r.pid
              /\ r.type \in {"AnyIntercept", OutputFor(r).type}
<1>1. CASE Intercepted(r)
  <2> DEFINE i == intercepts[r.pid]
  <2>1. i \in Intercept /\ r.pid \in Pid
    BY <1>1 DEF PerformHypothesis, IInv, TypeOK, Intercepted
  <2>2. intercept[i].status = "registered" /\ intercept[i].pid = r.pid
    BY <2>1 DEF PerformHypothesis, IInv, InterceptTable
  <2>3. intercept[i].type \in DumpType
    BY <2>1, <2>2 DEF PerformHypothesis, IInv, FieldsSet
  <2>4. OutputFor(r) = InterceptOutput(r.pid, intercept[i].type)
    BY <1>1, <2>2 DEF OutputFor
  <2> QED
    BY <1>1, <2>1, <2>3, <2>4 DEF InterceptOutput, Outputs, Intercepted
<1>2. CASE ~Intercepted(r)
  <2>1. OutputFor(r) = FileOutput(next[QueueOf(r.type)])
    BY <1>2 DEF OutputFor
  <2>2. next[QueueOf(r.type)] \in AllArtifacts
    BY QueueOfType DEF PerformHypothesis, IInv, TypeOK, AllArtifacts
  <2> QED
    BY <2>1, <2>2 DEF FileOutput, Outputs
<1> QED
  BY <1>1, <1>2, SMTT(30)

\* What a request that is performed becomes: a running dump, or nothing.
LEMMA PerformCrash ==
  ASSUME NEW c, NEW r, PerformHypothesis(c, r)
  PROVE  \/ /\ crash' = [crash EXCEPT ![c] =
                           [r EXCEPT !.status = "running", !.output = OutputFor(r)]]
            /\ num' = [num EXCEPT ![QueueOf(r.type)] = @ + 1]
         \/ crash' = [crash EXCEPT ![c] = FreeCrash] /\ num' = num
  BY DEF PerformHypothesis, PerformRequest, DeleteCrash

\* The types and the fields of the crashes and the intercepts.
LEMMA PerformTypes ==
  ASSUME NEW c, NEW r, PerformHypothesis(c, r)
  PROVE  /\ crash' \in [Crash -> CrashRecord]
         /\ num' \in [Queues -> Int]
         /\ next' \in [Queues -> Nat] /\ \A q \in Queues : next'[q] \in Artifacts(q)
         /\ intercept' \in [Intercept -> InterceptRecord]
         /\ intercepts' \in [Pid -> Intercept \cup {None}]
         /\ FieldsSet'
         /\ InterceptTable'
         /\ InterceptedByRequest'
<1> DEFINE run == [r EXCEPT !.status = "running", !.output = OutputFor(r)]
<1>1. run \in CrashRecord /\ run.status = "running" /\ run.type = r.type
        /\ run.pid = r.pid /\ run.output = OutputFor(r)
  BY OutputForType, ZenonT(30) DEF PerformHypothesis, CrashRecord
<1>2. crash \in [Crash -> CrashRecord] /\ c \in Crash
  BY DEF PerformHypothesis, IInv, TypeOK, CrashRecord
<1>3. crash' \in [Crash -> CrashRecord]
  BY <1>1, <1>2, PerformCrash, FreeTypes, Zenon
<1>4. num' \in [Queues -> Int]
  <2>1. num \in [Queues -> Int] /\ QueueOf(r.type) \in Queues
    BY QueueOfType, SMTT(30) DEF PerformHypothesis, IInv, TypeOK
  <2>2. num' = num \/ num' = [num EXCEPT ![QueueOf(r.type)] = @ + 1]
    BY PerformCrash, Zenon
  <2> QED
    BY <2>1, <2>2
<1>5. /\ next' \in [Queues -> Nat] /\ \A q \in Queues : next'[q] \in Artifacts(q)
      /\ intercept' \in [Intercept -> InterceptRecord]
      /\ intercepts' \in [Pid -> Intercept \cup {None}]
      /\ \A i \in Intercept : intercept'[i].status = "registered" =>
           intercept'[i].type \in DumpType /\ intercept'[i].pid \in Pid
      /\ InterceptTable'
  <2>1. CASE Intercepted(r)
    <3> DEFINE j == intercepts[r.pid]
    <3>1. j \in Intercept /\ r.pid \in Pid
      BY <2>1 DEF PerformHypothesis, IInv, TypeOK, Intercepted
    <3>2. intercept[j].status = "registered" /\ intercept[j].pid = r.pid
      BY <3>1 DEF PerformHypothesis, IInv, InterceptTable
    <3>3. /\ intercepts' = [intercepts EXCEPT ![r.pid] = None]
          /\ intercept' = [intercept EXCEPT ![j] = FreeIntercept]
          /\ next' = next
      BY <2>1 DEF PerformHypothesis, PerformRequest, TakeOutput, TakeIntercept
    <3>4. intercept \in [Intercept -> InterceptRecord] /\ intercepts \in [Pid -> Intercept \cup {None}]
      BY DEF PerformHypothesis, IInv, TypeOK, InterceptRecord
    <3>5. InterceptTable'
      BY <3>1, <3>2, <3>3, <3>4, ConstantsAssumption, SMTT(30)
      DEF PerformHypothesis, IInv, InterceptTable, FreeIntercept
    <3> QED
      BY <3>1, <3>3, <3>4, <3>5, FreeTypes, SMTT(30) DEF PerformHypothesis, IInv, TypeOK, FieldsSet, FreeIntercept
  <2>2. CASE ~Intercepted(r)
    <3> DEFINE q == QueueOf(r.type)
    <3>1. next' = [next EXCEPT ![q] = (@ + 1) % MaxArtifacts[q]] /\ intercept' = intercept /\ intercepts' = intercepts
      BY <2>2 DEF PerformHypothesis, PerformRequest, TakeOutput, GetOutput, interceptVars
    <3>2. MaxArtifacts[q] \in Nat \ {0} /\ q \in Queues
      BY QueueOfType, ConstantsAssumption
    <3>3. next[q] \in Nat
      BY <3>2 DEF PerformHypothesis, IInv, TypeOK
    <3>4. (next[q] + 1) % MaxArtifacts[q] \in Artifacts(q)
      BY <3>2, <3>3, SMTT(30) DEF Artifacts
    <3>5. next' \in [Queues -> Nat] /\ \A k \in Queues : next'[k] \in Artifacts(k)
      BY <3>1, <3>2, <3>4, SMTT(30) DEF PerformHypothesis, IInv, TypeOK, Artifacts
    <3> QED
      BY <3>1, <3>5 DEF PerformHypothesis, IInv, TypeOK, InterceptRecord, FieldsSet, InterceptTable
  <2> QED
    BY <2>1, <2>2, SMTT(30)
<1>6. /\ \A d \in Crash : d # c => crash'[d] = crash[d]
      /\ crash'[c] = run \/ crash'[c] = FreeCrash
  BY <1>2, PerformCrash, Zenon
<1> HIDE DEF run
<1>7. FieldsSet'
  <2>1. /\ r.type \in DumpType /\ r.pid \in Pid
        /\ r.type = "JavaBacktrace" => r.pid = Peer[c]
    BY DEF PerformHypothesis
  <2>2. \A d \in Crash : /\ crash'[d].status \in {"queued", "running"} =>
                              /\ crash'[d].type \in DumpType /\ crash'[d].pid \in Pid
                              /\ crash'[d].type = "JavaBacktrace" => crash'[d].pid = Peer[d]
                         /\ crash'[d].status # "running" => crash'[d].output = NoOutput
    BY <1>1, <1>6, <2>1, SMTT(30) DEF PerformHypothesis, IInv, FieldsSet, FreeCrash
  <2> QED
    BY <1>5, <2>2 DEF FieldsSet
<1>8. InterceptedByRequest'
  <2>1. r.type = "JavaBacktrace" => r.pid = Peer[c]
    BY DEF PerformHypothesis
  <2>2. OutputFor(r).kind = "intercept" =>
          OutputFor(r).pid = r.pid /\ r.type \in {"AnyIntercept", OutputFor(r).type}
    BY OutputForType
  <2>3. FreeCrash.output.kind # "intercept"
    BY SMTT(30) DEF FreeCrash, NoOutput
  <2> QED
    BY <1>1, <1>6, <2>1, <2>2, <2>3, SMTT(30) DEF PerformHypothesis, IInv, InterceptedByRequest
<1> QED
  BY <1>3, <1>4, <1>5, <1>7, <1>8, SMTT(30)

\* The slots stay counted exactly and within the bound.
LEMMA PerformCounts ==
  ASSUME NEW c, NEW r, PerformHypothesis(c, r)
  PROVE  ConcurrencyBound'
<1> DEFINE k == QueueOf(r.type)
<1>1. crash \in [Crash -> CrashRecord] /\ c \in Crash /\ r \in CrashRecord
  BY DEF PerformHypothesis, IInv, TypeOK, CrashRecord
<1>2. \A q \in Queues : MaxDumps[q] \in Nat
  BY ConstantsAssumption
<1>3. CASE crash' = [crash EXCEPT ![c] = FreeCrash] /\ num' = num
  <2>1. \A q \in Queues : Running(q)' = Running(q)
    BY <1>1, <1>3 DEF Running, FreeCrash, PerformHypothesis
  <2> QED
    BY <2>1, <1>3 DEF PerformHypothesis, IInv, ConcurrencyBound
<1>4. CASE /\ crash' = [crash EXCEPT ![c] =
                          [r EXCEPT !.status = "running", !.output = OutputFor(r)]]
           /\ num' = [num EXCEPT ![k] = @ + 1]
  <2>1. k \in Queues /\ num \in [Queues -> Int]
    BY QueueOfType DEF PerformHypothesis, IInv, TypeOK
  <2>2. crash'[c].status = "running" /\ crash'[c].type = r.type
    BY <1>1, <1>4 DEF CrashRecord
  <2>3. \A d \in Crash : d # c => crash'[d] = crash[d]
    BY <1>1, <1>4
  <2>4. Running(k)' = Running(k) \cup {c} /\ c \notin Running(k)
    BY <1>1, <2>2, <2>3 DEF Running, PerformHypothesis
  <2>5. \A q \in Queues : q # k => Running(q)' = Running(q)
    BY <1>1, <2>2, <2>3 DEF Running, PerformHypothesis
  <2>6. Cardinality(Running(k)') = Cardinality(Running(k)) + 1
    BY <2>4, RunningFinite, FS_AddElement
  <2>7. num'[k] = num[k] + 1 /\ \A q \in Queues : q # k => num'[q] = num[q]
    BY <1>4, <2>1
  <2> QED
    BY <1>2, <2>1, <2>5, <2>6, <2>7, SMTT(30) DEF PerformHypothesis, IInv, ConcurrencyBound
<1> QED
  BY <1>3, <1>4, PerformCrash, Zenon

-----------------------------------------------------------------------------
(***************************************************************************)
(* The callbacks, one lemma each.                                          *)
(***************************************************************************)

\* crash_accept_cb and the failures of crash_request_cb touch one crash that is in
\* no queue and does not run.
LEMMA CrashIdleStep ==
  ASSUME IInv, NEW c \in Crash, CrashAccept(c) \/ CrashRequestFail(c)
  PROVE  IInv'
<1>1. /\ crash \in [Crash -> CrashRecord]
      /\ crash[c].status \notin {"queued", "running"}
  BY Zenon DEF IInv, TypeOK, CrashRecord, CrashAccept, CrashRequestFail
<1>2. PICK r \in CrashRecord :
        /\ crash' = [crash EXCEPT ![c] = r]
        /\ r.status \in {"free", "accepted"}
        /\ r.output = NoOutput
  <2>1. CASE CrashAccept(c)
    <3>1. crash' = [crash EXCEPT ![c] = [FreeCrash EXCEPT !.status = "accepted"]]
      BY <2>1, Zenon DEF CrashAccept
    <3> DEFINE a == [FreeCrash EXCEPT !.status = "accepted"]
    <3>2. /\ a \in CrashRecord
          /\ a.status = "accepted" /\ a.output = NoOutput
      BY FreeTypes, Zenon DEF FreeCrash, CrashRecord
    <3> HIDE DEF a
    <3> QED
      BY <3>1, <3>2, Zenon DEF a
  <2>2. CASE CrashRequestFail(c)
    BY <2>2, FreeTypes, Zenon DEF CrashRequestFail, DeleteCrash, FreeCrash
  <2> QED
    BY <2>1, <2>2
<1>3. UNCHANGED <<queue, num, next, intercept, intercepts, draining>>
  BY Zenon DEF CrashAccept, CrashRequestFail, queueVars, interceptVars
<1>4. /\ \A d \in Crash : d # c => crash'[d] = crash[d]
      /\ crash'[c] = r
  BY <1>1, <1>2
<1>5. TypeOK'
  BY <1>1, <1>2, <1>3, SMTT(30) DEF IInv, TypeOK, CrashRecord
<1>6. FieldsSet'
  BY <1>2, <1>3, <1>4 DEF IInv, FieldsSet
<1>7. ConcurrencyBound'
  <2>1. \A q \in Queues : Running(q)' = Running(q)
    BY <1>1, <1>2, <1>4, SMTT(30) DEF Running
  <2> QED
    BY <1>3, <2>1 DEF IInv, ConcurrencyBound
<1>8. NoStrandedRequest'
  BY <1>3, SMTT(30) DEF IInv, NoStrandedRequest
<1>9. CrashOwnership'
  <2>1. \A q \in Queues : \A k \in DOMAIN queue[q] : queue[q][k] # c /\ queue[q][k] \in Crash
    BY <1>1 DEF IInv, TypeOK, CrashOwnership
  <2> QED
    BY <1>2, <1>3, <1>4, <2>1, QueueOfType, SMTT(30) DEF IInv, CrashOwnership
<1>10. InterceptTable'
  BY <1>3 DEF IInv, InterceptTable
<1>11. InterceptedByRequest'
  BY <1>2, <1>4 DEF IInv, InterceptedByRequest, NoOutput
<1> QED
  BY <1>5, <1>6, <1>7, <1>8, <1>9, <1>10, <1>11, SMTT(30) DEF IInv

\* crash_completed_cb gives one slot back and starts to drain its queue.
LEMMA CrashCompletedStep ==
  ASSUME IInv, NEW c \in Crash, CrashCompleted(c)
  PROVE  IInv'
<1> SUFFICES ASSUME NEW k, k = QueueOf(crash[c].type) PROVE IInv'
  OBVIOUS
<1>1. /\ crash \in [Crash -> CrashRecord]
      /\ crash[c].status = "running"
      /\ num \in [Queues -> Int] /\ k \in Queues
  BY QueueOfType DEF IInv, TypeOK, CrashRecord, CrashCompleted
<1>2. /\ crash' = [crash EXCEPT ![c] = FreeCrash]
      /\ num' = [num EXCEPT ![k] = @ - 1]
      /\ draining = None /\ draining' = k
      /\ UNCHANGED <<queue, next, intercept, intercepts>>
  BY DEF CrashCompleted, DeleteCrash, interceptVars
<1>3. /\ \A d \in Crash : d # c => crash'[d] = crash[d]
      /\ crash'[c] = FreeCrash
  BY <1>1, <1>2, SMTT(30)
<1>4. TypeOK'
  BY <1>1, <1>2, FreeTypes, SMTT(30) DEF IInv, TypeOK, CrashRecord
<1>5. FieldsSet'
  BY <1>2, <1>3, SMTT(30) DEF IInv, FieldsSet, FreeCrash
<1>6. ConcurrencyBound'
  <2>1. Running(k)' = Running(k) \ {c} /\ c \in Running(k)
    BY <1>1, <1>3, SMTT(30) DEF Running, FreeCrash
  <2>2. \A q \in Queues : q # k => Running(q)' = Running(q)
    BY <1>1, <1>3, SMTT(30) DEF Running, FreeCrash
  <2>3. Cardinality(Running(k)') = Cardinality(Running(k)) - 1
    BY <2>1, RunningFinite, FS_RemoveElement, SMTT(30)
  <2>4. num'[k] = num[k] - 1 /\ \A q \in Queues : q # k => num'[q] = num[q]
    BY <1>1, <1>2
  <2>5. \A q \in Queues : MaxDumps[q] \in Nat
    BY ConstantsAssumption
  <2> QED
    BY <1>1, <2>2, <2>3, <2>4, <2>5, SMTT(30) DEF IInv, ConcurrencyBound
<1>7. NoStrandedRequest'
  <2>1. \A q \in Queues : q # k => num'[q] = num[q]
    BY <1>1, <1>2, SMTT(30)
  <2> QED
    BY <1>2, <2>1, NoneIsNoQueue DEF IInv, NoStrandedRequest
<1>8. CrashOwnership'
  <2>1. \A q \in Queues : \A j \in DOMAIN queue[q] : queue[q][j] # c /\ queue[q][j] \in Crash
    BY <1>1 DEF IInv, TypeOK, CrashOwnership
  <2>2. FreeCrash.status # "queued"
    BY DEF FreeCrash
  <2>3. queue' = queue
    BY <1>2
  <2> QED
    BY <1>3, <2>1, <2>2, <2>3, SMTT(30) DEF IInv, CrashOwnership
<1>9. InterceptTable'
  BY <1>2, SMTT(30) DEF IInv, InterceptTable
<1>10. InterceptedByRequest'
  BY <1>3 DEF IInv, InterceptedByRequest, FreeCrash, NoOutput
<1> QED
  BY <1>4, <1>5, <1>6, <1>7, <1>8, <1>9, <1>10 DEF IInv

\* Performing a request takes it off no queue by itself: the conjuncts about the
\* queues are for the caller.
LEMMA PerformFrame ==
  ASSUME NEW c, NEW r, PerformHypothesis(c, r)
  PROVE  /\ c \in Crash
         /\ crash \in [Crash -> CrashRecord]
         /\ \A d \in Crash : d # c => crash'[d] = crash[d]
         /\ crash'[c].status # "queued"
         /\ num' \in [Queues -> Int]
         /\ \A q \in Queues : q # QueueOf(r.type) => num'[q] = num[q]
<1>1. crash \in [Crash -> CrashRecord] /\ c \in Crash /\ r \in CrashRecord
  BY DEF PerformHypothesis, IInv, TypeOK, CrashRecord
<1>2. [r EXCEPT !.status = "running", !.output = OutputFor(r)].status # "queued"
  BY <1>1 DEF CrashRecord
<1>3. FreeCrash.status # "queued"
  BY DEF FreeCrash
<1>4. num \in [Queues -> Int] /\ num' \in [Queues -> Int]
  BY PerformTypes, Zenon DEF PerformHypothesis, IInv, TypeOK
<1>5. crash'[c].status # "queued" /\ \A d \in Crash : d # c => crash'[d] = crash[d]
  BY <1>1, <1>2, <1>3, PerformCrash, ZenonT(30)
<1>6. \A q \in Queues : q # QueueOf(r.type) => num'[q] = num[q]
  BY <1>4, PerformCrash, Zenon
<1> QED
  BY <1>1, <1>4, <1>5, <1>6

\* crash_request_cb either queues the request behind a full pool or performs it.
LEMMA CrashRequestStep ==
  ASSUME IInv, NEW c \in Crash, NEW t \in DumpType, NEW p \in Pid, CrashRequest(c, t, p)
  PROVE  IInv'
<1> SUFFICES ASSUME NEW r, r = [crash[c] EXCEPT !.type = t, !.pid = CrashPid(c, t, p)]
             PROVE  IInv'
  OBVIOUS
<1> DEFINE q == QueueOf(t)
<1>1. /\ crash \in [Crash -> CrashRecord] /\ crash[c].status = "accepted"
      /\ queue \in [Queues -> Seq(Crash)] /\ num \in [Queues -> Int] /\ q \in Queues
      /\ draining = None /\ draining' = None
  BY QueueOfType DEF IInv, TypeOK, CrashRecord, CrashRequest
<1>2. crash[c].output = NoOutput
  BY <1>1 DEF IInv, FieldsSet
<1>3. /\ r \in CrashRecord /\ r.type = t /\ r.pid \in Pid /\ r.output = NoOutput
      /\ t = "JavaBacktrace" => r.pid = Peer[c]
  BY <1>1, <1>2, ConstantsAssumption, Zenon DEF CrashRecord, CrashPid
<1>4. \A j \in Queues : \A k \in DOMAIN queue[j] : queue[j][k] # c /\ queue[j][k] \in Crash
  BY <1>1 DEF IInv, CrashOwnership
<1>5. CASE MustQueue(q)
  <2> DEFINE w == [r EXCEPT !.status = "queued"]
  <2>1. /\ w \in CrashRecord /\ w.status = "queued" /\ w.type = t
        /\ w.pid \in Pid /\ w.output = NoOutput
        /\ w.type = "JavaBacktrace" => w.pid = Peer[c]
    BY <1>3, ZenonT(30) DEF CrashRecord
  <2>2. /\ queue' = [queue EXCEPT ![q] = Append(@, c)]
        /\ crash' = [crash EXCEPT ![c] = w]
        /\ UNCHANGED <<num, next, intercept, intercepts>>
    BY <1>5 DEF CrashRequest, interceptVars
  <2> HIDE DEF w
  <2>3. /\ \A d \in Crash : d # c => crash'[d] = crash[d]
        /\ crash'[c] = w
    BY <1>1, <2>2
  <2>4. TypeOK'
    <3>1. crash' \in [Crash -> CrashRecord]
      BY <1>1, <2>1, <2>2
    <3>2. queue' \in [Queues -> Seq(Crash)]
      BY <1>1, <2>2, SMTT(30)
    <3> QED
      BY <1>1, <2>2, <3>1, <3>2 DEF IInv, TypeOK, CrashRecord
  <2>5. FieldsSet'
    BY <2>1, <2>2, <2>3, SMTT(30) DEF IInv, FieldsSet
  <2>6. ConcurrencyBound'
    <3>1. \A k \in Queues : Running(k)' = Running(k)
      BY <1>1, <2>1, <2>3, Zenon DEF Running
    <3> QED
      BY <2>2, <3>1 DEF IInv, ConcurrencyBound
  <2>7. NoStrandedRequest'
    <3>1. \A k \in Queues : k # q => queue'[k] = queue[k]
      BY <1>1, <2>2
    <3> QED
      BY <1>1, <1>5, <2>2, <3>1, NoneIsNoQueue DEF IInv, NoStrandedRequest, MustQueue
  <2>8. CrashOwnership'
    <3>1. \A k \in Queues : k # q => queue'[k] = queue[k]
      BY <1>1, <2>2
    <3>2. /\ queue[q] \in Seq(Crash)
          /\ queue'[q] = Append(queue[q], c)
      BY <1>1, <2>2
    <3>3. /\ DOMAIN queue'[q] = 1 .. Len(queue[q]) + 1
          /\ DOMAIN queue[q] = 1 .. Len(queue[q])
          /\ Len(queue[q]) \in Nat
          /\ queue'[q][Len(queue[q]) + 1] = c
          /\ \A k \in DOMAIN queue[q] : queue'[q][k] = queue[q][k]
      BY <3>2
    <3>4. \A j \in Queues : \A k \in DOMAIN queue'[j] :
            crash'[queue'[j][k]].status = "queued" /\ QueueOf(crash'[queue'[j][k]].type) = j
      <4> SUFFICES ASSUME NEW j \in Queues, NEW k \in DOMAIN queue'[j]
                   PROVE  crash'[queue'[j][k]].status = "queued" /\ QueueOf(crash'[queue'[j][k]].type) = j
        OBVIOUS
      <4>1. CASE k \in DOMAIN queue[j] /\ queue'[j][k] = queue[j][k]
        BY <1>4, <2>3, <4>1, SMTT(30) DEF IInv, CrashOwnership
      <4>2. CASE j = q /\ k = Len(queue[q]) + 1
        BY <2>1, <2>3, <3>3, <4>2, SMTT(30)
      <4> QED
        BY <3>1, <3>3, <4>1, <4>2, SMTT(30)
    <3>5. \A j \in Queues : \A k, l \in DOMAIN queue'[j] : queue'[j][k] = queue'[j][l] => k = l
      <4>1. \A k, l \in DOMAIN queue'[q] : queue'[q][k] = queue'[q][l] => k = l
        <5>1. \A k, l \in DOMAIN queue[q] : queue[q][k] = queue[q][l] => k = l
          BY <1>1 DEF IInv, CrashOwnership
        <5>2. \A k \in DOMAIN queue[q] : queue[q][k] # c
          BY <1>1, <1>4
        <5>3. \A k \in DOMAIN queue'[q] : k \in DOMAIN queue[q] \/ k = Len(queue[q]) + 1
          BY <3>3
        <5> HIDE DEF q
        <5> QED
          BY <3>3, <5>1, <5>2, <5>3, SMTT(30)
      <4> QED
        BY <3>1, <4>1, SMTT(30) DEF IInv, CrashOwnership
    <3>6. \A d \in Crash : crash'[d].status = "queued" =>
            \E k \in DOMAIN queue'[QueueOf(crash'[d].type)] : queue'[QueueOf(crash'[d].type)][k] = d
      <4> SUFFICES ASSUME NEW d \in Crash, crash'[d].status = "queued"
                   PROVE  \E k \in DOMAIN queue'[QueueOf(crash'[d].type)] :
                            queue'[QueueOf(crash'[d].type)][k] = d
        OBVIOUS
      <4>1. CASE d = c
        BY <2>1, <2>3, <3>3, <4>1, SMTT(30)
      <4>2. CASE d # c
        <5>1. PICK k \in DOMAIN queue[QueueOf(crash[d].type)] : queue[QueueOf(crash[d].type)][k] = d
          BY <2>3, <4>2 DEF IInv, CrashOwnership
        <5>2. QueueOf(crash[d].type) \in Queues /\ crash'[d] = crash[d]
          BY <2>3, <4>2, QueueOfType, SMTT(30)
        <5>3. k \in DOMAIN queue'[QueueOf(crash[d].type)] /\ queue'[QueueOf(crash[d].type)][k] = d
          BY <3>1, <3>3, <5>1, <5>2, SMTT(30)
        <5> QED
          BY <5>2, <5>3
      <4> QED
        BY <4>1, <4>2
    <3> QED
      BY <3>4, <3>5, <3>6 DEF CrashOwnership
  <2>9. InterceptTable'
    BY <2>2 DEF IInv, InterceptTable
  <2>10. InterceptedByRequest'
    BY <2>1, <2>3 DEF IInv, InterceptedByRequest, NoOutput
  <2> QED
    BY <2>4, <2>5, <2>6, <2>7, <2>8, <2>9, <2>10 DEF IInv
<1>6. CASE ~MustQueue(q)
  <2>1. PerformRequest(c, r) /\ queue' = queue
    BY <1>6 DEF CrashRequest
  <2>2. num[q] < MaxDumps[q]
    BY <1>1, <1>6, ConstantsAssumption DEF MustQueue, IInv, ConcurrencyBound
  <2>3. PerformHypothesis(c, r)
    BY <1>1, <1>3, <2>1, <2>2, SMTT(30) DEF PerformHypothesis
  <2>4. TypeOK'
    BY <1>1, <2>1, <2>3, PerformTypes, SMTT(30) DEF TypeOK, CrashRecord, InterceptRecord
  <2>5. NoStrandedRequest'
    <3>1. queue[q] = <<>>
      <4>1. draining # q /\ num[q] # MaxDumps[q]
        BY <1>1, <1>6, NoneIsNoQueue DEF MustQueue
      <4> QED
        BY <1>1, <4>1 DEF IInv, NoStrandedRequest
    <3>2. \A k \in Queues : k # q => num'[k] = num[k]
      <4>1. \A k \in Queues : k # QueueOf(r.type) => num'[k] = num[k]
        BY <2>3, PerformFrame, ZenonT(30)
      <4>2. QueueOf(r.type) = q
        BY <1>3
      <4> QED
        BY <4>1, <4>2
    <3> QED
      BY <1>1, <2>1, <3>1, <3>2, NoneIsNoQueue, SMTT(30) DEF IInv, NoStrandedRequest
  <2>6. CrashOwnership'
    <3>1. crash'[c].status # "queued" /\ \A d \in Crash : d # c => crash'[d] = crash[d]
      BY <2>3, PerformFrame
    <3> QED
      BY <1>4, <2>1, <3>1 DEF IInv, CrashOwnership
  <2> QED
    BY <2>3, <2>4, <2>5, <2>6, PerformTypes, PerformCounts, SMTT(30) DEF IInv
<1> QED
  BY <1>5, <1>6

\* One turn of maybe_dequeue_crashes performs the head of the queue.
LEMMA DequeueStep ==
  ASSUME IInv, NEW q \in Queues, Dequeue(q)
  PROVE  IInv'
<1> SUFFICES ASSUME NEW c, c = Head(queue[q]), NEW r, r = crash[c]
             PROVE  IInv'
  OBVIOUS
<1>1. /\ queue \in [Queues -> Seq(Crash)] /\ queue[q] \in Seq(Crash) /\ queue[q] # <<>>
      /\ crash \in [Crash -> CrashRecord]
      /\ draining = q /\ draining' = q /\ num[q] < MaxDumps[q]
      /\ queue' = [queue EXCEPT ![q] = Tail(@)]
      /\ PerformRequest(c, r)
  BY DEF IInv, TypeOK, CrashRecord, Dequeue, CanDequeue
<1>2. /\ Len(queue[q]) \in Nat \ {0} /\ c = queue[q][1] /\ c \in Crash
      /\ DOMAIN queue[q] = 1 .. Len(queue[q])
      /\ queue'[q] = Tail(queue[q])
      /\ DOMAIN queue'[q] = 1 .. Len(queue[q]) - 1
      /\ \A k \in DOMAIN queue'[q] : k + 1 \in DOMAIN queue[q] /\ queue'[q][k] = queue[q][k + 1]
  <2>1. queue'[q] = Tail(queue[q])
    BY <1>1
  <2> SUFFICES ASSUME NEW s \in Seq(Crash), s = queue[q], s # <<>>, NEW u, u = Tail(s)
               PROVE  /\ Len(s) \in Nat \ {0} /\ Head(s) = s[1] /\ Head(s) \in Crash
                      /\ DOMAIN s = 1 .. Len(s)
                      /\ DOMAIN u = 1 .. Len(s) - 1
                      /\ \A k \in DOMAIN u : k + 1 \in DOMAIN s /\ u[k] = s[k + 1]
    BY <1>1, <2>1, SMTT(30)
  <2> QED
    OBVIOUS
<1>3. crash[c].status = "queued" /\ QueueOf(crash[c].type) = q
  <2>1. 1 \in DOMAIN queue[q]
    BY <1>2, SMTT(30)
  <2> QED
    BY <1>2, <2>1, SMTT(30) DEF IInv, CrashOwnership
<1>4. r \in CrashRecord /\ r.type \in DumpType /\ r.pid \in Pid
  BY <1>1, <1>2, <1>3, SMTT(30) DEF IInv, FieldsSet
<1>5. r.type = "JavaBacktrace" => r.pid = Peer[c]
  BY <1>2, <1>3, SMTT(30) DEF IInv, FieldsSet
<1>6. PerformHypothesis(c, r)
  BY <1>1, <1>2, <1>3, <1>4, <1>5, SMTT(30) DEF PerformHypothesis
<1>7. \A j \in Queues : j # q => queue'[j] = queue[j]
  BY <1>1, SMTT(30)
<1>8. TypeOK'
  <2>1. queue' \in [Queues -> Seq(Crash)]
    BY <1>1, <1>2, SMTT(30)
  <2> QED
    BY <1>1, <1>6, <2>1, PerformTypes, SMTT(30) DEF TypeOK, CrashRecord, InterceptRecord
<1>9. NoStrandedRequest'
  <2>1. \A k \in Queues : k # q => num'[k] = num[k]
    BY <1>3, <1>6, PerformFrame, SMTT(30)
  <2> QED
    BY <1>1, <1>7, <2>1, SMTT(30) DEF IInv, NoStrandedRequest
<1>10. CrashOwnership'
  <2>1. crash'[c].status # "queued" /\ \A d \in Crash : d # c => crash'[d] = crash[d]
    BY <1>6, PerformFrame, SMTT(30)
  <2>2. \A k \in DOMAIN queue[q] : queue[q][k] = c => k = 1
    <3>1. 1 \in DOMAIN queue[q]
      BY <1>2
    <3> QED
      BY <1>2, <3>1, SMTT(30) DEF IInv, CrashOwnership
  <2>3. \A j \in Queues : \A k \in DOMAIN queue'[j] :
          /\ queue'[j][k] \in Crash /\ queue'[j][k] # c
          /\ crash[queue'[j][k]].status = "queued" /\ QueueOf(crash[queue'[j][k]].type) = j
    <3> SUFFICES ASSUME NEW j \in Queues, NEW k \in DOMAIN queue'[j]
                 PROVE  /\ queue'[j][k] \in Crash /\ queue'[j][k] # c
                        /\ crash[queue'[j][k]].status = "queued" /\ QueueOf(crash[queue'[j][k]].type) = j
      BY SMTT(30)
    <3>1. CASE j = q
      <4>1. k + 1 \in DOMAIN queue[q] /\ k + 1 # 1 /\ queue'[q][k] = queue[q][k + 1]
        <5>1. k \in DOMAIN queue'[q]
          BY <3>1, SMTT(30)
        <5>2. k \in 1 .. Len(queue[q]) - 1
          BY <1>2, <5>1
        <5>3. k + 1 # 1
          BY <1>2, <5>2, SMTT(30)
        <5> QED
          BY <1>2, <5>1, <5>3
      <4> QED
        BY <1>1, <2>2, <3>1, <4>1, SMTT(30) DEF IInv, CrashOwnership
    <3>2. CASE j # q
      BY <1>1, <1>3, <1>7, <3>2, SMTT(30) DEF IInv, CrashOwnership
    <3> QED
      BY <3>1, <3>2, SMTT(30)
  <2>4. \A j \in Queues : \A k, l \in DOMAIN queue'[j] : queue'[j][k] = queue'[j][l] => k = l
    <3>1. \A k, l \in DOMAIN queue'[q] : queue'[q][k] = queue'[q][l] => k = l
      <4> SUFFICES ASSUME NEW k \in DOMAIN queue'[q], NEW l \in DOMAIN queue'[q],
                          queue'[q][k] = queue'[q][l]
                   PROVE  k = l
        BY SMTT(30)
      <4>1. k + 1 = l + 1
        BY <1>2, SMTT(30) DEF IInv, CrashOwnership
      <4> QED
        BY <1>2, <4>1
    <3> QED
      BY <1>7, <3>1, SMTT(30) DEF IInv, CrashOwnership
  <2>5. \A d \in Crash : crash'[d].status = "queued" =>
          \E k \in DOMAIN queue'[QueueOf(crash'[d].type)] : queue'[QueueOf(crash'[d].type)][k] = d
    <3> SUFFICES ASSUME NEW d \in Crash, crash'[d].status = "queued",
                        NEW j, j = QueueOf(crash[d].type)
                 PROVE  \E k \in DOMAIN queue'[QueueOf(crash'[d].type)] :
                          queue'[QueueOf(crash'[d].type)][k] = d
      OBVIOUS
    <3>1. d # c /\ crash'[d] = crash[d] /\ j \in Queues
      BY <2>1, QueueOfType, SMTT(30)
    <3>2. PICK k \in DOMAIN queue[j] : queue[j][k] = d
      BY <3>1, SMTT(30) DEF IInv, CrashOwnership
    <3>3. CASE j = q
      <4>1. k # 1 /\ k - 1 \in DOMAIN queue'[q] /\ (k - 1) + 1 = k
        BY <1>2, <3>1, <3>2, <3>3, SMTT(30)
      <4>2. queue'[q][k - 1] = d
        BY <1>2, <3>2, <3>3, <4>1, SMTT(30)
      <4> QED
        BY <3>1, <3>3, <4>1, <4>2, SMTT(30)
    <3>4. CASE j # q
      BY <1>7, <3>1, <3>2, <3>4, SMTT(30)
    <3> QED
      BY <3>3, <3>4
  <2> QED
    BY <2>1, <2>3, <2>4, <2>5, SMTT(30) DEF CrashOwnership
<1> QED
  BY <1>6, <1>8, <1>9, <1>10, PerformTypes, PerformCounts DEF IInv

\* The end of the loop leaves nothing stranded.
LEMMA DequeueDoneStep ==
  ASSUME IInv, NEW q \in Queues, DequeueDone(q)
  PROVE  IInv'
<1>1. UNCHANGED <<crash, queue, num, next, intercept, intercepts>> /\ draining = q /\ draining' = None
  BY DEF DequeueDone, queueVars, interceptVars
<1>2. TypeOK'
  BY <1>1, SMTT(30) DEF IInv, TypeOK
<1>3. FieldsSet' /\ InterceptTable' /\ InterceptedByRequest'
  BY <1>1 DEF IInv, FieldsSet, InterceptTable, InterceptedByRequest
<1>4. NoStrandedRequest'
  <2>1. queue[q] # <<>> => num[q] = MaxDumps[q]
    <3>1. num[q] \in Int /\ MaxDumps[q] \in Nat /\ num[q] <= MaxDumps[q]
      BY ConstantsAssumption DEF IInv, TypeOK, ConcurrencyBound
    <3> QED
      BY <3>1 DEF DequeueDone, CanDequeue
  <2> QED
    BY <1>1, <2>1, NoneIsNoQueue, SMTT(30) DEF IInv, NoStrandedRequest
<1> QED
  BY <1>1, <1>2, <1>3, <1>4, OwnershipFrame, CountsFrame, SMTT(30) DEF IInv

\* The callbacks of the intercept socket change one intercept and the table entry
\* of its pid.
LEMMA InterceptStep ==
  ASSUME IInv, NEW i \in Intercept, InterceptNext(i)
  PROVE  IInv'
<1>1. /\ intercept \in [Intercept -> InterceptRecord]
      /\ intercepts \in [Pid -> Intercept \cup {None}]
  BY DEF IInv, TypeOK, InterceptRecord
<1>2. UNCHANGED <<crash, queue, num, next, draining>>
  BY DEF InterceptNext, InterceptAccept, InterceptRequestFail, InterceptRequest,
         InterceptClose, queueVars
<1> DEFINE Kept ==
      /\ intercept' \in [Intercept -> InterceptRecord]
      /\ intercepts' \in [Pid -> Intercept \cup {None}]
      /\ \A j \in Intercept : intercept'[j].status = "registered" =>
           intercept'[j].type \in DumpType /\ intercept'[j].pid \in Pid
      /\ InterceptTable'
<1>3. Kept
  <2>1. CASE InterceptAccept(i)
    <3>1. intercept' = [intercept EXCEPT ![i].status = "accepted"] /\ intercepts' = intercepts
            /\ intercept[i].status = "free"
      BY <2>1 DEF InterceptAccept
    <3>2. /\ intercept' \in [Intercept -> InterceptRecord]
          /\ intercept'[i].status = "accepted"
          /\ \A j \in Intercept : j # i => intercept'[j] = intercept[j]
      BY <1>1, <3>1, SMTT(30) DEF InterceptRecord
    <3> QED
      BY <1>1, <3>1, <3>2, SMTT(30) DEF IInv, FieldsSet, InterceptTable
  <2>2. CASE InterceptRequestFail(i)
    <3>1. intercept' = [intercept EXCEPT ![i] = FreeIntercept] /\ intercepts' = intercepts
            /\ intercept[i].status = "accepted"
      BY <2>2 DEF InterceptRequestFail
    <3> QED
      BY <1>1, <3>1, FreeTypes, SMTT(30) DEF IInv, FieldsSet, InterceptTable, FreeIntercept
  <2>3. ASSUME NEW p \in Pid, NEW t \in InterceptTypes, NEW ok \in BOOLEAN,
               InterceptRequest(i, p, t, ok)
        PROVE  Kept
    <3>1. intercept[i].status = "accepted" /\ t \in DumpType
      BY <2>3, SMTT(30) DEF InterceptRequest, InterceptTypes
    <3>2. CASE intercepts[p] = None /\ ok
      <4> DEFINE w == [status |-> "registered", pid |-> p, type |-> t]
      <4>1. intercepts' = [intercepts EXCEPT ![p] = i] /\ intercept' = [intercept EXCEPT ![i] = w]
        BY <2>3, <3>2, SMTT(30) DEF InterceptRequest
      <4>2. w \in InterceptRecord /\ w.status = "registered" /\ w.pid = p /\ w.type = t
        BY <3>1, SMTT(30) DEF InterceptRecord
      <4> HIDE DEF w
      <4> QED
        BY <1>1, <3>1, <3>2, <4>1, <4>2, ConstantsAssumption, SMTT(30) DEF IInv, FieldsSet, InterceptTable
    <3>3. CASE ~(intercepts[p] = None /\ ok)
      <4>1. intercept' = [intercept EXCEPT ![i] = FreeIntercept] /\ intercepts' = intercepts
        BY <2>3, <3>3, SMTT(30) DEF InterceptRequest
      <4> QED
        BY <1>1, <3>1, <4>1, FreeTypes, SMTT(30) DEF IInv, FieldsSet, InterceptTable, FreeIntercept
    <3> QED
      BY <3>2, <3>3, SMTT(30)
  <2>4. CASE InterceptClose(i)
    <3>1. /\ intercept' = [intercept EXCEPT ![i] = FreeIntercept]
          /\ intercepts' = [intercepts EXCEPT ![intercept[i].pid] = None]
          /\ intercept[i].status = "registered" /\ intercept[i].pid \in Pid
      BY <2>4, SMTT(30) DEF InterceptClose, IInv, FieldsSet
    <3> QED
      BY <1>1, <3>1, FreeTypes, ConstantsAssumption, SMTT(30)
      DEF IInv, FieldsSet, InterceptTable, FreeIntercept
  <2> HIDE DEF Kept
  <2> QED
    BY <2>1, <2>2, <2>3, <2>4, SMTT(30) DEF InterceptNext
<1>4. TypeOK'
  BY <1>2, <1>3, SMTT(30) DEF IInv, TypeOK, InterceptRecord
<1>5. FieldsSet'
  BY <1>2, <1>3, SMTT(30) DEF IInv, FieldsSet
<1>6. NoStrandedRequest' /\ InterceptedByRequest'
  BY <1>2 DEF IInv, NoStrandedRequest, InterceptedByRequest
<1> QED
  BY <1>2, <1>3, <1>4, <1>5, <1>6, OwnershipFrame, CountsFrame, SMTT(30) DEF IInv

\* Every step of the event loop preserves the inductive invariant.
LEMMA NextInv == IInv /\ [Next]_vars => IInv'
<1> SUFFICES ASSUME IInv, [Next]_vars PROVE IInv'
  OBVIOUS
<1>1. ASSUME NEW c \in Crash, CrashNext(c) PROVE IInv'
  BY <1>1, CrashIdleStep, CrashRequestStep, CrashCompletedStep DEF CrashNext
<1>2. ASSUME NEW i \in Intercept, InterceptNext(i) PROVE IInv'
  BY <1>2, InterceptStep
<1>3. ASSUME NEW q \in Queues, QueueNext(q) PROVE IInv'
  BY <1>3, DequeueStep, DequeueDoneStep, SMTT(30) DEF QueueNext
<1>4. CASE UNCHANGED vars
  <2>1. UNCHANGED <<crash, queue, num, next, intercept, intercepts, draining>>
    BY <1>4, SMTT(30) DEF vars, queueVars, interceptVars
  <2>2. TypeOK'
    BY <2>1, SMTT(30) DEF IInv, TypeOK
  <2>3. FieldsSet'
    BY <2>1, SMTT(30) DEF IInv, FieldsSet
  <2>4. NoStrandedRequest'
    BY <2>1, SMTT(30) DEF IInv, NoStrandedRequest
  <2>5. InterceptTable' /\ InterceptedByRequest'
    BY <2>1 DEF IInv, InterceptTable, InterceptedByRequest
  <2> QED
    BY <2>1, <2>2, <2>3, <2>4, <2>5, OwnershipFrame, CountsFrame, SMTT(30) DEF IInv
<1> QED
  BY <1>1, <1>2, <1>3, <1>4, SMTT(30) DEF Next

\* The inductive invariant holds in every reachable state.
THEOREM Invariance == Spec => []IInv
  BY InitInv, NextInv, PTL DEF Spec

\* tombstoned's variables keep their types, the ring index included.
THEOREM TypeCorrect == Spec => []TypeOK
<1>1. IInv => TypeOK
  BY DEF IInv
<1> QED
  BY <1>1, Invariance, PTL

\* num_concurrent_dumps_ is exactly the number of dumps in progress and never
\* exceeds max_concurrent_dumps_, for any pool size and any mix of failures.
THEOREM SlotsCounted == Spec => []ConcurrencyBound
<1>1. IInv => ConcurrencyBound
  BY DEF IInv
<1> QED
  BY <1>1, Invariance, PTL

\* Whenever the event loop is idle, a queue with waiting requests has all its slots
\* busy, so a completion is due that will drain it.
THEOREM NothingStranded == Spec => []NoStrandedRequest
<1>1. IInv => NoStrandedRequest
  BY DEF IInv
<1> QED
  BY <1>1, Invariance, PTL

\* A Crash object is in one queue exactly while it waits.
THEOREM OneOwner == Spec => []CrashOwnership
<1>1. IInv => CrashOwnership
  BY DEF IInv
<1> QED
  BY <1>1, Invariance, PTL

\* The fatal checks of intercept_close_cb cannot fail, and a dump is intercepted only
\* by who asked for that process and kind of dump.
THEOREM InterceptedRight == Spec => []Interception
<1>1. IInv => Interception
  BY SMTT(30) DEF IInv, Interception
<1> QED
  BY <1>1, Invariance, PTL

\* One step of NoOvertaking.
InTheirTurn ==
  \A c \in Crash :
    crash[c].status # "running" /\ crash'[c].status = "running" =>
      LET q == QueueOf(crash'[c].type)
      IN  queue[q] = <<>> \/ Head(queue[q]) = c

\* A request that is served at once finds its queue empty: otherwise all slots would be
\* taken.  One that is taken off the queue was the first of it.
LEMMA InTurnStep == IInv /\ [Next]_vars => InTheirTurn
<1> SUFFICES ASSUME IInv, [Next]_vars, NEW c \in Crash,
                    crash[c].status # "running", crash'[c].status = "running"
             PROVE  LET q == QueueOf(crash'[c].type)
                    IN  queue[q] = <<>> \/ Head(queue[q]) = c
  BY SMTT(30) DEF InTheirTurn
<1>1. crash \in [Crash -> CrashRecord]
  BY DEF IInv, TypeOK, CrashRecord
<1>2. ASSUME crash' = crash PROVE FALSE
  BY <1>2, SMTT(30)
<1>3. ASSUME NEW d \in Crash, crash' = [crash EXCEPT ![d] = FreeCrash] PROVE FALSE
  BY <1>1, <1>3 DEF FreeCrash
<1>4. ASSUME NEW d \in Crash, CrashAccept(d) PROVE FALSE
  BY <1>1, <1>4, SMTT(30) DEF CrashAccept, FreeCrash
<1>5. ASSUME NEW d \in Crash, CrashRequestFail(d) \/ CrashCompleted(d) PROVE FALSE
  BY <1>3, <1>5, SMTT(30) DEF CrashRequestFail, CrashCompleted, DeleteCrash
<1>6. ASSUME NEW d \in Crash, NEW t \in DumpType, NEW p \in Pid, CrashRequest(d, t, p)
      PROVE  c = d /\ crash'[c].type = t /\ queue[QueueOf(t)] = <<>>
  <2> DEFINE r == [crash[d] EXCEPT !.type = t, !.pid = CrashPid(d, t, p)]
  <2>1. r \in [status : {"free", "accepted", "queued", "running"},
               type : DumpType \cup {None}, pid : {CrashPid(d, t, p)}, output : Outputs]
        /\ r.type = t
    BY <1>1, ZenonT(30) DEF CrashRecord
  <2>2. draining = None
    BY <1>6 DEF CrashRequest
  <2>3. CASE MustQueue(QueueOf(t))
    <3>1. crash' = [crash EXCEPT ![d] = [r EXCEPT !.status = "queued"]]
      BY <1>6, <2>3 DEF CrashRequest
    <3> HIDE DEF r
    <3>2. crash'[d].status = "queued" /\ (c # d => crash'[c] = crash[c])
      BY <1>1, <2>1, <3>1
    <3> QED
      BY <3>2
  <2>4. CASE ~MustQueue(QueueOf(t))
    <3>1. PerformRequest(d, r)
      BY <1>6, <2>4 DEF CrashRequest
    <3>2. \/ crash' = [crash EXCEPT ![d] =
                          [r EXCEPT !.status = "running", !.output = OutputFor(r)]]
          \/ crash' = [crash EXCEPT ![d] = FreeCrash]
      BY <3>1 DEF PerformRequest, DeleteCrash
    <3> HIDE DEF r
    <3>3. crash' = [crash EXCEPT ![d] = [r EXCEPT !.status = "running", !.output = OutputFor(r)]]
      BY <1>3, <3>2
    <3>4. c = d /\ crash'[c].type = t
      BY <1>1, <2>1, <3>3
    <3>5. queue[QueueOf(t)] = <<>>
      BY <2>2, <2>4, QueueOfType, NoneIsNoQueue, SMTT(30) DEF IInv, NoStrandedRequest, MustQueue
    <3> QED
      BY <3>4, <3>5
  <2> QED
    BY <2>3, <2>4
<1>7. ASSUME NEW q \in Queues, Dequeue(q)
      PROVE  c = Head(queue[q]) /\ QueueOf(crash'[c].type) = q
  <2> DEFINE d == Head(queue[q])
  <2>1. queue[q] \in Seq(Crash) /\ queue[q] # <<>> /\ PerformRequest(d, crash[d])
    BY <1>7, SMTT(30) DEF Dequeue, CanDequeue, IInv, TypeOK
  <2>2. 1 \in DOMAIN queue[q] /\ d = queue[q][1] /\ d \in Crash
    BY <2>1, SMTT(30)
  <2>3. QueueOf(crash[d].type) = q
    BY <2>2, SMTT(30) DEF IInv, CrashOwnership
  <2>4. \/ crash' = [crash EXCEPT ![d] =
                        [crash[d] EXCEPT !.status = "running", !.output = OutputFor(crash[d])]]
        \/ crash' = [crash EXCEPT ![d] = FreeCrash]
    BY <2>1 DEF PerformRequest, DeleteCrash
  <2> HIDE DEF d
  <2>5. crash' = [crash EXCEPT ![d] =
                     [crash[d] EXCEPT !.status = "running", !.output = OutputFor(crash[d])]]
    BY <1>3, <2>2, <2>4, SMTT(30)
  <2>6. c = d /\ crash'[c].type = crash[d].type
    BY <1>1, <2>2, <2>5, SMTT(30) DEF CrashRecord
  <2> QED
    BY <2>3, <2>6, SMTT(30) DEF d
<1>8. ASSUME NEW q \in Queues, DequeueDone(q) PROVE FALSE
  BY <1>2, <1>8, SMTT(30) DEF DequeueDone
<1>9. ASSUME NEW i \in Intercept, InterceptNext(i) PROVE FALSE
  BY <1>2, <1>9, SMTT(30) DEF InterceptNext, InterceptAccept, InterceptRequestFail, InterceptRequest,
                   InterceptClose
<1>10. ~UNCHANGED vars
  BY <1>2 DEF vars
<1> QED
  BY <1>4, <1>5, <1>6, <1>7, <1>8, <1>9, <1>10, SMTT(30) DEF Next, CrashNext, QueueNext

\* No request overtakes one that waits for the same slots: one that is served on arrival finds
\* its queue empty, and maybe_dequeue_crashes takes them in order.
THEOREM NobodyOvertakes == Spec => NoOvertaking
<1>1. IInv /\ [Next]_vars => [InTheirTurn]_vars
  BY InTurnStep
<1> QED
  BY <1>1, Invariance, PTL DEF Spec, NoOvertaking, InTheirTurn
=============================================================================
