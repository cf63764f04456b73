----------------------------- MODULE Tombstoned -----------------------------
(***************************************************************************)
(* tombstoned (debuggerd/tombstoned): the daemon that hands out the file   *)
(* descriptors crash dumps are written to.  It is one libevent thread, so  *)
(* every callback is one action.  The loop of maybe_dequeue_crashes is the *)
(* exception: a completed dump sets `draining' and each turn of the loop   *)
(* is a step of its own, during which no callback can run.                 *)
(*                                                                         *)
(* Connections are slots that are reused: a Crash or Intercept object that *)
(* is deleted returns to "free".                                           *)
(***************************************************************************)
EXTENDS Integers, Sequences, FiniteSets

CONSTANTS
  Crash,         \* connections to the crash sockets
  Intercept,     \* connections to the intercept socket
  Pid,           \* process ids
  Peer,          \* the process at the other end of each crash connection
  DumpType,      \* the dump types requested in this instance
  MaxDumps,      \* max_concurrent_dumps_ of each queue
  MaxArtifacts,  \* max_artifacts_ of each queue
  None

Queues == {"tombstones", "anrs"}

AllDumpTypes == {"NativeBacktrace", "Tombstone", "JavaBacktrace", "AnyIntercept"}

ASSUME ConstantsAssumption ==
  /\ DumpType \subseteq AllDumpTypes
  /\ Peer \in [Crash -> Pid]
  /\ MaxDumps \in [Queues -> Nat \ {0}]
  /\ MaxArtifacts \in [Queues -> Nat \ {0}]
  /\ \A q \in Queues : MaxArtifacts[q] > MaxDumps[q]  \* the CHECK of the constructor
  /\ None \notin Crash \cup Intercept \cup Pid \cup Queues \cup DumpType
  /\ IsFiniteSet(Crash)

VARIABLES
  crash,      \* the Crash object of each connection
  intercept,  \* the Intercept object of each connection
  intercepts, \* InterceptManager::intercepts, pid to Intercept
  queue,      \* queued_requests_
  num,        \* num_concurrent_dumps_
  next,       \* next_artifact_
  draining    \* the queue whose maybe_dequeue_crashes loop is running

queueVars == <<queue, num, next>>
interceptVars == <<intercept, intercepts>>
vars == <<crash, queueVars, interceptVars, draining>>

\* for_crash: the queue a dump type belongs to.
QueueOf(t) == IF t = "JavaBacktrace" THEN "anrs" ELSE "tombstones"

Artifacts(q) == 0 .. MaxArtifacts[q] - 1
AllArtifacts == UNION {Artifacts(q) : q \in Queues}

\* Where a dump is written: an artifact file or the descriptor of an intercept,
\* which is known by what it was registered for.
NoOutput == [kind |-> "none"]
FileOutput(n) == [kind |-> "file", slot |-> n]
InterceptOutput(p, t) == [kind |-> "intercept", pid |-> p, type |-> t]

Outputs ==
  {NoOutput}
    \cup [kind : {"file"}, slot : AllArtifacts]
    \cup [kind : {"intercept"}, pid : Pid, type : DumpType]

\* struct Crash
FreeCrash == [status |-> "free", type |-> None, pid |-> None, output |-> NoOutput]

\* struct Intercept
FreeIntercept == [status |-> "free", pid |-> None, type |-> None]

\* find_oldest_artifact leaves next_artifact_ at some slot of the ring.
Init ==
  /\ crash = [c \in Crash |-> FreeCrash]
  /\ intercept = [i \in Intercept |-> FreeIntercept]
  /\ intercepts = [p \in Pid |-> None]
  /\ queue = [q \in Queues |-> <<>>]
  /\ num = [q \in Queues |-> 0]
  /\ next \in {n \in [Queues -> AllArtifacts] : \A q \in Queues : n[q] \in Artifacts(q)}
  /\ draining = None

-----------------------------------------------------------------------------
(***************************************************************************)
(* Operations on the crash queues and on the intercepts.                   *)
(***************************************************************************)

\* Deleting a Crash closes its socket and frees its event.
DeleteCrash(c) == crash' = [crash EXCEPT ![c] = FreeCrash]

\* The test of GetIntercept: an intercept of the pid whose type matches.
Intercepted(r) ==
  /\ intercepts[r.pid] # None
  /\ r.type \in {"AnyIntercept", intercept[intercepts[r.pid]].type}

\* GetIntercept: the intercept is erased and told kStarted; that write may fail
\* unnoticed.
TakeIntercept(r) ==
  /\ intercepts' = [intercepts EXCEPT ![r.pid] = None]
  /\ intercept' = [intercept EXCEPT ![intercepts[r.pid]] = FreeIntercept]

\* get_output: unlink and create the next file of the ring.
GetOutput(q) == next' = [next EXCEPT ![q] = (@ + 1) % MaxArtifacts[q]]

\* The descriptor perform_request sends for the crash r, and taking it.
OutputFor(r) ==
  IF Intercepted(r)
    THEN LET i == intercept[intercepts[r.pid]] IN InterceptOutput(i.pid, i.type)
    ELSE FileOutput(next[QueueOf(r.type)])

TakeOutput(r) ==
  IF Intercepted(r)
    THEN TakeIntercept(r) /\ UNCHANGED next
    ELSE GetOutput(QueueOf(r.type)) /\ UNCHANGED interceptVars

\* perform_request for connection c with contents r.  The dump counts as concurrent
\* only once the client has its descriptor; a failed send_fd deletes the crash.
PerformRequest(c, r) ==
  /\ TakeOutput(r)
  /\ \/ /\ crash' = [crash EXCEPT ![c] =
                       [r EXCEPT !.status = "running", !.output = OutputFor(r)]]
        /\ num' = [num EXCEPT ![QueueOf(r.type)] = @ + 1]
     \/ /\ DeleteCrash(c)
        /\ UNCHANGED num

-----------------------------------------------------------------------------
(***************************************************************************)
(* The crash sockets.                                                      *)
(***************************************************************************)

\* crash_accept_cb
CrashAccept(c) ==
  /\ draining = None
  /\ crash[c].status = "free"
  /\ crash' = [crash EXCEPT ![c] = [FreeCrash EXCEPT !.status = "accepted"]]
  /\ UNCHANGED <<queueVars, interceptVars, draining>>

\* crash_request_cb, every failure: the timeout, a failed or short read, a wrong
\* packet type or dump type, or no peer credentials.
CrashRequestFail(c) ==
  /\ draining = None
  /\ crash[c].status = "accepted"
  /\ DeleteCrash(c)
  /\ UNCHANGED <<queueVars, interceptVars, draining>>

\* The pid a request is for: the kernel's word for it when a java trace is asked.
CrashPid(c, t, claimed) == IF t = "JavaBacktrace" THEN Peer[c] ELSE claimed

\* maybe_enqueue_crash
MustQueue(q) == num[q] = MaxDumps[q]

\* crash_request_cb for a well formed request of type t that claims a pid.
CrashRequest(c, t, claimed) ==
  LET r == [crash[c] EXCEPT !.type = t, !.pid = CrashPid(c, t, claimed)]
      q == QueueOf(t)
  IN  /\ draining = None
      /\ crash[c].status = "accepted"
      /\ IF MustQueue(q)
           THEN /\ queue' = [queue EXCEPT ![q] = Append(@, c)]
                /\ crash' = [crash EXCEPT ![c] = [r EXCEPT !.status = "queued"]]
                /\ UNCHANGED <<num, next, interceptVars>>
           ELSE PerformRequest(c, r) /\ UNCHANGED queue
      /\ UNCHANGED draining

\* Mutant: a failed completion returns without draining the queue.
MutCrashCompleted(c) ==
  LET q == QueueOf(crash[c].type)
  IN  /\ draining = None
      /\ crash[c].status = "running"
      /\ num' = [num EXCEPT ![q] = @ - 1]
      /\ DeleteCrash(c)
      /\ draining' \in {q, None}
      /\ UNCHANGED <<queue, next, interceptVars>>

\* crash_completed_cb, whatever was read and on a timeout too: the slot is given
\* back, the crash deleted and the queue drained.
CrashCompleted(c) ==
  LET q == QueueOf(crash[c].type)
  IN  /\ draining = None
      /\ crash[c].status = "running"
      /\ num' = [num EXCEPT ![q] = @ - 1]
      /\ DeleteCrash(c)
      /\ draining' = q
      /\ UNCHANGED <<queue, next, interceptVars>>

\* The condition of the loop of maybe_dequeue_crashes.
CanDequeue(q) == queue[q] # <<>> /\ num[q] < MaxDumps[q]

\* Mutant: the youngest request is taken from the queue.
MutDequeue(q) ==
  LET n == Len(queue[q])
      c == queue[q][n]
  IN  /\ draining = q
      /\ CanDequeue(q)
      /\ queue' = [queue EXCEPT ![q] = SubSeq(@, 1, n - 1)]
      /\ PerformRequest(c, crash[c])
      /\ UNCHANGED draining

\* One turn of the loop of maybe_dequeue_crashes.
Dequeue(q) ==
  LET c == Head(queue[q])
  IN  /\ draining = q
      /\ CanDequeue(q)
      /\ queue' = [queue EXCEPT ![q] = Tail(@)]
      /\ PerformRequest(c, crash[c])
      /\ UNCHANGED draining

\* The end of that loop, and with it of the callback.
DequeueDone(q) ==
  /\ draining = q
  /\ ~CanDequeue(q)
  /\ draining' = None
  /\ UNCHANGED <<crash, queueVars, interceptVars>>

-----------------------------------------------------------------------------
(***************************************************************************)
(* The intercept socket.                                                   *)
(***************************************************************************)

\* intercept_accept_cb
InterceptAccept(i) ==
  /\ draining = None
  /\ intercept[i].status = "free"
  /\ intercept' = [intercept EXCEPT ![i].status = "accepted"]
  /\ UNCHANGED <<crash, queueVars, intercepts, draining>>

\* intercept_request_cb, the failures before the request is known: the timeout, a
\* failed or short read, a descriptor that cannot be moved, an invalid request.
InterceptRequestFail(i) ==
  /\ draining = None
  /\ intercept[i].status = "accepted"
  /\ intercept' = [intercept EXCEPT ![i] = FreeIntercept]
  /\ UNCHANGED <<crash, queueVars, intercepts, draining>>

\* is_intercept_request_valid
InterceptTypes == DumpType \ {"AnyIntercept"}

\* Mutant: a second intercept of a pid replaces the first.
MutInterceptRequest(i, p, t, ok) ==
  /\ draining = None
  /\ intercept[i].status = "accepted"
  /\ ok
  /\ intercepts' = [intercepts EXCEPT ![p] = i]
  /\ intercept' = [intercept EXCEPT ![i] = [status |-> "registered", pid |-> p, type |-> t]]
  /\ UNCHANGED <<crash, queueVars, draining>>

\* intercept_request_cb for a valid request.  `ok' is the outcome of the write of
\* kRegistered; a pid already intercepted is answered kFailedAlreadyRegistered.
InterceptRequest(i, p, t, ok) ==
  /\ draining = None
  /\ intercept[i].status = "accepted"
  /\ IF intercepts[p] = None /\ ok
       THEN /\ intercepts' = [intercepts EXCEPT ![p] = i]
            /\ intercept' = [intercept EXCEPT ![i] =
                               [status |-> "registered", pid |-> p, type |-> t]]
       ELSE /\ intercept' = [intercept EXCEPT ![i] = FreeIntercept]
            /\ UNCHANGED intercepts
  /\ UNCHANGED <<crash, queueVars, draining>>

\* intercept_close_cb: the peer closed or wrote, or the 10 seconds are over.  Its
\* two LOG(FATAL)s are the negation of the property InterceptTable.
InterceptClose(i) ==
  /\ draining = None
  /\ intercept[i].status = "registered"
  /\ intercepts' = [intercepts EXCEPT ![intercept[i].pid] = None]
  /\ intercept' = [intercept EXCEPT ![i] = FreeIntercept]
  /\ UNCHANGED <<crash, queueVars, draining>>

CrashNext(c) ==
  \/ CrashAccept(c)
  \/ CrashRequestFail(c)
  \/ \E t \in DumpType, p \in Pid : CrashRequest(c, t, p)
  \/ CrashCompleted(c)

InterceptNext(i) ==
  \/ InterceptAccept(i)
  \/ InterceptRequestFail(i)
  \/ \E p \in Pid, t \in InterceptTypes, ok \in BOOLEAN : InterceptRequest(i, p, t, ok)
  \/ InterceptClose(i)

QueueNext(q) == Dequeue(q) \/ DequeueDone(q)

Next ==
  \/ \E c \in Crash : CrashNext(c)
  \/ \E i \in Intercept : InterceptNext(i)
  \/ \E q \in Queues : QueueNext(q)

Spec == Init /\ [][Next]_vars

(***************************************************************************)
(* Fairness.  A running dump is ended at the latest by the 10 second       *)
(* EV_TIMEOUT of its event, and libevent runs every active event before it *)
(* polls again: the callbacks of other connections delay it (the loop of   *)
(* one even disables it for a while, hence SF) but cannot starve it.       *)
(* Nothing makes a client connect, send a request or register.             *)
(***************************************************************************)
Fairness ==
  /\ \A c \in Crash : SF_vars(CrashCompleted(c))
  /\ \A q \in Queues : WF_vars(QueueNext(q))

FairSpec == Spec /\ Fairness

-----------------------------------------------------------------------------
(***************************************************************************)
(* Properties.                                                             *)
(***************************************************************************)

Running(q) == {c \in Crash : crash[c].status = "running" /\ QueueOf(crash[c].type) = q}

\* Every variable has its type.
TypeOK ==
  /\ crash \in [Crash -> [status : {"free", "accepted", "queued", "running"},
                          type : DumpType \cup {None}, pid : Pid \cup {None},
                          output : Outputs]]
  /\ intercept \in [Intercept -> [status : {"free", "accepted", "registered"},
                                  pid : Pid \cup {None}, type : DumpType \cup {None}]]
  /\ intercepts \in [Pid -> Intercept \cup {None}]
  /\ queue \in [Queues -> Seq(Crash)]
  /\ num \in [Queues -> Int]
  /\ next \in [Queues -> Nat] /\ \A q \in Queues : next[q] \in Artifacts(q)
  /\ draining \in Queues \cup {None}

\* num_concurrent_dumps_ counts exactly the dumps that hold a descriptor, whatever
\* mix of failed sends, timeouts and completions led here, and never exceeds
\* max_concurrent_dumps_ (a size_t, it never goes below zero either).
ConcurrencyBound ==
  \A q \in Queues : num[q] = Cardinality(Running(q)) /\ num[q] <= MaxDumps[q]

\* No request is stranded: whenever the event loop is idle, a queue that holds
\* requests has all its dumps running, so some completion will drain it.
NoStrandedRequest ==
  \A q \in Queues : draining # q /\ queue[q] # <<>> => num[q] = MaxDumps[q]

\* A Crash object has one owner: the queue it was put on, once, while it waits, and
\* no queue otherwise (a queue never holds a deleted Crash).
CrashOwnership ==
  /\ \A q \in Queues : \A k \in DOMAIN queue[q] :
       LET r == crash[queue[q][k]] IN r.status = "queued" /\ QueueOf(r.type) = q
  /\ \A q \in Queues : \A j, k \in DOMAIN queue[q] : queue[q][j] = queue[q][k] => j = k
  /\ \A c \in Crash : crash[c].status = "queued" =>
       \E k \in DOMAIN queue[QueueOf(crash[c].type)] : queue[QueueOf(crash[c].type)][k] = c

\* The two LOG(FATAL)s of intercept_close_cb are unreachable: the map and the
\* registered Intercept objects always agree.
InterceptTable ==
  \A i \in Intercept, p \in Pid :
    intercepts[p] = i <=> intercept[i].status = "registered" /\ intercept[i].pid = p

\* A dump reaches an interceptor only if that interceptor asked for this process
\* and this kind of dump; for a java trace the process is the one the kernel names.
InterceptedByRequest ==
  \A c \in Crash : crash[c].output.kind = "intercept" =>
    /\ crash[c].output.pid = crash[c].pid
    /\ crash[c].type \in {"AnyIntercept", crash[c].output.type}
    /\ crash[c].type = "JavaBacktrace" => crash[c].pid = Peer[c]

\* Interceptors are found and served right: the map that finds them agrees with their
\* state, and each gets only dumps of the process and kind it registered for.
Interception == InterceptTable /\ InterceptedByRequest

\* A new request never overtakes the waiting ones: it is served at once only when
\* nothing of its queue waits, and the waiting ones leave in order.
NoOvertaking ==
  [][\A c \in Crash :
       crash[c].status # "running" /\ crash'[c].status = "running" =>
         LET q == QueueOf(crash'[c].type)
         IN  queue[q] = <<>> \/ Head(queue[q]) = c]_vars

\* Every queued request is eventually served or dropped: each running dump ends,
\* at the latest by its timeout, and its end drains the queue.
QueuedIsServed ==
  \A c \in Crash : crash[c].status = "queued" ~> crash[c].status # "queued"

-----------------------------------------------------------------------------
(***************************************************************************)
(* The inductive invariant of the proofs: besides the properties, a crash  *)
(* past its request and a registered intercept have all their fields set.  *)
(***************************************************************************)
FieldsSet ==
  /\ \A c \in Crash : crash[c].status \in {"queued", "running"} =>
       /\ crash[c].type \in DumpType /\ crash[c].pid \in Pid
       /\ crash[c].type = "JavaBacktrace" => crash[c].pid = Peer[c]
  /\ \A c \in Crash : crash[c].status # "running" => crash[c].output = NoOutput
  /\ \A i \in Intercept : intercept[i].status = "registered" =>
       intercept[i].type \in DumpType /\ intercept[i].pid \in Pid

IInv ==
  /\ TypeOK
  /\ FieldsSet
  /\ ConcurrencyBound
  /\ NoStrandedRequest
  /\ CrashOwnership
  /\ InterceptTable
  /\ InterceptedByRequest
=============================================================================
