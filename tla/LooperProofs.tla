---------------------------- MODULE LooperProofs ----------------------------
(***************************************************************************)
(* Proofs about a Looper, for any number of threads, messages, times,      *)
(* descriptors, files and calls: the epoll set never gets out of step with *)
(* mRequests without a rebuild being scheduled, a callback only ever       *)
(* unregisters its own request, messages stay in their order, and the loop *)
(* never sleeps past the first of them.                                    *)
(***************************************************************************)
EXTENDS Looper, FiniteSetTheorems, SequenceTheorems, WellFoundedInduction, TLAPS

TypeOK ==
    /\ mRequests \in [Fd -> Requests \cup {None}]
    /\ mNextRequestSeq \in Nat
    /\ mEpollRebuildRequired \in BOOLEAN
    /\ epoll \subseteq Descriptors /\ IsFiniteSet(epoll)
    /\ items \subseteq Descriptors /\ IsFiniteSet(items)
    /\ table \in [Fd -> File \cup {None}]
    /\ unopened \subseteq File
    /\ mResponses \in Seq([req : Requests, file : File])
    /\ mResponseIndex \in Nat
    /\ pc \in {"idle", "polling", "awake", "handler", "responses", "callback", "return"}
    /\ pc = "callback" => mResponseIndex \in 1..Len(mResponses)

Registered(fd) == mRequests[fd] # None

\* A request is kept under its own number, and no file is opened twice
FilesOnce ==
    \A fd \in Fd :
        /\ table[fd] # None => table[fd] \notin unopened
        /\ Registered(fd) => mRequests[fd].fd = fd /\ mRequests[fd].file \notin unopened

\* A number refers to another file than the one it was registered for only while the
\* callback that closed it runs
StaleInCallback ==
    \A fd \in Fd : Registered(fd) /\ mRequests[fd].file # table[fd]
                      => pc = "callback" /\ Running = mRequests[fd]

SyncInv == TypeOK /\ FilesOnce /\ StaleInCallback /\ EpollInSync

\* A sequence number stands for one request, registered or only remembered in a response
OneSeq ==
    /\ \A fd \in Fd : Registered(fd) =>
          /\ mRequests[fd].seq < mNextRequestSeq
          /\ mRequests[fd].seq \notin removedSelf
    /\ \A f, g \in Fd : Registered(f) /\ Registered(g) /\ mRequests[f].seq = mRequests[g].seq
                           => f = g
    /\ \A i \in 1..Len(mResponses) :
          /\ mResponses[i].req.seq < mNextRequestSeq
          /\ \A fd \in Fd : Registered(fd) /\ mRequests[fd].seq = mResponses[i].req.seq
                               => mRequests[fd] = mResponses[i].req
    /\ \A s \in removedSelf : s \in Nat /\ s < mNextRequestSeq

\* Unless the set is about to be rebuilt, a descriptor is in one event only
OneItem ==
    pc = "awake" /\ ~mEpollRebuildRequired
        => \A d, e \in items : d.fd = e.fd => d = e

\* So the responses are for different requests, and those to come for none that removed itself
OneResponse ==
    /\ pc \in {"polling", "awake"} => mResponses = <<>>
    /\ \A i, j \in 1..Len(mResponses) :
          i # j => mResponses[i].req.seq # mResponses[j].req.seq
    /\ pc \in {"handler", "responses", "callback"} =>
          \A i \in 1..Len(mResponses) :
              i > mResponseIndex => mResponses[i].req.seq \notin removedSelf

OwnInv == SyncInv /\ OneSeq /\ OneItem /\ OneResponse

-----------------------------------------------------------------------------
(* Steps                                                                    *)

\* The steps that concern messages, the clock and the readiness of files
Quiet == UNCHANGED <<requestVars, pollVars, table, unopened>>

\* What a thread does with descriptors
FdStep ==
    \E fd \in Fd :
        \/ \E kind \in {"callback", "ident"} : addFd(fd, kind)
        \/ AddFails(fd)
        \/ \E inside \in BOOLEAN : removeFd(fd, inside)
        \/ \E file \in File : Open(fd, file)
        \/ Close(fd)

PollStep == Poll \/ epoll_wait \/ Interrupted

\* Every step of the loop and its clients is of one of these three sorts.
LEMMA StepSorts == [Next]_vars => Quiet \/ FdStep \/ PollStep
  <1>1. ASSUME NEW t \in Thread, NEW d \in Delay, NEW h \in Handler,
               sendMessageAtTime(t, now + d, h)
        PROVE  Quiet
    BY <1>1 DEF sendMessageAtTime, Quiet, fileVars
  <1>2. ASSUME NEW t \in Thread, wake(t) PROVE Quiet
    BY <1>2 DEF wake, Quiet, fileVars
  <1>3. ASSUME NEW d \in Delay, NEW h \in Handler, SendInside(now + d, h) PROVE Quiet
    BY <1>3 DEF SendInside, Quiet, fileVars
  <1>4. ASSUME NEW H \in SUBSET Handler, removeMessages(H) PROVE Quiet
    BY <1>4 DEF removeMessages, Quiet, fileVars
  <1>5. ASSUME NEW fd \in Fd, Read(fd) PROVE Quiet
    BY <1>5 DEF Read, Quiet
  <1>6. ASSUME NEW file \in File, Signal(file) PROVE Quiet
    BY <1>6 DEF Signal, Quiet
  <1>7. Tick => Quiet
    BY DEF Tick, Quiet, fileVars
  <1>8. UNCHANGED vars => Quiet
    BY DEF vars, Quiet, fileVars
  <1>9. Client => Quiet \/ FdStep
    BY <1>1, <1>2, <1>3, <1>4, <1>5, <1>6 DEF Client, FdStep
  <1> QED
    BY <1>7, <1>8, <1>9 DEF Next, PollStep

\* The message loop only moves the polling thread to a handler or to the responses.
LEMMA DeliverPc == ASSUME NEW q, Deliver(q) PROVE pc' \in {"handler", "responses"}
  BY DEF Deliver

-----------------------------------------------------------------------------
(* The epoll set and the registered descriptors                             *)

\* An entry of the epoll set for a number is not one for another number.
LEMMA EntryFields == \A fd : Entry(fd).fd = fd /\ Entry(fd).file = table[fd]
  BY DEF Entry

\* A Looper that is just made has nothing registered.
LEMMA SyncInit == Init => SyncInv
  <1> SUFFICES ASSUME Init PROVE SyncInv
    OBVIOUS
  <1>1. IsFiniteSet(epoll) /\ IsFiniteSet(items)
    BY FS_EmptySet DEF Init
  <1>2. mResponses \in Seq([req : Requests, file : File])
    BY DEF Init
  <1>3. TypeOK
    BY <1>1, <1>2, Zenon DEF Init, TypeOK
  <1>4. FilesOnce /\ StaleInCallback
    BY DEF Init, FilesOnce, StaleInCallback, Registered
  <1>5. EpollInSync
    BY DEF Init, EpollInSync
  <1> QED
    BY <1>3, <1>4, <1>5 DEF SyncInv

\* What concerns neither descriptors nor the polling thread leaves the set in step.
LEMMA SyncQuiet == SyncInv /\ Quiet => SyncInv'
  <1> SUFFICES ASSUME SyncInv, Quiet PROVE SyncInv'
    OBVIOUS
  <1> USE DEF Quiet, requestVars, pollVars
  <1>1. TypeOK'
    BY DEF SyncInv, TypeOK
  <1>2. FilesOnce'
    BY DEF SyncInv, FilesOnce, Registered
  <1>3. StaleInCallback'
    BY DEF SyncInv, StaleInCallback, Registered, Running
  <1>4. EpollInSync'
    BY DEF SyncInv, EpollInSync, Entry
  <1> QED
    BY <1>1, <1>2, <1>3, <1>4 DEF SyncInv

\* addFd leaves the set in step: an older entry for the number either is the one that is
\* modified, or EPOLL_CTL_MOD says ENOENT and a rebuild is scheduled.
LEMMA SyncAdd ==
    ASSUME SyncInv, NEW fd \in Fd, NEW kind \in {"callback", "ident"}, addFd(fd, kind)
    PROVE  SyncInv'
  <1> DEFINE r == Request(fd, kind)
  <1> USE LooperAssumption
  <1>1. r \in Requests /\ r # None /\ r.fd = fd /\ r.file = table[fd]
    BY DEF SyncInv, TypeOK, addFd, Usable, Request, Requests
  <1>2. /\ UNCHANGED <<table, unopened, pollVars>>
        /\ mRequests' = [mRequests EXCEPT ![fd] = r]
        /\ epoll' = epoll \cup {Entry(fd)}
        /\ mEpollRebuildRequired' \in BOOLEAN
        /\ mEpollRebuildRequired => mEpollRebuildRequired'
        /\ Registered(fd) /\ Entry(fd) \notin epoll => mEpollRebuildRequired'
        /\ ~Registered(fd) => Entry(fd) \notin epoll
    BY Zenon DEF SyncInv, TypeOK, addFd, Rebuild, NoRebuild, Usable, fileVars, Registered
  <1> HIDE DEF r
  <1>3. TypeOK'
    <2>1. Entry(fd) \in Descriptors
      BY DEF SyncInv, TypeOK, Entry, Descriptors, addFd, Usable
    <2>2. IsFiniteSet(epoll')
      BY <1>2, FS_AddElement DEF SyncInv, TypeOK
    <2>3. mNextRequestSeq' \in Nat
      BY DEF SyncInv, TypeOK, addFd
    <2> QED
      BY <1>1, <1>2, <2>1, <2>2, <2>3 DEF SyncInv, TypeOK, pollVars
  <1>4. \A f \in Fd : mRequests'[f] = IF f = fd THEN r ELSE mRequests[f]
    BY <1>2 DEF SyncInv, TypeOK
  <1>5. FilesOnce'
    BY <1>1, <1>2, <1>4 DEF SyncInv, FilesOnce, Registered, addFd, Usable
  <1>6. StaleInCallback'
    BY <1>1, <1>2, <1>4, SMTT(30) DEF SyncInv, StaleInCallback, Registered, Running, pollVars
  <1>7. EpollInSync'
    <2>1. ASSUME NEW f \in Fd, mRequests'[f] # None, mRequests'[f].file = table'[f]
          PROVE  Entry(f)' \in epoll'
      <3>1. Entry(f)' = Entry(f)
        BY <1>2 DEF Entry
      <3>2. CASE f = fd
        BY <1>2, <3>1, <3>2, ZenonT(30)
      <3>3. CASE f # fd
        BY <1>2, <1>4, <2>1, <3>1, <3>3, ZenonT(30) DEF SyncInv, EpollInSync
      <3> QED
        BY <3>2, <3>3
    <2>2. ASSUME NEW e \in epoll', ~mEpollRebuildRequired'
          PROVE  mRequests'[e.fd] # None /\ mRequests'[e.fd].file = e.file
      <3>1. CASE e = Entry(fd)
        BY <1>1, <1>4, <3>1, EntryFields
      <3>2. CASE e # Entry(fd)
        <4>1. /\ e \in epoll /\ e \in Descriptors /\ e.fd \in Fd
              /\ mRequests[e.fd] # None /\ mRequests[e.fd].file = e.file
          BY <1>2, <2>2, <3>2 DEF SyncInv, TypeOK, EpollInSync, Descriptors
        <4>2. e.fd # fd
          <5> SUFFICES ASSUME e.fd = fd PROVE FALSE
            OBVIOUS
          <5>1. Entry(fd) \in epoll
            BY <1>2, <2>2, <4>1, ZenonT(30) DEF Registered
          <5>2. mRequests[fd].file = table[fd]
            BY <1>2, <2>2, <5>1, EntryFields, ZenonT(30) DEF SyncInv, EpollInSync
          <5>3. e = Entry(fd)
            BY <4>1, <5>2 DEF Entry, Descriptors
          <5> QED
            BY <3>2, <5>3
        <4> QED
          BY <1>4, <4>1, <4>2, ZenonT(30)
      <3> QED
        BY <3>1, <3>2
    <2> QED
      BY <2>1, <2>2, <1>2 DEF EpollInSync
  <1> QED
    BY <1>3, <1>5, <1>6, <1>7 DEF SyncInv

\* Unregistering a descriptor leaves the set in step: the entry is deleted, or a rebuild is
\* scheduled because it could not be.  Of the polling thread, only the pc may change, and
\* only when the number unregistered is the one of its callback.
LEMMA SyncUnregister ==
    ASSUME SyncInv, NEW fd \in Fd, Unregister(fd),
           UNCHANGED <<table, unopened, mNextRequestSeq, items, mResponses, mResponseIndex>>,
           pc' = pc \/ (pc = "callback" /\ pc' = "responses" /\ fd = Running.fd)
    PROVE  SyncInv'
  <1>1. /\ mRequests[fd] # None
        /\ mRequests' = [mRequests EXCEPT ![fd] = None]
        /\ epoll' \subseteq epoll
        /\ \A e \in epoll : e # Entry(fd) => e \in epoll'
        /\ mEpollRebuildRequired' \in BOOLEAN
        /\ mEpollRebuildRequired => mEpollRebuildRequired'
        /\ ~mEpollRebuildRequired' => Entry(fd) \in epoll /\ Entry(fd) \notin epoll'
    BY Zenon DEF SyncInv, TypeOK, Unregister, Deleted, Rebuild, NoRebuild
  <1>2. \A f \in Fd : mRequests'[f] = IF f = fd THEN None ELSE mRequests[f]
    BY <1>1 DEF SyncInv, TypeOK
  <1>3. TypeOK'
    <2>1. IsFiniteSet(epoll')
      BY <1>1, FS_Subset DEF SyncInv, TypeOK
    <2> QED
      BY <1>1, <2>1 DEF SyncInv, TypeOK
  <1>4. FilesOnce'
    BY <1>2 DEF SyncInv, FilesOnce, Registered
  <1>5. StaleInCallback'
    <2> SUFFICES ASSUME NEW f \in Fd, mRequests'[f] # None, mRequests'[f].file # table'[f]
                 PROVE  pc' = "callback" /\ Running' = mRequests'[f]
      BY DEF StaleInCallback, Registered
    <2>1. f # fd /\ mRequests'[f] = mRequests[f]
      BY <1>2
    <2>2. pc = "callback" /\ Running = mRequests[f] /\ mRequests[f].fd = f
      BY <2>1 DEF SyncInv, StaleInCallback, FilesOnce, Registered
    <2>3. Running' = Running
      BY DEF Running
    <2> QED
      BY <2>1, <2>2, <2>3
  <1>6. EpollInSync'
    <2>1. ASSUME NEW f \in Fd, mRequests'[f] # None, mRequests'[f].file = table'[f]
          PROVE  Entry(f)' \in epoll'
      <3>1. f # fd /\ mRequests'[f] = mRequests[f] /\ Entry(f)' = Entry(f)
        BY <1>2, <2>1 DEF Entry
      <3>2. Entry(f) \in epoll /\ Entry(f) # Entry(fd)
        BY <2>1, <3>1, EntryFields, SMTT(30) DEF SyncInv, EpollInSync
      <3> QED
        BY <1>1, <3>1, <3>2
    <2>2. ASSUME NEW e \in epoll', ~mEpollRebuildRequired'
          PROVE  mRequests'[e.fd] # None /\ mRequests'[e.fd].file = e.file
      <3>1. /\ e \in epoll /\ e \in Descriptors /\ e.fd \in Fd /\ e # Entry(fd)
            /\ mRequests[e.fd] # None /\ mRequests[e.fd].file = e.file
        BY <1>1, <2>2 DEF SyncInv, TypeOK, EpollInSync, Descriptors
      <3>2. mRequests[fd].file = table[fd]
        BY <1>1, <2>2, EntryFields DEF SyncInv, EpollInSync
      <3>3. e.fd # fd
        BY <3>1, <3>2 DEF Entry, Descriptors
      <3> QED
        BY <1>2, <3>1, <3>3, ZenonT(30)
    <2> QED
      BY <2>1, <2>2, <1>1 DEF EpollInSync
  <1> QED
    BY <1>3, <1>4, <1>5, <1>6 DEF SyncInv

\* A number that is opened gets a file that nothing was registered for.
LEMMA SyncOpen ==
    ASSUME SyncInv, NEW fd \in Fd, NEW file \in File, Open(fd, file)
    PROVE  SyncInv'
  <1> USE LooperAssumption
  <1>1. /\ table[fd] = None /\ file \in unopened
        /\ table' = [table EXCEPT ![fd] = file]
        /\ unopened' = unopened \ {file}
        /\ UNCHANGED <<pollVars, requestVars>>
    BY DEF Open
  <1>2. \A f \in Fd : table'[f] = IF f = fd THEN file ELSE table[f]
    BY <1>1 DEF SyncInv, TypeOK
  <1>3. TypeOK'
    BY <1>1 DEF SyncInv, TypeOK, pollVars, requestVars
  <1>4. FilesOnce'
    <2>1. \A f \in Fd : table'[f] # None => table'[f] \notin unopened'
      BY <1>1, <1>2, SMTT(30) DEF SyncInv, FilesOnce
    <2>2. \A f \in Fd : mRequests'[f] # None
             => mRequests'[f].fd = f /\ mRequests'[f].file \notin unopened'
      BY <1>1, ZenonT(30) DEF SyncInv, FilesOnce, Registered, requestVars
    <2> QED
      BY <2>1, <2>2, ZenonT(30) DEF FilesOnce, Registered
  <1>5. \A f \in Fd : Registered(f) => mRequests[f].file # None /\ mRequests[f].file # file
    BY <1>1 DEF SyncInv, TypeOK, FilesOnce, Registered, Requests
  <1>6. StaleInCallback'
    BY <1>1, <1>2, <1>5, ZenonT(30) DEF SyncInv, StaleInCallback, Registered, Running, pollVars, requestVars
  <1>7. EpollInSync'
    <2>1. ASSUME NEW f \in Fd, mRequests'[f] # None, mRequests'[f].file = table'[f]
          PROVE  Entry(f)' \in epoll'
      <3>1. f # fd /\ table'[f] = table[f] /\ mRequests'[f] = mRequests[f]
        BY <1>1, <1>2, <1>5, <2>1, ZenonT(30) DEF Registered, requestVars
      <3> QED
        BY <1>1, <2>1, <3>1, SMTT(30) DEF SyncInv, EpollInSync, Entry, requestVars
    <2> QED
      BY <2>1, <1>1, ZenonT(30) DEF SyncInv, EpollInSync, requestVars
  <1> QED
    BY <1>3, <1>4, <1>6, <1>7, ZenonT(30) DEF SyncInv

\* A descriptor that is closed is not registered, or it was closed by its own callback.
LEMMA SyncClose ==
    ASSUME SyncInv, NEW fd \in Fd, Close(fd)
    PROVE  SyncInv'
  <1> USE LooperAssumption
  <1>1. /\ table[fd] # None
        /\ table' = [table EXCEPT ![fd] = None]
        /\ epoll' \subseteq epoll
        /\ \A e \in epoll : e # Entry(fd) => e \in epoll'
        /\ UNCHANGED <<pollVars, mRequests, mNextRequestSeq, mEpollRebuildRequired, unopened>>
        /\ Registered(fd) => \/ mRequests[fd].file # table[fd]
                             \/ pc = "callback" /\ Running = mRequests[fd]
    BY DEF Close, CloseIt, Registered
  <1>2. \A f \in Fd : table'[f] = IF f = fd THEN None ELSE table[f]
    BY <1>1, ZenonT(30) DEF SyncInv, TypeOK
  <1>3. TypeOK'
    <2>1. IsFiniteSet(epoll')
      BY <1>1, FS_Subset, ZenonT(30) DEF SyncInv, TypeOK
    <2> QED
      BY <1>1, <2>1, ZenonT(30) DEF SyncInv, TypeOK, pollVars
  <1>4. FilesOnce'
    BY <1>1, <1>2, SMTT(30) DEF SyncInv, FilesOnce, Registered
  <1>5. StaleInCallback'
    BY <1>1, <1>2, ZenonT(30) DEF SyncInv, StaleInCallback, Registered, Running, pollVars
  <1>6. EpollInSync'
    <2>1. ASSUME NEW f \in Fd, mRequests'[f] # None, mRequests'[f].file = table'[f]
          PROVE  Entry(f)' \in epoll'
      <3>1. mRequests[f] = mRequests'[f] /\ mRequests[f].file # None
        BY <1>1, <2>1, ZenonT(30) DEF SyncInv, TypeOK, Requests
      <3>2. f # fd /\ Entry(f)' = Entry(f)
        BY <1>2, <2>1, <3>1, ZenonT(30) DEF Entry
      <3>3. Entry(f) \in epoll /\ Entry(f) # Entry(fd)
        BY <1>2, <2>1, <3>1, <3>2, EntryFields, SMTT(30) DEF SyncInv, EpollInSync
      <3> QED
        BY <1>1, <3>2, <3>3, ZenonT(30)
    <2> QED
      BY <2>1, <1>1, ZenonT(30) DEF SyncInv, EpollInSync
  <1> QED
    BY <1>3, <1>4, <1>5, <1>6, ZenonT(30) DEF SyncInv

\* What threads do with descriptors leaves the set in step.
LEMMA SyncFd == SyncInv /\ FdStep => SyncInv'
  <1> SUFFICES ASSUME SyncInv, FdStep PROVE SyncInv'
    OBVIOUS
  <1> PICK fd \in Fd :
        \/ \E kind \in {"callback", "ident"} : addFd(fd, kind)
        \/ AddFails(fd)
        \/ \E inside \in BOOLEAN : removeFd(fd, inside)
        \/ \E file \in File : Open(fd, file)
        \/ Close(fd)
    BY DEF FdStep
  <1>1. CASE AddFails(fd)
    <2> USE <1>1 DEF AddFails, pollVars, fileVars
    <2>1. TypeOK'
      BY SMTT(30) DEF SyncInv, TypeOK
    <2>2. FilesOnce'
      BY ZenonT(30) DEF SyncInv, FilesOnce, Registered
    <2>3. StaleInCallback'
      BY ZenonT(30) DEF SyncInv, StaleInCallback, Registered, Running
    <2>4. EpollInSync'
      BY DEF SyncInv, EpollInSync, Entry
    <2> QED
      BY <2>1, <2>2, <2>3, <2>4, ZenonT(30) DEF SyncInv
  <1>2. ASSUME NEW inside \in BOOLEAN, removeFd(fd, inside) PROVE SyncInv'
    <2>1. /\ Unregister(fd)
          /\ UNCHANGED <<table, unopened, mNextRequestSeq, items, mResponses, mResponseIndex>>
          /\ pc' = pc
      BY <1>2, ZenonT(30) DEF removeFd, pollVars, fileVars
    <2> QED
      BY <2>1, SyncUnregister, ZenonT(30)
  <1> QED
    BY <1>1, <1>2, SyncAdd, SyncOpen, SyncClose, ZenonT(30)

\* A step of the polling thread that touches no descriptor leaves the set in step, if it
\* does not end a callback that closed its number.
LEMMA SyncMove ==
    ASSUME SyncInv, TypeOK', UNCHANGED <<requestVars, table, unopened>>,
           \A fd \in Fd : Registered(fd) => mRequests[fd].file = table[fd]
    PROVE  SyncInv'
  <1> USE DEF requestVars
  <1>1. FilesOnce'
    BY ZenonT(30) DEF SyncInv, FilesOnce, Registered
  <1>2. StaleInCallback'
    BY ZenonT(30) DEF StaleInCallback, Registered
  <1>3. EpollInSync'
    BY ZenonT(30) DEF SyncInv, EpollInSync, Entry
  <1> QED
    BY <1>1, <1>2, <1>3, ZenonT(30) DEF SyncInv

\* The responses are for events whose descriptors are registered, one response for each.
LEMMA HandleResponses ==
    ASSUME TypeOK, Handle
    PROVE  /\ mResponses' \in Seq([req : Requests, file : File])
           /\ \E known :
                 \A i \in 1..Len(mResponses') :
                    /\ known[i] \in items /\ known[i].fd \in Fd /\ Registered(known[i].fd)
                    /\ mResponses'[i].req = mRequests[known[i].fd]
                    /\ \A j \in 1..Len(mResponses') : i # j => known[i] # known[j]
  <1> DEFINE S == {e \in items : mRequests[e.fd] # None}
  <1>1. IsFiniteSet(S)
    BY FS_Subset DEF TypeOK
  <1> DEFINE n == Cardinality(S)
  <1>2. n \in Nat
    BY <1>1, FS_CardinalityType
  <1>3. PICK known \in Bijection(1..n, S) :
            mResponses' = [i \in 1..Len(known) |->
                              [req |-> mRequests[known[i].fd], file |-> known[i].file]]
    BY ZenonT(30) DEF Handle
  <1>4. known \in [1..n -> S] /\ \A i, j \in 1..n : i # j => known[i] # known[j]
    BY <1>3 DEF Bijection, Injection, IsInjective
  <1>5. \A e \in S : /\ e \in items /\ e.fd \in Fd /\ e.file \in File
                     /\ Registered(e.fd) /\ mRequests[e.fd] \in Requests
    BY DEF TypeOK, Descriptors, Registered
  <1> HIDE DEF S, n
  <1>6. Len(known) = n
    BY <1>2, <1>4
  <1>7. \A i \in 1..n : [req |-> mRequests[known[i].fd], file |-> known[i].file]
                           \in [req : Requests, file : File]
    BY <1>4, <1>5
  <1>8. mResponses' \in [1..n -> [req : Requests, file : File]]
    BY <1>3, <1>6, <1>7
  <1>9. mResponses' \in Seq([req : Requests, file : File]) /\ Len(mResponses') = n
    <2> DEFINE Response == [req : Requests, file : File]
    <2>1. mResponses' \in [1..n -> Response]
      BY <1>8
    <2> HIDE DEF Response
    <2>2. mResponses' \in Seq(Response) /\ Len(mResponses') = n
      BY <1>2, <2>1, SMTT(30)
    <2> QED
      BY <2>2 DEF Response
  <1>10. \A i \in 1..n : mResponses'[i].req = mRequests[known[i].fd]
    BY <1>3, <1>6, ZenonT(30)
  <1>11. \A i \in 1..Len(mResponses') :
            /\ known[i] \in items /\ known[i].fd \in Fd /\ Registered(known[i].fd)
            /\ mResponses'[i].req = mRequests[known[i].fd]
            /\ \A j \in 1..Len(mResponses') : i # j => known[i] # known[j]
    BY <1>4, <1>5, <1>9, <1>10, ZenonT(30)
  <1> QED
    BY <1>9, <1>11, Zenon

\* A rebuild, when no number refers to another file than the one it was registered for,
\* makes a set of exactly what is registered and open.
LEMMA SyncRebuild == SyncInv /\ HandleRebuild => SyncInv'
  <1> SUFFICES ASSUME SyncInv, HandleRebuild PROVE SyncInv'
    BY ZenonT(30)
  <1> DEFINE F == {f \in Fd : mRequests[f] # None /\ table[f] # None}
  <1> USE LooperAssumption
  <1>1. /\ pc = "awake" /\ pc' \in {"handler", "responses"}
        /\ epoll' = {Entry(fd) : fd \in F}
        /\ mEpollRebuildRequired' = FALSE
        /\ UNCHANGED <<table, unopened, mRequests, mNextRequestSeq, items, mResponses,
                       mResponseIndex>>
    BY DeliverPc, ZenonT(30) DEF HandleRebuild, RebuildEpoll, fileVars
  <1>2. \A fd \in Fd : Registered(fd) =>
            mRequests[fd].file = table[fd] /\ table[fd] # None
    BY <1>1 DEF SyncInv, TypeOK, StaleInCallback, Registered, Requests
  <1>3. IsFiniteSet(F)
    BY FS_Subset, ZenonT(30)
  <1>4. IsFiniteSet(epoll')
    <2> DEFINE entry == [f \in F |-> Entry(f)]
    <2>1. entry \in [F -> epoll']
      BY <1>1, ZenonT(30)
    <2>2. ASSUME NEW e \in epoll' PROVE \E f \in F : entry[f] = e
      <3>1. PICK f \in F : e = Entry(f)
        BY <1>1, ZenonT(30)
      <3> QED
        BY <3>1
    <2>3. entry \in Surjection(F, epoll')
      BY <2>1, <2>2, ZenonT(30) DEF Surjection
    <2> QED
      BY <1>3, <2>3, FS_Surjection, ZenonT(30)
  <1>5. epoll' \subseteq Descriptors
    BY <1>1, SMTT(30) DEF SyncInv, TypeOK, Entry, Descriptors
  <1>6. TypeOK'
    BY <1>1, <1>4, <1>5, ZenonT(30) DEF SyncInv, TypeOK
  <1>7. FilesOnce'
    BY <1>1 DEF SyncInv, FilesOnce, Registered
  <1>8. StaleInCallback'
    BY <1>1, <1>2 DEF StaleInCallback, Registered
  <1>9. EpollInSync'
    <2>1. \A fd \in Fd : Entry(fd)' = Entry(fd)
      BY <1>1, ZenonT(30) DEF Entry
    <2>2. \A fd \in Fd : Registered(fd) => Entry(fd) \in epoll'
      BY <1>1, <1>2, ZenonT(30) DEF Registered
    <2>3. \A e \in epoll' : mRequests[e.fd] # None /\ mRequests[e.fd].file = e.file
      BY <1>1, <1>2, EntryFields, SMTT(30) DEF Registered
    <2> QED
      BY <1>1, <2>1, <2>2, <2>3 DEF EpollInSync, Registered
  <1> QED
    BY <1>6, <1>7, <1>8, <1>9 DEF SyncInv

\* A response is for a request.
LEMMA ResponseType ==
    TypeOK => \A i \in 1..Len(mResponses) : mResponses[i].req \in Requests
  <1> SUFFICES ASSUME TypeOK, NEW i \in 1..Len(mResponses)
               PROVE  mResponses[i].req \in Requests
    OBVIOUS
  <1> DEFINE Response == [req : Requests, file : File]
  <1>1. mResponses \in Seq(Response)
    BY DEF TypeOK
  <1> HIDE DEF Response
  <1>2. mResponses[i] \in Response
    BY <1>1, SMTT(30)
  <1> QED
    BY <1>2 DEF Response

\* And so the request whose callback runs is one.
LEMMA RunningType == TypeOK /\ pc = "callback" => Running \in Requests
  BY ResponseType, ZenonT(30) DEF TypeOK, Running

\* The steps of the polling thread leave the set in step.
LEMMA SyncPoll == SyncInv /\ PollStep => SyncInv'
  <1> SUFFICES ASSUME SyncInv, PollStep PROVE SyncInv'
    OBVIOUS
  <1>1. pc # "callback" => \A fd \in Fd : Registered(fd) => mRequests[fd].file = table[fd]
    BY ZenonT(30) DEF SyncInv, StaleInCallback
  <1>2. CASE ReturnIdent
    <2>1. pc' = "idle" /\ mResponseIndex' \in Nat
      BY <1>2, SMTT(30) DEF ReturnIdent, Pending
    <2> QED
      BY <1>1, <1>2, <2>1, SyncMove, ZenonT(30) DEF ReturnIdent, SyncInv, TypeOK, requestVars, fileVars
  <1>3. CASE ReturnResult
    <2>1. mResponseIndex' \in Nat
      BY <1>3, SMTT(30) DEF ReturnResult, SyncInv, TypeOK
    <2> QED
      BY <1>1, <1>3, <2>1, SyncMove, ZenonT(30) DEF ReturnResult, SyncInv, TypeOK, requestVars, fileVars
  <1>4. ASSUME NEW timeout \in Timeout, pollInner(timeout) PROVE SyncInv'
    <2>1. IsFiniteSet(items') /\ mResponses' \in Seq([req : Requests, file : File])
      BY <1>4, FS_EmptySet, SMTT(30) DEF pollInner
    <2> QED
      BY <1>1, <1>4, <2>1, SyncMove, ZenonT(30) DEF pollInner, SyncInv, TypeOK, requestVars, fileVars
  <1>5. CASE Handle
    <2>1. mResponses' \in Seq([req : Requests, file : File])
      BY <1>5, HandleResponses, ZenonT(30) DEF SyncInv
    <2>2. pc = "awake" /\ pc' \in {"handler", "responses"}
      BY <1>5, DeliverPc, ZenonT(30) DEF Handle
    <2> QED
      BY <1>1, <1>5, <2>1, <2>2, SyncMove, ZenonT(30) DEF Handle, SyncInv, TypeOK, requestVars, fileVars
  <1>6. CASE HandlerDone
    <2>1. pc = "handler" /\ pc' \in {"handler", "responses"}
      BY <1>6, DeliverPc, ZenonT(30) DEF HandlerDone
    <2> QED
      BY <1>1, <1>6, <2>1, SyncMove, ZenonT(30) DEF HandlerDone, SyncInv, TypeOK, requestVars, fileVars
  <1>7. CASE InvokeCallback
    <2>1. mResponseIndex' \in 1..Len(mResponses) /\ mResponseIndex' \in Nat
      BY <1>7, SMTT(30) DEF InvokeCallback, Callbacks, SyncInv, TypeOK
    <2> QED
      BY <1>1, <1>7, <2>1, SyncMove, ZenonT(30) DEF InvokeCallback, SyncInv, TypeOK, requestVars, fileVars
  <1>8. CASE AllInvoked
    BY <1>1, <1>8, SyncMove, ZenonT(30) DEF AllInvoked, SyncInv, TypeOK, requestVars, fileVars
  <1>9. CASE CallbackReturns1
    <2>1. \A fd \in Fd : Registered(fd) => mRequests[fd].file = table[fd]
      BY <1>9 DEF CallbackReturns1, SyncInv, StaleInCallback, FilesOnce, Registered
    <2> QED
      BY <1>9, <2>1, SyncMove, ZenonT(30) DEF CallbackReturns1, SyncInv, TypeOK, requestVars, fileVars
  <1>10. CASE CallbackReturns0
    <2>1. Running.fd \in Fd
      BY <1>10, RunningType, ZenonT(30) DEF CallbackReturns0, SyncInv, Requests
    <2>2. /\ pc = "callback" /\ pc' = "responses"
          /\ UNCHANGED <<table, unopened, mNextRequestSeq, items, mResponses, mResponseIndex>>
      BY <1>10 DEF CallbackReturns0, fileVars
    <2>3. CASE SameRequest
      <3>1. Unregister(Running.fd)
        BY <1>10, <2>3 DEF CallbackReturns0
      <3> QED
        BY <2>1, <2>2, <3>1, SyncUnregister, ZenonT(30)
    <2>4. CASE ~SameRequest
      <3>1. UNCHANGED <<mRequests, epoll, mEpollRebuildRequired>>
        BY <1>10, <2>4, ZenonT(30) DEF CallbackReturns0
      <3>2. \A fd \in Fd : Registered(fd) => mRequests[fd].file = table[fd]
        BY <2>4, ZenonT(30) DEF SameRequest, SyncInv, StaleInCallback, FilesOnce, Registered
      <3>3. TypeOK'
        BY <2>2, <3>1, ZenonT(30) DEF SyncInv, TypeOK
      <3>4. FilesOnce' /\ StaleInCallback'
        BY <2>2, <3>1, <3>2, ZenonT(30) DEF SyncInv, FilesOnce, StaleInCallback, Registered
      <3>5. EpollInSync'
        BY <2>2, <3>1, ZenonT(30) DEF SyncInv, EpollInSync, Entry
      <3> QED
        BY <3>3, <3>4, <3>5, ZenonT(30) DEF SyncInv
    <2> QED
      BY <2>3, <2>4, ZenonT(30)
  <1>11. CASE epoll_wait
    <2>1. IsFiniteSet(items') /\ items' \subseteq Descriptors
      BY <1>11, FS_Subset, ZenonT(30) DEF epoll_wait, SyncInv, TypeOK
    <2> QED
      BY <1>1, <1>11, <2>1, SyncMove, ZenonT(30) DEF epoll_wait, SyncInv, TypeOK, requestVars, fileVars
  <1>12. CASE Interrupted
    <2>1. IsFiniteSet(items')
      BY <1>12, FS_EmptySet DEF Interrupted
    <2> QED
      BY <1>1, <1>12, <2>1, SyncMove, ZenonT(30) DEF Interrupted, SyncInv, TypeOK, requestVars, fileVars
  <1> QED
    BY <1>2, <1>3, <1>4, <1>5, <1>6, <1>7, <1>8, <1>9, <1>10, <1>11, <1>12, SyncRebuild, ZenonT(30)
    DEF PollStep, Poll

\* The invariant the theorems rest on.
THEOREM SyncInvariant == Spec => []SyncInv
  <1>1. SyncInv /\ [Next]_vars => SyncInv'
    BY StepSorts, SyncQuiet, SyncFd, SyncPoll, ZenonT(30)
  <1> QED
    BY <1>1, SyncInit, PTL DEF Spec

\* For any number of threads, descriptors and files, whatever order they are added, closed,
\* reopened and removed in, the epoll set agrees with mRequests or is about to be rebuilt
\* (addFd, removeFd, rebuildEpollLocked).
THEOREM EpollStaysInSync == Spec => []EpollInSync
  <1>1. SyncInv => EpollInSync
    BY ZenonT(30) DEF SyncInv
  <1> QED
    BY <1>1, SyncInvariant, PTL

-----------------------------------------------------------------------------
(* Sequence numbers and responses                                           *)

\* A Looper that is just made has no responses.
LEMMA OwnInit == Init => OwnInv
  BY SyncInit, SMTT(30) DEF Init, OwnInv, OneSeq, OneItem, OneResponse, Registered

\* Sequence numbers stay unique when requests only go away, responses are kept or cleared,
\* and a number that joins removedSelf is no longer registered.
LEMMA SeqFewer ==
    ASSUME TypeOK, OneSeq,
           \A fd \in Fd : mRequests'[fd] = mRequests[fd] \/ mRequests'[fd] = None,
           mNextRequestSeq' \in Nat, mNextRequestSeq =< mNextRequestSeq',
           mResponses' = mResponses \/ mResponses' = <<>>,
           \A s \in removedSelf' :
               \/ s \in removedSelf
               \/ /\ s \in Nat /\ s < mNextRequestSeq
                  /\ \A fd \in Fd : mRequests'[fd] # None => mRequests'[fd].seq # s
    PROVE  OneSeq'
  <1>1. \A fd \in Fd : Registered(fd)' =>
            /\ Registered(fd) /\ mRequests'[fd] = mRequests[fd]
            /\ mRequests[fd] \in Requests /\ mRequests[fd].seq \in Nat
    BY ZenonT(30) DEF TypeOK, Registered, Requests
  <1>2. \A fd \in Fd : Registered(fd)' =>
            /\ mRequests'[fd].seq < mNextRequestSeq'
            /\ mRequests'[fd].seq \notin removedSelf'
    BY <1>1, SMTT(30) DEF TypeOK, OneSeq, Registered
  <1>3. \A f, g \in Fd : Registered(f)' /\ Registered(g)' /\ mRequests'[f].seq = mRequests'[g].seq
                            => f = g
    BY <1>1, ZenonT(30) DEF OneSeq
  <1>4. ASSUME NEW i \in 1..Len(mResponses')
        PROVE  /\ mResponses'[i].req.seq < mNextRequestSeq'
               /\ \A fd \in Fd : Registered(fd)' /\ mRequests'[fd].seq = mResponses'[i].req.seq
                                    => mRequests'[fd] = mResponses'[i].req
    <2>1. mResponses' = mResponses /\ i \in 1..Len(mResponses)
      BY <1>4, SMTT(30)
    <2>2. mResponses[i].req.seq \in Nat
      BY <2>1, ResponseType, ZenonT(30) DEF Requests
    <2> QED
      BY <1>1, <2>1, <2>2, SMTT(30) DEF TypeOK, OneSeq
  <1>5. \A s \in removedSelf' : s \in Nat /\ s < mNextRequestSeq'
    BY SMTT(30) DEF TypeOK, OneSeq
  <1> QED
    BY <1>2, <1>3, <1>4, <1>5, ZenonT(30) DEF OneSeq

\* Messages, the clock and the readiness of files do not matter here either.
LEMMA OwnQuiet == OwnInv /\ Quiet => OwnInv'
  <1> SUFFICES ASSUME OwnInv, Quiet PROVE OwnInv'
    OBVIOUS
  <1>1. SyncInv'
    BY SyncQuiet, ZenonT(30) DEF OwnInv
  <1> USE DEF Quiet, requestVars, pollVars
  <1>2. OneSeq'
    BY ZenonT(30) DEF OwnInv, OneSeq, Registered
  <1>3. OneItem' /\ OneResponse'
    BY SMTT(30) DEF OwnInv, OneItem, OneResponse
  <1> QED
    BY <1>1, <1>2, <1>3, ZenonT(30) DEF OwnInv

\* A step that leaves the polling thread alone and no request removes itself in.
LEMMA OthersKeep ==
    ASSUME OneItem, OneResponse, UNCHANGED <<pollVars, removedSelf>>,
           mEpollRebuildRequired => mEpollRebuildRequired'
    PROVE  OneItem' /\ OneResponse'
  BY DEF OneItem, OneResponse, pollVars

\* addFd takes a fresh sequence number.
LEMMA OwnAdd ==
    ASSUME OwnInv, NEW fd \in Fd, NEW kind \in {"callback", "ident"}, addFd(fd, kind)
    PROVE  OneSeq' /\ OneItem' /\ OneResponse'
  <1> DEFINE r == Request(fd, kind)
  <1>1. r.seq = mNextRequestSeq /\ mNextRequestSeq \in Nat
    BY DEF Request, OwnInv, SyncInv, TypeOK
  <1>2. /\ mRequests' = [mRequests EXCEPT ![fd] = r]
        /\ mNextRequestSeq' = mNextRequestSeq + 1
        /\ UNCHANGED <<pollVars, removedSelf>>
        /\ mEpollRebuildRequired => mEpollRebuildRequired'
    BY DEF addFd, Rebuild, NoRebuild
  <1> HIDE DEF r
  <1>3. \A f \in Fd : mRequests'[f] = IF f = fd THEN r ELSE mRequests[f]
    BY <1>2, ZenonT(30) DEF OwnInv, SyncInv, TypeOK
  <1>4. \A f \in Fd : Registered(f) =>
            mRequests[f].seq \in Nat /\ mRequests[f].seq < mNextRequestSeq
    BY ZenonT(30) DEF OwnInv, SyncInv, TypeOK, OneSeq, Registered, Requests
  <1>5. \A f \in Fd : Registered(f)' =>
            mRequests'[f].seq < mNextRequestSeq' /\ mRequests'[f].seq \notin removedSelf'
    BY <1>1, <1>2, <1>3, <1>4, SMTT(30) DEF OwnInv, OneSeq, Registered
  <1>6. \A f, g \in Fd : Registered(f)' /\ Registered(g)' /\ mRequests'[f].seq = mRequests'[g].seq
                            => f = g
    BY <1>1, <1>3, <1>4, SMTT(30) DEF OwnInv, OneSeq, Registered
  <1>7. ASSUME NEW i \in 1..Len(mResponses)
        PROVE  /\ mResponses[i].req.seq < mNextRequestSeq'
               /\ \A f \in Fd : Registered(f)' /\ mRequests'[f].seq = mResponses[i].req.seq
                                   => mRequests'[f] = mResponses[i].req
    <2>1. mResponses[i].req.seq \in Nat /\ mResponses[i].req.seq < mNextRequestSeq
      BY ResponseType, ZenonT(30) DEF OwnInv, SyncInv, OneSeq, Requests
    <2> QED
      BY <1>1, <1>2, <1>3, <2>1, SMTT(30) DEF OwnInv, OneSeq, Registered
  <1>8. \A s \in removedSelf' : s \in Nat /\ s < mNextRequestSeq'
    BY <1>1, <1>2, SMTT(30) DEF OwnInv, OneSeq
  <1>9. OneSeq'
    BY <1>2, <1>5, <1>6, <1>7, <1>8, ZenonT(30) DEF OneSeq, pollVars
  <1> QED
    BY <1>2, <1>9, OthersKeep, ZenonT(30) DEF OwnInv

\* removeFd: the number that joins removedSelf is the one of the callback that runs, so no
\* later response has it.
LEMMA OwnRemove ==
    ASSUME OwnInv, NEW fd \in Fd, NEW inside \in BOOLEAN, removeFd(fd, inside)
    PROVE  OneSeq' /\ OneItem' /\ OneResponse'
  <1>1. /\ Registered(fd)
        /\ mRequests' = [mRequests EXCEPT ![fd] = None]
        /\ UNCHANGED <<pollVars, mNextRequestSeq>>
        /\ mEpollRebuildRequired => mEpollRebuildRequired'
        /\ \/ removedSelf' = removedSelf
           \/ /\ pc = "callback" /\ Running = mRequests[fd]
              /\ removedSelf' = removedSelf \cup {Running.seq}
    BY ZenonT(30) DEF removeFd, Unregister, Deleted, Rebuild, NoRebuild, Registered
  <1>2. \A f \in Fd : mRequests'[f] = IF f = fd THEN None ELSE mRequests[f]
    BY <1>1, ZenonT(30) DEF OwnInv, SyncInv, TypeOK
  <1>3. ASSUME NEW s \in removedSelf', s \notin removedSelf
        PROVE  /\ s \in Nat /\ s < mNextRequestSeq
               /\ \A f \in Fd : mRequests'[f] # None => mRequests'[f].seq # s
    <2>1. s = mRequests[fd].seq
      BY <1>1, <1>3, ZenonT(30)
    <2>2. s \in Nat /\ s < mNextRequestSeq
      BY <1>1, <2>1, ZenonT(30) DEF OwnInv, SyncInv, TypeOK, OneSeq, Registered, Requests
    <2> QED
      BY <1>1, <1>2, <2>1, <2>2, SMTT(30) DEF OwnInv, OneSeq, Registered
  <1>4. OneSeq'
    <2>1. mNextRequestSeq' \in Nat /\ mNextRequestSeq =< mNextRequestSeq'
      BY <1>1, SMTT(30) DEF OwnInv, SyncInv, TypeOK
    <2> QED
      BY <1>1, <1>2, <1>3, <2>1, SeqFewer, ZenonT(30) DEF OwnInv, SyncInv, pollVars
  <1>5. OneItem'
    BY <1>1, ZenonT(30) DEF OwnInv, OneItem, pollVars
  <1>6. OneResponse'
    <2>1. CASE removedSelf' = removedSelf
      BY <1>1, <2>1, SMTT(30) DEF OwnInv, OneResponse, pollVars
    <2>2. CASE pc = "callback" /\ removedSelf' = removedSelf \cup {Running.seq}
      <3>1. mResponseIndex \in 1..Len(mResponses)
        BY <2>2, ZenonT(30) DEF OwnInv, SyncInv, TypeOK
      <3>2. \A i \in 1..Len(mResponses) :
                i > mResponseIndex => mResponses[i].req.seq \notin removedSelf'
        BY <2>2, <3>1, SMTT(30) DEF OwnInv, OneResponse, Running
      <3> QED
        BY <1>1, <2>2, <3>2, SMTT(30) DEF OwnInv, OneResponse, pollVars
    <2> QED
      BY <1>1, <2>1, <2>2, ZenonT(30)
  <1> QED
    BY <1>4, <1>5, <1>6, ZenonT(30)

\* What threads do with descriptors keeps the numbers unique.
LEMMA OwnFd == OwnInv /\ FdStep => OwnInv'
  <1> SUFFICES ASSUME OwnInv, FdStep PROVE OwnInv'
    OBVIOUS
  <1>1. SyncInv'
    BY SyncFd DEF OwnInv
  <1> PICK fd \in Fd :
        \/ \E kind \in {"callback", "ident"} : addFd(fd, kind)
        \/ AddFails(fd)
        \/ \E inside \in BOOLEAN : removeFd(fd, inside)
        \/ \E file \in File : Open(fd, file)
        \/ Close(fd)
    BY DEF FdStep
  <1>2. ASSUME UNCHANGED <<pollVars, removedSelf, mRequests, mEpollRebuildRequired>>,
               mNextRequestSeq' \in {mNextRequestSeq, mNextRequestSeq + 1}
        PROVE  OwnInv'
    <2>1. mNextRequestSeq' \in Nat /\ mNextRequestSeq =< mNextRequestSeq'
      BY <1>2, SMTT(30) DEF OwnInv, SyncInv, TypeOK
    <2>2. OneSeq'
      BY <1>2, <2>1, SeqFewer, ZenonT(30) DEF OwnInv, SyncInv, pollVars
    <2> QED
      BY <1>1, <1>2, <2>2, OthersKeep, ZenonT(30) DEF OwnInv
  <1>3. CASE AddFails(fd)
    BY <1>2, <1>3, ZenonT(30) DEF AddFails
  <1>4. ASSUME NEW file \in File, Open(fd, file) PROVE OwnInv'
    BY <1>2, <1>4, ZenonT(30) DEF Open, requestVars
  <1>5. CASE Close(fd)
    BY <1>2, <1>5, ZenonT(30) DEF Close, CloseIt
  <1> QED
    BY <1>1, <1>3, <1>4, <1>5, OwnAdd, OwnRemove, ZenonT(30) DEF OwnInv

\* The responses to the events of one epoll_wait are for different requests.
LEMMA OwnHandle == OwnInv /\ Handle => OneSeq' /\ OneItem' /\ OneResponse'
  <1> SUFFICES ASSUME OwnInv, Handle PROVE OneSeq' /\ OneItem' /\ OneResponse'
    BY ZenonT(30)
  <1>1. PICK known :
            \A i \in 1..Len(mResponses') :
                /\ known[i] \in items /\ known[i].fd \in Fd /\ Registered(known[i].fd)
                /\ mResponses'[i].req = mRequests[known[i].fd]
                /\ \A j \in 1..Len(mResponses') : i # j => known[i] # known[j]
    BY HandleResponses, ZenonT(30) DEF OwnInv, SyncInv
  <1>2. /\ pc = "awake" /\ ~mEpollRebuildRequired
        /\ pc' \in {"handler", "responses"}
        /\ UNCHANGED requestVars
    BY DeliverPc DEF Handle
  <1>3. \A i \in 1..Len(mResponses') :
            /\ mResponses'[i].req.seq < mNextRequestSeq
            /\ mResponses'[i].req.seq \notin removedSelf
    BY <1>1 DEF OwnInv, OneSeq
  <1>4. \A i \in 1..Len(mResponses') : \A fd \in Fd :
            Registered(fd) /\ mRequests[fd].seq = mResponses'[i].req.seq
                => mRequests[fd] = mResponses'[i].req
    BY <1>1, ZenonT(30) DEF OwnInv, OneSeq
  <1>5. \A i, j \in 1..Len(mResponses') : i # j =>
            mResponses'[i].req.seq # mResponses'[j].req.seq
    <2> SUFFICES ASSUME NEW i \in 1..Len(mResponses'), NEW j \in 1..Len(mResponses'), i # j
                 PROVE  mResponses'[i].req.seq # mResponses'[j].req.seq
      BY ZenonT(30)
    <2>1. known[i].fd # known[j].fd
      BY <1>1, <1>2, ZenonT(30) DEF OwnInv, OneItem
    <2> QED
      BY <1>1, <2>1, SMTT(30) DEF OwnInv, OneSeq
  <1>6. OneSeq'
    BY <1>2, <1>3, <1>4, ZenonT(30) DEF OwnInv, OneSeq, Registered, requestVars
  <1>7. OneItem'
    BY <1>2, ZenonT(30) DEF OneItem
  <1>8. OneResponse'
    BY <1>2, <1>3, <1>5, ZenonT(30) DEF OneResponse, requestVars
  <1> QED
    BY <1>6, <1>7, <1>8, ZenonT(30)

\* A callback that returns 0 has the only response with its number, and the request it
\* unregisters, if any, is the one it was invoked for.
LEMMA OwnReturns0 ==
    ASSUME OwnInv, CallbackReturns0
    PROVE  /\ OneSeq' /\ OneItem' /\ OneResponse'
           /\ \A fd \in Fd : mRequests'[fd] = mRequests[fd] \/ mRequests[fd] = Running
  <1>1. /\ pc = "callback" /\ pc' = "responses"
        /\ removedSelf' = removedSelf \cup {Running.seq}
        /\ UNCHANGED <<mNextRequestSeq, mResponses, mResponseIndex>>
    BY ZenonT(30) DEF CallbackReturns0
  <1>2. mResponseIndex \in 1..Len(mResponses)
    BY <1>1, ZenonT(30) DEF OwnInv, SyncInv, TypeOK
  <1>3. Running.fd \in Fd /\ Running.seq \in Nat /\ Running.seq < mNextRequestSeq
    BY <1>1, <1>2, RunningType, ZenonT(30) DEF OwnInv, SyncInv, OneSeq, Running, Requests
  <1>4. \A fd \in Fd : Registered(fd) /\ mRequests[fd].seq = Running.seq => mRequests[fd] = Running
    BY <1>2, ZenonT(30) DEF OwnInv, OneSeq, Running
  <1>5. /\ \A fd \in Fd : \/ mRequests'[fd] = mRequests[fd]
                          \/ mRequests'[fd] = None /\ mRequests[fd] = Running
        /\ \A fd \in Fd : mRequests'[fd] # None => mRequests'[fd].seq # Running.seq
    <2>1. CASE SameRequest
      <3>1. \A fd \in Fd : mRequests'[fd] = IF fd = Running.fd THEN None ELSE mRequests[fd]
        BY <1>3, <2>1, ZenonT(30) DEF CallbackReturns0, Unregister, OwnInv, SyncInv, TypeOK
      <3>2. mRequests[Running.fd] = Running
        BY <1>3, <1>4, <2>1, ZenonT(30) DEF SameRequest, Registered
      <3>3. \A fd \in Fd : Registered(fd) /\ mRequests[fd].seq = Running.seq => fd = Running.fd
        BY <1>3, <2>1, ZenonT(30) DEF SameRequest, OwnInv, OneSeq, Registered
      <3> QED
        BY <3>1, <3>2, <3>3, ZenonT(30) DEF Registered
    <2>2. CASE ~SameRequest
      <3>1. mRequests' = mRequests
        BY <2>2, ZenonT(30) DEF CallbackReturns0
      <3>2. \A fd \in Fd : Registered(fd) => mRequests[fd].seq # Running.seq
        BY <1>4, <2>2, ZenonT(30) DEF SameRequest, OwnInv, SyncInv, FilesOnce, Registered
      <3> QED
        BY <3>1, <3>2, ZenonT(30) DEF Registered
    <2> QED
      BY <2>1, <2>2, ZenonT(30)
  <1>6. OneSeq'
    <2>1. mNextRequestSeq' \in Nat /\ mNextRequestSeq =< mNextRequestSeq'
      BY <1>1, SMTT(30) DEF OwnInv, SyncInv, TypeOK
    <2> QED
      BY <1>1, <1>3, <1>5, <2>1, SeqFewer, ZenonT(30) DEF OwnInv, SyncInv
  <1>7. OneResponse'
    <2>1. \A i \in 1..Len(mResponses) :
              i > mResponseIndex => mResponses[i].req.seq \notin removedSelf'
      BY <1>1, <1>2 DEF OwnInv, OneResponse, Running
    <2> QED
      BY <1>1, <2>1, SMTT(30) DEF OwnInv, OneResponse
  <1>8. OneItem'
    BY <1>1, ZenonT(30) DEF OneItem
  <1> QED
    BY <1>5, <1>6, <1>7, <1>8, ZenonT(30)

\* The steps of the polling thread keep the numbers and the responses apart.
LEMMA OwnPoll == OwnInv /\ PollStep => OwnInv'
  <1> SUFFICES ASSUME OwnInv, PollStep PROVE OwnInv'
    OBVIOUS
  <1>1. SyncInv'
    BY SyncPoll DEF OwnInv
  <1>2. ASSUME UNCHANGED <<mRequests, mNextRequestSeq, removedSelf>>,
               mResponses' = mResponses \/ mResponses' = <<>>
        PROVE  OneSeq'
    <2>1. mNextRequestSeq' \in Nat /\ mNextRequestSeq =< mNextRequestSeq'
      BY <1>2, SMTT(30) DEF OwnInv, SyncInv, TypeOK
    <2> QED
      BY <1>2, <2>1, SeqFewer, ZenonT(30) DEF OwnInv, SyncInv
  <1>3. CASE ReturnIdent \/ ReturnResult \/ AllInvoked
    <2>1. pc' \in {"idle", "return"} /\ UNCHANGED <<requestVars, mResponses>>
      BY <1>3, ZenonT(30) DEF ReturnIdent, ReturnResult, AllInvoked
    <2> QED
      BY <1>1, <1>2, <2>1, SMTT(30) DEF OwnInv, OneItem, OneResponse, requestVars
  <1>4. ASSUME NEW timeout \in Timeout, pollInner(timeout) PROVE OwnInv'
    BY <1>1, <1>2, <1>4, SMTT(30) DEF pollInner, OwnInv, OneItem, OneResponse, requestVars
  <1>5. CASE epoll_wait
    <2>1. /\ pc = "polling" /\ pc' = "awake" /\ UNCHANGED <<requestVars, mResponses>>
          /\ items' \subseteq epoll
      BY <1>5, ZenonT(30) DEF epoll_wait
    <2>2. OneItem'
      <3> SUFFICES ASSUME ~mEpollRebuildRequired, NEW d \in items', NEW e \in items', d.fd = e.fd
                   PROVE  d = e
        BY <2>1, ZenonT(30) DEF OneItem, requestVars
      <3>1. d \in Descriptors /\ e \in Descriptors /\ d.file = e.file
        BY <2>1, ZenonT(30) DEF OwnInv, SyncInv, TypeOK, EpollInSync
      <3> QED
        BY <3>1 DEF Descriptors
    <2> QED
      BY <1>1, <1>2, <2>1, <2>2, ZenonT(30) DEF OwnInv, OneResponse, requestVars
  <1>6. CASE Interrupted
    BY <1>1, <1>2, <1>6, SMTT(30) DEF Interrupted, OwnInv, OneItem, OneResponse, requestVars
  <1>7. CASE HandleRebuild
    <2>1. /\ pc = "awake" /\ pc' \in {"handler", "responses"}
          /\ UNCHANGED <<mRequests, mNextRequestSeq, removedSelf, mResponses>>
      BY <1>7, DeliverPc, ZenonT(30) DEF HandleRebuild
    <2> QED
      BY <1>1, <1>2, <2>1, SMTT(30) DEF OwnInv, OneItem, OneResponse
  <1>8. CASE HandlerDone
    <2>1. /\ pc = "handler" /\ pc' \in {"handler", "responses"}
          /\ UNCHANGED <<requestVars, mResponses, mResponseIndex>>
      BY <1>8, DeliverPc, ZenonT(30) DEF HandlerDone
    <2> QED
      BY <1>1, <1>2, <2>1, SMTT(30) DEF OwnInv, OneItem, OneResponse, requestVars
  <1>9. CASE InvokeCallback
    <2>1. /\ pc = "responses" /\ pc' = "callback" /\ UNCHANGED <<requestVars, mResponses>>
          /\ mResponseIndex' \in 1..Len(mResponses) /\ mResponseIndex' > mResponseIndex
      BY <1>9, ZenonT(30) DEF InvokeCallback, Callbacks
    <2>2. \A i \in 1..Len(mResponses) : i > mResponseIndex' => i > mResponseIndex
      BY <2>1, SMTT(30) DEF OwnInv, SyncInv, TypeOK
    <2> QED
      BY <1>1, <1>2, <2>1, <2>2, SMTT(30) DEF OwnInv, OneItem, OneResponse, requestVars
  <1>10. CASE CallbackReturns1
    <2>1. /\ pc = "callback" /\ pc' = "responses"
          /\ UNCHANGED <<requestVars, mResponses, mResponseIndex>>
      BY <1>10, ZenonT(30) DEF CallbackReturns1
    <2> QED
      BY <1>1, <1>2, <2>1, SMTT(30) DEF OwnInv, OneItem, OneResponse, requestVars
  <1> QED
    BY <1>1, <1>3, <1>4, <1>5, <1>6, <1>7, <1>8, <1>9, <1>10, OwnHandle, OwnReturns0, ZenonT(30)
    DEF PollStep, Poll, OwnInv

\* The same invariant with the sequence numbers and the responses.
THEOREM OwnInvariant == Spec => []OwnInv
  <1>1. OwnInv /\ [Next]_vars => OwnInv'
    BY StepSorts, OwnQuiet, OwnFd, OwnPoll
  <1> QED
    BY <1>1, OwnInit, PTL DEF Spec

\* What a step may do when it ends a callback, or starts one
OwnStep ==
    /\ pc = "callback" /\ pc' = "responses"
          => \A fd \in Fd : mRequests'[fd] = mRequests[fd] \/ mRequests[fd] = Running
    /\ pc = "responses" /\ pc' = "callback"
          => mResponses[mResponseIndex'].req.seq \notin removedSelf

\* The polling thread, when it ends a callback, unregisters nothing else, and when it starts
\* one, the request has not removed itself.
LEMMA OwnSteps == OwnInv /\ [Next]_vars => OwnStep
  <1> SUFFICES ASSUME OwnInv, [Next]_vars PROVE OwnStep
    BY ZenonT(30)
  <1>1. ASSUME pc' = pc PROVE OwnStep
    BY <1>1 DEF OwnStep
  <1>2. Quiet => pc' = pc
    BY ZenonT(30) DEF Quiet, pollVars
  <1>3. FdStep => pc' = pc
    BY ZenonT(30) DEF FdStep, addFd, AddFails, removeFd, Open, Close, CloseIt, pollVars
  <1>4. CASE CallbackReturns0
    BY <1>4, OwnReturns0, ZenonT(30) DEF OwnStep, CallbackReturns0
  <1>5. CASE CallbackReturns1
    BY <1>5, ZenonT(30) DEF OwnStep, CallbackReturns1, requestVars
  <1>6. CASE InvokeCallback
    <2>1. /\ pc = "responses"
          /\ mResponseIndex' \in 1..Len(mResponses) /\ mResponseIndex' > mResponseIndex
      BY <1>6, ZenonT(30) DEF InvokeCallback, Callbacks
    <2> QED
      BY <2>1, ZenonT(30) DEF OwnInv, OneResponse, OwnStep
  <1>7. PollStep => \/ CallbackReturns0 \/ CallbackReturns1 \/ InvokeCallback
                    \/ pc \notin {"callback", "responses"} \/ pc' = "return"
    BY DEF PollStep, Poll, ReturnIdent, ReturnResult, pollInner, HandleRebuild, Handle,
           HandlerDone, AllInvoked, epoll_wait, Interrupted
  <1> QED
    BY <1>1, <1>2, <1>3, <1>4, <1>5, <1>6, <1>7, StepSorts, ZenonT(30) DEF OwnStep

\* For any number of threads, descriptors and calls, a callback that returns 0 unregisters
\* its own request or nothing (the sequence numbers of removeFd), and a request that removed
\* itself during its callback is not invoked again.
THEOREM CallbackOwnRequest == Spec => OwnRequestOnly
  <1>1. OwnInv /\ [Next]_vars => [OwnStep]_vars
    BY OwnSteps
  <1>2. Spec => [][OwnStep]_vars
    BY <1>1, OwnInvariant, PTL DEF Spec
  <1> QED
    BY <1>2 DEF OwnRequestOnly, OwnStep

-----------------------------------------------------------------------------
(* Messages                                                                 *)

\* Induction: a set of numbers that is not empty has a least one.
LEMMA LeastNumber ==
  ASSUME NEW T \in SUBSET Nat, T # {}
  PROVE  \E x \in T : \A y \in T : x =< y
  <1> DEFINE R == OpToRel(<, Nat)
  <1>1. IsWellFoundedOn(R, Nat)
    BY NatLessThanWellFounded, Zenon
  <1>2. \A x, y \in Nat : <<y, x>> \in R <=> y < x
    BY DEF OpToRel
  <1> HIDE DEF R
  <1>3. PICK x \in T : \A y \in T : ~(<<y, x>> \in R)
    BY <1>1, WFMin, Zenon
  <1>4. ASSUME NEW y \in T PROVE x =< y
    <2>1. x \in Nat /\ y \in Nat
      OBVIOUS
    <2>2. ~(y < x)
      BY <1>2, <1>3, <2>1, Zenon
    <2> QED
      BY <2>1, <2>2
  <1> QED
    BY <1>4

\* The function that removeMessages is defined with, for the first n messages
Keeps(f, q, handlers, n) ==
    f = [i \in 0..n |-> IF i = 0 THEN <<>>
                        ELSE IF q[i].handler \in handlers THEN f[i - 1]
                             ELSE Append(f[i - 1], q[i])]

\* There is such a function: the one for n messages continues the one for n - 1.
LEMMA KeepsExists ==
  ASSUME NEW q, NEW handlers, NEW n \in Nat
  PROVE  \E f : Keeps(f, q, handlers, n)
  <1> DEFINE Bad == {k \in Nat : ~ \E f : Keeps(f, q, handlers, k)}
  <1> SUFFICES ASSUME Bad # {} PROVE FALSE
    OBVIOUS
  <1>1. PICK m \in Bad : \A k \in Bad : m =< k
    BY LeastNumber, ZenonT(30)
  <1>2. CASE m = 0
    <2> DEFINE g == [i \in 0..0 |-> <<>>]
    <2>1. Keeps(g, q, handlers, 0)
      BY DEF Keeps
    <2> QED
      BY <1>1, <1>2, <2>1
  <1>3. CASE m # 0
    <2>1. m \in Nat /\ m # 0
      BY <1>1, <1>3
    <2>2. PICK f : Keeps(f, q, handlers, m - 1)
      BY <1>1, <2>1, SMTT(30)
    <2> DEFINE g == [i \in 0..m |-> IF i = 0 THEN <<>>
                                    ELSE IF q[i].handler \in handlers THEN f[i - 1]
                                         ELSE Append(f[i - 1], q[i])]
    <2>3. ASSUME NEW i \in 0..(m - 1) PROVE g[i] = f[i]
      <3>1. f[i] = IF i = 0 THEN <<>>
                   ELSE IF q[i].handler \in handlers THEN f[i - 1] ELSE Append(f[i - 1], q[i])
        BY <2>1, <2>2, ZenonT(30) DEF Keeps
      <3>2. g[i] = IF i = 0 THEN <<>>
                   ELSE IF q[i].handler \in handlers THEN f[i - 1] ELSE Append(f[i - 1], q[i])
        BY <2>1
      <3> QED
        BY <3>1, <3>2, ZenonT(30)
    <2>4. ASSUME NEW i \in 0..m
          PROVE  g[i] = IF i = 0 THEN <<>>
                        ELSE IF q[i].handler \in handlers THEN g[i - 1]
                             ELSE Append(g[i - 1], q[i])
      <3>1. CASE i = 0
        BY <2>1, <3>1, ZenonT(30)
      <3>2. CASE i # 0
        <4> i - 1 \in 0..(m - 1)
          BY <2>1, <3>2, SMTT(30)
        <4>1. g[i - 1] = f[i - 1]
          BY <2>3, Zenon
        <4>2. g[i] = IF q[i].handler \in handlers THEN f[i - 1] ELSE Append(f[i - 1], q[i])
          BY <3>2
        <4> QED
          BY <3>2, <4>1, <4>2, ZenonT(30)
      <3> QED
        BY <3>1, <3>2
    <2>5. g = [i \in 0..m |-> g[i]]
      OBVIOUS
    <2> HIDE DEF g
    <2>6. Keeps(g, q, handlers, m)
      BY <2>4, <2>5, ZenonT(30) DEF Keeps
    <2> QED
      BY <1>1, <2>6
  <1> QED
    BY <1>2, <1>3

\* The order of two messages
Before(a, b) == a.uptime < b.uptime \/ (a.uptime = b.uptime /\ a.id < b.id)
Sorted(q) == \A i, j \in 1..Len(q) : i < j => Before(q[i], q[j])

\* Removing messages leaves some of them, in their order.
LEMMA OthersFacts ==
  ASSUME NEW q \in Seq(Envelopes), NEW handlers
  PROVE  /\ Others(q, handlers) \in Seq(Envelopes)
         /\ Sorted(q) => Sorted(Others(q, handlers))
         /\ \A i \in 1..Len(Others(q, handlers)) :
               \E a \in 1..Len(q) : Others(q, handlers)[i] = q[a]
  <1> DEFINE n == Len(q)
  <1> DEFINE kept == CHOOSE f : Keeps(f, q, handlers, n)
  <1>1. Others(q, handlers) = kept[n]
    BY DEF Others, Keeps
  <1>2. n \in Nat
    OBVIOUS
  <1>3. Keeps(kept, q, handlers, n)
    BY <1>2, KeepsExists
  <1> HIDE DEF kept, n
  <1>4. /\ kept[0] = <<>>
        /\ \A i \in 1..n : kept[i] = IF q[i].handler \in handlers THEN kept[i - 1]
                                     ELSE Append(kept[i - 1], q[i])
    <2>1. ASSUME NEW i \in 0..n
          PROVE  kept[i] = IF i = 0 THEN <<>>
                           ELSE IF q[i].handler \in handlers THEN kept[i - 1]
                                ELSE Append(kept[i - 1], q[i])
      BY <1>3, Zenon DEF Keeps
    <2>2. 0 \in 0..n /\ \A i \in 1..n : i \in 0..n /\ i # 0
      BY <1>2
    <2> QED
      BY <2>1, <2>2, ZenonT(30)
  <1> DEFINE Good(k) == /\ kept[k] \in Seq(Envelopes)
                        /\ Sorted(q) => Sorted(kept[k])
                        /\ \A i \in 1..Len(kept[k]) : \E a \in 1..k : kept[k][i] = q[a]
  <1> DEFINE Bad == {k \in 0..n : ~Good(k)}
  <1>5. Good(0)
    BY <1>4 DEF Sorted
  <1>6. ASSUME NEW k \in 1..n, Good(k - 1) PROVE Good(k)
    <2> DEFINE old == kept[k - 1]
    <2>1. k \in Nat /\ k \in 1..Len(q) /\ q[k] \in Envelopes
      BY <1>2 DEF n
    <2>2. CASE kept[k] = old
      BY <1>6, <2>1, <2>2
    <2>3. CASE kept[k] = Append(old, q[k])
      <3>1. old \in Seq(Envelopes) /\ kept[k] \in Seq(Envelopes) /\ Len(kept[k]) = Len(old) + 1
        BY <1>6, <2>1, <2>3, SMTT(30)
      <3>2. /\ \A i \in 1..Len(old) : kept[k][i] = old[i]
            /\ kept[k][Len(old) + 1] = q[k]
        BY <2>1, <2>3, <3>1, SMTT(30)
      <3>3. ASSUME NEW i \in 1..Len(kept[k])
            PROVE  \E a \in 1..k : kept[k][i] = q[a] /\ (i # Len(kept[k]) => a < k)
        <4>1. CASE i = Len(kept[k])
          BY <2>1, <3>1, <3>2, <4>1, SMTT(30)
        <4>2. CASE i # Len(kept[k])
          <5>1. i \in 1..Len(old)
            BY <3>1, <4>2, SMTT(30)
          <5>2. PICK a \in 1..(k - 1) : old[i] = q[a]
            BY <1>6, <5>1, ZenonT(30)
          <5> QED
            BY <2>1, <3>2, <5>1, <5>2, SMTT(30)
        <4> QED
          BY <4>1, <4>2, ZenonT(30)
      <3>4. ASSUME Sorted(q) PROVE Sorted(kept[k])
        <4> SUFFICES ASSUME NEW i \in 1..Len(kept[k]), NEW j \in 1..Len(kept[k]), i < j
                     PROVE  Before(kept[k][i], kept[k][j])
          BY ZenonT(30) DEF Sorted
        <4>1. CASE j = Len(kept[k])
          <5>1. PICK a \in 1..k : kept[k][i] = q[a] /\ a < k
            BY <3>1, <3>3, <4>1, SMTT(30)
          <5>2. kept[k][j] = q[k]
            BY <3>1, <3>2, <4>1, ZenonT(30)
          <5> QED
            BY <2>1, <3>4, <5>1, <5>2, SMTT(30) DEF Sorted
        <4>2. CASE j # Len(kept[k])
          <5>1. i \in 1..Len(old) /\ j \in 1..Len(old)
            BY <3>1, <4>2, SMTT(30)
          <5> QED
            BY <1>6, <3>2, <3>4, <5>1, ZenonT(30) DEF Sorted
        <4> QED
          BY <4>1, <4>2, ZenonT(30)
      <3> QED
        BY <3>1, <3>3, <3>4
    <2> QED
      BY <1>4, <2>2, <2>3, ZenonT(30)
  <1>7. Bad = {}
    <2> SUFFICES ASSUME Bad # {} PROVE FALSE
      OBVIOUS
    <2>1. Bad \in SUBSET Nat
      BY <1>2
    <2>2. PICK m \in Bad : \A k \in Bad : m =< k
      BY <2>1, LeastNumber, ZenonT(30)
    <2>3. m \in 0..n /\ ~Good(m)
      BY <2>2
    <2>4. m # 0
      BY <1>5, <2>3
    <2>5. m \in 1..n /\ m - 1 \in 0..n /\ ~(m =< m - 1)
      BY <1>2, <2>3, <2>4, SMTT(30)
    <2>6. Good(m - 1)
      BY <2>2, <2>5, ZenonT(30)
    <2> QED
      BY <1>6, <2>3, <2>5, <2>6, Zenon
  <1>8. Good(n)
    BY <1>2, <1>7, SMTT(30)
  <1> QED
    BY <1>1, <1>8 DEF n

\* Where insertAt puts the new message and the ones that were there.
LEMMA InsertFacts ==
  ASSUME NEW q \in Seq(Envelopes), NEW i \in 0..Len(q), NEW e \in Envelopes
  PROVE  /\ InsertAt(q, e, i) \in Seq(Envelopes)
         /\ Len(InsertAt(q, e, i)) = Len(q) + 1
         /\ \A j \in 1..(Len(q) + 1) :
               InsertAt(q, e, i)[j] =
                   IF j =< i THEN q[j] ELSE IF j = i + 1 THEN e ELSE q[j - 1]
  <1> DEFINE a == SubSeq(q, 1, i)
  <1> DEFINE b == SubSeq(q, i + 1, Len(q))
  <1>1. InsertAt(q, e, i) = (a \o <<e>>) \o b
    BY Zenon DEF InsertAt
  <1>2. a \in Seq(Envelopes) /\ Len(a) = i /\ \A j \in 1..i : a[j] = q[j]
    OBVIOUS
  <1>3. b \in Seq(Envelopes) /\ Len(b) = Len(q) - i /\ \A j \in 1..(Len(q) - i) : b[j] = q[i + j]
    OBVIOUS
  <1> HIDE DEF a, b
  <1> DEFINE c == a \o <<e>>
  <1>4. /\ c \in Seq(Envelopes) /\ Len(c) = i + 1
        /\ \A j \in 1..i : c[j] = q[j]
        /\ c[i + 1] = e
    BY <1>2
  <1> HIDE DEF c
  <1>5. /\ (c \o b) \in Seq(Envelopes) /\ Len(c \o b) = Len(c) + Len(b)
        /\ \A j \in 1..(Len(c) + Len(b)) :
              (c \o b)[j] = IF j =< Len(c) THEN c[j] ELSE b[j - Len(c)]
    BY <1>3, <1>4, ConcatProperties, ZenonT(30)
  <1>6. i \in Nat /\ Len(q) \in Nat /\ Len(c) + Len(b) = Len(q) + 1
    BY <1>3, <1>4, SMTT(30)
  <1> DEFINE r == c \o b
  <1> HIDE DEF r
  <1>7. ASSUME NEW j \in 1..(Len(q) + 1)
        PROVE  r[j] = IF j =< i THEN q[j] ELSE IF j = i + 1 THEN e ELSE q[j - 1]
    <2>1. r[j] = IF j =< i + 1 THEN c[j] ELSE b[j - (i + 1)]
      BY <1>4, <1>5, <1>6, ZenonT(30) DEF r
    <2>2. CASE j =< i + 1
      BY <1>4, <1>6, <2>1, <2>2, SMTT(30)
    <2>3. CASE j > i + 1
      <3>1. j - (i + 1) \in 1..(Len(q) - i) /\ i + (j - (i + 1)) = j - 1
        BY <1>6, <2>3
      <3> QED
        BY <1>3, <1>6, <2>1, <2>3, <3>1, SMTT(30)
    <2> QED
      BY <1>6, <2>2, <2>3, SMTT(30)
  <1> QED
    BY <1>1, <1>5, <1>6, <1>7, Zenon DEF c, r

MessageType ==
    /\ now \in Nat /\ sent \in Nat /\ woken \in BOOLEAN
    /\ mMessageEnvelopes \in Seq(Envelopes)
    /\ mNextMessageUptime \in Nat /\ deadline \in Nat

\* Messages are numbered as they are sent, and sorted
Numbered ==
    /\ \A i \in 1..Len(mMessageEnvelopes) : mMessageEnvelopes[i].id < sent
    /\ Sorted(mMessageEnvelopes)

\* The flag is set just while a handler runs, and otherwise mNextMessageUptime is not later
\* than the first message, unless a wake-up is on its way
NextIsKnown ==
    /\ mSendingMessage <=> pc = "handler"
    /\ /\ pc \in {"idle", "return", "responses", "callback"}
       /\ ~woken /\ waking = {} /\ mMessageEnvelopes # <<>>
       => mNextMessageUptime =< mMessageEnvelopes[1].uptime

SleepInv == MessageType /\ Numbered /\ NextIsKnown /\ NoOversleep

\* A Looper that is just made has no messages.
LEMMA SleepInit == Init => SleepInv
  <1> SUFFICES ASSUME Init PROVE SleepInv
    OBVIOUS
  <1>1. MessageType
    <2>1. <<>> \in Seq(Envelopes) /\ MaxTime + 1 \in Nat
      BY LooperAssumption
    <2> QED
      BY <2>1, ZenonT(30) DEF Init, MessageType, Never
  <1>2. Numbered /\ NextIsKnown /\ NoOversleep
    BY DEF Init, Numbered, Sorted, NextIsKnown, NoOversleep
  <1> QED
    BY <1>1, <1>2, ZenonT(30) DEF SleepInv

\* A message goes behind those that are due not later; a new first message wakes the loop.
LEMMA EnqueueFacts ==
  ASSUME SleepInv, NEW i \in 0..Len(mMessageEnvelopes), NEW d \in Delay, NEW h \in Handler,
         Enqueue(i, now + d, h)
  PROVE  /\ sent' \in Nat /\ mMessageEnvelopes' \in Seq(Envelopes) /\ Numbered'
         /\ i # 0 => mMessageEnvelopes # <<>> /\ mMessageEnvelopes'[1] = mMessageEnvelopes[1]
  <1> DEFINE q == mMessageEnvelopes
  <1> DEFINE u == now + d
  <1> DEFINE e == [id |-> sent, uptime |-> u, handler |-> h]
  <1>1. /\ q \in Seq(Envelopes) /\ sent \in Nat /\ u \in Nat /\ e \in Envelopes
        /\ Numbered
    BY LooperAssumption, SMTT(30) DEF SleepInv, MessageType, Envelopes
  <1>2. /\ q' = InsertAt(q, e, i) /\ sent' = sent + 1
        /\ \A j \in 1..i : u >= q[j].uptime
        /\ i < Len(q) => u < q[i + 1].uptime
    BY ZenonT(30) DEF Enqueue, Position
  <1>3. \A j \in 1..Len(q) : q[j].id \in Nat /\ q[j].uptime \in Nat /\ q[j].id < sent
    <2>1. \A j \in 1..Len(q) : q[j] \in Envelopes /\ q[j].id < sent
      BY <1>1, ElementOfSeq, ZenonT(30) DEF Numbered
    <2> QED
      BY <2>1, ZenonT(30) DEF Envelopes
  <1>4. e.id = sent /\ e.uptime = u
    BY ZenonT(30)
  <1> HIDE DEF e, u
  <1>5. /\ q' \in Seq(Envelopes) /\ Len(q') = Len(q) + 1
        /\ \A j \in 1..(Len(q) + 1) :
              q'[j] = IF j =< i THEN q[j] ELSE IF j = i + 1 THEN e ELSE q[j - 1]
    <2> DEFINE p == InsertAt(q, e, i)
    <2>1. /\ p \in Seq(Envelopes) /\ Len(p) = Len(q) + 1
          /\ \A j \in 1..(Len(q) + 1) :
                p[j] = IF j =< i THEN q[j] ELSE IF j = i + 1 THEN e ELSE q[j - 1]
      BY <1>1, InsertFacts, ZenonT(30)
    <2>2. q' = p
      BY <1>2, ZenonT(30)
    <2> HIDE DEF p
    <2> QED
      BY <2>1, <2>2, ZenonT(30)
  <1>6. ASSUME NEW j \in 1..Len(q') PROVE q'[j].id < sent'
    <2>1. j \in 1..(Len(q) + 1) /\ Len(q) \in Nat
      BY <1>1, <1>5
    <2>2. CASE j = i + 1
      <3>1. q'[j] = e
        BY <1>5, <2>1, <2>2, SMTT(30)
      <3>2. sent < sent + 1
        BY <1>1
      <3> QED
        BY <1>2, <1>4, <3>1, <3>2, ZenonT(30)
    <2>3. CASE j # i + 1
      <3>1. PICK k \in 1..Len(q) : q'[j] = q[k]
        BY <1>5, <2>1, <2>3
      <3>2. q[k].id \in Nat /\ q[k].id < sent
        BY <1>3, ZenonT(30)
      <3>3. q[k].id < sent + 1
        BY <1>1, <3>2, SMTT(30)
      <3> QED
        BY <1>2, <3>1, <3>3, ZenonT(30)
    <2> QED
      BY <2>2, <2>3, ZenonT(30)
  <1>7. \A j \in 1..Len(q) : j > i => u < q[j].uptime
    <2> SUFFICES ASSUME NEW j \in 1..Len(q), j > i PROVE u < q[j].uptime
      BY ZenonT(30)
    <2>1. i + 1 \in 1..Len(q) /\ u < q[i + 1].uptime
      BY <1>1, <1>2, SMTT(30)
    <2>2. j # i + 1 => Before(q[i + 1], q[j])
      BY <1>1, <2>1, SMTT(30) DEF Numbered, Sorted
    <2> QED
      BY <1>1, <1>3, <2>1, <2>2, SMTT(30) DEF Before
  <1>8. Sorted(q')
    <2> SUFFICES ASSUME NEW j \in 1..Len(q'), NEW k \in 1..Len(q'), j < k
                 PROVE  Before(q'[j], q'[k])
      BY ZenonT(30) DEF Sorted
    <2>1. CASE k =< i
      <3>1. q'[j] = q[j] /\ q'[k] = q[k] /\ j \in 1..Len(q) /\ k \in 1..Len(q)
        BY <1>1, <1>5, <2>1, SMTT(30)
      <3> QED
        BY <1>1, <3>1, ZenonT(30) DEF Numbered, Sorted
    <2>2. CASE k = i + 1
      <3>1. q'[j] = q[j] /\ q'[k] = e /\ j \in 1..i /\ j \in 1..Len(q)
        BY <1>1, <1>5, <2>2, SMTT(30)
      <3> QED
        BY <1>1, <1>2, <1>3, <1>4, <3>1, SMTT(30) DEF Before
    <2>3. CASE k > i + 1 /\ j = i + 1
      <3>1. q'[j] = e /\ q'[k] = q[k - 1] /\ k - 1 \in 1..Len(q) /\ k - 1 > i
        BY <1>1, <1>5, <2>3, SMTT(30)
      <3> QED
        BY <1>4, <1>7, <3>1, ZenonT(30) DEF Before
    <2>4. CASE k > i + 1 /\ j # i + 1
      <3>1. PICK a \in 1..Len(q) : q'[j] = q[a] /\ a < k - 1
        <4>1. CASE j =< i
          BY <1>1, <1>5, <2>4, <4>1, SMTT(30)
        <4>2. CASE j > i + 1
          <5>1. q'[j] = q[j - 1] /\ j - 1 \in 1..Len(q) /\ j - 1 < k - 1
            BY <1>1, <1>5, <2>4, <4>2, SMTT(30)
          <5> QED
            BY <5>1, ZenonT(30)
        <4> QED
          BY <1>1, <2>4, <4>1, <4>2, SMTT(30)
      <3>2. q'[k] = q[k - 1] /\ k - 1 \in 1..Len(q)
        BY <1>1, <1>5, <2>4, SMTT(30)
      <3> QED
        BY <1>1, <3>1, <3>2, ZenonT(30) DEF Numbered, Sorted
    <2> QED
      BY <1>1, <1>5, <2>1, <2>2, <2>3, <2>4, SMTT(30)
  <1>9. ASSUME i # 0 PROVE q # <<>> /\ q'[1] = q[1]
    BY <1>1, <1>5, <1>9, SMTT(30)
  <1> QED
    BY <1>1, <1>2, <1>5, <1>6, <1>8, <1>9 DEF Numbered

\* The loop, the descriptors and the clock leave the queue alone.
LEMMA SleepFrame ==
  ASSUME SleepInv, UNCHANGED <<mMessageEnvelopes, sent>>
  PROVE  Numbered'
  BY ZenonT(30) DEF SleepInv, Numbered

\* Nothing that is sent or removed, and no call about descriptors, lets the loop oversleep.
LEMMA SleepClient ==
  ASSUME SleepInv, Client
  PROVE  SleepInv'
  <1> USE DEF MessageType
  <1>1. ASSUME NEW t \in Thread, NEW d \in Delay, NEW h \in Handler,
               sendMessageAtTime(t, now + d, h)
        PROVE  SleepInv'
    <2>1. PICK i \in 0..Len(mMessageEnvelopes) :
              /\ Enqueue(i, now + d, h)
              /\ waking' = IF MustWake(i) THEN waking \cup {t} ELSE waking
      BY <1>1, ZenonT(30) DEF sendMessageAtTime
    <2>2. UNCHANGED <<now, woken, mSendingMessage, mNextMessageUptime, pc, deadline>>
      BY <1>1, ZenonT(30) DEF sendMessageAtTime, pollVars
    <2>3. /\ sent' \in Nat /\ mMessageEnvelopes' \in Seq(Envelopes) /\ Numbered'
          /\ i # 0 => mMessageEnvelopes # <<>> /\ mMessageEnvelopes'[1] = mMessageEnvelopes[1]
      BY <2>1, EnqueueFacts, ZenonT(30)
    <2>4. waking' = {} => waking = {} /\ (i # 0 \/ pc = "handler")
      BY <2>1, ZenonT(30) DEF MustWake, SleepInv, NextIsKnown
    <2>5. NextIsKnown'
      BY <2>2, <2>3, <2>4 DEF SleepInv, NextIsKnown
    <2>6. NoOversleep'
      BY <2>2, <2>3, <2>4 DEF SleepInv, NoOversleep
    <2> QED
      BY <2>2, <2>3, <2>5, <2>6, ZenonT(30) DEF SleepInv
  <1>2. ASSUME NEW t \in Thread, wake(t) PROVE SleepInv'
    <2>1. woken' /\ UNCHANGED <<now, mMessageEnvelopes, mSendingMessage, mNextMessageUptime,
                                sent, pc, deadline>>
      BY <1>2, ZenonT(30) DEF wake, pollVars
    <2> QED
      BY <2>1, SleepFrame DEF SleepInv, NextIsKnown, NoOversleep
  <1>3. ASSUME NEW d \in Delay, NEW h \in Handler, SendInside(now + d, h) PROVE SleepInv'
    <2>1. PICK i \in 0..Len(mMessageEnvelopes) :
              /\ Enqueue(i, now + d, h)
              /\ woken' = (woken \/ MustWake(i))
      BY <1>3, ZenonT(30) DEF SendInside
    <2>2. /\ pc \in {"handler", "callback"}
          /\ UNCHANGED <<now, waking, mSendingMessage, mNextMessageUptime, pc, deadline>>
      BY <1>3, ZenonT(30) DEF SendInside, pollVars, Inside
    <2>3. /\ sent' \in Nat /\ mMessageEnvelopes' \in Seq(Envelopes) /\ Numbered'
          /\ i # 0 => mMessageEnvelopes # <<>> /\ mMessageEnvelopes'[1] = mMessageEnvelopes[1]
      BY <2>1, EnqueueFacts, ZenonT(30)
    <2>4. woken' \in BOOLEAN /\ (~woken' => ~woken /\ (i # 0 \/ pc = "handler"))
      BY <2>1, ZenonT(30) DEF MustWake, SleepInv, NextIsKnown
    <2>5. NextIsKnown'
      BY <2>2, <2>3, <2>4 DEF SleepInv, NextIsKnown
    <2>6. NoOversleep'
      BY <2>2 DEF NoOversleep
    <2> QED
      BY <2>2, <2>3, <2>4, <2>5, <2>6, ZenonT(30) DEF SleepInv
  <1>4. ASSUME NEW H \in SUBSET Handler, removeMessages(H) PROVE SleepInv'
    <2> DEFINE q == mMessageEnvelopes
    <2>1. /\ q' = Others(q, H)
          /\ UNCHANGED <<now, woken, waking, mSendingMessage, mNextMessageUptime, sent, pc,
                         deadline>>
      BY <1>4, ZenonT(30) DEF removeMessages, pollVars
    <2>2. q \in Seq(Envelopes) /\ Numbered
      BY ZenonT(30) DEF SleepInv
    <2>3. /\ q' \in Seq(Envelopes) /\ Sorted(q')
          /\ \A i \in 1..Len(q') : \E a \in 1..Len(q) : q'[i] = q[a]
      BY <2>1, <2>2, OthersFacts, SMTT(30) DEF Numbered
    <2>4. Numbered'
      BY <2>1, <2>2, <2>3, ZenonT(30) DEF Numbered
    <2>5. q' # <<>> => q # <<>> /\ q[1].uptime \in Nat /\ q'[1].uptime \in Nat
                                /\ q[1].uptime =< q'[1].uptime
      <3> SUFFICES ASSUME q' # <<>>
                   PROVE  q # <<>> /\ q[1].uptime \in Nat /\ q'[1].uptime \in Nat
                                   /\ q[1].uptime =< q'[1].uptime
        OBVIOUS
      <3>1. 1 \in 1..Len(q')
        BY <2>3
      <3>2. PICK a \in 1..Len(q) : q'[1] = q[a]
        BY <2>3, <3>1, ZenonT(30)
      <3>3. q # <<>> /\ 1 \in 1..Len(q) /\ q[1] \in Envelopes /\ q[a] \in Envelopes
        BY <2>2, <3>2, SMTT(30)
      <3>4. a # 1 => Before(q[1], q[a])
        BY <2>2, <3>2, <3>3, SMTT(30) DEF Numbered, Sorted
      <3> QED
        BY <3>2, <3>3, <3>4, SMTT(30) DEF Envelopes, Before
    <2>6. NextIsKnown'
      BY <2>1, <2>5, SMTT(30) DEF SleepInv, NextIsKnown
    <2>7. NoOversleep'
      <3> SUFFICES ASSUME pc = "polling", ~woken, waking = {}, q' # <<>>
                   PROVE  deadline =< now \/ deadline =< q'[1].uptime
        BY <2>1, <2>3, SMTT(30) DEF NoOversleep
      <3>1. deadline =< now \/ deadline =< q[1].uptime
        BY <2>2, <2>5, SMTT(30) DEF SleepInv, NoOversleep
      <3> QED
        BY <2>5, <3>1, SMTT(30) DEF SleepInv
    <2> QED
      BY <2>1, <2>3, <2>4, <2>6, <2>7 DEF SleepInv
  <1>5. ASSUME woken' \in BOOLEAN, woken => woken',
               UNCHANGED <<now, messageVars, pc, deadline>>
        PROVE  SleepInv'
    BY <1>5, SleepFrame, ZenonT(30) DEF SleepInv, NextIsKnown, NoOversleep, messageVars
  <1>6. ASSUME NEW fd \in Fd,
               \/ \E kind \in {"callback", "ident"} : addFd(fd, kind)
               \/ \E inside \in BOOLEAN : removeFd(fd, inside)
               \/ AddFails(fd)
               \/ \E file \in File : Open(fd, file)
               \/ Close(fd) \/ Read(fd)
        PROVE  SleepInv'
    <2>1. woken \in BOOLEAN
      BY ZenonT(30) DEF SleepInv
    <2>2. UNCHANGED <<now, messageVars, pc, deadline>>
      BY <1>6, ZenonT(30) DEF addFd, AddFails, removeFd, Open, Close, CloseIt, Read, pollVars
    <2>3. woken' = woken \/ Rebuild
      BY <1>6, ZenonT(30) DEF addFd, AddFails, removeFd, Unregister, Deleted, Open, Close, CloseIt, Read,
         NoRebuild
    <2>4. woken' \in BOOLEAN /\ (woken => woken')
      BY <2>1, <2>3, ZenonT(30) DEF Rebuild
    <2> QED
      BY <1>5, <2>2, <2>4, ZenonT(30)
  <1>7. ASSUME NEW file \in File, Signal(file) PROVE SleepInv'
    <2>1. UNCHANGED <<now, messageVars, pc, deadline, woken>>
      BY <1>7 DEF Signal, pollVars
    <2> QED
      BY <1>5, <2>1 DEF SleepInv
  <1> QED
    BY <1>1, <1>2, <1>3, <1>4, <1>6, <1>7, ZenonT(30) DEF Client

\* The message loop recomputes mNextMessageUptime whenever it ends.
LEMMA SleepDeliver ==
  ASSUME SleepInv, Deliver(mMessageEnvelopes), woken' \in BOOLEAN,
         UNCHANGED <<now, sent, deadline>>
  PROVE  SleepInv'
  <1> DEFINE q == mMessageEnvelopes
  <1>1. q \in Seq(Envelopes) /\ Numbered /\ now \in Nat /\ sent \in Nat /\ deadline \in Nat
    BY DEF SleepInv, MessageType
  <1>2. MaxTime + 1 \in Nat
    BY LooperAssumption
  <1>3. CASE q # <<>> /\ Head(q).uptime =< now
    <2>1. q' = Tail(q) /\ mSendingMessage' /\ mNextMessageUptime' = MaxTime + 1 /\ pc' = "handler"
      BY <1>3, ZenonT(30) DEF Deliver, Never
    <2>2. q' \in Seq(Envelopes) /\ Len(q') = Len(q) - 1 /\ \A i \in 1..Len(q') : q'[i] = q[i + 1]
      BY <1>1, <1>3, <2>1, SMTT(30)
    <2>3. Sorted(q')
      <3> SUFFICES ASSUME NEW i \in 1..Len(q'), NEW j \in 1..Len(q'), i < j
                   PROVE  Before(q'[i], q'[j])
        BY ZenonT(30) DEF Sorted
      <3>1. i + 1 \in 1..Len(q) /\ j + 1 \in 1..Len(q) /\ i + 1 < j + 1
        BY <1>1, <2>2, SMTT(30)
      <3> QED
        BY <1>1, <2>2, <3>1, ZenonT(30) DEF Numbered, Sorted
    <2>4. ASSUME NEW i \in 1..Len(q') PROVE q'[i].id < sent
      <3>1. i + 1 \in 1..Len(q)
        BY <1>1, <2>2, SMTT(30)
      <3> QED
        BY <1>1, <2>2, <3>1, ZenonT(30) DEF Numbered
    <2> QED
      BY <1>1, <1>2, <2>1, <2>2, <2>3, <2>4, ZenonT(30) DEF SleepInv, MessageType, Numbered, NextIsKnown,
         NoOversleep
  <1>4. CASE ~(q # <<>> /\ Head(q).uptime =< now)
    <2>1. /\ q' = q /\ ~mSendingMessage' /\ pc' = "responses"
          /\ mNextMessageUptime' = IF q = <<>> THEN MaxTime + 1 ELSE Head(q).uptime
      BY <1>4, ZenonT(30) DEF Deliver, Never
    <2>2. q # <<>> => Head(q) = q[1] /\ q[1].uptime \in Nat
      <3>1. q # <<>> => Head(q) = q[1] /\ q[1] \in Envelopes
        BY <1>1, SMTT(30)
      <3> QED
        BY <3>1, ZenonT(30) DEF Envelopes
    <2>3. Numbered'
      BY <2>1, SleepFrame, ZenonT(30)
    <2> QED
      BY <1>1, <1>2, <2>1, <2>2, <2>3, SMTT(30) DEF SleepInv, MessageType, NextIsKnown, NoOversleep
  <1> QED
    BY <1>3, <1>4

\* The polling thread never goes to sleep for longer than until the first message.
LEMMA SleepPoll ==
  ASSUME SleepInv, PollStep
  PROVE  SleepInv'
  <1> USE DEF MessageType
  <1>1. ASSUME woken' \in BOOLEAN, woken => woken', UNCHANGED <<now, messageVars, deadline>>,
               pc' \in {"idle", "return", "responses", "callback"},
               pc \in {"idle", "return", "responses", "callback"}
        PROVE  SleepInv'
    BY <1>1, SleepFrame, ZenonT(30) DEF SleepInv, NextIsKnown, NoOversleep, messageVars
  <1>2. CASE ReturnIdent \/ ReturnResult \/ InvokeCallback \/ AllInvoked \/ CallbackReturns1
    <2>1. woken' = woken /\ UNCHANGED <<now, messageVars, deadline>>
      BY <1>2, ZenonT(30) DEF ReturnIdent, ReturnResult, InvokeCallback, AllInvoked, CallbackReturns1
    <2>2. /\ pc' \in {"idle", "return", "responses", "callback"}
          /\ pc \in {"idle", "return", "responses", "callback"}
      BY <1>2, ZenonT(30) DEF ReturnIdent, ReturnResult, InvokeCallback, AllInvoked, CallbackReturns1
    <2> QED
      BY <1>1, <2>1, <2>2, ZenonT(30) DEF SleepInv
  <1>3. CASE CallbackReturns0
    <2>1. UNCHANGED <<now, messageVars, deadline>> /\ pc = "callback" /\ pc' = "responses"
      BY <1>3, ZenonT(30) DEF CallbackReturns0
    <2>2. woken' \in BOOLEAN /\ (woken => woken')
      BY <1>3, ZenonT(30) DEF CallbackReturns0, Unregister, Deleted, Rebuild, NoRebuild, SleepInv
    <2> QED
      BY <1>1, <2>1, <2>2, ZenonT(30)
  <1>4. ASSUME NEW timeout \in Timeout, pollInner(timeout) PROVE SleepInv'
    <2>1. /\ pc = "idle" /\ pc' = "polling" /\ deadline' = SleepUntil(timeout)
          /\ UNCHANGED <<now, woken, messageVars>>
      BY <1>4, ZenonT(30) DEF pollInner
    <2>2. now \in Nat /\ mNextMessageUptime \in Nat /\ timeout \in Nat \cup {-1}
      BY LooperAssumption DEF SleepInv
    <2>3. /\ deadline' \in Nat
          /\ deadline' =< now \/ deadline' =< mNextMessageUptime
      BY <2>1, <2>2, SMTT(30) DEF SleepUntil
    <2>4. ASSUME ~woken, waking = {}, mMessageEnvelopes # <<>>
          PROVE  deadline' =< now \/ deadline' =< Head(mMessageEnvelopes).uptime
      <3>1. /\ mNextMessageUptime =< mMessageEnvelopes[1].uptime
            /\ mMessageEnvelopes \in Seq(Envelopes)
        BY <2>1, <2>4, ZenonT(30) DEF SleepInv, NextIsKnown
      <3>2. Head(mMessageEnvelopes) = mMessageEnvelopes[1] /\ mMessageEnvelopes[1] \in Envelopes
        BY <2>4, <3>1, SMTT(30)
      <3>3. mMessageEnvelopes[1].uptime \in Nat
        BY <3>2, ZenonT(30) DEF Envelopes
      <3> QED
        BY <2>2, <2>3, <3>1, <3>2, <3>3, SMTT(30)
    <2>5. NoOversleep'
      BY <2>1, <2>4, ZenonT(30) DEF NoOversleep, messageVars
    <2>6. Numbered'
      BY <2>1, SleepFrame, ZenonT(30) DEF messageVars
    <2> QED
      BY <2>1, <2>3, <2>5, <2>6, ZenonT(30) DEF SleepInv, NextIsKnown, messageVars
  <1>5. CASE HandleRebuild \/ Handle \/ HandlerDone
    <2>1. Deliver(mMessageEnvelopes) /\ UNCHANGED <<now, sent, deadline>>
      BY <1>5, ZenonT(30) DEF HandleRebuild, Handle, HandlerDone
    <2>2. woken' \in BOOLEAN
      BY <1>5, ZenonT(30) DEF HandleRebuild, Handle, HandlerDone, SleepInv
    <2> QED
      BY <2>1, <2>2, SleepDeliver, ZenonT(30)
  <1>6. CASE epoll_wait \/ Interrupted
    <2>1. /\ pc = "polling" /\ pc' = "awake"
          /\ UNCHANGED <<now, woken, messageVars, deadline>>
      BY <1>6 DEF epoll_wait, Interrupted
    <2> QED
      BY <2>1, SleepFrame DEF SleepInv, NextIsKnown, NoOversleep, messageVars
  <1> QED
    BY <1>2, <1>3, <1>4, <1>5, <1>6, ZenonT(30) DEF PollStep, Poll

\* The queue is sorted and the loop never sleeps too long, in every reachable state.
THEOREM SleepInvariant == Spec => []SleepInv
  <1>1. Init => SleepInv
    BY SleepInit, ZenonT(30)
  <1>2. ASSUME SleepInv, Tick PROVE SleepInv'
    <2>1. now' = now + 1 /\ UNCHANGED <<woken, messageVars, pc, deadline>>
      BY <1>2, ZenonT(30) DEF Tick, pollVars
    <2>2. Numbered'
      BY <1>2, <2>1, SleepFrame, ZenonT(30) DEF messageVars
    <2> QED
      BY <1>2, <2>1, <2>2, SMTT(30) DEF SleepInv, MessageType, NextIsKnown, NoOversleep, messageVars
  <1>3. ASSUME SleepInv, UNCHANGED vars PROVE SleepInv'
    <2>1. UNCHANGED <<now, woken, messageVars, pc, deadline>>
      BY <1>3, ZenonT(30) DEF vars, pollVars
    <2> QED
      BY <1>3, <2>1, SleepFrame, ZenonT(30) DEF SleepInv, MessageType, NextIsKnown, NoOversleep, messageVars
  <1>4. SleepInv /\ [Next]_vars => SleepInv'
    BY <1>2, <1>3, SleepClient, SleepPoll, ZenonT(30) DEF Next, PollStep
  <1> QED
    BY <1>1, <1>4, PTL DEF Spec

\* epoll_wait times out when the first message is due, at the latest, unless the loop has
\* been woken or the thread that put a message at the head is on its way to wake().
THEOREM NeverOversleeps == Spec => []NoOversleep
  <1>1. SleepInv => NoOversleep
    BY DEF SleepInv
  <1> QED
    BY <1>1, SleepInvariant, PTL

\* Messages are kept in the order of their times, and of sending for the same time.
THEOREM QueueInOrder == Spec => []InOrder
  <1>1. SleepInv => InOrder
    BY DEF SleepInv, Numbered, Sorted, Before, InOrder
  <1> QED
    BY <1>1, SleepInvariant, PTL

=============================================================================
