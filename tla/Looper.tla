------------------------------- MODULE Looper -------------------------------
(***************************************************************************)
(* The polling loop of libutils (libutils/Looper.cpp): one thread polls,   *)
(* delivers messages and invokes the callbacks of file descriptors; that   *)
(* thread, within a handler or callback, and any other thread send and     *)
(* remove messages, add and remove descriptors, and close and open files.  *)
(*                                                                         *)
(* A section under mLock is one step.  A descriptor number refers to an    *)
(* open file; an entry of the epoll set is for a number and a file, and    *)
(* goes away by itself only when the file is closed for good, which a      *)
(* duplicate elsewhere prevents.                                           *)
(***************************************************************************)
EXTENDS Integers, Sequences, FiniteSets, Functions

CONSTANTS
    Fd,          \* descriptor numbers
    File,        \* files, each opened at most once
    Duplicated,  \* those that another descriptor keeps open
    Thread,      \* threads other than the one that polls
    Handler,     \* a handler and the "what" of a message for it
    None,
    MaxCall,     \* messages sent and calls of addFd, together
    MaxTime,     \* the clock stops here
    Delay,       \* delays of messages
    Timeout      \* timeouts of pollOnce; -1 waits indefinitely

Envelopes == [id : Nat, uptime : Nat, handler : Handler]
Descriptors == [fd : Fd, file : File]
Requests == [fd : Fd, kind : {"callback", "ident"}, seq : Nat, file : File]

ASSUME LooperAssumption ==
    /\ IsFiniteSet(Fd) /\ Duplicated \subseteq File
    /\ None \notin File /\ None \notin Requests
    /\ MaxCall \in Nat /\ MaxTime \in Nat
    /\ Delay \subseteq Nat /\ Timeout \subseteq (Nat \cup {-1})

Never == MaxTime + 1  \* LLONG_MAX

VARIABLES
    now,                   \* systemTime
    mMessageEnvelopes,     \* sequence of Envelopes
    mSendingMessage,
    mNextMessageUptime,
    sent,                  \* history: messages sent so far
    woken,                 \* mWakeEventFd is signalled
    pc,                    \* what the polling thread does
    deadline,              \* when its epoll_wait times out
    items,                 \* what epoll_wait returned: set of [fd, file],
    sawWake,               \* and whether the wake event was among it
    mResponses,            \* sequence of [req, file]
    mResponseIndex,        \* how many of them are dealt with
    mRequests,             \* for each descriptor a request or None
    mNextRequestSeq,
    mEpollRebuildRequired,
    epoll,                 \* set of [fd, file]
    table,                 \* the file each descriptor refers to, or None
    unopened,              \* files still to be opened
    ready,                 \* files with an event
    waking,                \* threads between the insertion of a message and wake()
    removedSelf            \* history: requests whose callback removed itself

messageVars == <<mMessageEnvelopes, mSendingMessage, mNextMessageUptime, sent, waking>>
pollVars == <<pc, deadline, items, sawWake, mResponses, mResponseIndex>>
requestVars == <<mRequests, mNextRequestSeq, mEpollRebuildRequired, epoll, removedSelf>>
fileVars == <<table, unopened, ready>>
vars == <<now, woken, messageVars, pollVars, requestVars, fileVars>>

Init ==
    /\ now = 0
    /\ mMessageEnvelopes = <<>> /\ mSendingMessage = FALSE /\ mNextMessageUptime = Never
    /\ sent = 0 /\ woken = FALSE /\ waking = {}
    /\ pc = "idle" /\ deadline = 0
    /\ items = {} /\ sawWake = FALSE /\ mResponses = <<>> /\ mResponseIndex = 0
    /\ mRequests = [fd \in Fd |-> None] /\ mNextRequestSeq = 0
    /\ mEpollRebuildRequired = FALSE /\ epoll = {}
    /\ table = [fd \in Fd |-> None] /\ unopened = File /\ ready = {}
    /\ removedSelf = {}

\* The polling thread runs a handler or callback, which may call anything
Inside == pc \in {"handler", "callback"}
\* The request whose callback runs
Running == mResponses[mResponseIndex].req

-----------------------------------------------------------------------------
(* Messages                                                                 *)

\* The loop that looks for the place of a new envelope stops behind i others
Position(i, uptime) ==
    /\ \A j \in 1..i : uptime >= mMessageEnvelopes[j].uptime
    /\ i < Len(mMessageEnvelopes) => uptime < mMessageEnvelopes[i + 1].uptime

\* Vector::insertAt: the new item comes behind i others
InsertAt(s, e, i) == SubSeq(s, 1, i) \o <<e>> \o SubSeq(s, i + 1, Len(s))

\* The part under the lock
Enqueue(i, uptime, handler) ==
    /\ sent + mNextRequestSeq < MaxCall
    /\ Position(i, uptime)
    /\ sent' = sent + 1
    /\ mMessageEnvelopes' = InsertAt(mMessageEnvelopes,
                                     [id |-> sent, uptime |-> uptime, handler |-> handler], i)

\* Mutant: messages behind the head wake, the one at the head does not.
MutMustWake(i) == ~mSendingMessage /\ i > 0
\* Nothing to wake while a message is being sent or when the head stays
MustWake(i) == ~mSendingMessage /\ i = 0

\* sendMessage, sendMessageDelayed by a thread: wake() comes after the lock is released
sendMessageAtTime(t, uptime, handler) ==
    /\ t \notin waking
    /\ \E i \in 0..Len(mMessageEnvelopes) :
          /\ Enqueue(i, uptime, handler)
          /\ waking' = IF MustWake(i) THEN waking \cup {t} ELSE waking
    /\ UNCHANGED <<now, woken, mSendingMessage, mNextMessageUptime, pollVars, requestVars,
                   fileVars>>

wake(t) ==
    /\ t \in waking
    /\ waking' = waking \ {t}
    /\ woken' = TRUE
    /\ UNCHANGED <<now, mMessageEnvelopes, mSendingMessage, mNextMessageUptime, sent,
                   pollVars, requestVars, fileVars>>

\* The same by the polling thread
SendInside(uptime, handler) ==
    /\ Inside
    /\ \E i \in 0..Len(mMessageEnvelopes) :
          /\ Enqueue(i, uptime, handler)
          /\ woken' = (woken \/ MustWake(i))
    /\ UNCHANGED <<now, mSendingMessage, mNextMessageUptime, waking, pollVars, requestVars,
                   fileVars>>

\* The messages of q that are for other handlers
Others(q, handlers) ==
    LET kept[i \in 0..Len(q)] ==
            IF i = 0 THEN <<>>
            ELSE IF q[i].handler \in handlers THEN kept[i - 1]
                 ELSE Append(kept[i - 1], q[i])
    IN  kept[Len(q)]

\* All messages of a handler, or those with one "what"
removeMessages(handlers) ==
    /\ mMessageEnvelopes' = Others(mMessageEnvelopes, handlers)
    /\ UNCHANGED <<now, woken, mSendingMessage, mNextMessageUptime, sent, waking, pollVars,
                   requestVars, fileVars>>

-----------------------------------------------------------------------------
(* File descriptors                                                         *)

\* scheduleEpollRebuildLocked
Rebuild == mEpollRebuildRequired' = TRUE /\ woken' = (woken \/ ~mEpollRebuildRequired)
NoRebuild == UNCHANGED <<mEpollRebuildRequired, woken>>

Entry(fd) == [fd |-> fd, file |-> table[fd]]

\* kind is "callback" or "ident"; file is what the descriptor refers to, for the properties
Request(fd, kind) ==
    [fd |-> fd, kind |-> kind, seq |-> mNextRequestSeq, file |-> table[fd]]

\* epoll_ctl succeeds: the descriptor is open, and not in the set when it is new
Usable(fd) == table[fd] # None /\ (mRequests[fd] = None => Entry(fd) \notin epoll)

addFd(fd, kind) ==
    /\ sent + mNextRequestSeq < MaxCall
    /\ Usable(fd)
    /\ mNextRequestSeq' = mNextRequestSeq + 1
    /\ epoll' = epoll \cup {Entry(fd)}
    /\ mRequests' = [mRequests EXCEPT ![fd] = Request(fd, kind)]
    /\ IF mRequests[fd] # None /\ Entry(fd) \notin epoll
       THEN Rebuild    \* EPOLL_CTL_MOD says ENOENT, then EPOLL_CTL_ADD
       ELSE NoRebuild  \* EPOLL_CTL_MOD, or EPOLL_CTL_ADD
    /\ UNCHANGED <<now, messageVars, pollVars, fileVars, removedSelf>>

\* The sequence number is used up, and no request made
AddFails(fd) ==
    /\ sent + mNextRequestSeq < MaxCall
    /\ ~Usable(fd)
    /\ mNextRequestSeq' = mNextRequestSeq + 1
    /\ UNCHANGED <<now, woken, messageVars, pollVars, mRequests, mEpollRebuildRequired, epoll,
                   removedSelf, fileVars>>

\* Mutant: an entry that cannot be deleted is left.
MutDeleted(fd) == epoll' = epoll \ {Entry(fd)} /\ NoRebuild
\* EPOLL_CTL_DEL; EBADF and ENOENT schedule a rebuild
Deleted(fd) ==
    IF table[fd] # None /\ Entry(fd) \in epoll
    THEN epoll' = epoll \ {Entry(fd)} /\ NoRebuild
    ELSE epoll' = epoll /\ Rebuild

\* removeFd(fd, -1) when the descriptor is registered
Unregister(fd) ==
    /\ mRequests[fd] # None
    /\ mRequests' = [mRequests EXCEPT ![fd] = None]
    /\ Deleted(fd)

\* removeFd(fd); a callback may remove its own descriptor
removeFd(fd, inside) ==
    /\ Unregister(fd)
    /\ removedSelf' = IF inside /\ pc = "callback" /\ Running = mRequests[fd]
                      THEN removedSelf \cup {Running.seq} ELSE removedSelf
    /\ UNCHANGED <<now, messageVars, pollVars, mNextRequestSeq, fileVars>>

\* open(): a free number gets a file
Open(fd, file) ==
    /\ table[fd] = None
    /\ file \in unopened
    /\ table' = [table EXCEPT ![fd] = file]
    /\ unopened' = unopened \ {file}
    /\ UNCHANGED <<now, woken, messageVars, pollVars, requestVars, ready>>

\* close(): the entry goes with the last descriptor of the file
CloseIt(fd) ==
    /\ table[fd] # None
    /\ table' = [table EXCEPT ![fd] = None]
    /\ epoll' = IF table[fd] \in Duplicated THEN epoll ELSE epoll \ {Entry(fd)}
    /\ UNCHANGED <<now, woken, messageVars, pollVars, mRequests, mNextRequestSeq,
                   mEpollRebuildRequired, removedSelf, unopened, ready>>

\* A descriptor is closed after it is removed, or by its own callback
Close(fd) ==
    /\ mRequests[fd] # None =>
          mRequests[fd].file # table[fd] \/ (pc = "callback" /\ Running = mRequests[fd])
    /\ CloseIt(fd)

Signal(file) ==
    /\ file \notin ready \cup unopened
    /\ ready' = ready \cup {file}
    /\ UNCHANGED <<now, woken, messageVars, pollVars, requestVars, table, unopened>>

\* A callback, or the caller of pollOnce that got the identifier, reads
Read(fd) ==
    /\ mRequests[fd] # None
    /\ IF pc = "callback" THEN Running = mRequests[fd]
                          ELSE pc = "idle" /\ mRequests[fd].kind = "ident"
    /\ table[fd] \in ready
    /\ ready' = ready \ {table[fd]}
    /\ UNCHANGED <<now, woken, messageVars, pollVars, requestVars, table, unopened>>

-----------------------------------------------------------------------------
(* The polling thread                                                       *)

IsIdent(r) == r.req.kind = "ident"

\* pollOnce returns the identifier of the next response that has one
Pending == {i \in 1..Len(mResponses) : i > mResponseIndex /\ IsIdent(mResponses[i])}
ReturnIdent ==
    /\ pc \in {"idle", "return"}
    /\ \E i \in Pending : (\A j \in Pending : i =< j) /\ mResponseIndex' = i
    /\ pc' = "idle"
    /\ UNCHANGED <<now, woken, messageVars, requestVars, fileVars, deadline, items,
                   sawWake, mResponses>>

\* Or the result of pollInner
ReturnResult ==
    /\ pc = "return"
    /\ Pending = {}
    /\ pc' = "idle"
    /\ mResponseIndex' = Len(mResponses)
    /\ UNCHANGED <<now, woken, messageVars, requestVars, fileVars, deadline, items,
                   sawWake, mResponses>>

\* Mutant: a message that is due is not taken into account.
MutSleepUntil(timeout) == IF timeout = -1 THEN Never ELSE now + timeout
\* The end of epoll_wait
SleepUntil(timeout) ==
    CASE timeout = 0                                         -> now
      [] timeout = -1 \/ mNextMessageUptime < now + timeout  -> mNextMessageUptime
      [] OTHER                                               -> now + timeout

\* pollInner until epoll_wait
pollInner(timeout) ==
    /\ pc = "idle" /\ Pending = {}
    /\ deadline' = SleepUntil(timeout)
    /\ mResponses' = <<>> /\ mResponseIndex' = 0
    /\ items' = {} /\ sawWake' = FALSE
    /\ pc' = "polling"
    /\ UNCHANGED <<now, woken, messageVars, requestVars, fileVars>>

\* epoll_wait returns the entries that are ready, or times out
epoll_wait ==
    /\ pc = "polling"
    /\ items' = {e \in epoll : e.file \in ready}
    /\ items' # {} \/ woken \/ now >= deadline
    /\ sawWake' = woken
    /\ pc' = "awake"
    /\ UNCHANGED <<now, woken, messageVars, requestVars, fileVars, deadline, mResponses,
                   mResponseIndex>>

\* EINTR
Interrupted ==
    /\ pc = "polling"
    /\ items' = {} /\ sawWake' = FALSE
    /\ pc' = "awake"
    /\ UNCHANGED <<now, woken, messageVars, requestVars, fileVars, deadline, mResponses,
                   mResponseIndex>>

\* The message loop, under the lock: the envelopes left are q
Deliver(q) ==
    IF q # <<>> /\ Head(q).uptime =< now
    THEN /\ mMessageEnvelopes' = Tail(q)
         /\ mSendingMessage' = TRUE
         /\ mNextMessageUptime' = Never
         /\ pc' = "handler"
    ELSE /\ mMessageEnvelopes' = q
         /\ mSendingMessage' = FALSE
         /\ mNextMessageUptime' = IF q = <<>> THEN Never ELSE Head(q).uptime
         /\ pc' = "responses"

\* Mutant: the flag is not reset.
MutRebuildEpoll ==
    /\ UNCHANGED mEpollRebuildRequired
    /\ epoll' = {Entry(fd) : fd \in {f \in Fd : mRequests[f] # None /\ table[f] # None}}
\* rebuildEpollLocked: a new set of everything that is registered and open
RebuildEpoll ==
    /\ mEpollRebuildRequired' = FALSE
    /\ epoll' = {Entry(fd) : fd \in {f \in Fd : mRequests[f] # None /\ table[f] # None}}

\* The lock is acquired after epoll_wait: a rebuild, and nothing else is looked at
HandleRebuild ==
    /\ pc = "awake"
    /\ mEpollRebuildRequired
    /\ RebuildEpoll
    /\ Deliver(mMessageEnvelopes)
    /\ UNCHANGED <<now, woken, sent, waking, fileVars, mRequests, mNextRequestSeq, removedSelf,
                   deadline, items, sawWake, mResponses, mResponseIndex>>

\* awoken(), and a response for each event whose descriptor is registered; the events
\* come in any order
Handle ==
    /\ pc = "awake"
    /\ ~mEpollRebuildRequired
    /\ woken' = (woken /\ ~sawWake)
    /\ \E known \in LET S == {e \in items : mRequests[e.fd] # None}
                   IN  Bijection(1..Cardinality(S), S) :
          mResponses' = [i \in 1..Len(known) |->
                            [req |-> mRequests[known[i].fd], file |-> known[i].file]]
    /\ Deliver(mMessageEnvelopes)
    /\ UNCHANGED <<now, sent, waking, fileVars, requestVars, deadline, items,
                   sawWake, mResponseIndex>>

\* handleMessage returns
HandlerDone ==
    /\ pc = "handler"
    /\ Deliver(mMessageEnvelopes)
    /\ UNCHANGED <<now, woken, sent, waking, fileVars, requestVars, deadline, items,
                   sawWake, mResponses, mResponseIndex>>

\* The next response that has a callback is invoked; the others are for pollOnce
Callbacks == {i \in 1..Len(mResponses) : i > mResponseIndex /\ ~IsIdent(mResponses[i])}
InvokeCallback ==
    /\ pc = "responses"
    /\ \E i \in Callbacks : (\A j \in Callbacks : i =< j) /\ mResponseIndex' = i
    /\ pc' = "callback"
    /\ UNCHANGED <<now, woken, messageVars, requestVars, fileVars, deadline, items,
                   sawWake, mResponses>>

AllInvoked ==
    /\ pc = "responses"
    /\ Callbacks = {}
    /\ mResponseIndex' = 0
    /\ pc' = "return"
    /\ UNCHANGED <<now, woken, messageVars, requestVars, fileVars, deadline, items,
                   sawWake, mResponses>>

\* A callback that closed its descriptor unregisters itself
CallbackReturns1 ==
    /\ pc = "callback"
    /\ mRequests[Running.fd] = Running => table[Running.fd] = Running.file
    /\ pc' = "responses"
    /\ UNCHANGED <<now, woken, messageVars, requestVars, fileVars, deadline, items,
                   sawWake, mResponses, mResponseIndex>>

\* Mutant: the sequence number is not compared.
MutSameRequest == mRequests[Running.fd] # None
\* removeFd(fd, seq) removes the request the response was made for
SameRequest == mRequests[Running.fd] # None /\ mRequests[Running.fd].seq = Running.seq

CallbackReturns0 ==
    /\ pc = "callback"
    /\ removedSelf' = removedSelf \cup {Running.seq}
    /\ pc' = "responses"
    /\ IF SameRequest
       THEN Unregister(Running.fd)
       ELSE UNCHANGED <<mRequests, epoll, mEpollRebuildRequired, woken>>
    /\ UNCHANGED <<now, messageVars, fileVars, mNextRequestSeq, deadline, items,
                   sawWake, mResponses, mResponseIndex>>

Tick ==
    /\ now < MaxTime
    /\ now' = now + 1
    /\ UNCHANGED <<woken, messageVars, pollVars, requestVars, fileVars>>

-----------------------------------------------------------------------------
Client ==
    \/ \E t \in Thread, d \in Delay, h \in Handler : sendMessageAtTime(t, now + d, h)
    \/ \E t \in Thread : wake(t)
    \/ \E d \in Delay, h \in Handler : SendInside(now + d, h)
    \/ \E H \in SUBSET Handler : removeMessages(H)
    \/ \E fd \in Fd :
          \/ \E kind \in {"callback", "ident"} : addFd(fd, kind)
          \/ AddFails(fd)
          \/ \E inside \in BOOLEAN : removeFd(fd, inside)
          \/ \E file \in File : Open(fd, file)
          \/ Close(fd) \/ Read(fd)
    \/ \E file \in File : Signal(file)

Poll ==
    \/ ReturnIdent \/ ReturnResult
    \/ \E timeout \in Timeout : pollInner(timeout)
    \/ HandleRebuild \/ Handle \/ HandlerDone
    \/ InvokeCallback \/ AllInvoked \/ CallbackReturns1 \/ CallbackReturns0

Next == Client \/ Poll \/ epoll_wait \/ Interrupted \/ Tick

Spec == Init /\ [][Next]_vars

\* The thread calls pollOnce again and again, handlers and callbacks return, a thread
\* that has inserted a message gets to wake(), and not every epoll_wait is interrupted
FairSpec ==
    /\ Spec
    /\ WF_vars(Poll) /\ SF_vars(epoll_wait) /\ WF_vars(Tick)
    /\ \A t \in Thread : WF_vars(wake(t))

-----------------------------------------------------------------------------
(* Properties                                                               *)

\* The thread never sleeps past a message: unless it has been woken, or the thread that
\* put a message at the head is on its way to wake(), epoll_wait times out when the first
\* message is due, at the latest.
NoOversleep ==
    pc = "polling" /\ ~woken /\ waking = {} /\ mMessageEnvelopes # <<>>
        => deadline =< now \/ deadline =< Head(mMessageEnvelopes).uptime

\* The queue is in the order of the times, and of sending for messages of the same time.
InOrder ==
    \A i, j \in 1..Len(mMessageEnvelopes) : i < j =>
        LET a == mMessageEnvelopes[i]
            b == mMessageEnvelopes[j]
        IN a.uptime < b.uptime \/ (a.uptime = b.uptime /\ a.id < b.id)

\* The epoll set agrees with mRequests: a registered descriptor is monitored while it
\* refers to the file it was added for, and an entry that no request stands for is about
\* to be thrown out by a rebuild.
EpollInSync ==
    /\ \A fd \in Fd : mRequests[fd] # None /\ mRequests[fd].file = table[fd]
                         => Entry(fd) \in epoll
    /\ \A e \in epoll : \/ mRequests[e.fd] # None /\ mRequests[e.fd].file = e.file
                        \/ mEpollRebuildRequired

\* A callback that returns 0 unregisters itself, never a request that replaced it
\* meanwhile (the sequence numbers of removeFd); and "if the callback takes care of
\* removing itself during its own execution either by returning 0 or by calling this
\* method, then it can be guaranteed to not be invoked again at any later time unless
\* registered anew".
OwnRequestOnly ==
    [][/\ pc = "callback" /\ pc' = "responses"
             => \A fd \in Fd : mRequests'[fd] = mRequests[fd] \/ mRequests[fd] = Running
       /\ pc = "responses" /\ pc' = "callback"
             => mResponses[mResponseIndex'].req.seq \notin removedSelf]_vars

Queued(id) ==
    \E i \in 1..Len(mMessageEnvelopes) :
        mMessageEnvelopes[i].id = id /\ mMessageEnvelopes[i].uptime =< MaxTime

\* Every message whose time the clock reaches is delivered or removed, and messages are
\* delivered in the order of their times and of sending.
MessagesDelivered == []InOrder /\ \A id \in 0..(MaxCall - 1) : Queued(id) ~> ~Queued(id)

Wanted(fd, seq) ==
    /\ mRequests[fd] # None /\ mRequests[fd].seq = seq /\ mRequests[fd].kind = "callback"
    /\ mRequests[fd].file = table[fd] /\ table[fd] \in ready
\* A descriptor whose file has an event gets its callback, unless it is removed, replaced or
\* closed or somebody else takes the event.
CallbackInvoked ==
    \A fd \in Fd, seq \in 0..(MaxCall - 1) :
        Wanted(fd, seq) ~> ~Wanted(fd, seq) \/ (pc = "callback" /\ Running.seq = seq)

=============================================================================
