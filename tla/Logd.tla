------------------------------- MODULE Logd -------------------------------
(***************************************************************************)
(* logd: the threads around the list of log lines (logd/LogListener.cpp,   *)
(* LogReader.cpp, FlushCommand.cpp, LogTimes.cpp, LogBuffer.cpp,           *)
(* CommandListener.cpp) and the clients of the sockets                     *)
(* (libsysutils/src/SocketListener.cpp, SocketClient.cpp).                 *)
(*                                                                         *)
(* The writer takes lines from the socket, puts them into the list and     *)
(* notifies the readers.  The listener accepts clients, takes their        *)
(* request and notices that they hang up.  Every client has a LogTimeEntry *)
(* and a thread that sends it lines.  The control thread clears a log.     *)
(*                                                                         *)
(* Locks: what is done under timesLock is one step, and so is what a       *)
(* reader does to the list under its read lock; the writer keeps the write *)
(* lock over several steps.  A client sends one request, as liblog does.   *)
(***************************************************************************)
EXTENDS LogBuffer

CONSTANTS
    Client,       \* clients of the reader socket
    Request,      \* what they may ask for: see LogTimeEntry
    LogLine,      \* what may be logged: time, log id, source and message
    MaxLog,       \* how many lines are logged
    MaxClear,     \* how often a log is cleared
    ClearTries,   \* tries of clear(), 4 in the code
    SlowReaders,  \* whether a client may be too slow for SO_SNDTIMEO
    ThreadFails   \* whether pthread_create may fail

ASSUME LogdAssumption ==
    /\ {MaxLog, MaxClear, ClearTries} \subseteq Nat
    /\ {SlowReaders, ThreadFails} \subseteq BOOLEAN
    /\ \A l \in LogLine : l.t \div Second >= TooFarBack

VARIABLES
    buf,       \* mLogElements and the iterators into it
    chatty,    \* lastLoggedElements and droppedElements
    logged,    \* the lines so far: no two of them have the same time
    now,       \* the clock
    writer,    \* the writer: its position, log id, lines to insert and clients to notify
    clearing,  \* the control thread: its position, log id, uid and tries left
    clears,    \* how often it cleared
    sock,      \* of each client's socket: is there an unread request, is it closed
    mClients,  \* SocketListener::mClients
    refs,      \* SocketClient::mRefCount
    pending,   \* the pendingList of the listener
    mTimes,    \* the list of entries, by client
    entry,     \* the LogTimeEntry of each client
    thread     \* its thread: position, start, iterator, what the line there stood for
               \* when it came to it, and the lines it has sent

bufferVars == <<buf, chatty, logged, now>>
readerVars == <<mTimes, entry, thread>>
socketVars == <<sock, mClients, refs, pending>>
vars == <<bufferVars, writer, clearing, clears, socketVars, readerVars>>

NoClient == "nobody"
NoEntry == [st |-> "none", ref |-> 0, running |-> FALSE]
NoThread == [pc |-> "none", sent |-> <<>>]
Idle == [pc |-> "idle", id |-> "", todo |-> <<>>, snap |-> {}]
NoClear == [pc |-> "idle", id |-> "", uid |-> Root, retry |-> 0]

Init ==
    /\ buf = EmptyBuffer
    /\ chatty = [id \in LogId |-> NoChatty]
    /\ logged = {} /\ now = EPOCH
    /\ writer = Idle /\ clearing = NoClear /\ clears = 0
    /\ sock = [c \in Client |-> [request |-> FALSE, closed |-> FALSE]]
    /\ mClients = {} /\ refs = [c \in Client |-> 0] /\ pending = {}
    /\ mTimes = <<>>
    /\ entry = [c \in Client |-> NoEntry]
    /\ thread = [c \in Client |-> NoThread]

\* The write lock of the list is free
Unlocked == writer.pc \notin {"insert", "prune"}

-----------------------------------------------------------------------------
(* LogTimeEntry, under timesLock                                            *)

owned(en) == en.ref # 0
isError(en) == en.release \/ en.error
isWatching(en, id) == id \in en.mask
runningReader(en) == en.running \/ isError(en) \/ en.nonBlock

\* pthread_cond_signal: whoever waits wakes up
Waiting == {"wait", "timedwait"}
triggerReader(th) ==
    IF th.pc \notin Waiting THEN th
    ELSE [th EXCEPT !.pc = IF @ = "wait" THEN "woken" ELSE "triggered"]

\* Mutant: A thread that has not yet given up its reference is forgotten
MutRelease(en) == [en EXCEPT !.release = TRUE, !.st = "deleted"]

\* What release_Locked() leaves of an entry, apart from the signal
release(en) ==
    [en EXCEPT !.release = TRUE, !.st = IF owned(en) \/ en.running THEN @ ELSE "deleted"]

decRef(en) ==
    LET ref == IF owned(en) THEN en.ref - 1 ELSE 0
    IN [en EXCEPT !.ref = ref,
                  !.st = IF ref # 0 \/ ~en.release \/ en.running THEN @ ELSE "deleted"]

NoSkip == [id \in LogId |-> 0]

\* new LogTimeEntry(...).  end is only relevant to a client that does not wait for more
NewEntry(r, end) ==
    [st |-> "live", ref |-> 1, release |-> FALSE, error |-> FALSE, running |-> TRUE,
     leading |-> FALSE, mask |-> r.mask, skip |-> NoSkip, count |-> 0, index |-> 0,
     tail |-> r.tail, start |-> r.start, timeout |-> r.timeout, nonBlock |-> r.nonBlock,
     end |-> end, pids |-> r.pids, asked |-> r.tail, from |-> r.start,
     told |-> FALSE, had |-> IF r.nonBlock THEN Numbers(buf.list) ELSE {}]

\* A thread at the beginning of threadStart
Started(th) == [th EXCEPT !.pc = "start"]

\* Mutant: Only readers that are waiting for more are looked at
MutOldest(id) ==
    LET behind(o, c) ==
          IF /\ owned(entry[c]) /\ isWatching(entry[c], id) /\ thread[c].pc = "wait"
             /\ (o = NoClient \/ entry[o].start > entry[c].start)
          THEN c ELSE o
    IN FoldLeft(behind, NoClient, mTimes)

\* The reader that holds back prune(): the one that is furthest behind
Oldest(id) ==
    LET behind(o, c) ==
          IF /\ owned(entry[c]) /\ isWatching(entry[c], id)
             /\ \/ o = NoClient
                \/ entry[o].start > entry[c].start
                \/ entry[o].start = entry[c].start /\ entry[c].timeout
          THEN c ELSE o
    IN FoldLeft(behind, NoClient, mTimes)

Region(id) ==
    LET o == Oldest(id)
    IN IF o = NoClient THEN [is |-> FALSE, t |-> EPOCH]
       ELSE [is |-> TRUE, t |-> Minus(entry[o].start, pruneMargin)]

\* kickMe(oldest, id, rows): drop, wake or skip the reader that is in the way
KickMe(list, id, rows) ==
    LET o == Oldest(id)
        kill == SizeOf(OfId(list, id)) > 2 * MaxSize
    IN IF rows = 0 THEN UNCHANGED <<entry, thread>>
       ELSE /\ entry' = [entry EXCEPT ![o] =
                  IF kill THEN release(@)
                  ELSE IF @.timeout THEN @
                  ELSE [@ EXCEPT !.skip[id] = rows, !.told = TRUE]]
            /\ thread' = IF kill \/ entry[o].timeout
                         THEN [thread EXCEPT ![o] = triggerReader(@)] ELSE thread

\* What may come of prune(): any source may be the worst of equals, anything may be in freed
\* memory
Pruned(id, rows, uid) ==
    LET there == Present(buf.list, id)
        ties == IF there = {} THEN {NoSource} ELSE there
        freed == IF there \intersect Naughty = {} THEN {0} ELSE {0, MsgLen}
    IN {prune(buf, id, rows, uid, r, tie, f) : tie \in ties, f \in freed, r \in {Region(id)}}

Leave(x, id) == buf' = x.b /\ KickMe(x.b.list, id, x.kick)

-----------------------------------------------------------------------------
(* The writer: LogListener::onDataAvailable                                 *)

\* log(): under the write lock, decide what goes into the list
Log(l) ==
    /\ writer.pc = "idle" /\ Cardinality(logged) < MaxLog
    /\ \A k \in logged : k.t # l.t
    /\ LET elem == [n |-> Cardinality(logged) + 1, t |-> l.t, id |-> l.id, src |-> l.src,
                    msg |-> l.msg, drop |-> 0]
           squashed == Squash(chatty[l.id], elem)
       IN /\ chatty' = [chatty EXCEPT ![l.id] = squashed.chatty]
          /\ writer' = [writer EXCEPT !.id = l.id, !.todo = squashed.lines,
                                      !.pc = IF squashed.lines = <<>> THEN "notify" ELSE "insert"]
    /\ logged' = logged \union {l}
    /\ now' = Max({now, l.t})
    /\ UNCHANGED <<buf, clearing, clears, socketVars, readerVars>>

\* log(elem): sort it in.  The readers are looked at under timesLock
InsertLine ==
    /\ writer.pc = "insert"
    /\ buf' = [buf EXCEPT !.list =
                 Insert(@, Head(writer.todo), {entry[c] : c \in {d \in ToSet(mTimes) : owned(entry[d])}})]
    /\ writer' = [writer EXCEPT !.pc = "prune"]
    /\ UNCHANGED <<chatty, logged, now, clearing, clears, socketVars, readerVars>>

\* maybePrune(): then the next line, or the lock is released
MaybePrune ==
    /\ writer.pc = "prune"
    /\ IF SizeOf(OfId(buf.list, writer.id)) > MaxSize
       THEN \E rows \in {PruneRows(buf.list, writer.id)} :
               \E x \in Pruned(writer.id, rows, Root) : Leave(x, writer.id)
       ELSE UNCHANGED <<buf, entry, thread>>
    /\ writer' = [writer EXCEPT !.todo = Tail(@),
                                !.pc = IF Len(writer.todo) = 1 THEN "notify" ELSE "insert"]
    /\ UNCHANGED <<chatty, logged, now, clearing, clears, socketVars, mTimes>>

Refs(cs, d) == [c \in Client |-> IF c \in cs THEN refs[c] + d ELSE refs[c]]

\* notifyNewLog: runOnEachSocket takes a reference to each client
Notify ==
    /\ writer.pc = "notify"
    /\ refs' = Refs(mClients, 1)
    /\ writer' = IF mClients = {} THEN Idle ELSE [writer EXCEPT !.pc = "notifying", !.snap = mClients]
    /\ UNCHANGED <<bufferVars, clearing, clears, sock, mClients, pending, readerVars>>

\* startReader_Locked, with a reference to the client; it may fail to make a thread
StartReader(c, en, taken) ==
    \/ /\ entry' = [entry EXCEPT ![c] = [en EXCEPT !.running = TRUE]]
       /\ thread' = [thread EXCEPT ![c] = Started(@)]
       /\ refs' = Refs({c}, 1 - taken)
    \/ /\ ThreadFails
       /\ entry' = [entry EXCEPT ![c] = decRef([en EXCEPT !.running = FALSE])]
       /\ refs' = Refs({c}, -taken)
       /\ UNCHANGED thread

\* runSocketCommand(c) of a notification, which then gives back its reference.  It starts
\* the thread of an entry that has none.  A reader with a timeout is left alone, unless the
\* clock was set
RunNotify(c) ==
    LET en == entry[c]
        found == c \in ToSet(mTimes) /\ isWatching(en, writer.id)
    IN /\ writer.pc = "notifying" /\ c \in writer.snap
       /\ writer' = IF writer.snap = {c} THEN Idle ELSE [writer EXCEPT !.snap = @ \ {c}]
       /\ \/ /\ found => en.timeout
             /\ refs' = Refs({c}, -1)
             /\ UNCHANGED <<entry, thread>>
          \/ /\ found /\ runningReader(en)
             /\ thread' = [thread EXCEPT ![c] = triggerReader(@)]
             /\ refs' = Refs({c}, -1)
             /\ UNCHANGED entry
          \/ /\ found /\ ~runningReader(en)
             /\ StartReader(c, [en EXCEPT !.ref = @ + 1], 1)
       /\ UNCHANGED <<bufferVars, clearing, clears, sock, mClients, pending, mTimes>>

-----------------------------------------------------------------------------
(* The listener: SocketListener::runListener, LogReader::onDataAvailable    *)

\* A client connects and sends its request; the listener accepts it
Accept(c) ==
    /\ pending = {} /\ c \notin mClients /\ refs[c] = 0 /\ ~sock[c].closed /\ entry[c] = NoEntry
    /\ sock' = [sock EXCEPT ![c].request = TRUE]
    /\ mClients' = mClients \union {c}
    /\ refs' = [refs EXCEPT ![c] = 1]
    /\ UNCHANGED <<bufferVars, writer, clearing, clears, pending, readerVars>>

Hangup(c) ==
    /\ refs[c] > 0 /\ ~sock[c].closed
    /\ sock' = [sock EXCEPT ![c].closed = TRUE]
    /\ UNCHANGED <<bufferVars, writer, clearing, clears, mClients, refs, pending, readerVars>>

Select ==
    LET readable == {c \in mClients : sock[c].request \/ sock[c].closed}
    IN /\ pending = {} /\ readable # {}
       /\ pending' = readable
       /\ refs' = Refs(readable, 1)
       /\ UNCHANGED <<bufferVars, writer, clearing, clears, sock, mClients, readerVars>>

\* The request is read: runSocketCommand(c) makes an entry and a thread.  The clock may
\* have run on since the last line
ReadRequest(c) ==
    /\ c \in pending /\ sock[c].request
    /\ sock' = [sock EXCEPT ![c].request = FALSE]
    /\ pending' = pending \ {c}
    /\ \E r \in Request, end \in {EPOCH} \union {l.t + 1 : l \in LogLine} :
          /\ IF r.nonBlock THEN end >= now /\ now' = end ELSE end = EPOCH /\ now' = now
          /\ StartReader(c, NewEntry(r, end), 1)
    /\ mTimes' = <<c>> \o mTimes
    /\ UNCHANGED <<buf, chatty, logged, writer, clearing, clears, mClients>>

Without(times, c) == SelectSeq(times, LAMBDA d : d # c)

\* Mutant: The thread of the client is left to wait
MutReadEof(c) ==
    /\ c \in pending /\ ~sock[c].request /\ sock[c].closed
    /\ pending' = pending \ {c}
    /\ mTimes' = Without(mTimes, c)
    /\ entry' = IF c \in ToSet(mTimes) THEN [entry EXCEPT ![c] = release(@)] ELSE entry
    /\ mClients' = mClients \ {c}
    /\ refs' = Refs({c}, IF c \in mClients THEN -2 ELSE -1)
    /\ UNCHANGED <<bufferVars, writer, clearing, clears, sock, thread>>

\* The end of file is read: doSocketDelete, and SocketListener::release
ReadEof(c) ==
    /\ c \in pending /\ ~sock[c].request /\ sock[c].closed
    /\ pending' = pending \ {c}
    /\ IF c \in ToSet(mTimes)
       THEN /\ mTimes' = Without(mTimes, c)
            /\ entry' = [entry EXCEPT ![c] = release(@)]
            /\ thread' = [thread EXCEPT ![c] = triggerReader(@)]
       ELSE UNCHANGED readerVars
    /\ mClients' = mClients \ {c}
    /\ refs' = Refs({c}, IF c \in mClients THEN -2 ELSE -1)
    /\ UNCHANGED <<bufferVars, writer, clearing, clears, sock>>

-----------------------------------------------------------------------------
(* The thread of a reader: LogTimeEntry::threadStart                        *)

Wanted(en, e) == isWatching(en, e.id) /\ e.src \in en.pids

\* FilterFirstPass of one line: the entry after it
FilterFirstPass(en, e) ==
    IF en.leading /\ e.drop > 0 THEN en
    ELSE [en EXCEPT !.leading = FALSE,
                    !.start = IF en.count = 0 THEN e.t ELSE @,
                    !.count = IF Wanted(en, e) THEN @ + 1 ELSE @]

\* FilterSecondPass of one line: the entry after it and whether the line is sent
FilterSecondPass(en, e) ==
    LET seen == [en EXCEPT !.start = e.t]
        past == [seen EXCEPT !.leading = FALSE]
        counted == [past EXCEPT !.index = @ + 1]
        verdict(x, v) == [en |-> x, verdict |-> v]
    IN IF en.skip[e.id] > 0 THEN verdict([seen EXCEPT !.skip[e.id] = @ - 1], "skip")
       ELSE IF en.leading /\ e.drop > 0 THEN verdict(seen, "skip")
       ELSE IF en.nonBlock /\ en.tail > 0 /\ en.index >= en.count THEN verdict(past, "stop")
       ELSE IF ~Wanted(en, e) THEN verdict(past, "skip")
       ELSE IF isError(en) THEN verdict(past, "stop")
       ELSE IF en.tail = 0 THEN verdict(past, "send")
       ELSE IF counted.index + en.tail =< en.count THEN verdict(counted, "skip")
       ELSE verdict([counted EXCEPT !.tail = IF en.nonBlock THEN @ ELSE 0], "send")

\* flushTo() goes on from index i to the next line that is sent
RECURSIVE Advance(_, _, _)
Advance(en, list, i) ==
    IF i > Len(list) THEN [en |-> en, at |-> End, drop |-> 0]
    ELSE Only({CASE f.verdict = "send" -> [en |-> f.en, at |-> list[i].n, drop |-> list[i].drop]
                 [] f.verdict = "stop" -> [en |-> f.en, at |-> End, drop |-> 0]
                 [] f.verdict = "skip" -> Advance(f.en, list, i + 1) :
                 f \in {FilterSecondPass(en, list[i])}})

\* The loop goes on, or the thread ends
LoopTop(en) ==
    IF ~en.running \/ isError(en) THEN "stop" ELSE IF en.timeout THEN "timedwait" ELSE "flush"

ThreadStep(c, en, th) ==
    /\ entry' = [entry EXCEPT ![c] = en]
    /\ thread' = [thread EXCEPT ![c] = th]
    /\ UNCHANGED <<bufferVars, writer, clearing, clears, socketVars, mTimes>>

ThreadStart(c) ==
    LET en == [entry[c] EXCEPT !.leading = TRUE]
    IN /\ thread[c].pc = "start"
       /\ ThreadStep(c, en, [pc |-> LoopTop(en), start |-> en.start, at |-> End, drop |-> 0,
                             sent |-> thread[c].sent])

\* pthread_cond_timedwait times out
TimesOut(c) ==
    /\ thread[c].pc = "timedwait"
    /\ ThreadStep(c, [entry[c] EXCEPT !.timeout = FALSE], [thread[c] EXCEPT !.pc = "triggered"])

\* The thread wakes up, from either wait
Wakes(c) ==
    /\ thread[c].pc \in {"woken", "triggered"}
    /\ ThreadStep(c, entry[c], [thread[c] EXCEPT !.pc =
          IF @ = "woken" THEN LoopTop(entry[c])
          ELSE IF isError(entry[c]) THEN "stop" ELSE "flush"])

\* A client that wants the last lines only: count them first
FirstPass(c) ==
    LET lines == SubSeq(buf.list, FlushStart(buf.list, thread[c].start), Len(buf.list))
    IN /\ thread[c].pc = "flush" /\ entry[c].tail > 0 /\ Unlocked
       /\ \E en \in {FoldLeft(FilterFirstPass, entry[c], lines)} :
             ThreadStep(c, [en EXCEPT !.leading = TRUE], [thread[c] EXCEPT !.pc = "second"])

\* The thread with the entry and iterator that Advance() found, having sent lines
To(th, a, sent, start) ==
    [th EXCEPT !.pc = IF a.at = End THEN "flushed" ELSE "sending",
               !.at = a.at, !.drop = a.drop, !.sent = sent, !.start = start]

SecondPass(c) ==
    LET th == thread[c]
    IN /\ \/ th.pc = "second"
          \/ th.pc = "flush" /\ entry[c].tail = 0
       /\ Unlocked
       /\ \E a \in {Advance(entry[c], buf.list, FlushStart(buf.list, th.start))} :
             ThreadStep(c, a.en, To(th, a, th.sent, th.start))

\* The line is sent without the lock; then the lock is taken and the iterator advanced
Send(c) ==
    LET th == thread[c]
        e == Line(buf.list, th.at)
    IN /\ th.pc = "sending" /\ ~sock[c].closed /\ Unlocked
       /\ th.at \in Numbers(buf.list)
       /\ \E a \in {Advance(entry[c], buf.list, IndexOf(buf.list, th.at) + 1)} :
             ThreadStep(c, a.en, To(th, a, Append(th.sent, th.at), e.t))

\* FLUSH_ERROR: the client has hung up, or does not read for too long
SendFails(c) ==
    /\ thread[c].pc = "sending" /\ (sock[c].closed \/ SlowReaders)
    /\ ThreadStep(c, [entry[c] EXCEPT !.error = TRUE], [thread[c] EXCEPT !.pc = "stop", !.at = End, !.drop = 0])

\* All is sent: wait for more, unless a timeout does that, or end
Flushed(c) ==
    LET en == [entry[c] EXCEPT !.start = thread[c].start + 1]
        ends == en.nonBlock \/ isError(en)
    IN /\ thread[c].pc = "flushed"
       /\ ThreadStep(c, IF ends THEN en ELSE [en EXCEPT !.skip = NoSkip],
                     [thread[c] EXCEPT !.pc =
                        IF ends THEN "stop" ELSE IF en.timeout THEN LoopTop(en) ELSE "wait"])

\* threadStop(): after an error or a dump the entry leaves mTimes and the client mClients
ThreadStop(c) ==
    LET en == [entry[c] EXCEPT !.error = @ \/ entry[c].nonBlock]
        listed == isError(en) /\ c \in ToSet(mTimes)
        kept == isError(en) /\ c \in mClients
    IN /\ thread[c].pc = "stop"
       /\ mTimes' = IF listed THEN Without(mTimes, c) ELSE mTimes
       /\ entry' = [entry EXCEPT ![c] =
                      decRef([en EXCEPT !.release = @ \/ listed, !.running = FALSE])]
       /\ thread' = [thread EXCEPT ![c].pc = "none"]
       /\ mClients' = IF kept THEN mClients \ {c} ELSE mClients
       /\ refs' = Refs({c}, IF kept THEN -2 ELSE -1)
       /\ UNCHANGED <<bufferVars, writer, clearing, clears, sock, pending>>

-----------------------------------------------------------------------------
(* The control thread: LogBuffer::clear                                     *)

Clear(id, uid) ==
    /\ clearing.pc = "idle" /\ clears < MaxClear
    /\ clears' = clears + 1
    /\ clearing' = [pc |-> "clear", id |-> id, uid |-> uid, retry |-> ClearTries]
    /\ UNCHANGED <<bufferVars, writer, socketVars, readerVars>>

\* A try; in between it sleeps.  Before the last try it looks if a reader is in the way
TryClear ==
    /\ clearing.pc = "clear" /\ Unlocked
    /\ \E x \in Pruned(clearing.id, All, clearing.uid) :
          /\ Leave(x, clearing.id)
          /\ clearing' = IF ~x.busy \/ clearing.retry = 1 THEN NoClear
                         ELSE [clearing EXCEPT !.retry = @ - 1,
                                               !.pc = IF clearing.retry = 2 THEN "last" ELSE @]
    /\ UNCHANGED <<chatty, logged, now, writer, clears, socketVars, mTimes>>

LastTry ==
    /\ clearing.pc = "last" /\ Unlocked
    /\ \E x \in Pruned(clearing.id, 1, clearing.uid) :
          /\ Leave(x, clearing.id)
          /\ clearing' = [clearing EXCEPT !.pc = IF x.busy THEN "kill" ELSE "clear"]
    /\ UNCHANGED <<chatty, logged, now, writer, clears, socketVars, mTimes>>

\* The readers that are in the way are let go, all of them
KillReaders ==
    LET killed == {c \in ToSet(mTimes) : owned(entry[c]) /\ isWatching(entry[c], clearing.id)}
    IN /\ clearing.pc = "kill"
       /\ entry' = [c \in Client |-> IF c \in killed THEN release(entry[c]) ELSE entry[c]]
       /\ thread' = [c \in Client |-> IF c \in killed THEN triggerReader(thread[c]) ELSE thread[c]]
       /\ clearing' = [clearing EXCEPT !.pc = "clear"]
       /\ UNCHANGED <<bufferVars, writer, clears, socketVars, mTimes>>

-----------------------------------------------------------------------------
Write == InsertLine \/ MaybePrune \/ Notify \/ \E c \in Client : RunNotify(c)
Listen == Select \/ \E c \in Client : ReadRequest(c) \/ ReadEof(c)
Read(c) ==
    \/ ThreadStart(c) \/ Wakes(c) \/ FirstPass(c) \/ SecondPass(c)
    \/ Send(c) \/ SendFails(c) \/ Flushed(c) \/ ThreadStop(c)
Control == TryClear \/ LastTry \/ KillReaders

Next ==
    \/ \E l \in LogLine : Log(l)
    \/ Write \/ Listen \/ Control
    \/ \E c \in Client : Accept(c) \/ Hangup(c) \/ Read(c) \/ TimesOut(c)
    \/ \E id \in LogId, uid \in Source \union {Root} : Clear(id, uid)

\* The threads run on; clients, the clock and whoever logs or clears need not
Fairness ==
    /\ WF_vars(Write) /\ WF_vars(Listen) /\ WF_vars(Control)
    /\ \A c \in Client : WF_vars(Read(c))

Spec == Init /\ [][Next]_vars
FairSpec == Spec /\ Fairness

-----------------------------------------------------------------------------
Running(c) == thread[c].pc # "none"

\* A LogTimeEntry in mTimes is not deleted and its client is one of the listener's, so that
\* notifications and hang-ups find it by its client; what a thread, the listener and the
\* notifier hold is not deleted (LogTimes.h:97, FlushCommand.cpp:38, SocketListener.cpp:231)
StillThere ==
    /\ \A c \in ToSet(mTimes) : entry[c].st = "live" /\ c \in mClients
    /\ \A c \in Client : Running(c) => entry[c].st = "live" /\ owned(entry[c])
    /\ \A c \in mClients \union pending \union writer.snap : refs[c] > 0
    /\ \A c \in Client : Running(c) => refs[c] > 0

\* While a line is sent without the lock, it stays in the list and stays what it was, neither
\* made chatty nor joined with others, as long as the entry of the reader is in mTimes
\* (LogBuffer.cpp:1192)
RegionIsLocked ==
    \A c \in ToSet(mTimes) :
        thread[c].pc = "sending" =>
            /\ thread[c].at \in Numbers(buf.list)
            /\ Line(buf.list, thread[c].at).t = entry[c].start
            /\ Line(buf.list, thread[c].at).drop = thread[c].drop

FromHere(th) == IF th.sent = <<>> THEN 0 ELSE IndexOf(buf.list, Last(th.sent))
Late(th, j, i) ==
    \E k \in j..i :
        th.sent # <<>> /\ buf.list[k].t < Minus(Line(buf.list, Last(th.sent)).t, pruneMargin)
Passed(c, j, i) ==
    LET e == buf.list[j]
    IN \/ ~Wanted(entry[c], e) \/ Late(thread[c], j, i)
       \/ thread[c].sent = <<>> /\ e.drop > 0
       \/ entry[c].nonBlock /\ e.n \notin entry[c].had
AllOfThem(c) == entry[c].asked = 0 /\ entry[c].from = EPOCH /\ ~entry[c].told

\* Lines are sent once and in the order of the list, and none is passed over: except chatty
\* ones at the beginning, lines before one that came late by more than the margin, compared to
\* what was sent last, lines put in after a dump was asked for, and what a slow reader
\* was told to skip (LogBuffer.cpp:1112, LogTimes.cpp:218)
NoGaps ==
    \A c \in ToSet(mTimes) :
        LET th == thread[c]
        IN th.pc = "sending" =>
             /\ th.at \notin ToSet(th.sent)
             /\ th.sent # <<>> /\ {Last(th.sent), th.at} \subseteq Numbers(buf.list) =>
                  IndexOf(buf.list, Last(th.sent)) < IndexOf(buf.list, th.at)
             /\ AllOfThem(c) /\ ToSet(th.sent) \subseteq Numbers(buf.list) =>
                  LET i == IndexOf(buf.list, th.at) - 1
                  IN \A j \in (FromHere(th) + 1)..i : Passed(c, j, i)

Sum(lines) == FoldLeft(LAMBDA s, e : s + Weight(e), 0, lines)
Held(ch) == IF ch.dropped = NoLine THEN 0 ELSE 1 + ch.dropped.drop
InHand == IF writer.pc = "prune" THEN Tail(writer.todo) ELSE writer.todo

\* Every line is in the list, stands in a chatty line of the list or in one that is being put
\* together, or was expired or cleared: squashing lines loses none of them
\* (LogBuffer.cpp:237-383, LogBuffer.cpp:585)
Accounted ==
    \A id \in LogId :
        Cardinality({l \in logged : l.id = id})
          = Sum(SelectSeq(buf.list \o InHand, LAMBDA e : e.id = id))
              + buf.expired[id] + Held(chatty[id])

\* A line that a reader is still to get: it was not sent or passed over, nor told to be skipped
Missing(c, n) ==
    /\ Running(c) /\ AllOfThem(c)
    /\ n \in Numbers(buf.list) \ ToSet(thread[c].sent)
    /\ ToSet(thread[c].sent) \subseteq Numbers(buf.list)
    /\ IndexOf(buf.list, n) > FromHere(thread[c])
    /\ ~Passed(c, IndexOf(buf.list, n), Len(buf.list))

ToTheEnd(c) == thread[c].pc # "flushed" /\ thread'[c].pc = "flushed" /\ ~isError(entry[c])

\* A reader that was woken comes to the end of the list, or it ends; and a reader that comes to
\* the end of the list has sent or passed over all that is there (LogTimes.cpp:140-180)
WokenReads ==
    /\ [][\A c \in Client : ToTheEnd(c) => \A n \in 1..MaxLog : ~Missing(c, n)']_vars
    /\ \A c \in Client : thread[c].pc = "woken" ~> (thread[c].pc = "flushed" \/ ~Running(c))

\* When a client has hung up, its thread ends, and its entry and its socket are deleted
\* (LogReader.cpp:213, LogTimes.cpp:77)
HangupEnds ==
    \A c \in Client :
        sock[c].closed ~> (~Running(c) /\ entry[c].st # "live" /\ refs[c] = 0 /\ c \notin mClients)
=============================================================================
