----------------------------- MODULE LogBuffer -----------------------------
(***************************************************************************)
(* The list of log lines of logd (logd/LogBuffer.cpp) and what is done to  *)
(* it under its lock: lines are squashed, sorted in, expired and searched. *)
(*                                                                         *)
(* A line is a record: its number n in the order of the calls of log(),    *)
(* its time t, log id, source (uid, pid and tid in one; the tag for binary *)
(* logs), message and, if it is a chatty line, how many lines it stands    *)
(* for.  Iterators into the list are the numbers of lines, End is end().   *)
(* Times are natural numbers, a second is Second of them and one is the    *)
(* nanosecond of the code.  Every message has MsgLen characters.           *)
(***************************************************************************)
EXTENDS Integers, Sequences, FiniteSets, FiniteSetsExt, SequencesExt

CONSTANTS
    LogId,          \* log buffers; none of them is the kernel's or the security one
    Source,         \* who writes lines
    MsgLen,         \* getMsgLen() of a line
    MaxSize,        \* log_buffer_size(id)
    MinPrune,       \* minPrune
    MaxPrune,       \* maxPrune
    Second,         \* a second of a log_time
    MaxDropped,     \* USHRT_MAX
    LookBack,       \* lines flushTo() looks back for out-of-order lines
    Naughty,        \* sources on the blacklist of mPrune
    Nice,           \* sources on the whitelist of mPrune
    WorstUid        \* log ids whose worst source is pruned first

ASSUME BufferAssumption ==
    /\ {MsgLen, MaxSize, MinPrune, MaxPrune, Second, MaxDropped, LookBack} \subseteq Nat \ {0}
    /\ Naughty \subseteq Source /\ Nice \subseteq Source /\ WorstUid \subseteq LogId

EPOCH == 0
End == 0
All == 1000000                     \* ULONG_MAX: clear all rows
pruneMargin == 3 * Second
TooFarBack == 5                    \* seconds
ExpireRateLimit == 10 * Second
ExpireThreshold == 10
TooOld == 24 * 60 * 60 * Second
Minute == 60 * Second

\* The element of a set of one.  A loop hands its state on as Only({Loop(y) : y \in {step}}),
\* which lets TLC evaluate the step once
Only(S) == CHOOSE x \in S : TRUE

\* operator-= of log_time knows no negative times
Minus(a, b) == IF a =< b THEN EPOCH ELSE a - b

\* Iterators
Begin(list) == IF list = <<>> THEN End ELSE list[1].n
Numbers(list) == {list[i].n : i \in DOMAIN list}
IndexOf(list, n) == Only({CHOOSE i \in DOMAIN l : l[i].n = n : l \in {list}})
Line(list, n) == list[IndexOf(list, n)]
Next1(list, n) == IF n = list[Len(list)].n THEN End ELSE list[IndexOf(list, n) + 1].n

-----------------------------------------------------------------------------
(* Statistics: functions of what is in the list                             *)

Where(list, id, src) == {e \in ToSet(list) : e.id = id /\ e.src = src}
Real(es) == {e \in es : e.drop = 0}
OfId(list, id) == {e \in ToSet(list) : e.id = id}
SizeOf(es) == MsgLen * Cardinality(Real(es))
DroppedOf(es) == MapThenSumSet(LAMBDA e : e.drop, es)

\* findWorst: of sources of the same size, tie comes first.  NoSource: there is none
NoSource == "none"
Present(list, id) == {s \in Source : Where(list, id, s) # {}}
Worst(list, id, tie) ==
    LET size == [s \in Present(list, id) |-> SizeOf(Where(list, id, s))]
        tops(z) == {s \in DOMAIN z : \A o \in DOMAIN z : z[o] =< z[s]}
        first(z) == IF tie \in tops(z) THEN tie ELSE CHOOSE s \in tops(z) : TRUE
        sorted(z, top) ==
          IF id \in WorstUid /\ Cardinality(DOMAIN z) > 1
               /\ z[top] > MaxSize \div 8
               /\ z[top] > 10 * DroppedOf(Where(list, id, top))
          THEN [key |-> top, size |-> z[top],
                second |-> Max({MaxSize \div 8} \union {z[s] : s \in DOMAIN z \ {top}})]
          ELSE [key |-> NoSource, size |-> 0, second |-> 0]
    IN Only({sorted(z, first(z)) : z \in {size}})

-----------------------------------------------------------------------------
(* Identical lines: lastLoggedElements and droppedElements of a log id      *)

NoLine == [n |-> End]
NoChatty == [last |-> NoLine, dropped |-> NoLine]

identical(elem, last) ==
    /\ elem.src = last.src
    /\ elem.t =< last.t + Minute
    /\ elem.msg = last.msg

\* The count of the lines that the next chatty line stands for, one more than count
Again(count) == IF count = MaxDropped THEN 1 ELSE count + 1

\* Mutant: the last line of the series is not reported.
MutSquash(chatty, elem) ==
    LET last == chatty.last
        dropped == chatty.dropped
        count == IF dropped = NoLine THEN 0 ELSE dropped.drop
    IN CASE last = NoLine ->
              [chatty |-> [last |-> elem, dropped |-> NoLine], lines |-> <<elem>>]
         [] last # NoLine /\ identical(elem, last) /\ dropped = NoLine ->
              [chatty |-> [last |-> elem, dropped |-> last], lines |-> <<>>]
         [] last # NoLine /\ identical(elem, last) /\ dropped # NoLine ->
              [chatty |-> [last |-> elem, dropped |-> [last EXCEPT !.drop = Again(count)]],
               lines |-> IF count = MaxDropped THEN <<dropped>> ELSE <<>>]
         [] OTHER ->
              [chatty |-> [last |-> elem, dropped |-> NoLine],
               lines |-> (IF count > 0 THEN <<dropped>> ELSE <<>>) \o <<elem>>]

\* What log() makes of a line: the new chatty state and the lines for the list
Squash(chatty, elem) ==
    LET last == chatty.last
        dropped == chatty.dropped
        count == IF dropped = NoLine THEN 0 ELSE dropped.drop
    IN CASE last = NoLine ->
              [chatty |-> [last |-> elem, dropped |-> NoLine], lines |-> <<elem>>]
         [] last # NoLine /\ identical(elem, last) /\ dropped = NoLine ->
              [chatty |-> [last |-> elem, dropped |-> last], lines |-> <<>>]
         [] last # NoLine /\ identical(elem, last) /\ dropped # NoLine ->
              [chatty |-> [last |-> elem, dropped |-> [last EXCEPT !.drop = Again(count)]],
               lines |-> IF count = MaxDropped THEN <<dropped>> ELSE <<>>]
         [] OTHER ->
              [chatty |-> [last |-> elem, dropped |-> NoLine],
               lines |-> (IF count > 0 THEN <<dropped>> ELSE <<>>)
                           \o (IF dropped # NoLine THEN <<last>> ELSE <<>>) \o <<elem>>]

-----------------------------------------------------------------------------
(* Insertion: readers is the set of the entries of mTimes that are owned    *)

\* Mutant: a reader that waits for more may be anywhere in the list.
MutAtEnd(list, elem, readers, end) ==
    LET k == Len(list)
    IN \/ k =< 1
       \/ list[k].t =< elem.t
       \/ list[k].t \div Second - TooFarBack > elem.t \div Second
       \/ end > list[k].t

\* end is that of the last dump
AtEnd(list, elem, readers, end) ==
    LET k == Len(list)
    IN \/ k =< 1
       \/ list[k].t =< elem.t
       \/ list[k].t \div Second - TooFarBack > elem.t \div Second
       \/ \E r \in readers : ~r.nonBlock
       \/ end > list[k].t

Insert(list, elem, readers) ==
    LET k == Len(list)
        above(q, end) == list[q].t > elem.t /\ end =< list[q].t
        before(end) == Min({p \in 1..k : \A q \in p..(k - 1) : above(q, end)})
    IN Only({IF AtEnd(list, elem, readers, end) THEN Append(list, elem) ELSE InsertAt(list, before(end), elem) :
               end \in {Max({EPOCH} \union {r.end : r \in readers})}})

-----------------------------------------------------------------------------
(* Erasing.  A buffer is its list and its iterators: last[id] is mLast[id], *)
(* End if it is not set, and worst[id][src] is mLastWorst[id][src].  How    *)
(* many lines went for good is kept in expired[id]                          *)

EmptyBuffer ==
    [list |-> <<>>,
     last |-> [id \in LogId |-> End],
     worst |-> [id \in LogId |-> [src \in Source |-> End]],
     expired |-> [id \in LogId |-> 0]]

\* How many lines a line stands for
Weight(e) == IF e.drop = 0 THEN 1 ELSE e.drop

erase(b, n, coalesce) ==
    LET e == Line(b.list, n)
        then == Next1(b.list, n)
    IN [list |-> SelectSeq(b.list, LAMBDA x : x.n # n),
        last |-> [id \in LogId |-> IF b.last[id] = n THEN then ELSE b.last[id]],
        worst |-> [b.worst EXCEPT ![e.id][e.src] = IF @ = n THEN End ELSE @],
        expired |-> [b.expired EXCEPT ![e.id] = IF coalesce THEN @ ELSE @ + Weight(e)]]

SetDropped(b, n, count) == [b EXCEPT !.list[IndexOf(b.list, n)].drop = count]

\* Where the loops of prune() start, and the watermark they leave
Start(b, id) == IF b.last[id] # End THEN b.last[id] ELSE Begin(b.list)
SetLast(b, id, n) ==
    IF b.last[id] = End \/ Line(b.list, b.last[id]).id # id THEN [b EXCEPT !.last[id] = n] ELSE b

isBusy(list, watermark) ==
    watermark < Minus(Minus(list[Len(list)].t, pruneMargin), Second)

\* Whether a loop has come to the region of the oldest reader.  region is [is, t]: if there
\* is a reader, and the watermark t, its mStart less the margin
RegionLocked(region, e) == region.is /\ region.t =< e.t

(***************************************************************************)
(* One round of the first loop of prune(), over the lines of the worst     *)
(* source and those on the blacklist.  w is the state of the round: the    *)
(* buffer b, the iterator at, the rows left, whether it is still among the *)
(* leading lines, the last chatty line of each source, whether it pruned   *)
(* anything (kick), the size of the worst source, whether a reader is in   *)
(* the way and whether the round is done.                                  *)
(***************************************************************************)
Coalesces(w, e, drop) ==
    w.chatty[e.src] # End /\ drop + Line(w.b.list, w.chatty[e.src]).drop =< MaxDropped

\* LogBufferElementLast::coalesce and the erasure of what it swallowed
Coalesce(w, e, drop) ==
    LET into == w.chatty[e.src]
        b == SetDropped(w.b, into, drop + Line(w.b.list, into).drop)
    IN [w EXCEPT !.b = erase(b, e.n, TRUE), !.at = Next1(b.list, e.n)]

\* LogBufferElementLast::clear(element)
Expire(w, e) ==
    [src \in Source |->
        IF /\ w.chatty[src] # End
           /\ Line(w.b.list, w.chatty[src]).drop >= ExpireThreshold
           /\ Minus(e.t, ExpireRateLimit) > Line(w.b.list, w.chatty[src]).t
        THEN End ELSE w.chatty[src]]

Erased(w, n) == [w EXCEPT !.b = erase(w.b, n, FALSE), !.at = Next1(w.b.list, n)]
Onwards(w) == [w EXCEPT !.at = Next1(w.b.list, w.at)]

\* A chatty line stays, and may become the watermark of its source
KeepChatty(w, e, id, mark) ==
    Onwards([w EXCEPT !.chatty[e.src] = e.n,
                      !.b.worst[id][e.src] = IF mark \/ @ = End THEN e.n ELSE @])

\* The size of the worst source after one line of it is gone
Less(w, second, len) ==
    IF w.size < second THEN [w EXCEPT !.done = TRUE] ELSE [w EXCEPT !.size = @ - len]

\* A line on the blacklist goes.  Its length is read after it was deleted: freed is what
\* is found there
Blacklisted(w, e, worst, freed) ==
    LET gone == Erased([w EXCEPT !.chatty = Expire(w, e)], e.n)
        fewer == [gone EXCEPT !.rows = @ - 1]
    IN IF e.drop > 0 THEN gone
       ELSE IF fewer.rows = 0 THEN [fewer EXCEPT !.done = TRUE]
       ELSE IF e.src # worst.key THEN fewer
       ELSE Less([fewer EXCEPT !.kick = TRUE], worst.second, freed)

\* A line of the worst source goes if it leads, and becomes or joins a chatty line if not
WorstLine(w, e, id, worst, gc) ==
    LET fewer == [w EXCEPT !.rows = @ - 1]
        kicked == [fewer EXCEPT !.kick = TRUE]
        dropped == [kicked EXCEPT !.b = SetDropped(w.b, e.n, 1)]
        gone == IF w.leading THEN Erased(kicked, e.n)
                ELSE IF Coalesces(w, e, 1) THEN Coalesce(dropped, e, 1)
                ELSE KeepChatty(dropped, e, id, ~gc)
    IN IF fewer.rows = 0 THEN [fewer EXCEPT !.done = TRUE]
       ELSE Less(gone, worst.second, MsgLen)

\* A line that no reader holds; a chatty one is joined to the one before it unless that is full
PruneLine(w, e, id, worst, gc, freed) ==
    LET newest == w.b.list[Len(w.b.list)].t
        alone == IF e.drop > 0 THEN [w EXCEPT !.chatty[e.src] = End] ELSE w
    IN IF w.leading /\ e.drop > 0 THEN Erased(w, e.n)
       ELSE IF e.drop > 0 /\ Coalesces(w, e, e.drop) THEN Coalesce(w, e, e.drop)
       ELSE IF e.src \in Naughty THEN Blacklisted(alone, e, worst, freed)
       ELSE IF e.t < Minus(newest, TooOld) \/ e.t > newest THEN [alone EXCEPT !.done = TRUE]
       ELSE IF e.drop > 0 THEN KeepChatty(alone, e, id, ~gc /\ e.src = worst.key)
       ELSE IF e.src # worst.key
         THEN Onwards([alone EXCEPT !.leading = FALSE, !.chatty = Expire(alone, e)])
       ELSE WorstLine(alone, e, id, worst, gc)

WorstStep(w, id, region, worst, gc, freed) ==
    LET marked(e) == IF w.leading THEN [w EXCEPT !.b = SetLast(w.b, id, e.n)] ELSE w
        at(e) == IF RegionLocked(region, e)
                   THEN [w EXCEPT !.busy = isBusy(w.b.list, region.t), !.done = TRUE]
                 ELSE IF e.id # id THEN Onwards(w)
                 ELSE Only({PruneLine(m, e, id, worst, gc, freed) : m \in {marked(e)}})
    IN Only({at(e) : e \in {Line(w.b.list, w.at)}})

RECURSIVE Round(_, _, _, _, _, _)
Round(w, id, region, worst, gc, freed) ==
    IF w.done \/ w.at = End THEN w
    ELSE Only({Round(v, id, region, worst, gc, freed) :
                 v \in {WorstStep(w, id, region, worst, gc, freed)}})

After(x, w) == [x EXCEPT !.b = w.b, !.rows = w.rows, !.busy = w.busy]

\* The first loop: rounds as long as the worst source has lines to give
RECURSIVE PruneWorst(_, _, _, _, _)
PruneWorst(x, id, region, tie, freed) ==
    LET gc == x.rows =< 1
        mark(worst) == IF gc \/ worst.key = NoSource THEN End ELSE x.b.worst[id][worst.key]
        first(worst, at) ==
          [b |-> x.b, rows |-> x.rows, busy |-> x.busy,
           at |-> IF at # End THEN at ELSE Start(x.b, id), leading |-> at = End,
           chatty |-> [src \in Source |-> End], kick |-> FALSE, size |-> worst.size, done |-> FALSE]
        round(worst) ==
          Only({Round(w, id, region, worst, gc, freed) : w \in {first(worst, mark(worst))}})
        then(y, w) == IF w.kick /\ WorstUid # {} THEN PruneWorst(y, id, region, tie, freed) ELSE y
    IN Only({IF x.rows = 0 \/ (worst.key = NoSource /\ Naughty = {}) THEN x
             ELSE Only({Only({then(y, w) : y \in {After(x, w)}}) : w \in {round(worst)}}) :
               worst \in {Worst(x.b.list, id, tie)}})

\* The second and third loop: the oldest lines go, in the second one not those on the
\* whitelist.  kick is the rows that are left when a reader is found to be in the way
StraightLine(x, e, region, spare) ==
    LET busy == isBusy(x.b.list, region.t)
        next == [x EXCEPT !.at = Next1(x.b.list, e.n)]
    IN IF RegionLocked(region, e)
         THEN [x EXCEPT !.at = End, !.busy = busy, !.kick = IF busy /\ ~x.white THEN x.rows ELSE @]
       ELSE IF spare /\ e.drop = 0 /\ e.src \in Nice THEN [next EXCEPT !.white = TRUE]
       ELSE [next EXCEPT !.b = erase(x.b, e.n, FALSE), !.rows = @ - 1]

StraightStep(x, id, region, spare) ==
    LET at(e) == IF e.id # id THEN [x EXCEPT !.at = Next1(x.b.list, e.n)]
                 ELSE Only({StraightLine([x EXCEPT !.b = b], e, region, spare) :
                              b \in {SetLast(x.b, id, e.n)}})
    IN Only({at(e) : e \in {Line(x.b.list, x.at)}})

RECURSIVE Straight(_, _, _, _)
Straight(x, id, region, spare) ==
    IF x.rows = 0 \/ x.at = End THEN x
    ELSE Only({Straight(y, id, region, spare) : y \in {StraightStep(x, id, region, spare)}})

\* The loop for a caller that is not root: as the third one, over the lines of uid only
RECURSIVE OfCaller(_, _, _, _)
OfCaller(x, id, region, uid) ==
    IF x.rows = 0 \/ x.at = End THEN x
    ELSE Only({OfCaller(y, id, region, uid) :
                 y \in {IF Line(x.b.list, x.at).src = uid THEN StraightStep(x, id, region, FALSE)
                         ELSE [x EXCEPT !.at = Next1(x.b.list, x.at)]}})

\* prune(id, rows, uid): Root is AID_ROOT
Root == "root"
Begins(x, id) == [x EXCEPT !.at = Start(x.b, id), !.white = FALSE]
prune(b, id, rows, uid, region, tie, freed) ==
    LET begin == [b |-> b, rows |-> rows, at |-> Start(b, id), busy |-> FALSE, white |-> FALSE,
                  kick |-> 0]
        first(y) == IF rows = All THEN y ELSE PruneWorst(y, id, region, tie, freed)
        second(y) == Straight(Begins(y, id), id, region, Nice # {} /\ rows # All)
        third(y) == IF y.white THEN Straight(Begins(y, id), id, region, FALSE) ELSE y
    IN IF uid # Root THEN OfCaller(begin, id, region, uid)
       ELSE Only({[y EXCEPT !.busy = @ /\ y.rows > 0] :
                    y \in {third(z) : z \in {second(v) : v \in {first(u) : u \in {begin}}}}})

\* The rows that maybePrune() asks for
PruneRows(list, id) ==
    LET sizes == SizeOf(OfId(list, id))
        elements == Cardinality(Real(OfId(list, id)))
        over == sizes - (MaxSize * 9) \div 10
    IN Min({MaxPrune, Max({(elements * over) \div sizes, elements \div 100, MinPrune})})

-----------------------------------------------------------------------------
(* flushTo() looks for the line to go on with, from the end backwards       *)

\* Mutant: The search does not go past lines that are out of order
MutFlushStart(list, start) ==
    IF start = EPOCH THEN 1
    ELSE Max({i \in DOMAIN list : list[i].t =< start} \union {0}) + 1

FlushStart(list, start) ==
    LET older(i) == list[i].t < start
        \* where the search ends, if it does: the last line that was sent, one that is too
        \* old, or the last of LookBack older ones
        stops == {i \in DOMAIN list :
                    \/ list[i].t = start
                    \/ list[i].t < Minus(start, pruneMargin)
                    \/ older(i) /\ Cardinality({j \in i..Len(list) : older(j)}) = LookBack}
        stop == Max(stops \union {0})
        newer == {i \in (stop + 1)..Len(list) : list[i].t > start}
    IN IF start = EPOCH THEN 1
       ELSE IF stop > 0 /\ list[stop].t = start THEN stop + 1
       ELSE Min(newer \union {Len(list) + 1})

=============================================================================
