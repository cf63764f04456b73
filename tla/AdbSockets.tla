----------------------------- MODULE AdbSockets -----------------------------
(***************************************************************************)
(* The sockets of adb (adb/sockets.cpp, adb/adb_listeners.cpp, adb/adb.cpp)*)
(* over the transports of module AdbTransport: streams between a client of *)
(* the adb server and a service of adbd, or the other way round.           *)
(*                                                                         *)
(* Handlers of the main thread (fdevent) are one action each.  A local     *)
(* socket serves a descriptor whose other end is a process; its peer is a  *)
(* smart socket, which reads what service the client wants, or the remote  *)
(* socket that stands for the other side's local one, which exists only as *)
(* a peer: peer is its identifier.                                         *)
(*                                                                         *)
(* A byte stream is a sequence of items, each with the stream it belongs   *)
(* to and its number.  A descriptor holds Capacity items that its process  *)
(* has not read, a packet MaxPayload.                                      *)
(***************************************************************************)
EXTENDS AdbTransport, FiniteSets, FiniteSetsExt, Integers

CONSTANTS
    Opener,     \* the sides that open streams
    Socket,     \* identifiers of local sockets: 1..n
    MaxItem,    \* how much is written to all streams together
    Capacity,   \* size of a descriptor's buffer
    MaxPayload  \* size of a packet

ASSUME SocketAssumption ==
    /\ Opener \subseteq Node /\ Socket \subseteq Nat \ {0} /\ MaxItem \in Nat
    /\ Capacity \in Nat \ {0} /\ MaxPayload \in Nat \ {0}

VARIABLES
    sock  \* each side's local sockets, with their descriptors and processes

socketVars == <<sock>>
vars == <<transportVars, sock>>

None == 0
Smart == -1

\* st: "free", "live" (local_socket_list), "closing" (local_socket_closing_list), "gone"
\* read: FDE_READ; queue: pkt_first
\* sent, taken: what the process has written and adb has read
\* out, got: what adb has written, and the process read
\* shut: the process writes no more; closed: it has closed the descriptor
\* okay: the process may write; of: the stream it was opened for
\* failed: a write failed; cut: closed because the transport went away
\* dropped: how much adb read when there was no peer yet to send it to
Free ==
    [st |-> "free", peer |-> None, transport |-> 0, read |-> FALSE,
     queue |-> <<>>, sent |-> 0, taken |-> 0, out |-> <<>>, got |-> <<>>, shut |-> FALSE,
     closed |-> FALSE, okay |-> FALSE, of |-> <<>>, failed |-> FALSE, cut |-> FALSE,
     dropped |-> 0]

Init ==
    /\ TransportInit
    /\ sock = [n \in Node |-> [i \in Socket |-> Free]]

\* Identifiers start again with the server
Stream(n, i) == <<n, IF n = "host" THEN restarts ELSE 0, i>>
Items(stream, from, to) == [k \in 1..(to - from) |-> [stream |-> stream, number |-> from + k]]
Written == Cardinality({<<n, i, k>> \in Node \X Socket \X (1..MaxItem) : k =< sock[n][i].sent})

Least(a, b) == IF a =< b THEN a ELSE b

\* local_socket_next_id
FreeIds(n) == {i \in Socket : \A j \in Socket : (sock[n][j].st = "free") <=> (i =< j)}

OPEN(i, stream) == Packet("OPEN", i, 0, stream)
OKAY(i, j) == Packet("OKAY", i, j, <<>>)
CLSE(i, j) == Packet("CLSE", i, j, <<>>)
WRTE(i, j, data) == Packet("WRTE", i, j, data)

-----------------------------------------------------------------------------
(* Local sockets: what a handler makes of a socket s                        *)

\* Mutant: a packet whose socket has packets waiting is written at once.
MutMustWait(s) == FALSE

MustWait(s) == s.queue # <<>>

\* adb_write of items until it would block; the rest stays in the queue
Write(s, items) ==
    LET k == Least(Len(items), Capacity - Len(s.out))
    IN [s EXCEPT !.out = @ \o SubSeq(items, 1, k), !.queue = SubSeq(items, k + 1, Len(items))]

\* Mutant: a socket that still has packets is destroyed.
MutDestroyed(s) == TRUE
\* local_socket_close: destroyed now, or when its packets are written
Destroyed(s) == s.st = "closing" \/ s.failed \/ s.queue = <<>>

\* local_socket_close, close_notify
Close(s) ==
    LET alone == [s EXCEPT !.peer = None, !.read = FALSE]
    IN IF Destroyed(s) THEN [alone EXCEPT !.st = "gone", !.transport = 0, !.queue = <<>>]
                       ELSE [alone EXCEPT !.st = "closing"]

\* remote_socket_shutdown
CloseSends(i, s) == IF s.peer \in Socket THEN <<CLSE(i, s.peer)>> ELSE <<>>

\* A handler's result: the socket and what it sends to the other side
Result(s, ps) == [sock |-> s, sends |-> ps]
Closing(i, s) == Result(Close(s), CloseSends(i, s))

\* local_socket_enqueue, and handle_packet's answer to the WRTE
Enqueue(i, s, items) ==
    IF MustWait(s) THEN Result([s EXCEPT !.queue = @ \o items], <<>>)
    ELSE IF s.closed THEN Closing(i, [s EXCEPT !.failed = TRUE])
    ELSE LET w == Write(s, items)
         IN Result(w, IF w.queue = <<>> THEN <<OKAY(i, s.peer)>> ELSE <<>>)

-----------------------------------------------------------------------------
(* local_socket_event_func                                                  *)

\* POLLRDHUP and POLLHUP are reported, as a read, whatever events are enabled
HungUp(s) == s.shut \/ s.closed
Events(s) ==
    (IF s.queue # <<>> /\ (s.closed \/ Len(s.out) < Capacity) THEN {"write"} ELSE {})
        \cup (IF HungUp(s) \/ (s.read /\ s.sent > s.taken) THEN {"read"} ELSE {})

\* Mutant: the peer is not told that the queue is written.
MutDrained(i, s) == <<>>
\* s->peer->ready: remote_socket_ready
Drained(i, s) == IF s.peer \in Socket THEN <<OKAY(i, s.peer)>> ELSE <<>>

\* FDE_WRITE: the socket is closed, has something left, or is drained
EventWrite(i, s) ==
    IF s.closed THEN Closing(i, [s EXCEPT !.failed = TRUE])
    ELSE LET w == Write(s, s.queue)
         IN CASE w.queue # <<>>     -> Result(w, <<>>)
              [] w.st = "closing"   -> Closing(i, w)
              [] OTHER              -> Result(w, Drained(i, w))

\* Mutant: FDE_READ stays on after a packet is sent.
MutStopReading(s) == s
\* The remote socket takes one packet: FDE_READ goes off until it is ready
StopReading(s) == [s EXCEPT !.read = FALSE]

\* get_max_payload.  A socket on the closing list keeps its transport, which may be
\* deleted by now: what is read from it then is anything
MaxPayloads(n, s) ==
    IF s.transport # 0 /\ state[n][s.transport] # "live" THEN 0..MaxPayload ELSE {MaxPayload}

\* FDE_READ: a packet for the peer, and the end of the file when it is seen
EventRead(n, i, s, payload) ==
    LET k == Least(s.sent - s.taken, payload)
        t == [s EXCEPT !.taken = @ + k, 
                           !.dropped = IF s.st = "live" /\ s.peer = None THEN @ + k ELSE @]
        u == IF k > 0 /\ s.peer \in Socket THEN StopReading(t) ELSE t
        ps == IF k > 0 /\ s.peer \in Socket
              THEN <<WRTE(i, s.peer, Items(Stream(n, i), s.taken, s.taken + k))>> ELSE <<>>
    IN IF HungUp(s) /\ k < payload
       THEN Result(Close(u), ps \o CloseSends(i, u))
       ELSE Result(u, ps)

\* The write is handled first; the handler goes on to the read when all is written
Event(n, i, s, ev, payload) ==
    IF "write" \notin ev THEN EventRead(n, i, s, payload)
    ELSE LET w == EventWrite(i, s)
         IN IF "read" \in ev /\ w.sock.st = "live" /\ w.sock.queue = <<>>
            THEN LET r == EventRead(n, i, w.sock, payload) IN Result(r.sock, w.sends \o r.sends)
            ELSE w

SocketEvent(n, i) ==
    /\ sock[n][i].st \in {"live", "closing"}
    /\ \E ev \in SUBSET Events(sock[n][i]) \ {{}}, payload \in MaxPayloads(n, sock[n][i]) :
          LET s == sock[n][i]
              r == Event(n, i, s, ev, payload)
          IN /\ sock' = [sock EXCEPT ![n][i] = r.sock]
             /\ IF r.sends = <<>> THEN UNCHANGED inbox ELSE Sends(n, s.transport, FALSE, r.sends)
    /\ UNCHANGED <<link, state, online, active, reader, writer, restarts>>

-----------------------------------------------------------------------------
(* New sockets                                                              *)

\* ss_listener_event_func: a client of the server gets a smart socket
AcceptClient == \E i \in FreeIds("host") :
    /\ "host" \in Opener
    /\ sock' = [sock EXCEPT !["host"][i] =
                   [Free EXCEPT !.st = "live", !.peer = Smart, !.read = TRUE]]
    /\ UNCHANGED transportVars

\* listener_event_func: a connection to a forwarded or reversed port.  The listener is
\* there while its transport is online (listener_disconnect)
AcceptForward(n, t) == \E i \in FreeIds(n) :
    /\ n \in Opener
    /\ online[n][t]
    /\ sock' = [sock EXCEPT ![n][i] =
                   [Free EXCEPT !.st = "live", !.transport = t, !.okay = TRUE]]
    /\ Sends(n, t, FALSE, <<OPEN(i, Stream(n, i))>>)
    /\ UNCHANGED <<link, state, online, active, reader, writer, restarts>>

AtSmart(i) ==
    LET s == sock["host"][i]
    IN s.st = "live" /\ s.peer = Smart /\ ~HungUp(s)

\* smart_socket_enqueue, "host:transport": acquire_one_transport
SmartTransport(i, t) ==
    /\ AtSmart(i)
    /\ state["host"][t] = "live" /\ online["host"][t]
    /\ sock' = [sock EXCEPT !["host"][i].transport = t]
    /\ UNCHANGED transportVars

\* smart_socket_enqueue, a service of the device: connect_to_remote
SmartService(i) ==
    LET s == sock["host"][i]
    IN /\ AtSmart(i)
       /\ s.transport # 0 /\ online["host"][s.transport]
       /\ sock' = [sock EXCEPT !["host"][i] = [s EXCEPT !.peer = None, !.read = FALSE]]
       /\ Sends("host", s.transport, FALSE, <<OPEN(i, Stream("host", i))>>)
       /\ UNCHANGED <<link, state, online, active, reader, writer, restarts>>

\* The same without a transport; and host services that are answered at once
SmartFails(i) ==
    /\ AtSmart(i)
    /\ sock' = [sock EXCEPT !["host"][i] = Close(@)]
    /\ UNCHANGED transportVars

-----------------------------------------------------------------------------
(* handle_packet                                                            *)

\* close_all_sockets
CloseAll(n, t) ==
    [i \in Socket |-> LET s == sock[n][i]
                      IN IF s.st = "live" /\ s.transport = t
                         THEN Close([s EXCEPT !.cut = TRUE]) ELSE s]

\* SYNC(1) comes back to the writing thread; the server sends CONNECT
HandleSync1(n, t) ==
    /\ active' = [active EXCEPT ![n][t] = TRUE]
    /\ inbox' = [inbox EXCEPT ![n][t] = Tail(@),
                              ![Other(n)][t] = IF n = "host" /\ link[t] = "up" /\ writer[n][t]
                                               THEN Append(@, CNXN) ELSE @]
    /\ UNCHANGED <<link, state, online, reader, writer, restarts, sock>>

\* SYNC(0): handle_offline, and the writing thread ends
HandleSync0(n, t) ==
    /\ online' = [online EXCEPT ![n][t] = FALSE]
    /\ sock' = [sock EXCEPT ![n] = CloseAll(n, t)]
    /\ writer' = [writer EXCEPT ![n][t] = FALSE]
    /\ Sends(n, t, TRUE, <<>>)
    /\ UNCHANGED <<link, state, active, reader, restarts>>

\* CloseAll's messages to the other side, in any order as it does not care
CloseAllSends(n, t) ==
    SetToSeq({CLSE(i, sock[n][i].peer) : i \in {j \in Socket :
        sock[n][j].st = "live" /\ sock[n][j].transport = t /\ sock[n][j].peer \in Socket}})

\* handle_new_connection: what was there before is closed; adbd sends CONNECT
HandleNewConnection(n, t) ==
    /\ online' = [online EXCEPT ![n][t] = TRUE]
    /\ sock' = [sock EXCEPT ![n] = CloseAll(n, t)]
    /\ Sends(n, t, TRUE, CloseAllSends(n, t) \o (IF n = "device" THEN <<CNXN>> ELSE <<>>))
    /\ UNCHANGED <<link, state, active, reader, writer, restarts>>

\* The packet does not concern a socket that is there
Ignore(n, t, answer) ==
    /\ Sends(n, t, TRUE, answer)
    /\ UNCHANGED <<link, state, online, active, reader, writer, restarts, sock>>

\* A socket gets a new value and something is answered
Update(n, t, i, s, answer) ==
    /\ sock' = [sock EXCEPT ![n][i] = s]
    /\ Sends(n, t, TRUE, answer)
    /\ UNCHANGED <<link, state, online, active, reader, writer, restarts>>

\* A_OPEN: the service is started, or there is none
HandleOpen(n, t, p) ==
    \/ Ignore(n, t, <<CLSE(0, p.arg0)>>)
    \/ \E i \in FreeIds(n) :
          Update(n, t, i, [Free EXCEPT !.st = "live", !.peer = p.arg0, !.transport = t,
                                       !.read = TRUE, !.okay = TRUE, !.of = p.data],
                 <<OKAY(i, p.arg0)>>)

\* find_local_socket
Found(n, i, peer) ==
    sock[n][i].st = "live" /\ (peer = 0 \/ sock[n][i].peer = peer)

\* Mutant: nobody is told that the socket is gone.
MutUnknownOkay(p) == <<>>
UnknownOkay(p) == <<CLSE(p.arg1, p.arg0)>>

\* A_OKAY: the first one makes the connection, ready and ready_notify
HandleOkay(n, t, p) ==
    LET i == p.arg1
        s == sock[n][i]
    IN IF ~Found(n, i, 0) THEN Ignore(n, t, UnknownOkay(p))
       ELSE IF s.peer = None \/ s.peer = p.arg0
       THEN Update(n, t, i, [s EXCEPT !.peer = p.arg0, !.transport = t, !.read = TRUE,
                                      !.okay = TRUE], <<>>)
       ELSE Ignore(n, t, <<>>)

\* A_CLSE: close sends a CLOSE of its own
HandleClose(n, t, p) ==
    LET i == p.arg1
        s == sock[n][i]
    IN IF Found(n, i, p.arg0) /\ ~(p.arg0 = 0 /\ s.peer \in Socket /\ s.transport # t)
       THEN Update(n, t, i, Close(s), CloseSends(i, s))
       ELSE Ignore(n, t, <<>>)

\* A_WRTE
HandleWrite(n, t, p) ==
    LET i == p.arg1
        r == Enqueue(i, sock[n][i], p.data)
    IN IF Found(n, i, p.arg0) THEN Update(n, t, i, r.sock, r.sends) ELSE Ignore(n, t, <<>>)

handle_packet(n, t) ==
    /\ state[n][t] = "live" /\ inbox[n][t] # <<>>
    /\ LET p == Head(inbox[n][t])
       IN \/ p = SYNC1 /\ HandleSync1(n, t)
          \/ p = SYNC0 /\ HandleSync0(n, t)
          \/ p = CNXN /\ HandleNewConnection(n, t)
          \/ p.cmd \in {"OPEN", "OKAY", "CLSE", "WRTE"} /\ ~online[n][t] /\ Ignore(n, t, <<>>)
          \/ p.cmd = "OPEN" /\ online[n][t] /\ HandleOpen(n, t, p)
          \/ p.cmd = "OKAY" /\ online[n][t] /\ HandleOkay(n, t, p)
          \/ p.cmd = "CLSE" /\ online[n][t] /\ HandleClose(n, t, p)
          \/ p.cmd = "WRTE" /\ online[n][t] /\ HandleWrite(n, t, p)

-----------------------------------------------------------------------------
(* The processes at the ends of the streams                                 *)

\* A client of the server waits for its OKAY before it writes
ProcessWrites(n, i) ==
    /\ Written < MaxItem
    /\ sock[n][i].st \in {"live", "closing"} /\ sock[n][i].okay /\ ~HungUp(sock[n][i])
    /\ sock' = [sock EXCEPT ![n][i].sent = @ + 1]
    /\ UNCHANGED transportVars

ProcessReads(n, i) ==
    /\ sock[n][i].out # <<>> /\ ~sock[n][i].closed
    /\ sock' = [sock EXCEPT ![n][i].out = Tail(@), ![n][i].got = Append(@, Head(sock[n][i].out))]
    /\ UNCHANGED transportVars

ProcessShuts(n, i) ==
    /\ sock[n][i].st \in {"live", "closing"} /\ ~HungUp(sock[n][i])
    /\ sock' = [sock EXCEPT ![n][i].shut = TRUE]
    /\ UNCHANGED transportVars

ProcessCloses(n, i) ==
    /\ sock[n][i].st \in {"live", "closing"} /\ ~sock[n][i].closed
    /\ sock' = [sock EXCEPT ![n][i].closed = TRUE, ![n][i].out = <<>>]
    /\ UNCHANGED transportVars

-----------------------------------------------------------------------------
TransportStep ==
    \/ \E t \in Transport : Connect(t) \/ Break(t)
    \/ \E n \in Node, t \in Transport : ReadFails(n, t) \/ WriteFailure(n, t) \/ Delete(n, t)

Restart(t) ==
    /\ ServerRestarts(t)
    /\ sock' = [sock EXCEPT !["host"] = [i \in Socket |-> Free]]

Next ==
    \/ TransportStep /\ UNCHANGED sock
    \/ \E t \in Transport : Restart(t)
    \/ AcceptClient
    \/ \E n \in Node, t \in Transport : AcceptForward(n, t) \/ handle_packet(n, t)
    \/ \E i \in Socket, t \in Transport : SmartTransport(i, t)
    \/ \E i \in Socket : SmartService(i) \/ SmartFails(i)
    \/ \E n \in Node, i \in Socket :
          \/ SocketEvent(n, i)
          \/ ProcessWrites(n, i) \/ ProcessReads(n, i) \/ ProcessShuts(n, i) \/ ProcessCloses(n, i)

Spec == Init /\ [][Next]_vars

\* The main threads serve what is ready, the threads of a transport notice that it is
\* broken, and a process reads what it is sent
Fairness ==
    /\ \A n \in Node, t \in Transport :
          /\ WF_vars(handle_packet(n, t))
          /\ WF_vars(ReadFails(n, t) /\ UNCHANGED sock)
          /\ WF_vars(Delete(n, t) /\ UNCHANGED sock)
    /\ \A n \in Node, i \in Socket : WF_vars(SocketEvent(n, i)) /\ WF_vars(ProcessReads(n, i))

-----------------------------------------------------------------------------
(* Properties                                                               *)

\* The two ends of a stream: j of the other side serves what i of n opened, or i serves j
Ends(n, i, j) ==
    sock[Other(n)][j].of = Stream(n, i) \/ sock[n][i].of = Stream(Other(n), j)

\* A stream of a server that was killed
Killed(stream) == stream # <<>> /\ stream[1] = "host" /\ stream[2] # restarts

\* All that has come to the descriptor i of n
Received(n, i) == sock[n][i].got \o sock[n][i].out \o sock[n][i].queue

\* What a process gets is what the process at the other end of its stream wrote, in the
\* order in which it wrote it: nothing is missing in between, nothing comes twice and
\* nothing comes from another stream, or from a stream of the server before it was
\* restarted, when identifiers began again.  Only the beginning may be missing, of what
\* a client wrote to a forwarded port that it shut before the first OKAY came.
StreamInOrder ==
    \A n \in Node, i \in Socket :
        LET r == Received(n, i)
        IN r # <<>> /\ ~sock[n][i].closed =>
              LET s == r[1].stream
                  d == r[1].number - 1
              IN /\ r = Items(s, d, d + Len(r))
                 /\ \/ Killed(s) /\ sock[n][i].of \in {<<>>, s}
                    \/ \E j \in Socket : /\ s = Stream(Other(n), j) /\ Ends(n, i, j)
                                        /\ d = sock[Other(n)][j].dropped

\* Packets of j for i of n that are on their way, or waiting for the process of i
Underway(n, i, j) ==
    LET writes(t) == {k \in 1..Len(inbox[n][t]) :
                         LET p == inbox[n][t][k] IN p.cmd = "WRTE" /\ p.arg0 = j /\ p.arg1 = i}
    IN MapThenSumSet(LAMBDA t : Cardinality(writes(t)), Transport)
         + (IF sock[n][i].peer = j /\ sock[n][i].queue # <<>> THEN 1 ELSE 0)

\* Flow control: a stream has no more than one packet on its way to or waiting for a slow
\* process, unless the sender hung up, when poll() reports a read whether or not
\* local_socket_event_func wants one, or is a server that was killed.
OnePacketWaits ==
    \A n \in Node, i, j \in Socket :
        Underway(n, i, j) > 1 =>
            HungUp(sock[Other(n)][j]) \/ sock[Other(n)][j].st = "free" \/ Killed(sock[n][i].of)

\* When a stream is closed because the process at one end had nothing more to write, the
\* process at the other end, if it still reads, has got everything or will get it: CLOSE
\* does not overtake data, nor throw away what waits for a slow reader.  What a client
\* wrote before it had a peer does not count (dropped), and nothing is said when adb could
\* not write to the process that closes (failed) or either end lost its transport (cut).
AllBeforeClose ==
    \A n \in Node, i, j \in Socket :
        LET s == sock[n][i]
            p == sock[Other(n)][j]
        IN Ends(n, i, j) /\ s.st \in {"closing", "gone"} /\ ~HungUp(s) /\ ~s.cut
              /\ ~p.failed /\ ~p.cut
           => Len(Received(n, i)) + p.dropped = p.sent

\* No socket of local_socket_list refers to a transport that is deleted, so that what its
\* handler sends goes to a transport that is there.  (Those on the closing list may: see
\* MaxPayloads.)
TransportIsThere ==
    \A n \in Node, i \in Socket :
        sock[n][i].st = "live" /\ sock[n][i].transport # 0
            => state[n][sock[n][i].transport] = "live"

Undelivered(n, i, k) ==
    /\ sock[n][i].st = "live" /\ ~HungUp(sock[n][i])
    /\ k =< sock[n][i].sent
    /\ \A j \in Socket : Ends(n, i, j) => Len(sock[Other(n)][j].got) < k
\* What a process writes is read at the other end, or the stream ends: no OKAY is lost and
\* the two sides never wait for each other.
Delivered == \A n \in Node, i \in Socket, k \in 1..MaxItem : Undelivered(n, i, k) ~> ~Undelivered(n, i, k)

\* The other end of the stream is gone
Orphan(n, i) ==
    /\ sock[n][i].st \in {"live", "closing"}
    /\ \/ sock[n][i].st = "closing"
       \/ Killed(sock[n][i].of)
       \/ \E j \in Socket : Ends(n, i, j) /\ sock[Other(n)][j].st \in {"closing", "gone"}
\* A socket whose other end has gone away, closed by its process, cut off by the transport,
\* killed with the server or closed before the answer to its OPEN came, is destroyed.
OrphansEnd == \A n \in Node, i \in Socket : Orphan(n, i) ~> sock[n][i].st \in {"gone", "free"}

=============================================================================
