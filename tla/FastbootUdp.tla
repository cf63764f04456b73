----------------------------- MODULE FastbootUdp -----------------------------
(***************************************************************************)
(* The UDP transport of the fastboot tool (fastboot/udp.cpp): one packet   *)
(* in flight, retransmitted on a timeout, over a network that loses,       *)
(* delays, duplicates and reorders packets, to a device that follows the   *)
(* packet rules of fastboot/README.md.  The host may be killed at any      *)
(* moment and started again while packets of the old run are still about.  *)
(*                                                                         *)
(* A packet stays in `requests' or `responses' once sent: it may be        *)
(* delivered any number of times and at any later moment, and a packet     *)
(* that is lost is one that is never delivered.  Data is a sequence of     *)
(* units <<kind, number>>; packet sizes are counted in units.              *)
(***************************************************************************)
EXTENDS Integers, Sequences

CONSTANTS
  SeqSpace,                    \* sequence numbers are taken modulo this; 2^16 in the packet header
  kMaxConnectAttempts,
  kMaxTransmissionAttempts,
  HostMaxData,               \* units in a packet of kHostMaxPacketSize, 2 in one of kMinPacketSize
  DeviceMaxData,             \* what devices report for it; 0 stands for less than kMinPacketSize
  FirstExpected,             \* sequence numbers the device may be at
  MaxSessions,               \* how often the tool is started
  Words,                     \* what a unit of data can start with
  Data,                      \* the pieces of data a packet can carry
  Messages,                  \* what a caller may write
  Limits                     \* the sizes of the buffers it reads into

ASSUME SeqSpaceAssumption == SeqSpace \in Nat /\ SeqSpace > 3
ASSUME FirstAssumption == FirstExpected \subseteq 0..SeqSpace-1
ASSUME AttemptsAssumption ==
  kMaxConnectAttempts \in Nat \ {0} /\ kMaxTransmissionAttempts \in Nat \ {0}
ASSUME SizeAssumption ==
  HostMaxData \in Nat \ {0} /\ DeviceMaxData \subseteq Nat /\ Limits \subseteq Nat

Units == Words \X Int

ASSUME DataAssumption ==
  /\ {"next", "version", "size"} \subseteq Words
  /\ Data \subseteq Seq(Units) /\ <<>> \in Data
  /\ \A d \in Data : \A i \in 1..Len(d)+1, j \in 0..Len(d) : SubSeq(d, i, j) \in Data
  /\ Messages \subseteq Data \ {<<>>}

VARIABLES
  session,     \* which run of the tool: each has a socket, and a port, of its own
  host,        \* "closed", "sending", "waiting", "idle" or "failed"
  sequence,    \* sequence_, of which Header::Set only keeps 16 bits
  maxData,     \* max_data_length_
  call,        \* locals of SendData and SendSinglePacketHelper
  taken,       \* history: what the Reads of this session have returned
  requests, responses,
  expected,    \* the device's next expected sequence number
  saved,       \* the response it keeps for retransmission
  got, given   \* history: data accepted and handed out since the last Init packet

hostVars == <<session, host, sequence, maxData, call, taken>>
deviceVars == <<expected, saved, got, given>>
udpVars == <<hostVars, requests, responses, deviceVars>>

Succ(s) == (s + 1) % SeqSpace

Packet(id, seq, more, data) == [id |-> id, seq |-> seq, more |-> more, data |-> data]

To(s, p) == [session |-> s, packet |-> p]

Shorter(a, b) == IF a < b THEN a ELSE b

Ids == [query |-> "query", init |-> "init", write |-> "fastboot", read |-> "fastboot"]

Attempts(kind) == IF kind = "query" THEN kMaxConnectAttempts ELSE kMaxTransmissionAttempts

----------------------------------------------------------------------------
(* SendData and SendSinglePacketHelper *)

\* The top of SendData's loop: what fits goes out, flagged when there is more.
NextPacket(kind, tx, seq, max) ==
  Packet(Ids[kind], seq, Len(tx) > max, SubSeq(tx, 1, Shorter(max, Len(tx))))

Call(kind, tx, seq, max, rx, limit) ==
  [kind |-> kind, packet |-> NextPacket(kind, tx, seq, max),
   rest |-> SubSeq(tx, Shorter(max, Len(tx)) + 1, Len(tx)),
   rx |-> rx, limit |-> limit, left |-> Attempts(kind), prompt |-> FALSE]

NoCall == Call("query", <<>>, 0, 2, <<>>, 2)

Begin(kind, tx, limit) ==
  /\ host' = "sending"
  /\ call' = Call(kind, tx, sequence, maxData, <<>>, limit)

\* The sequence number is not compared.
MutMatches(p, r) == p.id = r.id \/ r.id = "error"

Matches(p, r) == p.seq = r.seq /\ (p.id = r.id \/ r.id = "error")

Send ==
  /\ host = "sending"
  /\ host' = "waiting"
  /\ requests' = requests \cup {To(session, call.packet)}
  /\ UNCHANGED <<session, sequence, maxData, call, taken, responses, deviceVars>>

\* The transport object and its socket are gone.
Destroyed ==
  /\ host' = "closed"
  /\ sequence' = -1 /\ maxData' = 2 /\ call' = NoCall /\ taken' = <<>>

\* InitializeProtocol returns false and its transport is deleted; Read and Write
\* return -1.
ReturnFailure(seq) ==
  \/ call.kind \in {"query", "init"} /\ Destroyed
  \/ /\ call.kind \in {"write", "read"}
     /\ host' = "failed"
     /\ sequence' = seq
     /\ call' = [call EXCEPT !.left = 0]
     /\ UNCHANGED <<maxData, taken>>

\* attempts_left is not counted down.
MutReceiveTimedOut ==
  /\ host = "waiting"
  /\ host' = "sending"
  /\ UNCHANGED <<session, sequence, maxData, call, taken, requests, responses, deviceVars>>

ReceiveTimedOut ==
  /\ host = "waiting"
  /\ \/ /\ call.left > 1
        /\ host' = "sending"
        /\ call' = [call EXCEPT !.left = @ - 1]
        /\ UNCHANGED <<sequence, maxData, taken>>
     \/ /\ call.left = 1
        /\ ReturnFailure(sequence)
  /\ UNCHANGED <<session, requests, responses, deviceVars>>

\* Send or Receive fails, or a packet without a whole header arrives.
SocketError ==
  /\ host \in {"sending", "waiting"}
  /\ ReturnFailure(sequence)
  /\ UNCHANGED <<session, requests, responses, deviceVars>>

----------------------------------------------------------------------------
(* What the four callers of SendData do with its result *)

\* The first two bytes of the answer are the device's next sequence number.
QueryAnswered(rx) ==
  IF rx = <<>>
  THEN ReturnFailure(Succ(sequence))
  ELSE /\ sequence' = rx[1][2]
       /\ host' = "sending"
       /\ call' = Call("init", <<<<"version", 1>>, <<"size", HostMaxData>>>>, rx[1][2],
                       maxData, <<>>, 2)
       /\ UNCHANGED <<maxData, taken>>

\* The answer is the device's version, 1 or later, and its packet size.
InitAnswered(rx) ==
  IF Len(rx) < 2 \/ rx[1][2] < 1 \/ rx[2][2] = 0
  THEN ReturnFailure(Succ(sequence))
  ELSE /\ host' = "idle"
       /\ sequence' = Succ(sequence)
       /\ maxData' = Shorter(HostMaxData, rx[2][2])
       /\ taken' = <<>>
       /\ call' = [call EXCEPT !.rx = <<>>]

\* Only empty acknowledgements are allowed when writing.
Written(rx) ==
  IF rx # <<>>
  THEN ReturnFailure(Succ(sequence))
  ELSE /\ host' = "idle"
       /\ sequence' = Succ(sequence)
       /\ call' = [call EXCEPT !.rx = <<>>]
       /\ UNCHANGED <<maxData, taken>>

\* More than the caller's buffer holds is an overflow.
ReadDone(rx) ==
  IF Len(rx) > call.limit
  THEN ReturnFailure(Succ(sequence))
  ELSE /\ host' = "idle"
       /\ sequence' = Succ(sequence)
       /\ taken' = taken \o rx
       /\ call' = [call EXCEPT !.rx = rx]
       /\ UNCHANGED maxData

Answered(rx) ==
  CASE call.kind = "query" -> QueryAnswered(rx)
    [] call.kind = "init"  -> InitAnswered(rx)
    [] call.kind = "write" -> Written(rx)
    [] call.kind = "read"  -> ReadDone(rx)

\* A response that does not match is dropped; it only makes the wait longer.
Receive ==
  /\ host = "waiting"
  /\ \E m \in responses :
       LET r  == m.packet
           rx == IF r.id = "error" THEN call.rx ELSE call.rx \o r.data
       IN /\ m.session = session
          /\ Matches(call.packet, r)
          /\ \/ /\ r.more
                /\ sequence' = Succ(sequence)
                /\ host' = "sending"
                /\ call' = [call EXCEPT !.packet = Packet(r.id, Succ(sequence), FALSE, <<>>),
                                        !.rx = rx, !.left = Attempts(call.kind),
                                        !.prompt = TRUE]
                /\ UNCHANGED <<maxData, taken>>
             \/ /\ ~r.more /\ r.id = "error"
                /\ ReturnFailure(Succ(sequence))
             \/ /\ ~r.more /\ r.id # "error" /\ call.rest # <<>>
                /\ sequence' = Succ(sequence)
                /\ host' = "sending"
                /\ call' = Call(call.kind, call.rest, Succ(sequence), maxData, rx, call.limit)
                /\ UNCHANGED <<maxData, taken>>
             \/ /\ ~r.more /\ r.id # "error" /\ call.rest = <<>>
                /\ Answered(rx)
  /\ UNCHANGED <<session, requests, responses, deviceVars>>

----------------------------------------------------------------------------
(* The calls *)

\* udp::Connect, on a new socket.
Connect ==
  /\ host = "closed" /\ session < MaxSessions
  /\ session' = session + 1
  /\ sequence' = 0
  /\ maxData' = 2
  /\ host' = "sending"
  /\ call' = NoCall
  /\ responses' = {}
  /\ UNCHANGED <<taken, requests, deviceVars>>

\* Read and Write only ask for a socket: after a call that failed they can be
\* called again.
Write(m) ==
  /\ host \in {"idle", "failed"}
  /\ Begin("write", m, 0)
  /\ UNCHANGED <<session, sequence, maxData, taken, requests, responses, deviceVars>>

Read(limit) ==
  /\ host \in {"idle", "failed"}
  /\ Begin("read", <<>>, limit)
  /\ UNCHANGED <<session, sequence, maxData, taken, requests, responses, deviceVars>>

\* Close(), or the process is killed in the middle of a call.
Close ==
  /\ host # "closed"
  /\ Destroyed
  /\ responses' = {}
  /\ UNCHANGED <<session, requests, deviceVars>>

----------------------------------------------------------------------------
(* The device, from the rules of fastboot/README.md (external) *)

\* A datagram for a socket that is closed is discarded.
For(s, p) == IF s = session /\ host # "closed" THEN {To(s, p)} ELSE {}

DeviceQuery(m) ==
  /\ m.packet.id = "query"
  /\ responses' = responses \cup
       For(m.session, Packet("query", m.packet.seq, FALSE, <<<<"next", expected>>>>))
  /\ UNCHANGED <<requests, deviceVars>>

\* Neither side looks at a packet whose sequence number the device has left
\* behind, until the number comes round again; no packet lives that long.
Live(ms) ==
  {m \in ms : m.packet.id = "query" \/ expected \in {m.packet.seq, Succ(m.packet.seq)}}

\* A packet with the expected sequence number is processed and its response saved.
Process(m, id, more, data) ==
  LET r == Packet(id, expected, more, data) IN
  /\ m.packet.id # "query"
  /\ m.packet.seq = expected
  /\ expected' = Succ(expected)
  /\ saved' = r
  /\ requests' = Live(requests)
  /\ responses' = Live(responses) \cup For(m.session, r)

\* An Init packet aborts whatever an earlier host left unfinished.
DeviceInit(m, version, size) ==
  /\ m.packet.id = "init"
  /\ Process(m, "init", FALSE, <<<<"version", version>>, <<"size", size>>>>)
  /\ got' = <<>> /\ given' = <<>>

DeviceAccept(m) ==
  /\ m.packet.id = "fastboot" /\ m.packet.data # <<>>
  /\ Process(m, "fastboot", FALSE, <<>>)
  /\ got' = got \o m.packet.data
  /\ UNCHANGED given

DeviceGive(m, more, data) ==
  /\ m.packet.id = "fastboot" /\ m.packet.data = <<>>
  /\ Process(m, "fastboot", more, data)
  /\ given' = given \o data
  /\ UNCHANGED got

DeviceError(m) ==
  /\ Process(m, "error", FALSE, <<>>)
  /\ UNCHANGED <<got, given>>

DeviceRepeat(m) ==
  /\ m.packet.id # "query"
  /\ Succ(m.packet.seq) = expected
  /\ responses' = responses \cup For(m.session, saved)
  /\ UNCHANGED <<requests, deviceVars>>

----------------------------------------------------------------------------
UdpInit ==
  /\ session = 0 /\ host = "closed" /\ sequence = -1 /\ maxData = 2
  /\ call = NoCall
  /\ taken = <<>>
  /\ requests = {} /\ responses = {}
  /\ expected \in FirstExpected
  /\ saved = Packet("error", (expected - 1) % SeqSpace, FALSE, <<>>)
  /\ got = <<>> /\ given = <<>>

\* A caller may do nothing but close the transport after a call that failed.
HostNext ==
  \/ Connect \/ Send \/ ReceiveTimedOut \/ SocketError \/ Receive \/ Close
  \/ \E m \in Messages : host = "idle" /\ Write(m)
  \/ \E limit \in Limits : host = "idle" /\ Read(limit)

DeviceNext ==
  /\ \E m \in requests :
       \/ DeviceQuery(m)
       \/ \E version \in {0, 1}, size \in DeviceMaxData : DeviceInit(m, version, size)
       \/ DeviceAccept(m)
       \/ \E more \in BOOLEAN, d \in Data : DeviceGive(m, more, d)
       \/ DeviceError(m)
       \/ DeviceRepeat(m)
  /\ UNCHANGED hostVars

UdpNext == HostNext \/ DeviceNext

(* The transport and a caller that keeps to its contract: protocol.cpp closes
   the transport after every call that fails, and never uses it again. *)
UdpSpec == UdpInit /\ [][UdpNext]_udpVars

----------------------------------------------------------------------------
(* The transport's promise *)

Connected ==
  \/ host \in {"idle", "failed"}
  \/ host \in {"sending", "waiting"} /\ call.kind \in {"write", "read"}

\* The device has taken the packet the host is sending.
Taken == expected = Succ(call.packet.seq) /\ saved.id # "error"

LinkStatus ==
  CASE ~Connected -> "down"
    [] host = "idle" -> "up"
    [] host = "failed" -> "failed"
    [] OTHER -> IF call.kind = "write" THEN "writing"
                ELSE IF Taken \/ call.prompt THEN "answered" ELSE "reading"

LinkPending ==
  IF ~Connected \/ host = "idle" \/ call.kind = "read" THEN <<>>
  ELSE IF Taken THEN call.rest
  ELSE call.packet.data \o call.rest

IfConnected(v) == IF Connected THEN v ELSE <<>>

Link == INSTANCE FastbootLink WITH
          status <- LinkStatus, pending <- LinkPending, got <- IfConnected(got),
          given <- IfConnected(given), taken <- IfConnected(taken)

(* udp.cpp over such a network is a transport: what is written reaches the
   device once and in order, what is read is what the device handed out, and
   a call that fails leaves at most a prefix of its own data behind. *)
LinkSpec == Link!Spec
=============================================================================
