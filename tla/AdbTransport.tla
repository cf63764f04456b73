---------------------------- MODULE AdbTransport ----------------------------
(***************************************************************************)
(* The transports of adb (adb/transport.cpp, adb/adb.cpp): a connection    *)
(* between the adb server of the host and the adbd of a device.            *)
(*                                                                         *)
(* Each side has a main thread, and for every transport a thread that      *)
(* reads from the wire and one that writes to it, joined to the main       *)
(* thread by a socket pair.  What one main thread sends goes through a     *)
(* socket pair, the wire and another socket pair, all of them first in     *)
(* first out; inbox[n][t] is all that is on its way to the main thread of  *)
(* n.  When the connection breaks, what the reading thread has not got yet *)
(* is lost.                                                                *)
(*                                                                         *)
(* ro.adb.secure is off: a CONNECT is accepted without authentication, so  *)
(* a transport is online exactly when its state is not kCsOffline.         *)
(***************************************************************************)
EXTENDS Naturals, Sequences, SequencesExt

CONSTANTS
    Transport,   \* connections, made one after the other: 1..n
    MaxRestart,  \* how often the adb server is killed and started again
    WriteFails   \* whether a writing thread notices a broken connection by itself

ASSUME TransportAssumption ==
    /\ Transport \subseteq Nat \ {0} /\ MaxRestart \in Nat /\ WriteFails \in BOOLEAN

VARIABLES
    link,     \* each connection: "none", "up" or "broken"
    state,    \* each side's atransport: "none", "live" (in transport_list) or "deleted"
    online,   \* atransport::online
    active,   \* the writing thread has got SYNC(1)
    reader,   \* the reading thread runs
    writer,   \* the writing thread runs
    inbox,    \* packets for the main thread
    restarts  \* how often the server was restarted

transportVars == <<link, state, online, active, reader, writer, inbox, restarts>>

Node == {"host", "device"}
Other(n) == CHOOSE m \in Node : m # n

Packet(cmd, arg0, arg1, data) == [cmd |-> cmd, arg0 |-> arg0, arg1 |-> arg1, data |-> data]
SYNC1 == Packet("SYNC", 1, 0, <<>>)
SYNC0 == Packet("SYNC", 0, 0, <<>>)
CNXN == Packet("CNXN", 0, 0, <<>>)

ForBoth(value) == [n \in Node |-> [t \in Transport |-> value]]

TransportInit ==
    /\ link = [t \in Transport |-> "none"]
    /\ state = ForBoth("none")
    /\ online = ForBoth(FALSE)
    /\ active = ForBoth(FALSE)
    /\ reader = ForBoth(FALSE)
    /\ writer = ForBoth(FALSE)
    /\ inbox = ForBoth(<<>>)
    /\ restarts = 0

-----------------------------------------------------------------------------
(* Sending                                                                  *)

\* The writing thread forwards packets once it is active; it ends at SYNC(0)
Carried(n, t) == link[t] = "up" /\ active[n][t] /\ writer[n][t]

\* n's main thread sends the packets ps, having taken the first of its inbox if taken
Sends(n, t, taken, ps) ==
    inbox' = [inbox EXCEPT ![n][t] = IF taken THEN Tail(@) ELSE @,
                           ![Other(n)][t] = IF Carried(n, t) THEN @ \o ps ELSE @]

-----------------------------------------------------------------------------
(* Connections come and go                                                  *)

\* register_socket_transport of the server refuses a second transport with a serial
\* number; adbd may still have the old one.  transport_registration_func starts the
\* threads, and the reading one begins with SYNC(1)
Connect(t) ==
    /\ link[t] = "none"
    /\ \A u \in Transport : u < t => state["host"][u] = "deleted"
    /\ link' = [link EXCEPT ![t] = "up"]
    /\ state' = [n \in Node |-> [state[n] EXCEPT ![t] = "live"]]
    /\ reader' = [n \in Node |-> [reader[n] EXCEPT ![t] = TRUE]]
    /\ writer' = [n \in Node |-> [writer[n] EXCEPT ![t] = TRUE]]
    /\ inbox' = [n \in Node |-> [inbox[n] EXCEPT ![t] = <<SYNC1>>]]
    /\ UNCHANGED <<online, active, restarts>>

\* The cable is pulled, the network fails, or one side kicks the transport
Break(t) ==
    /\ link[t] = "up"
    /\ link' = [link EXCEPT ![t] = "broken"]
    /\ UNCHANGED <<state, online, active, reader, writer, inbox, restarts>>

\* What of inbox may be there when the connection is lost: its own SYNC(1) is not lost
Arrived(n, t) ==
    {SubSeq(inbox[n][t], 1, k) :
        k \in (IF Contains(inbox[n][t], SYNC1) THEN 1 ELSE 0)..Len(inbox[n][t])}

\* read_transport_thread: the read fails; SYNC(0), and the reference is dropped
ReadFails(n, t) ==
    /\ link[t] = "broken" /\ reader[n][t]
    /\ inbox' \in {[inbox EXCEPT ![n][t] = Append(s, SYNC0)] : s \in Arrived(n, t)}
    /\ reader' = [reader EXCEPT ![n][t] = FALSE]
    /\ UNCHANGED <<link, state, online, active, writer, restarts>>

\* write_transport_thread: a write fails
WriteFailure(n, t) ==
    /\ WriteFails
    /\ link[t] = "broken" /\ writer[n][t] /\ active[n][t]
    /\ writer' = [writer EXCEPT ![n][t] = FALSE]
    /\ UNCHANGED <<link, state, online, active, reader, inbox, restarts>>

\* transport_unref of the second thread sends the transport to
\* transport_registration_func, which closes both ends of the socket pair and deletes it
Delete(n, t) ==
    /\ state[n][t] = "live"
    /\ ~reader[n][t] /\ ~writer[n][t]
    /\ state' = [state EXCEPT ![n][t] = "deleted"]
    /\ inbox' = [inbox EXCEPT ![n][t] = <<>>]
    /\ online' = [online EXCEPT ![n][t] = FALSE]
    /\ active' = [active EXCEPT ![n][t] = FALSE]
    /\ UNCHANGED <<link, reader, writer, restarts>>

\* The server is killed and another one opens the same USB device: what the first one
\* had not written, and what it had read, is lost
ServerRestarts(t) ==
    /\ restarts < MaxRestart
    /\ link[t] = "up"
    /\ restarts' = restarts + 1
    /\ online' = [online EXCEPT !["host"][t] = FALSE]
    /\ active' = [active EXCEPT !["host"][t] = FALSE]
    /\ LET left == SelectSeq(inbox["host"][t], LAMBDA p : p.cmd # "SYNC")
       IN \E i \in 0..Len(left), s \in Arrived("device", t) :
             inbox' = [inbox EXCEPT !["host"][t] = <<SYNC1>> \o SubSeq(left, i + 1, Len(left)),
                                    !["device"][t] = s]
    /\ UNCHANGED <<link, state, reader, writer>>

=============================================================================
