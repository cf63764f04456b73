---------------------------- MODULE FastbootLink ----------------------------
(***************************************************************************)
(* What class Transport (fastboot/transport.h) promises the fastboot       *)
(* engine, whatever carries the bytes: the data of a Write reaches the     *)
(* device once and in order, a Write returns when all of it has, a Read    *)
(* returns what the device handed out and nothing else, and a call that    *)
(* fails leaves at most a prefix of its own data behind.                   *)
(***************************************************************************)
EXTENDS Sequences

CONSTANT Data   \* the pieces of data a packet can carry

VARIABLES
  status,    \* "down", "up", "writing", "reading", "answered" or "failed"
  pending,   \* data of the current Write the device has not accepted yet
  got,       \* what the device has accepted since the transport was opened
  given,     \* what the device has handed out since then
  taken      \* what the Reads since then have returned

vars == <<status, pending, got, given, taken>>

Init == status = "down" /\ pending = <<>> /\ got = <<>> /\ given = <<>> /\ taken = <<>>

Open ==
  /\ status = "down"
  /\ status' = "up"
  /\ pending' = <<>> /\ got' = <<>> /\ given' = <<>> /\ taken' = <<>>

BeginWrite ==
  /\ status = "up"
  /\ status' = "writing"
  /\ pending' # <<>>
  /\ UNCHANGED <<got, given, taken>>

\* A call that failed may still have a piece of data on its way.
Accept ==
  /\ status \in {"writing", "failed"}
  /\ \E d \in Data : pending = d \o pending' /\ got' = got \o d
  /\ UNCHANGED <<status, given, taken>>

EndWrite ==
  /\ status = "writing"
  /\ pending = <<>>
  /\ status' = "up"
  /\ UNCHANGED <<pending, got, given, taken>>

BeginRead ==
  /\ status = "up"
  /\ status' = "reading"
  /\ UNCHANGED <<pending, got, given, taken>>

Give ==
  /\ status \in {"reading", "answered", "failed"}
  /\ status' = IF status = "failed" THEN "failed" ELSE "answered"
  /\ \E d \in Data : given' = given \o d
  /\ UNCHANGED <<pending, got, taken>>

EndRead ==
  /\ status = "answered"
  /\ status' = "up"
  /\ taken' = given
  /\ UNCHANGED <<pending, got, given>>

Fail ==
  /\ status \in {"writing", "reading", "answered"}
  /\ status' = "failed"
  /\ UNCHANGED <<pending, got, given, taken>>

\* Close(), or the end of the host process.
Drop ==
  /\ status # "down"
  /\ status' = "down"
  /\ pending' = <<>> /\ got' = <<>> /\ given' = <<>> /\ taken' = <<>>

Next ==
  \/ Open \/ BeginWrite \/ Accept \/ EndWrite
  \/ BeginRead \/ Give \/ EndRead \/ Fail \/ Drop

Spec == Init /\ [][Next]_vars
=============================================================================
