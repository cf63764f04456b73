---------------------------- MODULE MCTombstoned ----------------------------
(* Small instances of Tombstoned for TLC. *)
EXTENDS Tombstoned

CONSTANTS c1, c2, c3, p1, p2

\* Two connections of one process and one of another.
MCPeer == [c \in Crash |-> IF c = c3 THEN p2 ELSE p1]

\* One tombstone at a time and two ANR traces at a time, as small rings of files.
MCMaxDumps == [q \in Queues |-> IF q = "anrs" THEN 2 ELSE 1]
MCMaxArtifacts == [q \in Queues |-> IF q = "anrs" THEN 3 ELSE 2]
=============================================================================
