------------------------------- MODULE MCAdb -------------------------------
(* Everything that comes from outside adb, in all: streams that are opened, items that   *)
(* are written, processes that hang up, connections that break, servers that restart.    *)
EXTENDS AdbSockets, Functions

CONSTANTS MaxEffort, MaxFaultEffort

Ended(s) == (IF s.shut THEN 1 ELSE 0) + (IF s.closed THEN 1 ELSE 0)

Effort ==
    LET used == {e \in Node \X Socket : sock[e[1]][e[2]].st # "free"}
    IN Cardinality({e \in used : sock[e[1]][e[2]].of = <<>>})
         + SumFunction([e \in used |-> Ended(sock[e[1]][e[2]])])
         + Written + Cardinality({t \in Transport : link[t] = "broken"}) + restarts

Faults == Cardinality({t \in Transport : link[t] = "broken"}) + restarts
Streams == Cardinality({e \in Node \X Socket : sock[e[1]][e[2]].st # "free" /\ sock[e[1]][e[2]].of = <<>>})
Limited ==
    /\ Effort =< IF Streams = 1 /\ Faults = 0 THEN MaxEffort + 1 ELSE MaxEffort
    /\ Faults =< 1
    /\ Faults = 1 => Effort =< MaxFaultEffort

MCNext == Next /\ Limited' /\ (restarts' # restarts => Effort < MaxFaultEffort)
MCSpec == Init /\ [][MCNext]_vars
MCFairSpec == MCSpec /\ Fairness
=============================================================================
