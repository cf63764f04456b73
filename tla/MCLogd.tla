------------------------------ MODULE MCLogd ------------------------------
(***************************************************************************)
(* A behaviour plays one of the Scenes: the lines that are logged, in this *)
(* order, who reads them, what they ask for, when dumps are asked for at   *)
(* the latest, and who clears the log.                                     *)
(***************************************************************************)
EXTENDS Logd

CONSTANT Plays

VARIABLE scene

Stream == [nonBlock |-> FALSE, tail |-> 0, mask |-> LogId, timeout |-> FALSE, start |-> EPOCH,
           pids |-> Source]
Dump == [Stream EXCEPT !.nonBlock = TRUE]
Tail1 == [Dump EXCEPT !.tail = 1]
Follow1 == [Stream EXCEPT !.tail = 1]
Wrap == [Dump EXCEPT !.timeout = TRUE]
MCRequest == {Stream, Dump, Tail1, Follow1, Wrap}

L(t, src, msg) == [t |-> t, id |-> "main", src |-> src, msg |-> msg]
Scene(lines, who, requests, ask, uids) ==
    [lines |-> lines, who |-> who, requests |-> requests, ask |-> ask, uids |-> uids]

Scenes ==
    [late |-> Scene(<<L(30, "a", "x"), L(26, "b", "y"), L(22, "a", "z"), L(32, "b", "x")>>,
                    {"c"}, {Stream}, 0, {}),
     dump |-> Scene(<<L(20, "a", "x"), L(30, "b", "y"), L(24, "a", "z"), L(28, "b", "x")>>,
                    {"c"}, {Dump}, 25, {}),
     behind |-> Scene(<<L(20, "a", "x"), L(40, "b", "y"), L(41, "a", "z"), L(42, "b", "x")>>,
                      {"c"}, {Stream}, 0, {}),
     same |-> Scene(<<L(20, "a", "x"), L(21, "a", "x"), L(22, "a", "x"), L(23, "a", "x"), L(24, "a", "x"),
                      L(25, "a", "y")>>,
                    {"c"}, {Stream}, 0, {}),
     twice |-> Scene(<<L(20, "a", "x"), L(21, "a", "x"), L(22, "b", "y")>>, {"c"}, {Stream}, 0, {}),
     worst |-> Scene(<<L(20, "b", "x"), L(21, "a", "y"), L(22, "a", "z"), L(40, "a", "y"), L(41, "a", "x")>>,
                     {"c"}, {Stream}, 0, {}),
     lists |-> Scene(<<L(20, "w", "x"), L(21, "n", "y"), L(22, "w", "z"), L(40, "n", "y"), L(41, "w", "x")>>,
                     {}, {}, 0, {}),
     clear |-> Scene(<<L(20, "a", "x"), L(40, "b", "y")>>, {"c"}, {Stream}, 0, {Root, "a"}),
     wrap |-> Scene(<<L(20, "a", "x"), L(21, "b", "y"), L(22, "a", "z")>>, {"c"}, {Wrap, Tail1, Follow1}, 23, {}),
     two |-> Scene(<<L(20, "a", "x"), L(40, "b", "y")>>, {"c", "d"}, {Stream}, 0, {})]

\* The scenes in which a thread may not be made at first
Flaky == {"late", "same", "wrap"}

MCLogLine == UNION {ToSet(Scenes[s].lines) : s \in DOMAIN Scenes}

Asks(r, en) ==
    /\ r.nonBlock = en.nonBlock /\ r.tail = en.asked /\ r.timeout = en.timeout

\* Two clients: one comes after the other, and reads on until the other is gone
Apart ==
    /\ "d" \in mClients' => entry["c"] # NoEntry
    /\ ~sock'["c"].closed

Played ==
    LET play == Scenes[scene]
    IN /\ \E k \in 0..Len(play.lines) : logged' = ToSet(SubSeq(play.lines, 1, k))
       /\ mClients' \subseteq play.who
       /\ logged' = logged => now' \in {now, play.ask}
       /\ \A c \in Client :
             entry[c] = NoEntry /\ entry'[c] # NoEntry => 
                /\ \E r \in play.requests : Asks(r, entry'[c])
                /\ entry'[c].running \/ scene \in Flaky
       /\ clearing'.pc # "idle" => clearing'.uid \in play.uids
       /\ play.who = Client => Apart

MCInit == Init /\ scene \in Plays
MCNext == Next /\ Played /\ UNCHANGED scene
MCSpec == MCInit /\ [][MCNext]_<<vars, scene>>
MCFairSpec == MCSpec /\ Fairness
=============================================================================
