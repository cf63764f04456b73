---------------------------- MODULE MCInitQueue ----------------------------
(* Scripts in the manner of rootdir/init.rc: boot executes a program, waits for a    *)
(* property and triggers the next phase; one action on two properties and one on any *)
(* value of one; one for the shutdown.                                               *)
EXTENDS InitQueue

Action(e, p, c) == [event |-> e, props |-> p, cmds |-> c, oneshot |-> FALSE]
Builtin(e) == [event |-> e, props |-> <<>>, cmds |-> <<[op |-> e]>>, oneshot |-> TRUE]
On(n, v) == [m \in {n} |-> v]

MCProp == {"sys.powerctl", "a", "c"}
MCValue == {"0", "1", "reboot", "bogus"}
MCClientSets == ({"a", "c"} \X {"0", "1"}) \cup ({"sys.powerctl"} \X {"reboot", "bogus"})
MCEventName == {"late-init", "fs", "both-ran", "shutdown"}
MCRcActions == <<"boot", "fs", "both", "any", "halt">>
MCBootQueue == <<EventTrigger("late-init")>>

Rc == [boot |-> Action("late-init", <<>>,
                       <<[op |-> "exec"],
                         [op |-> "wait_for_prop", name |-> "a", value |-> "1"],
                         [op |-> "trigger", name |-> "fs"]>>),
       fs   |-> Action("fs", On("c", "1"),
                       <<[op |-> "setprop", name |-> "c", value |-> "0"]>>),
       both |-> Action("", [n \in {"a", "c"} |-> "1"],
                       <<[op |-> "trigger", name |-> "both-ran"], [op |-> "exec"]>>),
       any  |-> Action("", On("c", "*"),
                       <<[op |-> "setprop", name |-> "a", value |-> "1"]>>),
       halt |-> Action("shutdown", <<>>,
                       <<[op |-> "exec"],
                         [op |-> "setprop", name |-> "c", value |-> "1"]>>)]

MCScript == [a \in DOMAIN Rc \cup Builtins |-> IF a \in Builtins THEN Builtin(a) ELSE Rc[a]]
=============================================================================
