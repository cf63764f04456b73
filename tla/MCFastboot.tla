----------------------------- MODULE MCFastboot -----------------------------
(* A session that checks a variable, flashes a sparse image, fetches staged
   data, flashes a second image and reboots; packets hold at most two units. *)
EXTENDS Fastboot

Unit(i) == <<"data", i>>

MCQueue ==
  << [op |-> "query", cmd |-> <<"getvar", 0>>, want |-> {0}, data |-> <<>>],
     [op |-> "download_sparse", cmd |-> <<"download", 5>>, want |-> {},
      data |-> << <<Unit(1)>>, <<Unit(2), Unit(3), Unit(4), Unit(5)>> >>],
     [op |-> "command", cmd |-> <<"flash", 3>>, want |-> {}, data |-> <<>>],
     [op |-> "upload", cmd |-> <<"upload", 0>>, want |-> {}, data |-> <<>>],
     [op |-> "download_fd", cmd |-> <<"download", 4>>, want |-> {},
      data |-> << <<Unit(6), Unit(7), Unit(8), Unit(9)>> >>],
     [op |-> "command", cmd |-> <<"flash", 6>>, want |-> {}, data |-> <<>>],
     [op |-> "reboot", cmd |-> <<"reboot", 0>>, want |-> {}, data |-> <<>>] >>

MCStaged == <<Unit(10), Unit(11), Unit(12)>>

MCWords == {MCQueue[i].cmd[1] : i \in DOMAIN MCQueue}
             \cup {"INFO", "OKAY", "FAIL", "DATA", "HUH?", "data", "next", "version", "size"}

Pieces(s) == {SubSeq(s, i, j) : i \in 1..Len(s), j \in 0..Len(s)}
Images == UNION {Pieces(FlattenSeq(MCQueue[i].data)) : i \in {2, 5}}
MCMessages == {<<MCQueue[i].cmd>> : i \in DOMAIN MCQueue} \cup (Images \ {<<>>})
MCData == MCMessages \cup Pieces(MCStaged)
            \cup {<<<<w, n>>>> : w \in {"INFO", "OKAY", "FAIL", "DATA", "HUH?"}, n \in 0..5}
=============================================================================
