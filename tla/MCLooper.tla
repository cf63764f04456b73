------------------------------ MODULE MCLooper ------------------------------
(***************************************************************************)
(* A behaviour uses messages or descriptors, not both: the two halves of   *)
(* the loop share the wake-up, the lock and the position in pollInner, all *)
(* of which each half exercises, and their product is out of TLC's reach.  *)
(***************************************************************************)
EXTENDS Looper

Delays == {0, 1}
Timeouts == {-1, 0, 1}

MessagesOnly == unopened' = File /\ mNextRequestSeq' = 0
DescriptorsOnly == sent' = 0 /\ now' = 0 /\ (deadline' = Never \/ pc' = "idle")

MCNext == Next /\ (MessagesOnly \/ DescriptorsOnly)

\* The fairness of FairSpec; the clock only runs where there are messages
MCSpec ==
    /\ Init /\ [][MCNext]_vars
    /\ WF_vars(Poll) /\ SF_vars(epoll_wait)
    /\ WF_vars(Tick /\ MessagesOnly)
    /\ \A t \in Thread : WF_vars(wake(t))
=============================================================================
