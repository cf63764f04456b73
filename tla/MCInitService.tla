---------------------------- MODULE MCInitService ----------------------------
(***************************************************************************)
(* Instances of InitService: a daemon and an exec service; and a daemon    *)
(* whose death restarts another service (as zygote restarts media) that is *)
(* both disabled and oneshot.                                              *)
(***************************************************************************)
EXTENDS InitService

CONSTANTS zygote, media, task

MCService == {zygote, media, task}
MCOnRestart == [s \in Service |-> IF s = zygote THEN {media} ELSE {}]
MCNone == [s \in Service |-> {}]

\* one daemon and one exec service
MCPair == {zygote, task}

=============================================================================
