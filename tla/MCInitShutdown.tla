--------------------------- MODULE MCInitShutdown ---------------------------
(***************************************************************************)
(* An instance of InitShutdown: vold, which is critical for the shutdown   *)
(* and spared, and zygote, which is killed.  The onrestart commands of     *)
(* vold restart zygote.                                                    *)
(***************************************************************************)
EXTENDS InitShutdown

CONSTANTS zygote, vold

MCNone == [s \in Service |-> {}]
MCOnRestart == [s \in Service |-> IF s = vold THEN {zygote} ELSE {}]

=============================================================================
