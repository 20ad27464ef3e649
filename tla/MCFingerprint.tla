--------------------------- MODULE MCFingerprint ---------------------------
(***************************************************************************)
(* Two files: the service has merged two identifiers of one of them, and   *)
(* gives the other one that does not fit an int.                           *)
(***************************************************************************)
EXTENDS FingerprintSession, TLC

CONSTANTS f1, f2

MCServiceId == f1 :> {1, 2} @@ f2 :> {5}
MCSymmetry  == Permutations(Procs) \cup Permutations(Objects)
=============================================================================
