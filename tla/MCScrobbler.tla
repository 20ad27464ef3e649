----------------------------- MODULE MCScrobbler -----------------------------
(* Scrobbler with Track objects that TLC may exchange for one another.        *)
EXTENDS Scrobbler, TLC

ObjectSymmetry == Permutations(Objects)

=============================================================================
