--------------------------- MODULE MCTwinIdentity ---------------------------
(* Small instances of the identity gate for TLC. *)
EXTENDS TwinIdentity, TLC

\* Every fingerprint is of an activity of its own.
OwnActivity(c) == c

\* Coarse fingerprints and digests are interchangeable.
Symmetry == Permutations(Coarse \ Launchers) \cup Permutations(Digest)
=============================================================================
