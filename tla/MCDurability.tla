--------------------------- MODULE MCDurability ---------------------------
(***************************************************************************)
(* Instances of Durability for TLC.                                        *)
(***************************************************************************)
EXTENDS Durability, TLC

(* As in MCIdempotency, requests and fingerprints are interchangeable.     *)
Symmetry == Permutations(Requests) \cup Permutations(Fingerprints)

=============================================================================
