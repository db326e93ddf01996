-------------------------- MODULE MCIdempotency --------------------------
(***************************************************************************)
(* Instances of Idempotency for TLC.                                       *)
(***************************************************************************)
EXTENDS Idempotency, TLC

(* Requests carry their tokens, keys and fingerprints are opaque: each set *)
(* is interchangeable (used in runs without liveness only).                *)
Symmetry ==
    Permutations(Requests) \cup Permutations(Keys) \cup Permutations(Fingerprints)

=============================================================================
