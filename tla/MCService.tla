----------------------------- MODULE MCService -----------------------------
(***************************************************************************)
(* An instance of Service for TLC.                                         *)
(***************************************************************************)
EXTENDS Service, TLC

CONSTANTS s1, p1, c1

MCProducts ==
    [p \in Requests \cup {p1} |->
        IF p = p1 THEN [supplier |-> s1, stock |-> 2] ELSE None]

MCImages == [i \in Requests |-> None]

Take(n) == [kind |-> "decreaseStock", product |-> p1, quantity |-> n]
On(kind) == [kind |-> kind, product |-> p1]

(* Decreases with a key, a malformed one among them, next to requests      *)
(* without a key for the same product.                                     *)
MCOps == {Take(0), Take(1), On("createImage"), On("deleteProduct")}

Symmetry == Permutations(Requests) \cup Permutations(Keys)

=============================================================================
