------------------------------- MODULE MCApi -------------------------------
(***************************************************************************)
(* An instance of Api for TLC.                                             *)
(***************************************************************************)
EXTENDS Api

CONSTANTS s1, p1, bad

MCProducts ==
    [p \in Requests \cup {p1} |->
        IF p = p1 THEN [supplier |-> s1, stock |-> 2] ELSE None]

MCImages == [i \in Requests |-> None]

On(kind) == [kind |-> kind, product |-> p1]

(* Reads, one of them with an id that is no UUID.                          *)
FewOps == {On("getProduct"), [kind |-> "listProducts"], [kind |-> "getProduct", product |-> bad]}

=============================================================================
