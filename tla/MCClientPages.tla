--------------------------- MODULE MCClientPages ---------------------------
(***************************************************************************)
(* Instances of ClientPages for TLC.                                       *)
(***************************************************************************)
EXTENDS ClientPages

CONSTANTS n1, n2, s1

MCIds == 1..7

(* Clients of two names; the second stands between the others.             *)
MCSeed == {2, 3, 4, 6}

MCNameOf == [i \in MCIds |-> [name |-> IF i \in {3, 7} THEN n2 ELSE n1, surname |-> s1]]

Names == {<<>>, <<n1>>, <<Text>>, <<n1, n2>>}

(* Filters, limits and offsets that are absent, valid or not; the walk may *)
(* start anywhere the offset lets it, which is at the beginning unless the *)
(* offset is refused.                                                      *)
MCAsked ==
    [name: Names, surname: {<<>>, <<s1>>},
     limit: {<<>>, <<0>>, <<1>>, <<2>>, <<Text>>, <<1, 2>>},
     offset: {<<>>, <<0>>, <<-1>>, <<MaxInt32 + 1>>, <<Text>>}]

=============================================================================
