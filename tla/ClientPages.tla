---------------------------- MODULE ClientPages ----------------------------
(***************************************************************************)
(* GET /api/v1/clients with limit and offset, by a caller that walks       *)
(* through the pages until one is not full, while other requests create    *)
(* and delete clients.  Every page is a query of its own, whose rows are   *)
(* ordered by an id that is random, so that a new client may come to stand *)
(* anywhere.                                                               *)
(* (api-service/internal/handlers/client.go: getAll, parseClientFilter;    *)
(* api-service/internal/repositories/client.go: List)                      *)
(***************************************************************************)
EXTENDS Integers, Sequences, FiniteSets

CONSTANTS
    Ids,        \* ids a client may have, in the order of ORDER BY
    Seed,       \* clients at the start
    NameOf,     \* NameOf[i]: name and surname of the client with id i
    Asked,      \* the queries the walk may start with
    MaxInt32,   \* greatest limit and offset
    Text,       \* a parameter that is no text and no number
    None        \* an absent limit

ASSUME IdsAssumption ==
    /\ Ids \subseteq Nat /\ Seed \subseteq Ids /\ IsFiniteSet(Ids)
    /\ MaxInt32 \in Nat

VARIABLES
    clients,    \* committed rows of clients
    query,      \* the parameters of the next request, each a list of values
    seen,       \* seen[i]: how many pages had the client with id i
    walk,       \* "on", or how the walk ended
    come, gone  \* clients created and deleted since the walk began (history)

vars == <<clients, query, seen, walk, come, gone>>

Init ==
    /\ clients = Seed
    /\ query \in Asked
    /\ seen = [i \in Ids |-> 0]
    /\ walk = "on"
    /\ come = {}
    /\ gone = {}

-----------------------------------------------------------------------------
(* parseOptionalInt: absent, or one number between minimum and MaxInt32.   *)
ValidOptionalInt(values, minimum) ==
    \/ values = <<>>
    \/ Len(values) = 1 /\ values[1] # Text /\ values[1] \in minimum..MaxInt32

(* parseClientFilter: name and surname come together or not at all.        *)
ValidFilter(q) ==
    /\ (q.name = <<>>) = (q.surname = <<>>)
    /\ q.name # <<>> =>
        /\ Len(q.name) = 1 /\ q.name[1] # Text
        /\ Len(q.surname) = 1 /\ q.surname[1] # Text
    /\ ValidOptionalInt(q.limit, 1)
    /\ ValidOptionalInt(q.offset, 0)

Limit(q) == IF q.limit = <<>> THEN None ELSE q.limit[1]

Offset(q) == IF q.offset = <<>> THEN 0 ELSE q.offset[1]

Params == {"name", "surname", "limit", "offset"}

\* A walk that is not refused starts at the first page.
ASSUME AskedAssumption ==
    \A q \in Asked :
        /\ q = [p \in Params |-> q[p]]
        /\ ValidFilter(q) => Offset(q) = 0

(* The WHERE clause.                                                       *)
Matches(i, q) ==
    q.name # <<>> => q.name = <<NameOf[i].name>> /\ q.surname = <<NameOf[i].surname>>

Listed(q) == {i \in clients : Matches(i, q)}

(* Where id i stands in the listing of the ids S.                          *)
Rank(i, S) == Cardinality({j \in S : j <= i})

(* Mutant: the page is cut out of the table and filtered afterwards.       *)
PageThenFilter(q) ==
    {i \in Listed(q) :
        /\ Rank(i, clients) > Offset(q)
        /\ Limit(q) # None => Rank(i, clients) <= Offset(q) + Limit(q)}

(* Mutant: OFFSET counts from one.                                         *)
PageFromOne(q) ==
    {i \in Listed(q) :
        /\ Rank(i, Listed(q)) >= Offset(q)
        /\ Limit(q) # None => Rank(i, Listed(q)) <= Offset(q) + Limit(q)}

(* ORDER BY c.id LIMIT $3 OFFSET $4.                                       *)
Page(q) ==
    {i \in Listed(q) :
        /\ Rank(i, Listed(q)) > Offset(q)
        /\ Limit(q) # None => Rank(i, Listed(q)) <= Offset(q) + Limit(q)}

(* clientHandler.getAll: 400, which ends the walk, or the page.            *)
GetAll ==
    /\ walk = "on"
    /\ IF ~ValidFilter(query)
       THEN walk' = "refused" /\ UNCHANGED <<query, seen>>
       ELSE /\ seen' = [i \in Ids |-> seen[i] + IF i \in Page(query) THEN 1 ELSE 0]
            /\ IF Limit(query) # None /\ Cardinality(Page(query)) = Limit(query)
               THEN /\ query' = [query EXCEPT !.offset = <<Offset(query) + Limit(query)>>]
                    /\ UNCHANGED walk
               ELSE walk' = "ended" /\ UNCHANGED query
    /\ UNCHANGED <<clients, come, gone>>

(* Another request's client is committed, with an id nobody has had.       *)
Create(i) ==
    /\ walk = "on"
    /\ i \notin Seed \cup come
    /\ clients' = clients \cup {i}
    /\ come' = come \cup {i}
    /\ UNCHANGED <<query, seen, walk, gone>>

Delete(i) ==
    /\ walk = "on"
    /\ i \in clients
    /\ clients' = clients \ {i}
    /\ gone' = gone \cup {i}
    /\ UNCHANGED <<query, seen, walk, come>>

Next == GetAll \/ \E i \in Ids : Create(i) \/ Delete(i)

Spec == Init /\ [][Next]_vars

-----------------------------------------------------------------------------
Matching(S) == {i \in S : Matches(i, query)}

(* The clients of the listing that were there from the first page to the   *)
(* last.                                                                   *)
Stayed == Matching(Seed \ gone)

(* A walk that reaches the end misses no more of the clients that were     *)
(* there all along than clients of the listing were deleted under way: a   *)
(* deletion before the offset moves one client over a page's edge, and     *)
(* creations never hide one.                                               *)
MissedAreDeletions ==
    walk = "ended" =>
        Cardinality({i \in Stayed : seen[i] = 0}) <= Cardinality(Matching(gone))

(* The second and later times a client was shown.                          *)
Again == UNION {{i} \X (2..seen[i]) : i \in Ids}

(* At any time, clients have been shown again no more often than clients   *)
(* of the listing were created: a creation before the offset pushes one    *)
(* back over a page's edge, and deletions never show one twice.            *)
RepeatsAreCreations == Cardinality(Again) <= Cardinality(Matching(come))

=============================================================================
