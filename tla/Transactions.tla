--------------------------- MODULE Transactions ---------------------------
(***************************************************************************)
(* What the repositories take from pgxpool and PostgreSQL: connections of  *)
(* a bounded pool (api-service/internal/database/postgres.go), row locks   *)
(* that are held until the transaction ends, and connections that break.   *)
(*                                                                         *)
(* A module that extends this one has an action per statement: a statement *)
(* is atomic, sees what is committed, and waits for the locks it needs.    *)
(***************************************************************************)
EXTENDS Naturals, FiniteSets

CONSTANTS
    Requests,   \* requests, each with one transaction or one statement
    MaxConns    \* size of the connection pool

\* config.loadDatabasePool refuses a DB_MAX_CONNS below one.
ASSUME PoolAssumption == MaxConns \in Nat \ {0}

VARIABLES
    pc,         \* pc[r]: where r's transaction is
    held        \* held[r]: the row locks of r's transaction, as <<row, mode>>

Modes == {"update", "share"}

(* Places where a transaction is over, or the client has lost it: then the *)
(* server may have it yet, with COMMIT, if that was sent, or without.      *)
Ended == {"done", "abandoned", "inDoubt"}

Goto(r, from, to) == pc[r] = from /\ pc' = [pc EXCEPT ![r] = to]

Connected(r) == pc[r] \notin {"queued"} \cup Ended

ConnectionFree == Cardinality({r \in Requests : Connected(r)}) < MaxConns

(* FOR UPDATE excludes every other lock on the row, FOR KEY SHARE only     *)
(* FOR UPDATE.                                                             *)
Keeps(q, row, mode) ==
    <<row, "update">> \in held[q] \/ (mode = "update" /\ <<row, "share">> \in held[q])

Lockable(r, row, mode) == \A q \in Requests \ {r} : ~Keeps(q, row, mode)

Lock(r, row, mode) ==
    /\ Lockable(r, row, mode)
    /\ held' = [held EXCEPT ![r] = @ \cup {<<row, mode>>}]

Unlock(r) == held' = [held EXCEPT ![r] = {}]

(* r's context is done or its connection breaks.  If sent, the server may  *)
(* have all it needs to carry r out.                                       *)
Break(r, sent) ==
    /\ pc[r] \notin Ended
    /\ pc' = [pc EXCEPT ![r] = IF @ = "queued" THEN "done"
                               ELSE IF sent THEN "inDoubt" ELSE "abandoned"]

Finished == {r \in Requests : pc[r] = "done"}

(* A statement of r takes one of the locks that it awaits, whichever row   *)
(* it comes upon first.                                                    *)

(* r cannot go on, whichever row it comes upon.                            *)
Stopped(r, awaited) ==
    \/ awaited # {} /\ \A lock \in awaited : ~Lockable(r, lock[1], lock[2])
    \/ pc[r] = "queued" /\ ~ConnectionFree

(* r may have to wait for requests of S: they keep a row it may come upon  *)
(* first, or have all the connections.                                     *)
WaitsOn(r, awaited, S) ==
    \/ \E lock \in awaited : \E q \in S \ {r} : Keeps(q, lock[1], lock[2])
    \/ /\ pc[r] = "queued"
       /\ ~ConnectionFree
       /\ \A q \in Requests : Connected(q) => q \in S

=============================================================================
