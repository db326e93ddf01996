---------------------------- MODULE Durability ----------------------------
(***************************************************************************)
(* The idempotency layer over a Redis that crashes.  Redis keeps its       *)
(* records in memory and appends every change to a file that is synced     *)
(* once a second (src/docker-compose.yaml: --appendonly yes, the default   *)
(* policy); after a crash it is restarted from what the file has.  The     *)
(* deadlines in the file are absolute: they pass while Redis is down.      *)
(***************************************************************************)
EXTENDS Idempotency

VARIABLES
    disk,       \* disk[k]: the record under key k in the synced file, or None
    lapsed      \* the keys whose record was lost, or left unanswered at the
                \* end of its lease (history variable, read by no action)

durableVars == <<vars, disk, lapsed>>

DurableTypeOK ==
    /\ TypeOK
    /\ disk \in [Keys -> Record \cup {None}]
    /\ lapsed \in SUBSET Keys

DurableInit == Init /\ disk = redis /\ lapsed = {}

(* A record that does not see the next instant, or sees it with its lease  *)
(* over and no answer.                                                     *)
Lapses(r) ==
    /\ r # None
    /\ \/ Age(r) = None
       \/ Age(r).answer = None /\ Age(r).lease = 0

TimePasses ==
    /\ Tick
    /\ disk' = [k \in Keys |-> Age(disk[k])]
    /\ lapsed' = lapsed \cup {k \in Keys : Lapses(redis[k])}

(* The changes since the last time reach the file.                         *)
Sync ==
    /\ disk' = redis
    /\ UNCHANGED <<vars, lapsed>>

(* Redis crashes and comes back with what the file has: it breaks its word *)
(* about every record that differs.                                        *)
Crash ==
    /\ redis # disk
    /\ redis' = disk
    /\ promise' = [p \in Requests |->
                    IF disk[call[p].key] = Held(p) THEN promise[p] ELSE 0]
    /\ lapsed' = lapsed \cup {k \in Keys : disk[k] # redis[k]}
    /\ UNCHANGED <<call, pc, resp, effects, disk>>

DurableNext ==
    \/ \E p \in Requests : Step(p) /\ UNCHANGED <<disk, lapsed>>
    \/ TimePasses
    \/ Sync
    \/ Crash

DurableSpec == DurableInit /\ [][DurableNext]_durableVars

-----------------------------------------------------------------------------
(* An answer that has reached the file is safe: no crash, retry or stale   *)
(* owner displaces it before its time to live is over.                     *)
SyncedAnswersSurvive ==
    \A k \in Keys :
        disk[k] # None /\ disk[k].answer # None => redis[k] = disk[k]

(* The handler of request p has been started.                              *)
Started(p) ==
    \/ pc[p] \in {"running", "cut"}
    \/ resp[p] # None /\ resp[p].by = p

(* What is true of NeverExecutedTwice: at most one handler is ever started *)
(* for a key whose record has neither been lost (by expiry or by a crash)  *)
(* nor been left unanswered at the end of its lease.  Neither lost replies *)
(* nor late scripts, dead owners or failed completions make it two.        *)
OneStartUnlessLapsed ==
    \A p, q \in Requests :
        Started(p) /\ Started(q) /\ call[p].key = call[q].key =>
            p = q \/ call[p].key \in lapsed

=============================================================================
