------------------------- MODULE TransactionsProofs -------------------------
(***************************************************************************)
(* What the rules for row locks preserve, whatever the transactions do     *)
(* with them and whatever the rows are.                                    *)
(***************************************************************************)
EXTENDS Integers, Transactions, FiniteSetTheorems, TLAPS

LocksOn(Row) == [Requests -> SUBSET (Row \X Modes)]

(* No two transactions hold conflicting locks on a row.                    *)
LocksExclude ==
    \A r, q \in Requests : \A lock \in held[r] :
        r # q /\ lock[2] = "update" =>
            \A mode \in Modes : <<lock[1], mode>> \notin held[q]

(* A lock that waits for the conflicting ones keeps LocksExclude.          *)
LEMMA LockKeepsExclusion ==
    ASSUME NEW Row, held \in LocksOn(Row), LocksExclude,
           NEW r \in Requests, NEW row \in Row, NEW mode \in Modes,
           Lock(r, row, mode)
    PROVE  LocksExclude' /\ held' \in LocksOn(Row)
<1>1. held' \in LocksOn(Row)
  BY DEF Lock, LocksOn
<1>2. ASSUME NEW p \in Requests, NEW q \in Requests, NEW lock \in held'[p],
             p # q, lock[2] = "update", NEW m \in Modes, <<lock[1], m>> \in held'[q]
      PROVE  FALSE
  <2>1. lock = <<lock[1], "update">>
    BY <1>1, <1>2 DEF LocksOn
  <2>2. CASE p # r /\ q # r
    BY <1>2, <2>2 DEF Lock, LocksExclude, LocksOn
  <2>3. CASE p = r
    <3>1. held'[q] = held[q]
      BY <1>2, <2>3 DEF Lock, LocksOn
    <3>2. CASE lock \in held[r]
      BY <1>2, <2>3, <3>1, <3>2 DEF LocksExclude
    <3>3. CASE lock = <<row, mode>>
      BY <1>2, <2>1, <2>3, <3>1, <3>3 DEF Lock, Lockable, Keeps, Modes
    <3> QED
      BY <1>2, <2>3, <3>2, <3>3 DEF Lock, LocksOn
  <2>4. CASE q = r
    <3>1. held'[p] = held[p]
      BY <1>2, <2>4 DEF Lock, LocksOn
    <3>2. CASE <<lock[1], m>> \in held[r]
      BY <1>2, <2>4, <3>1, <3>2 DEF LocksExclude
    <3>3. CASE <<lock[1], m>> = <<row, mode>>
      BY <1>2, <2>1, <2>4, <3>1, <3>3 DEF Lock, Lockable, Keeps
    <3> QED
      BY <1>2, <2>4, <3>2, <3>3 DEF Lock, LocksOn
  <2> QED
    BY <2>2, <2>3, <2>4
<1> QED
  BY <1>1, <1>2 DEF LocksExclude

(* So does the release of all of a transaction's locks.                    *)
LEMMA UnlockKeepsExclusion ==
    ASSUME NEW Row, held \in LocksOn(Row), LocksExclude,
           NEW r \in Requests, Unlock(r)
    PROVE  LocksExclude' /\ held' \in LocksOn(Row)
BY DEF Unlock, LocksOn, LocksExclude

(* Requests that are not over do not all wait for connections of one       *)
(* another: those who have a connection do not wait for one.               *)
LEMMA ConnectedGoOn ==
    ASSUME NEW S \in SUBSET (Requests \ Finished), S # {},
           \A r \in S : WaitsOn(r, {}, S \cup Finished)
    PROVE  FALSE
<1>1. \A r \in S : pc[r] = "queued"
  BY DEF WaitsOn
<1>2. ~ConnectionFree /\ \A q \in Requests : Connected(q) => q \in S \cup Finished
  BY DEF WaitsOn
<1>3. {q \in Requests : Connected(q)} = {}
  BY <1>1, <1>2 DEF Connected, Finished, Ended
<1> QED
  BY <1>2, <1>3, FS_EmptySet, PoolAssumption DEF ConnectionFree

(* Who need not wait for anybody can have every lock that it may come to   *)
(* need, and is not stopped.                                               *)
LEMMA Waiting ==
    ASSUME NEW r \in Requests, NEW awaited, ~WaitsOn(r, awaited, Requests)
    PROVE  /\ \A lock \in awaited : Lockable(r, lock[1], lock[2])
           /\ ~Stopped(r, awaited)
BY DEF WaitsOn, Lockable, Stopped

(* Who is not stopped, and needs one lock, can have it.                    *)
LEMMA Free ==
    ASSUME NEW r \in Requests, NEW awaited, ~Stopped(r, awaited),
           NEW row, NEW mode, awaited = {<<row, mode>>}
    PROVE  Lockable(r, row, mode)
<1> DEFINE lock == <<row, mode>>
<1>1. Lockable(r, lock[1], lock[2])
  BY DEF Stopped
<1> QED
  BY <1>1

-----------------------------------------------------------------------------
(* How many steps are left to a transaction at most.                       *)
Left(stage) ==
    CASE stage = "queued" -> 6
      [] stage = "begun" -> 5
      [] stage \in {"checked", "addressed", "locked"} -> 4
      [] stage \in {"categorised", "disowned"} -> 3
      [] stage \in {"ready", "refusing"} -> 2
      [] stage \in {"abandoned", "inDoubt"} -> 1
      [] OTHER -> 0

(* The steps that are left to all of them.                                 *)
Ahead == {step \in Requests \X (1..6) : step[2] <= Left(pc[step[1]])}

Onward == Cardinality(Ahead') < Cardinality(Ahead)

(* There are at most six stages ahead.                                     *)
LEMMA LeftIsNat == \A stage : Left(stage) \in 0..6
BY DEF Left

(* An interval is finite.                                                  *)
LEMMA UpToFinite == ASSUME NEW n \in Nat PROVE IsFiniteSet(1..n)
<1>1. IsFiniteSet(1..n) /\ Cardinality(1..n) = IF 1 > n THEN 0 ELSE n - 1 + 1
  BY FS_Interval
<1> QED
  BY <1>1

(* Who moves to a stage with fewer steps left has made one of them.        *)
LEMMA OneStepLess ==
    ASSUME IsFiniteSet(Requests), NEW r \in Requests, NEW to,
           pc' = [pc EXCEPT ![r] = to], pc = [q \in Requests |-> pc[q]],
           Left(to) < Left(pc[r])
    PROVE  Onward
<1>1. \A stage : Left(stage) \in 0..6
  BY LeftIsNat
<1>2. IsFiniteSet(Requests \X (1..6))
  BY UpToFinite, FS_Product
<1>3. Ahead \in SUBSET (Requests \X (1..6))
  BY DEF Ahead
<1>4. IsFiniteSet(Ahead)
  BY <1>2, <1>3, FS_Subset
<1>5. pc'[r] = to /\ \A q \in Requests \ {r} : pc'[q] = pc[q]
  OBVIOUS
<1>6. Ahead' \subseteq Ahead
  BY <1>1, <1>5 DEF Ahead
<1>7. <<r, Left(pc[r])>> \in Ahead
  BY <1>1 DEF Ahead
<1>8. <<r, Left(pc[r])>> \notin Ahead'
  BY <1>1, <1>5 DEF Ahead
<1> QED
  BY <1>4, <1>6, <1>7, <1>8, FS_Subset, FS_CardinalityType DEF Onward

=============================================================================
