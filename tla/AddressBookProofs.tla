------------------------- MODULE AddressBookProofs -------------------------
(***************************************************************************)
(* Theorems about AddressBook, for any requests, owners and addresses:     *)
(* owners and addresses live and die together, and the two tables are one  *)
(* directory.                                                              *)
(***************************************************************************)
EXTENDS AddressBook, TransactionsProofs

(* Stages in which only the COMMIT is left.                                *)
Ready == {"ready", "inDoubt"}

(* What the transactions have written, stage by stage, and what the lock   *)
(* of a deletion keeps others from changing.                               *)

CreationBacked(r) ==
    op[r].kind = "create" =>
        /\ pc[r] \in {"queued", "begun"} => wrote[r] = {}
        /\ pc[r] = "addressed" => wrote[r] = {"insertAddress"}
        /\ pc[r] \in Ready => wrote[r] = {"insertAddress", "insertOwner"}
        /\ r \in owners => pc[r] = "done"

DeletionBacked(r) ==
    op[r].kind = "delete" =>
        /\ pc[r] \in {"queued", "begun", "locked"} => wrote[r] = {}
        /\ pc[r] = "disowned" => wrote[r] = {"deleteOwner"}
        /\ pc[r] \in Ready => wrote[r] = {"deleteOwner", "deleteAddress"}
        /\ pc[r] \in {"locked", "disowned"} \cup Ready =>
              /\ <<<<"owner", op[r].owner>>, "update">> \in held[r]
              /\ op[r].owner \in owners
        /\ pc[r] \in {"disowned"} \cup Ready => op[r].owner \notin InUse

StatementBacked(r) ==
    op[r].kind \in SingleStatement => wrote[r] = {} /\ pc[r] # "ready"

Backed(r) == CreationBacked(r) /\ DeletionBacked(r) /\ StatementBacked(r)

(* A request that is still under way has been told nothing and has had no  *)
(* effect; one whose COMMIT is in doubt has been told of an error.         *)
Told(r) ==
    /\ pc[r] \notin Ended \cup {"refusing"} =>
          outcome[r] = None /\ shown[r] = {} /\ r \notin applied
    /\ pc[r] = "inDoubt" => outcome[r] = "error" /\ r \notin applied

Inv ==
    /\ TypeOK
    /\ LocksExclude
    /\ NoOrphans
    /\ \A r \in Requests : Backed(r) /\ Told(r)

-----------------------------------------------------------------------------
(* The operands of each operation are what their names say.                *)
LEMMA Operands ==
    ASSUME NEW r \in Requests, TypeOK
    PROVE  /\ op[r].kind \in {"create", "delete"} \cup SingleStatement
           /\ op[r].kind \in {"create", "update"} => op[r].address \in Addresses
           /\ op[r].kind \in {"delete", "read", "update"} => op[r].owner \in Owners
<1>1. op[r] \in Ops
  BY AskedAssumption DEF TypeOK
<1> QED
  BY <1>1 DEF Ops, SingleStatement

(* A row without an address is not taken for one.                          *)
LEMMA NoneIsNoAddress == None \notin Addresses
BY NoneAssumption

(* Invariant of the seed rows, of which every owner has an address.        *)
LEMMA InitInv == Init => Inv
<1> SUFFICES ASSUME Init PROVE Inv
  OBVIOUS
<1>1. TypeOK
  BY SeedAssumption DEF Init, TypeOK, Owners
<1>2. LocksExclude
  BY DEF Init, LocksExclude
<1>3. NoOrphans
  BY SeedAssumption, NoneIsNoAddress DEF Init, NoOrphans
<1>4. ASSUME NEW r \in Requests PROVE Backed(r) /\ Told(r)
  BY SeedAssumption DEF Init, Backed, CreationBacked, DeletionBacked, StatementBacked,
                        SingleStatement, Ready, Told, Ended
<1> QED
  BY <1>1, <1>2, <1>3, <1>4 DEF Inv

-----------------------------------------------------------------------------
(* Steps that leave the tables alone: all but commits and updates.         *)

Alone(r) ==
    \A q \in Requests \ {r} :
        /\ pc'[q] = pc[q] /\ held'[q] = held[q] /\ wrote'[q] = wrote[q]
        /\ outcome'[q] = outcome[q] /\ shown'[q] = shown[q]
        /\ q \in applied' <=> q \in applied

(* A quiet step of r keeps the invariant once it has kept what r itself    *)
(* holds, has written and has been told.                                   *)
LEMMA QuietStep ==
    ASSUME Inv, NEW r \in Requests, UNCHANGED <<data, op>>, Alone(r),
           TypeOK', LocksExclude', Backed(r)', Told(r)'
    PROVE  Inv'
<1>1. NoOrphans'
  BY DEF Inv, NoOrphans, data
<1>2. ASSUME NEW q \in Requests \ {r} PROVE Backed(q)' /\ Told(q)'
  <2>1. Backed(q) /\ Told(q)
    BY DEF Inv
  <2>2. /\ pc'[q] = pc[q] /\ held'[q] = held[q] /\ wrote'[q] = wrote[q]
        /\ outcome'[q] = outcome[q] /\ shown'[q] = shown[q]
        /\ q \in applied' <=> q \in applied
        /\ owners' = owners /\ op' = op
    BY DEF Alone, data
  <2>3. CreationBacked(q)'
    BY <2>1, <2>2 DEF Backed, CreationBacked
  <2>4. DeletionBacked(q)'
    BY <2>1, <2>2 DEF Backed, DeletionBacked
  <2>5. StatementBacked(q)'
    BY <2>1, <2>2 DEF Backed, StatementBacked
  <2>6. Told(q)'
    BY <2>1, <2>2 DEF Told
  <2>. QED
    BY <2>3, <2>4, <2>5, <2>6 DEF Backed
<1> QED
  BY <1>1, <1>2 DEF Inv

(* Steps that touch no lock.                                               *)
LEMMA LocklessInv ==
    ASSUME Inv, NEW r \in Requests,
           \/ Begin(r) \/ InsertAddress(r) \/ InsertOwner(r) \/ DeleteOwner(r)
           \/ Read(r) \/ List(r)
    PROVE  Inv'
<1> USE DEF Begin, InsertAddress, InsertOwner, DeleteOwner, Read, List, Write, Goto
<1>1. TypeOK'
  <2>1. shown' \in [Requests -> SUBSET (Owners \X Addresses)]
    <3>1. ASSUME NEW o \in Owners, Joined(o) PROVE <<o, addresses[o]>> \in Owners \X Addresses
      BY <3>1 DEF Inv, TypeOK, Joined
    <3> QED
      BY <3>1, Operands DEF Inv, TypeOK
  <2> QED
    BY <2>1 DEF Inv, TypeOK, data, Stages, Writes, Ended
<1>2. LocksExclude'
  BY DEF Inv, LocksExclude
<1>3. Backed(r)'
  <2>1. Backed(r) /\ pc \in [Requests -> {"queued"} \cup Stages \cup Ended]
        /\ wrote \in [Requests -> SUBSET Writes]
    BY DEF Inv, TypeOK
  <2>2. owners' = owners /\ op' = op /\ held' = held
    BY DEF data
  <2>3. CreationBacked(r)'
    BY <2>1, <2>2 DEF Backed, CreationBacked, Ready, SingleStatement
  <2>4. DeletionBacked(r)'
    BY <2>1, <2>2 DEF Backed, DeletionBacked, Ready, SingleStatement
  <2>5. StatementBacked(r)'
    BY <2>1, <2>2 DEF Backed, StatementBacked, SingleStatement
  <2>. QED
    BY <2>3, <2>4, <2>5 DEF Backed
<1>4. Told(r)'
  BY DEF Inv, TypeOK, Told, Ended
<1>5. Alone(r)
  BY DEF Inv, TypeOK, Alone
<1> QED
  BY <1>1, <1>2, <1>3, <1>4, <1>5, QuietStep

(* A deletion that has locked its owner has found it in the table.         *)
LEMMA LockOwnerInv == ASSUME Inv, NEW r \in Requests, LockOwner(r) PROVE Inv'
<1> USE DEF LockOwner, Goto
<1>1. LocksExclude' /\ held' \in LocksOn(Rows)
  <2>1. CASE op[r].owner \in owners
    <3>1. <<"owner", op[r].owner>> \in Rows
      BY Operands DEF Inv, Rows
    <3> QED
      BY <2>1, <3>1, LockKeepsExclusion DEF Inv, TypeOK, LocksOn, Modes
  <2>2. CASE op[r].owner \notin owners
    BY <2>2 DEF Inv, TypeOK, LocksOn, LocksExclude
  <2> QED
    BY <2>1, <2>2
<1>2. TypeOK'
  BY <1>1 DEF Inv, TypeOK, data, Stages, LocksOn
<1>3. Backed(r)'
  BY DEF Inv, TypeOK, Backed, CreationBacked, DeletionBacked, StatementBacked, Ready, data,
         SingleStatement, Lock
<1>4. Told(r)'
  BY DEF Inv, TypeOK, Told, Ended
<1>5. Alone(r)
  BY DEF Inv, TypeOK, Alone, Lock
<1> QED
  BY <1>1, <1>2, <1>3, <1>4, <1>5, QuietStep

(* The second write of a deletion takes the lock of the address and keeps  *)
(* that of the owner.                                                      *)
LEMMA DeleteAddressInv == ASSUME Inv, NEW r \in Requests, DeleteAddress(r) PROVE Inv'
<1> USE DEF DeleteAddress, Write, Goto
<1>1. LocksExclude' /\ held' \in LocksOn(Rows)
  <2>1. <<"address", op[r].owner>> \in Rows
    BY Operands DEF Inv, Rows
  <2> QED
    BY <2>1, LockKeepsExclusion DEF Inv, TypeOK, LocksOn, Modes
<1>2. TypeOK'
  BY <1>1 DEF Inv, TypeOK, data, Stages, LocksOn, Writes
<1>3. Backed(r)'
  BY DEF Inv, TypeOK, Backed, CreationBacked, DeletionBacked, StatementBacked, Ready, data,
         SingleStatement, Lock
<1>4. Told(r)'
  BY DEF Inv, TypeOK, Told, Ended
<1>5. Alone(r)
  BY DEF Inv, TypeOK, Alone, Lock
<1> QED
  BY <1>1, <1>2, <1>3, <1>4, <1>5, QuietStep

(* The ends without effect of a transaction that may hold locks.           *)
LEMMA EndInv ==
    ASSUME Inv, NEW r \in Requests, Rollback(r) \/ ServerRollback(r)
    PROVE  Inv'
<1> USE DEF Rollback, ServerRollback, Goto
<1>1. LocksExclude' /\ held' \in LocksOn(Rows)
  BY UnlockKeepsExclusion DEF Inv, TypeOK, LocksOn
<1>2. TypeOK'
  BY <1>1 DEF Inv, TypeOK, data, Ended, LocksOn
<1>3. Backed(r)'
  <2>1. Backed(r) /\ pc'[r] = "done" /\ owners' = owners /\ op' = op /\ wrote' = wrote
    BY DEF Inv, TypeOK, data
  <2> QED
    BY <2>1 DEF Backed, CreationBacked, DeletionBacked, StatementBacked, Ready
<1>4. Told(r)'
  BY DEF Inv, TypeOK, Told, Ended
<1>5. Alone(r)
  BY DEF Inv, TypeOK, Alone, Unlock
<1> QED
  BY <1>1, <1>2, <1>3, <1>4, <1>5, QuietStep

(* A request whose context ends keeps its locks; only one that may have    *)
(* sent its COMMIT or its statement is in doubt.                           *)
LEMMA GiveUpInv == ASSUME Inv, NEW r \in Requests, GiveUp(r) PROVE Inv'
<1> USE DEF GiveUp, Break, Sent
<1>1. TypeOK'
  BY DEF Inv, TypeOK, data, Ended
<1>2. LocksExclude'
  BY DEF Inv, LocksExclude
<1>3. owners' = owners /\ op' = op /\ held' = held /\ wrote' = wrote
        /\ shown' = shown /\ applied' = applied
  BY DEF data
<1>4. Backed(r) /\ Told(r)
  BY DEF Inv
<1>5. pc[r] \notin Ended
  BY DEF Ended
<1>6. Backed(r)' /\ Told(r)'
  <2>1. CASE Sent(r)
    <3>1. pc'[r] = "inDoubt"
      BY <2>1 DEF Inv, TypeOK
    <3>2. outcome'[r] = "error" /\ r \notin applied
      BY <1>4, <2>1 DEF Inv, TypeOK, Told, Ended
    <3>3. CASE pc[r] = "ready"
      BY <1>3, <1>4, <3>1, <3>2, <3>3
         DEF Backed, CreationBacked, DeletionBacked, StatementBacked, Ready, Told, Ended
    <3>4. CASE op[r].kind \in SingleStatement
      BY <1>3, <1>4, <3>1, <3>2, <3>4
         DEF Backed, CreationBacked, DeletionBacked, StatementBacked, SingleStatement, Told,
             Ended
    <3> QED
      BY <2>1, <3>3, <3>4
  <2>2. CASE ~Sent(r)
    <3>1. pc'[r] \in {"done", "abandoned"}
      BY <2>2 DEF Inv, TypeOK
    <3>2. r \in owners /\ op[r].kind = "create" => pc'[r] = "done"
      BY <1>4, <1>5, <3>1 DEF Backed, CreationBacked, Ended
    <3> QED
      BY <1>3, <1>4, <3>1, <3>2
         DEF Backed, CreationBacked, DeletionBacked, StatementBacked, Ready, Told, Ended
  <2> QED
    BY <2>1, <2>2
<1>7. Alone(r)
  BY DEF Inv, TypeOK, Alone
<1> QED
  BY <1>1, <1>2, <1>3, <1>6, <1>7, QuietStep

(* An update that finds nobody.                                            *)
LEMMA NotFoundInv ==
    ASSUME Inv, NEW r \in Requests, UpdateAddress(r), ~Joined(op[r].owner)
    PROVE  Inv'
<1> USE DEF UpdateAddress, Goto
<1>1. TypeOK'
  BY DEF Inv, TypeOK, data, Ended
<1>2. LocksExclude'
  BY DEF Inv, LocksExclude
<1>3. Backed(r)'
  BY DEF Inv, TypeOK, Backed, CreationBacked, DeletionBacked, StatementBacked, Ready, data
<1>4. Told(r)'
  BY DEF Inv, TypeOK, Told, Ended
<1>5. Alone(r)
  BY DEF Inv, TypeOK, Alone
<1> QED
  BY <1>1, <1>2, <1>3, <1>4, <1>5, QuietStep

-----------------------------------------------------------------------------
(* Steps with an effect on the tables.                                     *)

(* r may take effect: its statements are done, or its only one can be.     *)
Grounded(r) ==
    IF op[r].kind \in SingleStatement
    THEN op[r].kind = "update" /\ Joined(op[r].owner)
    ELSE pc[r] \in Ready

(* What an effect is, operation by operation.                              *)
LEMMA EffectIs ==
    ASSUME Inv, NEW r \in Requests, Grounded(r), Effect(r)
    PROVE  \/ /\ op[r].kind = "create"
              /\ owners' = owners \cup {r}
              /\ addresses' = [addresses EXCEPT ![r] = op[r].address]
           \/ /\ op[r].kind = "delete"
              /\ op[r].owner \in owners \ InUse
              /\ <<<<"owner", op[r].owner>>, "update">> \in held[r]
              /\ owners' = owners \ {op[r].owner}
              /\ addresses' = [addresses EXCEPT ![op[r].owner] = None]
           \/ /\ op[r].kind = "update"
              /\ op[r].owner \in owners
              /\ owners' = owners
              /\ addresses' = [addresses EXCEPT ![op[r].owner] = op[r].address]
<1>1. Backed(r)
  BY DEF Inv
<1>2. CASE op[r].kind = "create"
  <2>1. wrote[r] = {"insertAddress", "insertOwner"}
    BY <1>1, <1>2 DEF Grounded, SingleStatement, Backed, CreationBacked
  <2> QED
    BY <1>2, <2>1 DEF Effect
<1>3. CASE op[r].kind = "delete"
  <2>1. wrote[r] = {"deleteOwner", "deleteAddress"}
    BY <1>1, <1>3 DEF Grounded, SingleStatement, Backed, DeletionBacked
  <2> QED
    BY <1>1, <1>3, <2>1 DEF Effect, Grounded, SingleStatement, Backed, DeletionBacked
<1>4. CASE op[r].kind = "update"
  <2>1. wrote[r] = {} /\ op[r].owner \in owners
    BY <1>1, <1>4 DEF Grounded, SingleStatement, Backed, StatementBacked, Joined
  <2> QED
    BY <1>4, <2>1 DEF Effect
<1> QED
  BY <1>2, <1>3, <1>4, Operands DEF Inv, Grounded, SingleStatement

(* What Commit, UpdateAddress and ServerCommit have in common.             *)
LEMMA EffectInv ==
    ASSUME Inv, NEW r \in Requests, Grounded(r), Effect(r), Alone(r),
           op' = op, wrote' = wrote, pc' = [pc EXCEPT ![r] = "done"],
           held' = held \/ Unlock(r),
           outcome' \in [Requests -> {"ok", "notFound", "inUse", "error", None}],
           shown' \in [Requests -> SUBSET (Owners \X Addresses)]
    PROVE  Inv'
<1>1. LocksExclude' /\ held' \in LocksOn(Rows)
  <2>1. CASE held' = held
    BY <2>1 DEF Inv, TypeOK, LocksOn, LocksExclude
  <2>2. CASE Unlock(r)
    BY <2>2, UnlockKeepsExclusion DEF Inv, TypeOK, LocksOn
  <2> QED
    BY <2>1, <2>2
<1>2. TypeOK'
  <2> TypeOK
    BY DEF Inv
  <2> r \in Owners
    BY DEF Owners
  <2>1. \/ /\ op[r].address \in Addresses
           /\ owners' = owners \cup {r}
           /\ addresses' = [addresses EXCEPT ![r] = op[r].address]
        \/ /\ owners' = owners \ {op[r].owner}
           /\ addresses' = [addresses EXCEPT ![op[r].owner] = None]
        \/ /\ op[r].address \in Addresses
           /\ owners' = owners
           /\ addresses' = [addresses EXCEPT ![op[r].owner] = op[r].address]
    BY EffectIs, Operands
  <2>2. owners \in SUBSET Owners /\ addresses \in [Owners -> Addresses \cup {None}]
    BY DEF TypeOK
  <2>3. owners' \in SUBSET Owners
    BY <2>1, <2>2
  <2>4. addresses' \in [Owners -> Addresses \cup {None}]
    BY <2>1, <2>2
  <2> QED
    BY <1>1, <2>3, <2>4 DEF Inv, TypeOK, LocksOn, Effect, Ended
<1>3. NoOrphans'
  <2> USE DEF Inv, TypeOK, NoOrphans
  <2>1. CASE op[r].kind = "create"
    <3>1. r \in Owners /\ op[r].address # None
      BY <2>1, Operands, NoneIsNoAddress DEF Owners
    <3> QED
      BY <2>1, <3>1, EffectIs
  <2>2. CASE op[r].kind = "delete"
    BY <2>2, Operands, EffectIs
  <2>3. CASE op[r].kind = "update"
    <3>1. op[r].owner \in Owners /\ op[r].address # None
      BY <2>3, Operands, NoneIsNoAddress
    <3> QED
      BY <2>3, <3>1, EffectIs
  <2> QED
    BY <2>1, <2>2, <2>3, EffectIs
<1>4. ASSUME NEW q \in Requests PROVE Told(q)'
  <2>1. CASE q = r
    BY <2>1 DEF Inv, TypeOK, Told, Ended
  <2>2. CASE q # r
    BY <2>2 DEF Inv, Told, Alone
  <2> QED
    BY <2>1, <2>2
<1>5. ASSUME NEW q \in Requests PROVE Backed(q)'
  <2>1. CASE q = r
    BY <2>1 DEF Inv, TypeOK, Backed, CreationBacked, DeletionBacked, StatementBacked, Ready
  <2>2. CASE q # r
    <3>1. /\ pc'[q] = pc[q] /\ held'[q] = held[q] /\ wrote'[q] = wrote[q]
          /\ Backed(q) /\ LocksExclude /\ op' = op
      BY <2>2 DEF Inv, Alone
    <3>2. StatementBacked(q)'
      BY <3>1 DEF Backed, StatementBacked
    <3>3. CreationBacked(q)'
      BY <2>2, <3>1, EffectIs DEF Backed, CreationBacked
    <3>4. DeletionBacked(q)'
      <4>1. ASSUME op[q].kind = "delete",
                   <<<<"owner", op[q].owner>>, "update">> \in held[q],
                   op[q].owner \in owners
            PROVE  op[q].owner \in owners'
        <5>1. CASE op[r].kind = "delete"
          <6>1. <<<<"owner", op[r].owner>>, "update">> \in held[r]
            BY <5>1, EffectIs
          <6>2. op[r].owner # op[q].owner
            BY <2>2, <3>1, <4>1, <6>1 DEF LocksExclude, Modes
          <6> QED
            BY <4>1, <5>1, <6>2, EffectIs
        <5>2. CASE op[r].kind # "delete"
          BY <4>1, <5>2, EffectIs
        <5> QED
          BY <5>1, <5>2
      <4> QED
        BY <3>1, <4>1 DEF Backed, DeletionBacked
    <3> QED
      BY <3>2, <3>3, <3>4 DEF Backed
  <2> QED
    BY <2>1, <2>2
<1> QED
  BY <1>1, <1>2, <1>3, <1>4, <1>5 DEF Inv

(* What commits, in time or late, has done all its statements.             *)
LEMMA CommitInv ==
    ASSUME Inv, NEW r \in Requests, Commit(r) \/ ServerCommit(r)
    PROVE  Inv' /\ Grounded(r)
<1>1. Grounded(r)
  BY Operands DEF Commit, ServerCommit, Goto, Grounded, Inv, Backed, StatementBacked, Ready,
                  SingleStatement
<1>2. pc' = [pc EXCEPT ![r] = "done"] /\ Alone(r)
  BY DEF Commit, ServerCommit, Goto, Effect, Unlock, Alone, Inv, TypeOK
<1>3. outcome' \in [Requests -> {"ok", "notFound", "inUse", "error", None}]
  BY DEF Commit, ServerCommit, Inv, TypeOK
<1>4. shown' \in [Requests -> SUBSET (Owners \X Addresses)]
  BY DEF Commit, ServerCommit, Inv, TypeOK
<1> QED
  BY <1>1, <1>2, <1>3, <1>4, EffectInv DEF Commit, ServerCommit

(* An update that finds the owner and its address keeps them together.     *)
LEMMA UpdatedInv ==
    ASSUME Inv, NEW r \in Requests, UpdateAddress(r), Joined(op[r].owner)
    PROVE  Inv' /\ Grounded(r)
<1>1. Grounded(r)
  BY DEF UpdateAddress, Grounded, SingleStatement
<1>2. pc' = [pc EXCEPT ![r] = "done"] /\ Alone(r)
  BY DEF UpdateAddress, Goto, Effect, Alone, Inv, TypeOK
<1>3. outcome' \in [Requests -> {"ok", "notFound", "inUse", "error", None}]
  BY DEF UpdateAddress, Inv, TypeOK
<1>4. shown' \in [Requests -> SUBSET (Owners \X Addresses)]
  BY Operands DEF UpdateAddress, Inv, TypeOK
<1> QED
  BY <1>1, <1>2, <1>3, <1>4, EffectInv DEF UpdateAddress

-----------------------------------------------------------------------------
(* Every operation keeps the invariant.                                    *)
LEMMA StepInv == Inv /\ Next => Inv'
<1> SUFFICES ASSUME Inv, NEW r \in Requests,
                    \/ Begin(r)
                    \/ InsertAddress(r) \/ InsertOwner(r)
                    \/ LockOwner(r) \/ DeleteOwner(r) \/ DeleteAddress(r)
                    \/ Commit(r) \/ Rollback(r)
                    \/ UpdateAddress(r) \/ Read(r) \/ List(r)
                    \/ GiveUp(r) \/ ServerRollback(r) \/ ServerCommit(r)
             PROVE  Inv'
  BY DEF Next, Statement
<1> QED
  BY LocklessInv, LockOwnerInv, DeleteAddressInv, EndInv, GiveUpInv, NotFoundInv,
     CommitInv, UpdatedInv

(* The inductive invariant: what a deletion has found stays true until its *)
(* end, because it holds the owner's lock that long.                       *)
THEOREM InvHolds == Spec => []Inv
<1>1. ASSUME Inv, UNCHANGED vars PROVE Inv'
  <2>1. TypeOK' /\ LocksExclude' /\ NoOrphans'
    BY <1>1 DEF vars, data, Inv, TypeOK, LocksExclude, NoOrphans
  <2>2. ASSUME NEW r \in Requests PROVE Backed(r)' /\ Told(r)'
    BY <1>1 DEF vars, data, Inv, Backed, CreationBacked, DeletionBacked, StatementBacked, Told
  <2> QED
    BY <2>1, <2>2 DEF Inv
<1> QED
  BY <1>1, InitInv, StepInv, PTL DEF Spec

(* Rows, locks and results keep their types.                               *)
THEOREM TypeCorrect == Spec => []TypeOK
BY InvHolds, PTL DEF Inv

(* No client or supplier without its address, no address without its       *)
(* owner, whatever is created, updated and deleted at the same time and    *)
(* whatever fails.                                                         *)
THEOREM Together == Spec => []NoOrphans
BY InvHolds, PTL DEF Inv

-----------------------------------------------------------------------------
(* Waiting: no set of requests waits on itself.                            *)

(* Only deletions hold locks: of the owner, and of its address once they   *)
(* wait for nothing any more.                                              *)
HoldsOnly(r) ==
    held[r] # {} =>
        /\ op[r].kind = "delete"
        /\ pc[r] \notin {"queued", "begun", "done"}
        /\ \A lock \in held[r] : lock[1][1] = "address" => pc[r] \notin {"locked", "disowned"}

AllHoldOnly == \A r \in Requests : HoldsOnly(r)

(* A step of r without a lock, from a place where it may hold the same.    *)
LEMMA SameLocks ==
    ASSUME TypeOK, AllHoldOnly, NEW r \in Requests, NEW to, op' = op, held' = held,
           pc' = [pc EXCEPT ![r] = to],
           \/ held[r] = {}
           \/ to \notin {"queued", "begun", "locked", "disowned", "done"}
           \/ to = "disowned" /\ pc[r] = "locked"
    PROVE  AllHoldOnly'
<1> SUFFICES ASSUME NEW q \in Requests PROVE HoldsOnly(q)'
  BY DEF AllHoldOnly
<1>1. HoldsOnly(q)
  BY DEF AllHoldOnly
<1>2. CASE q = r
  BY <1>1, <1>2 DEF HoldsOnly, TypeOK
<1>3. CASE q # r
  BY <1>1, <1>3 DEF HoldsOnly, TypeOK
<1> QED
  BY <1>2, <1>3

(* A step in which a deletion takes a lock that it may hold from now on.   *)
LEMMA OneMoreLock ==
    ASSUME TypeOK, AllHoldOnly, NEW r \in Requests, NEW to, NEW lock, op' = op,
           op[r].kind = "delete",
           held' = [held EXCEPT ![r] = @ \cup {lock}],
           pc' = [pc EXCEPT ![r] = to],
           \/ to = "locked" /\ held[r] = {} /\ lock[1][1] = "owner"
           \/ to = "ready"
    PROVE  AllHoldOnly'
<1> SUFFICES ASSUME NEW q \in Requests PROVE HoldsOnly(q)'
  BY DEF AllHoldOnly
<1>1. HoldsOnly(q)
  BY DEF AllHoldOnly
<1>2. CASE q = r
  <2>1. held'[r] = held[r] \cup {lock} /\ pc'[r] = to
    BY DEF TypeOK
  <2> QED
    BY <1>1, <1>2, <2>1 DEF HoldsOnly
<1>3. CASE q # r
  BY <1>1, <1>3 DEF HoldsOnly, TypeOK
<1> QED
  BY <1>2, <1>3

(* A step that ends r's transaction.                                       *)
LEMMA NoLocksLeft ==
    ASSUME TypeOK, AllHoldOnly, NEW r \in Requests, op' = op, Unlock(r),
           pc' = [pc EXCEPT ![r] = "done"]
    PROVE  AllHoldOnly'
BY DEF AllHoldOnly, HoldsOnly, TypeOK, Unlock

(* Whoever has not come to a lock yet holds none.                          *)
LEMMA NoLocksYet ==
    ASSUME AllHoldOnly, NEW r \in Requests,
           op[r].kind # "delete" \/ pc[r] \in {"queued", "begun", "done"}
    PROVE  held[r] = {}
BY DEF AllHoldOnly, HoldsOnly

(* Every step keeps to the locks that r may hold.                          *)
LEMMA AllHoldOnlyInv ==
    ASSUME TypeOK, AllHoldOnly, NEW r \in Requests,
           Begin(r) \/ Statement(r) \/ GiveUp(r) \/ ServerRollback(r) \/ ServerCommit(r)
    PROVE  AllHoldOnly'
<1> USE DEF Goto, Write
<1>1. CASE Begin(r) \/ InsertAddress(r) \/ InsertOwner(r)
  BY <1>1, SameLocks, NoLocksYet DEF Begin, InsertAddress, InsertOwner
<1>2. CASE LockOwner(r)
  <2>1. CASE op[r].owner \in owners
    BY <1>2, <2>1, OneMoreLock, NoLocksYet DEF LockOwner, Lock
  <2>2. CASE op[r].owner \notin owners
    BY <1>2, <2>2, SameLocks, NoLocksYet DEF LockOwner
  <2> QED
    BY <2>1, <2>2
<1>3. CASE DeleteOwner(r)
  BY <1>3, SameLocks DEF DeleteOwner
<1>4. CASE DeleteAddress(r)
  BY <1>4, OneMoreLock DEF DeleteAddress, Lock
<1>5. CASE UpdateAddress(r) \/ Read(r) \/ List(r)
  BY <1>5, SameLocks, NoLocksYet DEF UpdateAddress, Read, List
<1>6. CASE Commit(r) \/ Rollback(r) \/ ServerRollback(r) \/ ServerCommit(r)
  <2>1. op' = op
    BY <1>6 DEF Commit, Rollback, ServerRollback, ServerCommit
  <2> QED
    BY <1>6, <2>1, NoLocksLeft DEF Commit, Rollback, ServerRollback, ServerCommit
<1>7. CASE GiveUp(r)
  <2>1. PICK to \in {"done", "abandoned", "inDoubt"} :
            /\ pc' = [pc EXCEPT ![r] = to]
            /\ to = "done" => pc[r] = "queued"
    BY <1>7 DEF GiveUp, Break
  <2>2. op' = op /\ held' = held
    BY <1>7 DEF GiveUp
  <2> QED
    BY <2>1, <2>2, SameLocks, NoLocksYet
<1> QED
  BY <1>1, <1>2, <1>3, <1>4, <1>5, <1>6, <1>7 DEF Statement

(* Whoever keeps an address waits for nothing, so nobody waits for one in  *)
(* a set that waits on itself; whoever keeps an owner waits for no more    *)
(* than an address, so nobody waits for an owner.                          *)
LEMMA NoneWaits ==
    ASSUME TypeOK, AllHoldOnly, NEW S \in SUBSET (Requests \ Finished), S # {}
    PROVE  \E r \in S : ~WaitsOn(r, Awaited(r), S \cup Finished)
<1> SUFFICES ASSUME \A r \in S : WaitsOn(r, Awaited(r), S \cup Finished) PROVE FALSE
  OBVIOUS
<1>1. ASSUME NEW r \in S, pc[r] # "queued"
      PROVE  \E lock \in Awaited(r) : \E q \in S : Keeps(q, lock[1], lock[2])
  <2>1. PICK lock \in Awaited(r) : \E q \in S \cup Finished : Keeps(q, lock[1], lock[2])
    BY <1>1 DEF WaitsOn
  <2>2. PICK q \in S \cup Finished : Keeps(q, lock[1], lock[2])
    BY <2>1
  <2>3. q \in Requests /\ held[q] # {}
    BY <2>2 DEF Keeps, Finished
  <2>4. pc[q] # "done"
    BY <2>3 DEF AllHoldOnly, HoldsOnly
  <2> QED
    BY <2>2, <2>4 DEF Finished
<1>2. ASSUME NEW q \in S, NEW row, NEW mode, Keeps(q, row, mode)
      PROVE  /\ op[q].kind = "delete" /\ pc[q] = "disowned"
             /\ row[1] # "address"
  <2>1. PICK lock \in held[q] : lock = <<row, "update">> \/ lock = <<row, "share">>
    BY <1>2 DEF Keeps
  <2>2. HoldsOnly(q)
    BY DEF AllHoldOnly
  <2>3. op[q].kind = "delete" /\ pc[q] \notin {"queued", "begun", "done"}
    BY <2>1, <2>2 DEF HoldsOnly
  <2>4. Awaited(q) # {}
    BY <1>1, <2>3
  <2>5. pc[q] = "disowned"
    BY <2>3, <2>4 DEF Awaited
  <2>6. lock[1] = row
    BY <2>1
  <2> QED
    BY <2>2, <2>3, <2>5, <2>6 DEF HoldsOnly
<1>3. ASSUME NEW r \in S PROVE pc[r] = "queued"
  <2> SUFFICES ASSUME pc[r] # "queued" PROVE FALSE
    OBVIOUS
  <2>1. PICK lock \in Awaited(r) : \E q \in S : Keeps(q, lock[1], lock[2])
    BY <1>1
  <2>2. PICK q \in S : Keeps(q, lock[1], lock[2])
    BY <2>1
  <2>3. op[q].kind = "delete" /\ pc[q] = "disowned"
    BY <1>2, <2>2
  <2>4. PICK second \in Awaited(q) : \E other \in S : Keeps(other, second[1], second[2])
    BY <1>1, <2>3
  <2>5. second = <<<<"address", op[q].owner>>, "update">>
    BY <2>3 DEF Awaited
  <2>6. second[1][1] # "address"
    BY <1>2, <2>4
  <2> QED
    BY <2>5, <2>6
<1>4. ASSUME NEW r \in S PROVE WaitsOn(r, {}, S \cup Finished)
  <2>1. Awaited(r) = {}
    BY <1>3 DEF Awaited
  <2> QED
    BY <2>1
<1> QED
  BY <1>4, ConnectedGoOn

(* However many requests share however small a pool: some request of every *)
(* set does not wait on the set.                                           *)
THEOREM NobodyDeadlocks == Spec => []NoDeadlock
<1>1. Init => AllHoldOnly
  BY DEF Init, AllHoldOnly, HoldsOnly
<1>2. TypeOK /\ AllHoldOnly /\ [Next]_vars => AllHoldOnly'
  <2>1. ASSUME AllHoldOnly, UNCHANGED vars PROVE AllHoldOnly'
    BY <2>1 DEF AllHoldOnly, HoldsOnly, vars
  <2> QED
    BY <2>1, AllHoldOnlyInv DEF Next
<1>3. TypeOK /\ AllHoldOnly => NoDeadlock
  BY NoneWaits DEF NoDeadlock
<1> QED
  BY <1>1, <1>2, <1>3, TypeCorrect, PTL DEF Spec

-----------------------------------------------------------------------------
(* The statuses of replies.                                                *)

(* What r has been told is true for good, and a reason that its operation  *)
(* can meet.                                                               *)
Final(r) ==
    /\ outcome[r] = "ok" => r \in applied
    /\ outcome[r] = "notFound" => op[r].kind \in {"read", "update"} /\ r \notin applied
    /\ outcome[r] = "inUse" =>
          op[r].kind = "delete" /\ op[r].owner \in InUse /\ r \notin applied

(* A request that others leave alone keeps what it was told.               *)
LEMMA FinalAlone ==
    ASSUME NEW q \in Requests, Final(q), op' = op, outcome'[q] = outcome[q],
           q \in applied' <=> q \in applied
    PROVE  Final(q)'
BY DEF Final

(* A step of r keeps what r itself is told.                                *)
LEMMA FinalKept ==
    ASSUME Inv, NEW r \in Requests, Final(r),
           \/ Begin(r)
           \/ InsertAddress(r) \/ InsertOwner(r)
           \/ LockOwner(r) \/ DeleteOwner(r) \/ DeleteAddress(r)
           \/ Commit(r) \/ Rollback(r)
           \/ UpdateAddress(r) \/ Read(r) \/ List(r)
           \/ GiveUp(r) \/ ServerRollback(r) \/ ServerCommit(r)
    PROVE  /\ Final(r)'
           /\ \A q \in Requests \ {r} :
                 outcome'[q] = outcome[q] /\ (q \in applied' <=> q \in applied)
           /\ op' = op
<1> USE DEF Inv, TypeOK, Final, Told, Goto
<1>1. CASE \/ Begin(r) \/ InsertAddress(r) \/ InsertOwner(r) \/ DeleteAddress(r)
           \/ Rollback(r) \/ ServerRollback(r)
  BY <1>1 DEF Begin, InsertAddress, InsertOwner, DeleteAddress, Rollback, ServerRollback,
              Write
<1>2. CASE LockOwner(r) \/ DeleteOwner(r) \/ Commit(r)
  BY <1>2 DEF LockOwner, DeleteOwner, Commit, Effect, Write, Ended
<1>3. CASE UpdateAddress(r) \/ Read(r) \/ List(r)
  BY <1>3 DEF UpdateAddress, Read, List, Effect, Ended
<1>4. CASE GiveUp(r)
  BY <1>4 DEF GiveUp
<1>5. CASE ServerCommit(r)
  BY <1>5 DEF ServerCommit, Effect
<1> QED
  BY <1>1, <1>2, <1>3, <1>4, <1>5

(* The handlers' tables, for the results that each operation can have: a   *)
(* 2xx for "ok" only, a 4xx for refusals only, a 500 for errors only.      *)
LEMMA RepliesTrue ==
    ASSUME Inv, NEW r \in Requests, Final(r), outcome[r] # None,
           NEW reply \in Replies(r)
    PROVE  /\ H!Succeeded(reply) => outcome[r] = "ok"
           /\ H!Refused(reply) => outcome[r] \in {"notFound", "inUse"}
           /\ H!Failed(reply) => outcome[r] = "error"
<1>. USE DEF H!Answer, H!Success, H!Reply, H!writeError, H!NoRefusals,
             H!Succeeded, H!Refused, H!Failed
<1>1. outcome[r] \in {"ok", "notFound", "inUse", "error"}
  BY DEF Inv, TypeOK
<1>2. CASE op[r].kind = "create"
  BY <1>1, <1>2 DEF Final, Replies, SupplierReplies, ClientReplies,
                    H!createSupplier, H!createClient
<1>3. CASE op[r].kind = "list"
  BY <1>1, <1>3 DEF Final, Replies, SupplierReplies, ClientReplies,
                    H!getSuppliers, H!getClients
<1>4. CASE op[r].kind = "read"
  BY <1>1, <1>4 DEF Final, Replies, SupplierReplies, ClientReplies,
                    H!getSupplier, H!getSupplierAddress, H!getClientAddress
<1>5. CASE op[r].kind = "update"
  BY <1>1, <1>5 DEF Final, Replies, SupplierReplies, ClientReplies,
                    H!updateSupplierAddress, H!updateClientAddress
<1>6. CASE op[r].kind = "delete"
  BY <1>1, <1>6 DEF Final, Replies, SupplierReplies, ClientReplies,
                    H!deleteSupplier, H!deleteClient
<1>. QED
  BY <1>2, <1>3, <1>4, <1>5, <1>6, Operands DEF Inv, SingleStatement

(* A 2xx has taken effect, a 4xx never will and a 500 hides no refusal,    *)
(* through every handler of clients and suppliers.                         *)
THEOREM StatusTrue == Spec => []StatusIsTrue
<1>. DEFINE AllFinal == \A r \in Requests : Final(r)
<1>1. Init => AllFinal
  BY NoneAssumption DEF Init, Final
<1>2. Inv /\ AllFinal /\ [Next]_vars => AllFinal'
  <2>. SUFFICES ASSUME Inv, AllFinal, [Next]_vars PROVE AllFinal'
    OBVIOUS
  <2>1. CASE Next
    <3>1. PICK r \in Requests :
            \/ Begin(r)
            \/ InsertAddress(r) \/ InsertOwner(r)
            \/ LockOwner(r) \/ DeleteOwner(r) \/ DeleteAddress(r)
            \/ Commit(r) \/ Rollback(r)
            \/ UpdateAddress(r) \/ Read(r) \/ List(r)
            \/ GiveUp(r) \/ ServerRollback(r) \/ ServerCommit(r)
      BY <2>1 DEF Next, Statement
    <3>2. ASSUME NEW q \in Requests PROVE Final(q)'
      BY <3>1, FinalKept, FinalAlone
    <3>. QED
      BY <3>2
  <2>2. CASE UNCHANGED vars
    BY <2>2 DEF vars, Final
  <2>. QED
    BY <2>1, <2>2
<1>3. Inv /\ AllFinal => StatusIsTrue
  <2>. SUFFICES ASSUME Inv, AllFinal, NEW r \in Requests, outcome[r] # None,
                       NEW reply \in Replies(r)
                PROVE  /\ H!Succeeded(reply) => r \in applied
                       /\ H!Refused(reply) => r \notin applied /\ pc[r] # "inDoubt"
                       /\ H!Failed(reply) => outcome[r] = "error"
    BY DEF StatusIsTrue
  <2>1. Final(r) /\ Told(r)
    BY DEF Inv
  <2>. QED
    BY <2>1, RepliesTrue DEF Final, Told
<1>. QED
  BY <1>1, <1>2, <1>3, InvHolds, PTL DEF Spec

-----------------------------------------------------------------------------
(* The two tables as one directory.                                        *)
View == [o \in Owners |-> IF o \in owners THEN addresses[o] ELSE None]

(* Under the invariant the directory is the table of addresses, and an     *)
(* owner is listed exactly if its row is there.                            *)
LEMMA SameView ==
    ASSUME Inv
    PROVE  /\ View = addresses
           /\ \A o \in Owners : o \in owners <=> View[o] # None
           /\ \A o \in Owners : Joined(o) <=> View[o] # None
<1>1. \A o \in Owners : View[o] = addresses[o]
  BY DEF Inv, NoOrphans, View
<1>2. View = addresses
  BY <1>1 DEF Inv, TypeOK, View
<1> QED
  BY <1>2 DEF Inv, NoOrphans, Joined

(* The same after a step.                                                  *)
LEMMA ViewAfter == ASSUME Inv' PROVE View' = addresses'
<1>1. \A o \in Owners : View'[o] = addresses'[o]
  BY DEF Inv, NoOrphans, View
<1> QED
  BY <1>1 DEF Inv, TypeOK, View

(* Steps that nobody sees.                                                 *)
LEMMA Stutters ==
    ASSUME UNCHANGED <<data, op, outcome, shown, applied>>
    PROVE  UNCHANGED Book!vars
BY DEF data, Book!vars

(* What takes effect deserves to, and changes the directory alike.         *)
LEMMA EffectMaps ==
    ASSUME Inv, Inv', NEW r \in Requests, Grounded(r), Effect(r), r \notin applied
    PROVE  Book!Effect(r)
<1>1. View = addresses /\ View' = addresses'
  BY SameView, ViewAfter
<1>2. applied' = applied \cup {r}
  BY DEF Effect
<1>3. CASE op[r].kind = "create"
  <2>1. Book!Verdict(r) = "ok"
    BY <1>3 DEF Book!Verdict
  <2>2. Book!Put(r, op[r].address)
    BY <1>1, <1>3, EffectIs DEF Book!Put, View
  <2> QED
    BY <1>2, <1>3, <2>1, <2>2 DEF Book!Effect
<1>4. CASE op[r].kind = "delete"
  <2>1. Book!Verdict(r) = "ok"
    BY <1>4, EffectIs DEF Book!Verdict
  <2>2. Book!Put(op[r].owner, None)
    BY <1>1, <1>4, EffectIs DEF Book!Put, View
  <2> QED
    BY <1>2, <1>4, <2>1, <2>2 DEF Book!Effect
<1>5. CASE op[r].kind = "update"
  <2>1. op[r].owner \in Owners /\ op[r].owner \in owners
    BY <1>5, Operands, EffectIs DEF Inv
  <2>2. View[op[r].owner] # None
    BY <2>1, SameView
  <2>3. Book!Verdict(r) = "ok"
    BY <1>5, <2>2 DEF Book!Verdict, Book!Listed, View
  <2>4. Book!Put(op[r].owner, op[r].address)
    BY <1>1, <1>5, EffectIs DEF Book!Put, View
  <2> QED
    BY <1>2, <1>5, <2>3, <2>4 DEF Book!Effect
<1> QED
  BY <1>3, <1>4, <1>5, EffectIs

(* A COMMIT serves the request, or takes effect after its caller was told  *)
(* of an error.                                                            *)
LEMMA CommitMaps ==
    ASSUME Inv, NEW r \in Requests, Commit(r) \/ ServerCommit(r)
    PROVE  Book!Next
<1>1. Inv' /\ Grounded(r)
  BY CommitInv
<1>2. Told(r)
  BY DEF Inv
<1>3. Book!Effect(r)
  BY <1>1, <1>2, EffectMaps DEF Commit, ServerCommit, Goto, Told, Ended
<1>4. CASE Commit(r)
  <2>1. op[r].kind \in {"create", "delete"}
    BY <1>1, <1>4, Operands DEF Commit, Goto, Inv, Backed, StatementBacked
  <2>2. Book!Answer(r) = {}
    BY <2>1 DEF Book!Answer
  <2>3. outcome[r] = None /\ shown[r] = {}
    BY <1>2, <1>4 DEF Commit, Goto, Told, Ended
  <2>4. shown' = [shown EXCEPT ![r] = Book!Answer(r)]
    BY <1>4, <2>2, <2>3 DEF Commit, Inv, TypeOK
  <2> QED
    BY <1>3, <1>4, <2>3, <2>4 DEF Commit, Book!Serve, Book!Next
<1>5. CASE ServerCommit(r)
  BY <1>2, <1>3, <1>5 DEF ServerCommit, Goto, Told, Book!Belated, Book!Next
<1> QED
  BY <1>4, <1>5

(* An update serves the request, or finds nobody and says so.              *)
LEMMA UpdateMaps ==
    ASSUME Inv, NEW r \in Requests, UpdateAddress(r)
    PROVE  Book!Next
<1>1. op[r].kind = "update" /\ op[r].owner \in Owners /\ op' = op
  BY Operands DEF UpdateAddress, Inv
<1>2. outcome[r] = None /\ r \notin applied
  BY DEF UpdateAddress, Goto, Inv, Told, Ended
<1>3. CASE Joined(op[r].owner)
  <2>1. Inv' /\ Grounded(r) /\ Effect(r)
    BY <1>3, UpdatedInv DEF UpdateAddress
  <2>2. Book!Effect(r)
    BY <1>2, <2>1, EffectMaps
  <2>3. View'[op[r].owner] = op[r].address /\ op[r].address # None
    <3>1. op[r].address \in Addresses
      BY <1>1, Operands DEF Inv
    <3>2. addresses' = [addresses EXCEPT ![op[r].owner] = op[r].address]
      BY <1>1, <2>1, EffectIs
    <3>3. addresses'[op[r].owner] = op[r].address
      BY <1>1, <3>2 DEF Inv, TypeOK
    <3> QED
      BY <2>1, <3>1, <3>3, ViewAfter, NoneIsNoAddress
  <2>4. Book!Answer(r) = {<<op[r].owner, op[r].address>>}
    BY <1>1, <2>3 DEF Book!Answer, View
  <2> QED
    BY <1>2, <1>3, <2>2, <2>4 DEF UpdateAddress, Book!Serve, Book!Next
<1>4. CASE ~Joined(op[r].owner)
  <2>1. Book!Verdict(r) = "notFound"
    BY <1>1, <1>4, SameView DEF Book!Verdict, Book!Listed, View
  <2> QED
    BY <1>2, <1>4, <2>1 DEF UpdateAddress, data, Book!Refuse, Book!Next
<1> QED
  BY <1>3, <1>4

(* A reading shows what the directory has at that moment.                  *)
LEMMA ReadMaps ==
    ASSUME Inv, NEW r \in Requests, Read(r) \/ List(r)
    PROVE  Book!Next
<1>1. op' = op /\ UNCHANGED <<owners, addresses>> /\ View' = View
  BY DEF Read, List, data, View
<1>2. outcome[r] = None /\ r \notin applied
  BY DEF Read, List, Goto, Inv, Told, Ended
<1>3. View = addresses
  BY SameView
<1>4. CASE Read(r) /\ Joined(op[r].owner)
  <2>1. View[op[r].owner] # None /\ op[r].kind = "read"
    BY <1>4, Operands, SameView DEF Read, Inv
  <2>2. Book!Effect(r)
    BY <1>1, <1>2, <1>4, <2>1
       DEF Read, Book!Effect, Book!Verdict, Book!Listed, View
  <2>3. Book!Answer(r) = {<<op[r].owner, addresses[op[r].owner]>>}
    BY <1>1, <1>3, <2>1 DEF Book!Answer, View
  <2> QED
    BY <1>2, <1>4, <2>2, <2>3 DEF Read, Book!Serve, Book!Next
<1>5. CASE Read(r) /\ ~Joined(op[r].owner)
  <2>1. View[op[r].owner] = None /\ op[r].kind = "read"
    BY <1>5, Operands, SameView DEF Read, Inv
  <2>2. Book!Verdict(r) = "notFound"
    BY <2>1 DEF Book!Verdict, Book!Listed, View
  <2> QED
    BY <1>1, <1>2, <1>5, <2>2 DEF Read, Book!Refuse, Book!Next
<1>6. CASE List(r)
  <2>1. Book!Effect(r)
    BY <1>1, <1>2, <1>6 DEF List, Book!Effect, Book!Verdict, View
  <2>2. Book!Answer(r) = {<<o, View'[o]>> : o \in {x \in Owners : View'[x] # None}}
    BY <1>6 DEF List, Book!Answer, View
  <2>3. Book!Answer(r) = {<<o, addresses[o]>> : o \in {x \in Owners : Joined(x)}}
    BY <1>1, <1>3, <2>2, SameView
  <2> QED
    BY <1>2, <1>6, <2>1, <2>3 DEF List, Book!Serve, Book!Next
<1> QED
  BY <1>4, <1>5, <1>6

(* The deletion of an owner that is not there succeeds; that of one in use *)
(* is refused.                                                             *)
LEMMA DeleteMaps ==
    ASSUME Inv, NEW r \in Requests, LockOwner(r) \/ DeleteOwner(r)
    PROVE  Book!Next \/ UNCHANGED Book!vars
<1>1. op[r].kind = "delete" /\ op[r].owner \in Owners
  BY Operands DEF LockOwner, DeleteOwner, Inv
<1>2. CASE UNCHANGED <<data, op, outcome, shown, applied>>
  BY <1>2, Stutters
<1>3. CASE LockOwner(r) /\ op[r].owner \notin owners
  <2>1. outcome[r] = None /\ r \notin applied /\ shown[r] = {}
    BY <1>3 DEF LockOwner, Goto, Inv, Told, Ended
  <2>2. op' = op /\ View' = View /\ View[op[r].owner] = None
    BY <1>1, <1>3, SameView DEF LockOwner, data, View
  <2>3. Book!Verdict(r) = "ok"
    BY <1>1, <2>2 DEF Book!Verdict, Book!Listed, View
  <2>4. Book!Put(op[r].owner, None)
    BY <2>2 DEF Book!Put, View
  <2>5. Book!Effect(r)
    BY <1>1, <1>3, <2>1, <2>3, <2>4 DEF LockOwner, Book!Effect
  <2>6. Book!Answer(r) = {}
    BY <1>1 DEF Book!Answer
  <2>7. shown' = [shown EXCEPT ![r] = Book!Answer(r)]
    BY <1>3, <2>1, <2>6 DEF LockOwner, Inv, TypeOK
  <2> QED
    BY <1>3, <2>1, <2>5, <2>7 DEF LockOwner, Book!Serve, Book!Next
<1>4. CASE DeleteOwner(r) /\ op[r].owner \in InUse /\ pc[r] = "locked"
  <2>1. outcome[r] = None /\ op[r].owner \in owners
    BY <1>1, <1>4 DEF Inv, Told, Backed, DeletionBacked, Ended
  <2>2. Book!Verdict(r) = "inUse"
    BY <1>1, <1>4, <2>1, SameView DEF Book!Verdict, Book!Listed, View
  <2> QED
    BY <1>4, <2>1, <2>2 DEF DeleteOwner, Write, data, Book!Refuse, Book!Next
<1> QED
  BY <1>2, <1>3, <1>4 DEF LockOwner, DeleteOwner, Write, Goto

(* A request that gives up is told of an error if it has no answer yet.    *)
LEMMA GiveUpMaps ==
    ASSUME Inv, NEW r \in Requests, GiveUp(r)
    PROVE  Book!Next \/ UNCHANGED Book!vars
<1>1. CASE outcome[r] = None
  BY <1>1 DEF GiveUp, data, Book!Fail, Book!Next
<1>2. CASE outcome[r] # None
  BY <1>2, Stutters DEF GiveUp, Inv, TypeOK
<1> QED
  BY <1>1, <1>2

(* Every step of the repositories is one of Directory or leaves what it    *)
(* sees alone.                                                             *)
LEMMA StepMaps == Inv /\ [Next]_vars => [Book!Next]_(Book!vars)
<1> SUFFICES ASSUME Inv, [Next]_vars
             PROVE  Book!Next \/ UNCHANGED Book!vars
  OBVIOUS
<1>1. CASE UNCHANGED vars
  BY <1>1 DEF vars, data, Book!vars
<1>2. ASSUME NEW r \in Requests,
             \/ Begin(r) \/ InsertAddress(r) \/ InsertOwner(r) \/ DeleteAddress(r)
             \/ Rollback(r) \/ ServerRollback(r)
      PROVE  UNCHANGED Book!vars
  BY <1>2, Stutters
     DEF Begin, InsertAddress, InsertOwner, DeleteAddress, Write, Rollback, ServerRollback
<1> QED
  BY <1>1, <1>2, DeleteMaps, CommitMaps, UpdateMaps, ReadMaps, GiveUpMaps DEF Next, Statement

(* The two tables, statement by statement and whatever fails, are one      *)
(* directory in which each request is carried out at once and alone.       *)
THEOREM Implements == Spec => ImplementsDirectory
<1>1. Init => Book!Init
  BY SeedAssumption DEF Init, Book!Init
<1> QED
  BY <1>1, StepMaps, InvHolds, PTL DEF Spec, ImplementsDirectory, Book!Spec

-----------------------------------------------------------------------------
(* Unless all is done, some request can go on, and each step brings one of *)
(* finitely many requests closer to its end.                               *)

(* Where a transaction may be, given what it is for.                       *)
InPlace(r) ==
    /\ pc[r] = "addressed" => op[r].kind = "create"
    /\ pc[r] \in {"locked", "disowned"} => op[r].kind = "delete"

AllInPlace == \A r \in Requests : InPlace(r)

(* Every step of a transaction leaves all of them in place.                *)
LEMMA InPlaceStep ==
    ASSUME TypeOK, AllInPlace, NEW r \in Requests,
           Begin(r) \/ Statement(r) \/ GiveUp(r) \/ ServerRollback(r) \/ ServerCommit(r)
    PROVE  AllInPlace'
<1>1. op' = op
  BY DEF Begin, Statement, GiveUp, ServerRollback, ServerCommit, InsertAddress,
         InsertOwner, LockOwner, DeleteOwner, DeleteAddress, Commit, Rollback,
         UpdateAddress, Read, List, Write
<1>2. PICK to :
        /\ pc' = [pc EXCEPT ![r] = to]
        /\ to = "addressed" => op[r].kind = "create"
        /\ to \in {"locked", "disowned"} => op[r].kind = "delete"
  <2>1. CASE Statement(r)
    BY <2>1 DEF Statement, InsertAddress, InsertOwner, LockOwner, DeleteOwner,
         DeleteAddress, Commit, Rollback, UpdateAddress, Read, List, Write, Goto
  <2>2. CASE Begin(r) \/ ServerRollback(r) \/ ServerCommit(r)
    BY <2>2 DEF Begin, ServerRollback, ServerCommit, Goto
  <2>3. CASE GiveUp(r)
    <3>1. PICK to \in {"done", "abandoned", "inDoubt"} : pc' = [pc EXCEPT ![r] = to]
      BY <2>3 DEF GiveUp, Break
    <3> QED
      BY <3>1
  <2> QED
    BY <2>1, <2>2, <2>3
<1> QED
  BY <1>1, <1>2 DEF AllInPlace, InPlace, TypeOK

(* At any time a transaction is where its operation can be: the actions    *)
(* are the statements of each operation in their order.                    *)
THEOREM EachInPlace == Spec => []AllInPlace
<1>1. Init => AllInPlace
  BY DEF Init, AllInPlace, InPlace
<1>2. TypeOK /\ AllInPlace /\ [Next]_vars => AllInPlace'
  <2>1. ASSUME AllInPlace, UNCHANGED vars PROVE AllInPlace'
    BY <2>1 DEF AllInPlace, InPlace, vars
  <2> QED
    BY <2>1, InPlaceStep DEF Next
<1> QED
  BY <1>1, <1>2, TypeCorrect, PTL DEF Spec

(* A request that is stopped cannot go on: neither begin, nor run a        *)
(* statement, nor be rolled back.                                          *)
THEOREM WaitersStand ==
    ASSUME NEW r \in Requests, Stopped(r, Awaited(r))
    PROVE  ~(Begin(r) \/ Statement(r) \/ ServerRollback(r))
<1> SUFFICES ASSUME Begin(r) \/ Statement(r) \/ ServerRollback(r) PROVE FALSE
  OBVIOUS
<1>1. /\ pc[r] = "queued" => ConnectionFree
      /\ op[r].kind = "delete" /\ pc[r] = "begun" =>
            Lockable(r, <<"owner", op[r].owner>>, "update")
      /\ op[r].kind = "delete" /\ pc[r] = "disowned" =>
            Lockable(r, <<"address", op[r].owner>>, "update")
      /\ op[r].kind = "update" /\ pc[r] = "begun" /\ Joined(op[r].owner) =>
            Lockable(r, <<"address", op[r].owner>>, "update")
  <2>1. CASE Begin(r) \/ ServerRollback(r) \/ Commit(r) \/ Rollback(r)
    BY <2>1 DEF Begin, ServerRollback, Commit, Rollback, Goto
  <2>2. CASE InsertAddress(r) \/ InsertOwner(r)
    BY <2>2 DEF InsertAddress, InsertOwner, Write, Goto
  <2>3. CASE LockOwner(r) \/ DeleteOwner(r) \/ DeleteAddress(r)
    BY <2>3 DEF LockOwner, DeleteOwner, DeleteAddress, Write, Goto, Lock
  <2>4. CASE UpdateAddress(r) \/ Read(r) \/ List(r)
    BY <2>4 DEF UpdateAddress, Read, List, Goto
  <2> QED
    BY <2>1, <2>2, <2>3, <2>4 DEF Statement
<1>2. CASE pc[r] = "queued" /\ ~ConnectionFree
  BY <1>1, <1>2
<1>3. CASE Awaited(r) # {} /\ \A lock \in Awaited(r) : ~Lockable(r, lock[1], lock[2])
  <2>1. ASSUME NEW row, NEW mode, <<row, mode>> \in Awaited(r)
        PROVE  ~Lockable(r, row, mode)
    <3> DEFINE lock == <<row, mode>>
    <3>1. ~Lockable(r, lock[1], lock[2])
      BY <1>3, <2>1
    <3> QED
      BY <3>1
  <2> QED
    BY <1>1, <1>3, <2>1 DEF Awaited
<1> QED
  BY <1>2, <1>3 DEF Stopped

(* Each step of r brings it closer to its end.                             *)
LEMMA Forward ==
    ASSUME TypeOK, NEW r \in Requests,
           Begin(r) \/ Statement(r) \/ GiveUp(r) \/ ServerRollback(r) \/ ServerCommit(r)
    PROVE  \E to : pc' = [pc EXCEPT ![r] = to] /\ Left(to) < Left(pc[r])
<1>1. CASE Begin(r) \/ ServerRollback(r) \/ ServerCommit(r)
  BY <1>1 DEF Begin, ServerRollback, ServerCommit, Goto, Left
<1>2. CASE Commit(r) \/ Rollback(r) \/ UpdateAddress(r) \/ Read(r) \/ List(r)
  BY <1>2 DEF Commit, Rollback, UpdateAddress, Read, List, Goto, Left
<1>3. CASE InsertAddress(r) \/ InsertOwner(r)
  BY <1>3 DEF InsertAddress, InsertOwner, Write, Goto, Left
<1>4. CASE LockOwner(r) \/ DeleteOwner(r) \/ DeleteAddress(r)
  BY <1>4 DEF LockOwner, DeleteOwner, DeleteAddress, Write, Goto, Left
<1>5. CASE GiveUp(r)
  <2>1. pc[r] \in {"queued"} \cup Stages
    BY <1>5 DEF GiveUp, Break, TypeOK
  <2>2. PICK to \in Ended : pc' = [pc EXCEPT ![r] = to] /\ (to = "done" => pc[r] = "queued")
    BY <1>5 DEF GiveUp, Break, Ended
  <2>3. Left(to) < Left(pc[r])
    BY <2>1, <2>2 DEF Left, Stages, Ended
  <2> QED
    BY <2>2, <2>3
<1> QED
  BY <1>1, <1>2, <1>3, <1>4, <1>5 DEF Statement

(* The next step of r makes its writes visible.                            *)
Commits(r) ==
    pc[r] = "ready" \/ (pc[r] = "begun" /\ op[r].kind = "update" /\ Joined(op[r].owner))

(* The next step of r succeeds although it writes nothing.                 *)
Succeeds(r) ==
    /\ pc[r] = "begun"
    /\ \/ op[r].kind = "read" /\ Joined(op[r].owner)
       \/ op[r].kind = "list"
       \/ op[r].kind = "delete" /\ op[r].owner \notin owners

NextStage(r) ==
    CASE pc[r] = "queued" -> "begun"
      [] pc[r] \in {"ready", "refusing", "abandoned", "inDoubt"}
            \/ (pc[r] = "begun" /\ op[r].kind \in SingleStatement) -> "done"
      [] pc[r] = "begun" /\ op[r].kind = "create" -> "addressed"
      [] pc[r] = "begun" /\ op[r].kind = "delete" ->
            IF op[r].owner \in owners THEN "locked" ELSE "refusing"
      [] pc[r] = "locked" -> IF op[r].owner \in InUse THEN "refusing" ELSE "disowned"
      [] pc[r] \in {"addressed", "disowned"} -> "ready"

NextLocks(r) ==
    CASE pc[r] \in {"ready", "refusing", "abandoned", "inDoubt"} -> {}
      [] pc[r] = "begun" /\ op[r].kind = "delete" /\ op[r].owner \in owners ->
            held[r] \cup {<<<<"owner", op[r].owner>>, "update">>}
      [] pc[r] = "disowned" ->
            held[r] \cup {<<<<"address", op[r].owner>>, "update">>}
      [] OTHER -> held[r]

NextWrites(r) ==
    CASE pc[r] = "begun" /\ op[r].kind = "create" -> wrote[r] \cup {"insertAddress"}
      [] pc[r] = "addressed" -> wrote[r] \cup {"insertOwner"}
      [] pc[r] = "locked" /\ op[r].owner \notin InUse -> wrote[r] \cup {"deleteOwner"}
      [] pc[r] = "disowned" -> wrote[r] \cup {"deleteAddress"}
      [] OTHER -> wrote[r]

NextOutcome(r) ==
    CASE Commits(r) \/ Succeeds(r) -> "ok"
      [] /\ pc[r] = "begun" /\ op[r].kind \in {"read", "update"}
         /\ ~Joined(op[r].owner) -> "notFound"
      [] pc[r] = "locked" /\ op[r].owner \in InUse -> "inUse"
      [] OTHER -> outcome[r]

NextShown(r) ==
    CASE pc[r] = "begun" /\ op[r].kind = "update" /\ Joined(op[r].owner) ->
            {<<op[r].owner, op[r].address>>}
      [] pc[r] = "begun" /\ op[r].kind = "read" /\ Joined(op[r].owner) ->
            {<<op[r].owner, addresses[op[r].owner]>>}
      [] pc[r] = "begun" /\ op[r].kind = "list" ->
            {<<o, addresses[o]>> : o \in {x \in Owners : Joined(x)}}
      [] OTHER -> shown[r]

GoesOn(r) ==
    /\ owners' = CASE Commits(r) /\ op[r].kind = "create" -> owners \cup {r}
                   [] Commits(r) /\ op[r].kind = "delete" -> owners \ {op[r].owner}
                   [] OTHER -> owners
    /\ addresses' = CASE Commits(r) /\ op[r].kind = "create" ->
                            [addresses EXCEPT ![r] = op[r].address]
                      [] Commits(r) /\ op[r].kind = "delete" ->
                            [addresses EXCEPT ![op[r].owner] = None]
                      [] Commits(r) /\ op[r].kind = "update" ->
                            [addresses EXCEPT ![op[r].owner] = op[r].address]
                      [] OTHER -> addresses
    /\ op' = op
    /\ pc' = [pc EXCEPT ![r] = NextStage(r)]
    /\ held' = [held EXCEPT ![r] = NextLocks(r)]
    /\ wrote' = [wrote EXCEPT ![r] = NextWrites(r)]
    /\ outcome' = [outcome EXCEPT ![r] = NextOutcome(r)]
    /\ shown' = [shown EXCEPT ![r] = NextShown(r)]
    /\ applied' = IF Commits(r) \/ Succeeds(r) THEN applied \cup {r} ELSE applied

(* Steps of GoesOn that have no effect and answer nothing.                 *)
LEMMA QuietGo ==
    ASSUME TypeOK, NEW r \in Requests, ~Commits(r), ~Succeeds(r), GoesOn(r)
    PROVE  /\ UNCHANGED <<data, op, applied>>
           /\ Goto(r, pc[r], NextStage(r))
           /\ NextLocks(r) = held[r] => UNCHANGED held
           /\ NextWrites(r) = wrote[r] => UNCHANGED wrote
           /\ NextOutcome(r) = outcome[r] => UNCHANGED outcome
           /\ NextShown(r) = shown[r] => UNCHANGED shown
BY DEF GoesOn, data, Goto, TypeOK

(* What GoesOn makes visible is what r has written.                        *)
LEMMA CommitGoesOn ==
    ASSUME Inv, NEW r \in Requests, Commits(r), GoesOn(r)
    PROVE  Effect(r)
<1>1. Backed(r) /\ op[r].kind \in {"create", "delete"} \cup SingleStatement
  BY Operands DEF Inv
<1>2. CASE op[r].kind = "create"
  <2>1. wrote[r] = {"insertAddress", "insertOwner"}
    BY <1>1, <1>2 DEF Commits, SingleStatement, Backed, CreationBacked, Ready
  <2> QED
    BY <1>2, <2>1 DEF Effect, GoesOn
<1>3. CASE op[r].kind = "delete"
  <2>1. wrote[r] = {"deleteOwner", "deleteAddress"}
    BY <1>1, <1>3 DEF Commits, SingleStatement, Backed, DeletionBacked, Ready
  <2> QED
    BY <1>3, <2>1 DEF Effect, GoesOn
<1>4. CASE op[r].kind = "update"
  <2>1. wrote[r] = {}
    BY <1>1, <1>4 DEF SingleStatement, Backed, StatementBacked
  <2> QED
    BY <1>4, <2>1 DEF Effect, GoesOn
<1> QED
  BY <1>1, <1>2, <1>3, <1>4 DEF Commits, SingleStatement, Backed, StatementBacked

(* A creation that has the locks it needs has a next statement.            *)
LEMMA CreationGoesOn ==
    ASSUME TypeOK, NEW r \in Requests, op[r].kind = "create",
           pc[r] \in {"begun", "addressed"}, GoesOn(r)
    PROVE  Statement(r)
<1>1. ~Commits(r) /\ ~Succeeds(r)
  BY DEF Commits, Succeeds
<1>2. NextLocks(r) = held[r] /\ NextOutcome(r) = outcome[r] /\ NextShown(r) = shown[r]
  BY <1>1 DEF NextLocks, NextOutcome, NextShown
<1>3. CASE pc[r] = "begun"
  <2>1. NextStage(r) = "addressed"
    BY <1>3 DEF NextStage, SingleStatement
  <2>2. wrote' = [wrote EXCEPT ![r] = @ \cup {"insertAddress"}]
    BY <1>3 DEF GoesOn, NextWrites
  <2> QED
    BY <1>1, <1>2, <1>3, <2>1, <2>2, QuietGo DEF Statement, InsertAddress, Write
<1>4. CASE pc[r] = "addressed"
  <2>1. NextStage(r) = "ready"
    BY <1>4 DEF NextStage
  <2>2. wrote' = [wrote EXCEPT ![r] = @ \cup {"insertOwner"}]
    BY <1>4 DEF GoesOn, NextWrites
  <2> QED
    BY <1>1, <1>2, <1>4, <2>1, <2>2, QuietGo DEF Statement, InsertOwner, Write
<1> QED
  BY <1>3, <1>4

(* So has a deletion of several statements.                                *)
LEMMA DeletionGoesOn ==
    ASSUME TypeOK, NEW r \in Requests, op[r].kind = "delete",
           pc[r] \in {"begun", "locked", "disowned"},
           pc[r] = "begun" => Lockable(r, <<"owner", op[r].owner>>, "update"),
           pc[r] = "disowned" => Lockable(r, <<"address", op[r].owner>>, "update"),
           GoesOn(r)
    PROVE  Statement(r)
<1>1. ~Commits(r) /\ NextShown(r) = shown[r]
  BY DEF Commits, NextShown
<1>2. CASE pc[r] = "begun" /\ op[r].owner \in owners
  <2>1. ~Succeeds(r) /\ NextStage(r) = "locked"
    BY <1>2 DEF Succeeds, NextStage, SingleStatement
  <2>2. NextWrites(r) = wrote[r] /\ NextOutcome(r) = outcome[r]
    BY <1>1, <1>2, <2>1 DEF NextWrites, NextOutcome
  <2>3. Lock(r, <<"owner", op[r].owner>>, "update")
    BY <1>2 DEF GoesOn, NextLocks, Lock
  <2> QED
    BY <1>1, <1>2, <2>1, <2>2, <2>3, QuietGo DEF Statement, LockOwner
<1>3. CASE pc[r] = "begun" /\ op[r].owner \notin owners
  <2>1. Succeeds(r) /\ NextStage(r) = "refusing"
    BY <1>3 DEF Succeeds, NextStage, SingleStatement
  <2>2. /\ NextLocks(r) = held[r] /\ NextWrites(r) = wrote[r]
        /\ NextOutcome(r) = "ok"
    BY <1>1, <1>3, <2>1 DEF NextLocks, NextWrites, NextOutcome
  <2>3. /\ Goto(r, "begun", "refusing")
        /\ outcome' = [outcome EXCEPT ![r] = "ok"]
        /\ applied' = applied \cup {r}
        /\ UNCHANGED <<data, op, held, wrote, shown>>
    BY <1>1, <1>3, <2>1, <2>2 DEF GoesOn, Goto, data, TypeOK
  <2> QED
    BY <1>3, <2>3 DEF Statement, LockOwner
<1>4. CASE pc[r] = "locked"
  <2>1. ~Succeeds(r) /\ NextLocks(r) = held[r]
    BY <1>4 DEF Succeeds, NextLocks
  <2>2. CASE op[r].owner \notin InUse
    <3>1. NextStage(r) = "disowned" /\ NextOutcome(r) = outcome[r]
      BY <1>1, <1>4, <2>1, <2>2 DEF NextStage, NextOutcome
    <3>2. wrote' = [wrote EXCEPT ![r] = @ \cup {"deleteOwner"}]
      BY <1>4, <2>2 DEF GoesOn, NextWrites
    <3> QED
      BY <1>1, <1>4, <2>1, <2>2, <3>1, <3>2, QuietGo DEF Statement, DeleteOwner, Write
  <2>3. CASE op[r].owner \in InUse
    <3>1. NextStage(r) = "refusing" /\ NextWrites(r) = wrote[r]
      BY <1>4, <2>3 DEF NextStage, NextWrites
    <3>2. outcome' = [outcome EXCEPT ![r] = "inUse"]
      BY <1>1, <1>4, <2>1, <2>3 DEF GoesOn, NextOutcome
    <3> QED
      BY <1>1, <1>4, <2>1, <2>3, <3>1, <3>2, QuietGo DEF Statement, DeleteOwner
  <2> QED
    BY <2>2, <2>3
<1>5. CASE pc[r] = "disowned"
  <2>1. ~Succeeds(r) /\ NextStage(r) = "ready"
    BY <1>5 DEF Succeeds, NextStage
  <2>2. NextOutcome(r) = outcome[r]
    BY <1>1, <1>5, <2>1 DEF NextOutcome
  <2>3. Lock(r, <<"address", op[r].owner>>, "update")
    BY <1>5 DEF GoesOn, NextLocks, Lock
  <2>4. wrote' = [wrote EXCEPT ![r] = @ \cup {"deleteAddress"}]
    BY <1>5 DEF GoesOn, NextWrites
  <2> QED
    BY <1>1, <1>5, <2>1, <2>2, <2>3, <2>4, QuietGo DEF Statement, DeleteAddress, Write
<1> QED
  BY <1>2, <1>3, <1>4, <1>5

(* So has an operation of one statement.                                   *)
LEMMA SingleGoesOn ==
    ASSUME Inv, NEW r \in Requests, op[r].kind \in SingleStatement, pc[r] = "begun",
           op[r].kind = "update" /\ Joined(op[r].owner) =>
                Lockable(r, <<"address", op[r].owner>>, "update"),
           GoesOn(r)
    PROVE  Statement(r)
<1>1. TypeOK
  BY DEF Inv
<1>2. /\ Goto(r, "begun", "done")
      /\ UNCHANGED <<op, held, wrote>>
  <2>1. NextStage(r) = "done" /\ NextLocks(r) = held[r] /\ NextWrites(r) = wrote[r]
    BY DEF NextStage, NextLocks, NextWrites, SingleStatement
  <2> QED
    BY <1>1, <2>1 DEF GoesOn, Goto, TypeOK
<1>3. CASE op[r].kind = "update"
  <2>1. CASE Joined(op[r].owner)
    <3>1. Effect(r)
      BY <1>3, <2>1, CommitGoesOn DEF Commits
    <3>2. /\ outcome' = [outcome EXCEPT ![r] = "ok"]
          /\ shown' = [shown EXCEPT ![r] = {<<op[r].owner, op[r].address>>}]
      BY <1>3, <2>1 DEF GoesOn, Commits, Succeeds, NextOutcome, NextShown
    <3> QED
      BY <1>2, <1>3, <2>1, <3>1, <3>2 DEF Statement, UpdateAddress
  <2>2. CASE ~Joined(op[r].owner)
    <3>1. ~Commits(r) /\ ~Succeeds(r)
      BY <1>3, <2>2 DEF Commits, Succeeds
    <3>2. NextShown(r) = shown[r] /\ NextOutcome(r) = "notFound"
      BY <1>3, <2>2, <3>1 DEF NextShown, NextOutcome
    <3>3. outcome' = [outcome EXCEPT ![r] = "notFound"]
      BY <3>2 DEF GoesOn
    <3> QED
      BY <1>1, <1>2, <1>3, <2>2, <3>1, <3>2, <3>3, QuietGo DEF Statement, UpdateAddress
  <2> QED
    BY <2>1, <2>2
<1>4. CASE op[r].kind = "read"
  <2>1. ~Commits(r) /\ UNCHANGED data
    BY <1>4 DEF Commits, GoesOn, data
  <2>2. CASE Joined(op[r].owner)
    <3>1. Succeeds(r)
      BY <1>4, <2>2 DEF Succeeds
    <3>2. /\ outcome' = [outcome EXCEPT ![r] = "ok"]
          /\ shown' = [shown EXCEPT ![r] = {<<op[r].owner, addresses[op[r].owner]>>}]
          /\ applied' = applied \cup {r}
      BY <1>4, <2>2, <3>1 DEF GoesOn, NextOutcome, NextShown
    <3> QED
      BY <1>2, <1>4, <2>1, <2>2, <3>2 DEF Statement, Read
  <2>3. CASE ~Joined(op[r].owner)
    <3>1. ~Succeeds(r)
      BY <1>4, <2>3 DEF Succeeds
    <3>2. NextShown(r) = shown[r] /\ NextOutcome(r) = "notFound"
      BY <1>4, <2>1, <2>3, <3>1 DEF NextShown, NextOutcome
    <3>3. outcome' = [outcome EXCEPT ![r] = "notFound"]
      BY <3>2 DEF GoesOn
    <3> QED
      BY <1>1, <1>2, <1>4, <2>1, <2>3, <3>1, <3>2, <3>3, QuietGo DEF Statement, Read
  <2> QED
    BY <2>2, <2>3
<1>5. CASE op[r].kind = "list"
  <2>1. ~Commits(r) /\ UNCHANGED data /\ Succeeds(r)
    BY <1>5 DEF Commits, Succeeds, GoesOn, data
  <2>2. /\ outcome' = [outcome EXCEPT ![r] = "ok"]
        /\ applied' = applied \cup {r}
    BY <1>5, <2>1 DEF GoesOn, NextOutcome
  <2>3. shown' = [shown EXCEPT ![r] =
                    {<<o, addresses[o]>> : o \in {x \in Owners : Joined(x)}}]
    BY <1>5 DEF GoesOn, NextShown
  <2> QED
    BY <1>2, <1>5, <2>1, <2>2, <2>3 DEF Statement, List
<1> QED
  BY <1>3, <1>4, <1>5 DEF SingleStatement

(* The last step of a transaction, be it the client's or the server's.     *)
LEMMA EndGoesOn ==
    ASSUME Inv, NEW r \in Requests, GoesOn(r),
           pc[r] \in {"ready", "refusing", "abandoned", "inDoubt"}
    PROVE  Statement(r) \/ ServerRollback(r)
<1>1. TypeOK /\ Unlock(r) /\ Goto(r, pc[r], "done")
  BY DEF Inv, GoesOn, Unlock, NextLocks, Goto, NextStage
<1>2. /\ ~Succeeds(r) /\ UNCHANGED <<op, wrote, shown>>
  <2>1. NextWrites(r) = wrote[r] /\ NextShown(r) = shown[r]
    BY DEF NextWrites, NextShown
  <2> QED
    BY <1>1, <2>1 DEF Succeeds, GoesOn, TypeOK
<1>3. CASE pc[r] = "ready"
  <2>1. Commits(r)
    BY <1>3 DEF Commits
  <2>2. outcome' = [outcome EXCEPT ![r] = "ok"]
    BY <1>3, <2>1 DEF GoesOn, NextOutcome
  <2> QED
    BY <1>1, <1>2, <1>3, <2>1, <2>2, CommitGoesOn DEF Statement, Commit
<1>4. CASE pc[r] # "ready"
  <2>1. ~Commits(r)
    BY <1>4 DEF Commits
  <2>2. NextOutcome(r) = outcome[r]
    BY <1>2, <2>1 DEF NextOutcome
  <2>3. UNCHANGED <<data, op, wrote, outcome, shown, applied>>
    BY <1>1, <1>2, <2>1, <2>2, QuietGo
  <2> QED
    BY <1>1, <1>4, <2>3 DEF Statement, Rollback, ServerRollback
<1> QED
  BY <1>3, <1>4

(* Where nothing stops r, there is a next state in which it has gone on:   *)
(* GoesOn(r) gives every variable its value there, so it can always be     *)
(* taken, and it is a step of those that OnlyWaitersStop is about.         *)
THEOREM OthersGoOn ==
    ASSUME Inv, AllInPlace, NEW r \in Requests, pc[r] # "done",
           ~Stopped(r, Awaited(r)), GoesOn(r)
    PROVE  (Begin(r) \/ Statement(r) \/ ServerRollback(r)) /\ pc' # pc
<1>1. TypeOK /\ pc[r] \in {"queued"} \cup Stages \cup Ended
  BY DEF Inv, TypeOK
<1>2. Begin(r) \/ Statement(r) \/ ServerRollback(r)
  <2>1. CASE pc[r] = "queued"
    <3>1. ~Commits(r) /\ ~Succeeds(r)
      BY <2>1 DEF Commits, Succeeds
    <3>2. NextStage(r) = "begun" /\ ConnectionFree
      BY <2>1 DEF NextStage, Stopped
    <3>3. /\ NextLocks(r) = held[r] /\ NextWrites(r) = wrote[r]
          /\ NextOutcome(r) = outcome[r] /\ NextShown(r) = shown[r]
      BY <2>1, <3>1 DEF NextLocks, NextWrites, NextOutcome, NextShown
    <3> QED
      BY <1>1, <2>1, <3>1, <3>2, <3>3, QuietGo DEF Begin
  <2>2. CASE pc[r] \in {"ready", "refusing", "abandoned", "inDoubt"}
    BY <2>2, EndGoesOn
  <2>3. CASE pc[r] \in {"begun", "addressed", "locked", "disowned"}
    <3>1. op[r].kind \in {"create", "delete"} \cup SingleStatement /\ InPlace(r)
      BY <1>1, Operands DEF AllInPlace
    <3>2. CASE op[r].kind = "create"
      BY <1>1, <2>3, <3>1, <3>2, CreationGoesOn DEF InPlace
    <3>3. CASE op[r].kind = "delete"
      <4>1. pc[r] # "addressed"
        BY <3>1, <3>3 DEF InPlace
      <4>2. /\ pc[r] = "begun" => Lockable(r, <<"owner", op[r].owner>>, "update")
            /\ pc[r] = "disowned" => Lockable(r, <<"address", op[r].owner>>, "update")
        BY <3>3, Free DEF Awaited
      <4> QED
        BY <1>1, <2>3, <3>3, <4>1, <4>2, DeletionGoesOn
    <3>4. CASE op[r].kind \in SingleStatement
      <4>1. pc[r] = "begun"
        BY <2>3, <3>1, <3>4 DEF InPlace, SingleStatement
      <4>2. op[r].kind = "update" /\ Joined(op[r].owner) =>
                Lockable(r, <<"address", op[r].owner>>, "update")
        BY <4>1, Free DEF Awaited
      <4> QED
        BY <3>4, <4>1, <4>2, SingleGoesOn
    <3> QED
      BY <3>1, <3>2, <3>3, <3>4
  <2> QED
    BY <1>1, <2>1, <2>2, <2>3 DEF Stages, Ended
<1>3. PICK to : pc' = [pc EXCEPT ![r] = to] /\ Left(to) < Left(pc[r])
  BY <1>1, <1>2, Forward
<1>4. pc'[r] # pc[r]
  BY <1>1, <1>3, LeftIsNat DEF TypeOK
<1> QED
  BY <1>2, <1>4

(* At any time, unless all is done, somebody is not stopped by a lock or   *)
(* the pool: with OthersGoOn, somebody can go on.                          *)
THEOREM SomebodyGoesOn ==
    Spec => [](Finished = Requests
                \/ \E r \in Requests \ Finished : ~Stopped(r, Awaited(r)))
<1>1. NoDeadlock =>
        \/ Finished = Requests
        \/ \E r \in Requests \ Finished : ~Stopped(r, Awaited(r))
  <2> SUFFICES ASSUME NoDeadlock, Finished # Requests
               PROVE  \E r \in Requests \ Finished : ~Stopped(r, Awaited(r))
    OBVIOUS
  <2> DEFINE S == Requests \ Finished
  <2>1. S # {} /\ S \cup Finished = Requests
    BY DEF Finished
  <2>2. \E r \in S : ~WaitsOn(r, Awaited(r), S \cup Finished)
    BY <2>1 DEF NoDeadlock
  <2> QED
    BY <2>1, <2>2, Waiting
<1> QED
  BY <1>1, NobodyDeadlocks, PTL

(* Requests are never retried and their steps run out: in a behaviour of   *)
(* finitely many requests all but finitely many steps stutter.             *)
StepsRunOut == [][Onward]_vars

(* Whatever fails and whoever gives up, each step brings one of the        *)
(* requests closer to its end and none further from it.                    *)
THEOREM RunsOut == ASSUME IsFiniteSet(Requests) PROVE Spec => StepsRunOut
<1>1. ASSUME TypeOK, NEW r \in Requests,
             Begin(r) \/ Statement(r) \/ GiveUp(r) \/ ServerRollback(r) \/ ServerCommit(r)
      PROVE  Onward
  BY <1>1, Forward, OneStepLess DEF TypeOK
<1>2. TypeOK /\ [Next]_vars => [Onward]_vars
  BY <1>1 DEF Next
<1> QED
  BY <1>2, TypeCorrect, PTL DEF Spec, StepsRunOut

=============================================================================
