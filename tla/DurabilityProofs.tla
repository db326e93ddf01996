------------------------- MODULE DurabilityProofs -------------------------
(***************************************************************************)
(* Proofs about Durability: the invariant of the idempotency layer carries *)
(* over to a Redis that crashes, for any instance and any number of        *)
(* crashes.                                                                *)
(***************************************************************************)
EXTENDS Durability, IdempotencyProofs

(* What is in the file was written by its owner, as RecordGenuine says of  *)
(* what is in memory.                                                      *)
DiskGenuine ==
    \A k \in Keys :
        disk[k] # None =>
            /\ call[disk[k].owner].key = k
            /\ call[disk[k].owner].hash = disk[k].hash
            /\ disk[k].answer # None =>
                /\ disk[k].answer.by = disk[k].owner
                /\ disk[k].answer = resp[disk[k].owner]

(* Whoever has been started holds its key, by a live lease or its answer,  *)
(* until the record lapses.                                                *)
StartedHolds ==
    \A p \in Requests :
        Started(p) /\ call[p].key \notin lapsed =>
            /\ Held(p) # None
            /\ Held(p).owner = p
            /\ Held(p).answer # None \/ Held(p).lease > 0

DurableInv ==
    /\ Inv
    /\ DurableTypeOK
    /\ DiskGenuine
    /\ SyncedAnswersSurvive
    /\ StartedHolds

(* At the start memory and file are empty.                                 *)
LEMMA DurableInitInv == DurableInit => DurableInv
<1>. SUFFICES ASSUME DurableInit PROVE DurableInv
  OBVIOUS
<1>1. Inv /\ TypeOK
  BY InitInv DEF DurableInit, Inv
<1>2. \A k \in Keys : disk[k] = None
  BY DEF DurableInit, Init
<1>3. DurableTypeOK
  BY <1>1 DEF DurableInit, DurableTypeOK, TypeOK
<1>4. DiskGenuine /\ SyncedAnswersSurvive
  BY <1>2 DEF DiskGenuine, SyncedAnswersSurvive
<1>5. StartedHolds
  BY DEF DurableInit, Init, StartedHolds, Started
<1>. QED
  BY <1>1, <1>3, <1>4, <1>5 DEF DurableInv

(* A response is set once: no record has an answer of a request that has   *)
(* none yet.                                                               *)
LEMMA DiskKept ==
    ASSUME DurableInv, call' = call, disk' = disk,
           \A q \in Requests : resp[q] # None => resp'[q] = resp[q]
    PROVE  DiskGenuine'
BY DEF DurableInv, DurableTypeOK, DiskGenuine, Record

(* A step that leaves the records alone and starts nobody.                 *)
LEMMA RecordsKept ==
    ASSUME DurableInv, UNCHANGED <<redis, call, disk, lapsed>>,
           \A q \in Requests : resp[q] # None => resp'[q] = resp[q],
           \A q \in Requests : Started(q)' => Started(q)
    PROVE  DiskGenuine' /\ SyncedAnswersSurvive' /\ StartedHolds'
<1>1. DiskGenuine'
  BY DiskKept
<1>2. SyncedAnswersSurvive'
  BY DEF DurableInv, SyncedAnswersSurvive
<1>3. StartedHolds'
  BY DEF DurableInv, StartedHolds, Held
<1>. QED
  BY <1>1, <1>2, <1>3

(* A reservation displaces no answer and nobody whose start still counts.  *)
LEMMA ReserveKept ==
    ASSUME DurableInv, NEW p \in Requests, Reservable(p), Reserve(p),
           UNCHANGED <<call, resp, disk, lapsed>>,
           \A q \in Requests : Started(q)' => Started(q) \/ q = p
    PROVE  DiskGenuine' /\ SyncedAnswersSurvive' /\ StartedHolds'
<1>. DEFINE k == call[p].key
            r == [hash |-> call[p].hash, owner |-> p,
                  lease |-> Lease, ttl |-> TTL, answer |-> None]
<1>. USE LeaseAssumption, TTLAssumption, NoneAssumption
<1>1. /\ k \in Keys
      /\ redis'[k] = r
      /\ \A j \in Keys : j # k => redis'[j] = redis[j]
  BY HeldType DEF DurableInv, Inv, TypeOK, Reserve
<1>2. r \in Record /\ r # None
  BY HeldType DEF DurableInv, Inv, Record
<1>3. redis[k] # None => redis[k].answer = None /\ redis[k].lease = 0
  BY DEF Reservable, Held
<1>4. DiskGenuine'
  BY DiskKept
<1>5. SyncedAnswersSurvive'
  BY <1>1, <1>3 DEF DurableInv, SyncedAnswersSurvive
<1>6. StartedHolds'
  <2>. SUFFICES ASSUME NEW q \in Requests, Started(q)', call[q].key \notin lapsed
                PROVE  /\ Held(q)' # None
                       /\ Held(q)'.owner = q
                       /\ Held(q)'.answer # None \/ Held(q)'.lease > 0
    BY DEF StartedHolds
  <2>1. CASE q = p
    BY <2>1, <1>1, <1>2 DEF Held
  <2>2. CASE q # p
    <3>1. /\ Held(q) # None
          /\ Held(q).owner = q
          /\ Held(q).answer # None \/ Held(q).lease > 0
      BY <2>2 DEF DurableInv, StartedHolds
    <3>2. call[q].key # k
      BY <3>1, <1>3 DEF Held
    <3>3. Held(q)' = Held(q)
      BY <3>2, <1>1, HeldType DEF Held, DurableInv, Inv
    <3>. QED
      BY <3>1, <3>3
  <2>. QED
    BY <2>1, <2>2
<1>. QED
  BY <1>4, <1>5, <1>6

(* The storing of an answer, the same.                                     *)
LEMMA StoreKept ==
    ASSUME DurableInv, NEW p \in Requests, Owned(p), Store(p),
           resp[p] # None,
           UNCHANGED <<call, resp, disk, lapsed>>,
           \A q \in Requests : Started(q)' => Started(q)
    PROVE  DiskGenuine' /\ SyncedAnswersSurvive' /\ StartedHolds'
<1>. DEFINE k == call[p].key
            r == [hash |-> Held(p).hash, owner |-> Held(p).owner,
                  lease |-> Held(p).lease, ttl |-> TTL, answer |-> resp[p]]
<1>. USE LeaseAssumption, TTLAssumption, NoneAssumption
<1>1. /\ k \in Keys
      /\ Held(p) = redis[k]
      /\ redis'[k] = r
      /\ \A j \in Keys : j # k => redis'[j] = redis[j]
  BY HeldType DEF DurableInv, Inv, TypeOK, Store, Held
<1>2. /\ redis[k] # None
      /\ redis[k].answer = None
      /\ redis[k].owner = p
  BY <1>1 DEF Owned
<1>3. r \in Record /\ r # None
  BY <1>1, <1>2, HeldType DEF DurableInv, Inv, TypeOK, Record
<1>4. DiskGenuine'
  BY DiskKept
<1>5. SyncedAnswersSurvive'
  BY <1>1, <1>2 DEF DurableInv, SyncedAnswersSurvive
<1>6. StartedHolds'
  <2>. SUFFICES ASSUME NEW q \in Requests, Started(q)', call[q].key \notin lapsed
                PROVE  /\ Held(q)' # None
                       /\ Held(q)'.owner = q
                       /\ Held(q)'.answer # None \/ Held(q)'.lease > 0
    BY DEF StartedHolds
  <2>1. /\ Held(q) # None
        /\ Held(q).owner = q
        /\ Held(q).answer # None \/ Held(q).lease > 0
    BY DEF DurableInv, StartedHolds
  <2>2. CASE call[q].key = k
    <3>1. q = p
      BY <2>1, <2>2, <1>2 DEF Held
    <3>. QED
      BY <3>1, <1>1, <1>2, <1>3 DEF Held
  <2>3. CASE call[q].key # k
    <3>1. Held(q)' = Held(q)
      BY <2>3, <1>1, HeldType DEF Held, DurableInv, Inv
    <3>. QED
      BY <3>1, <2>1
  <2>. QED
    BY <2>2, <2>3
<1>. QED
  BY <1>4, <1>5, <1>6

(* Every step of a request keeps what is said of the file and of starts.   *)
LEMMA StepKept ==
    ASSUME DurableInv, NEW p \in Requests, Step(p), UNCHANGED <<disk, lapsed>>
    PROVE  DiskGenuine' /\ SyncedAnswersSurvive' /\ StartedHolds'
<1>0. TypeOK
  BY DEF DurableInv, Inv
<1>1. CASE \/ RejectRequest(p) \/ Begin(p) \/ BeginFails(p)
           \/ ClaimConflict(p) \/ ClaimWait(p) \/ ClaimFails(p)
           \/ Poll(p) \/ WaitCancelled(p)
           \/ CompleteNotOwned(p) \/ CompleteFails(p) \/ Die(p)
  <2>1. Quiet(p)
    BY <1>1, QuietSteps
  <2>2. \A q \in Requests : Started(q)' => Started(q)
    BY <1>0, <2>1 DEF Quiet, Started, TypeOK
  <2>. QED
    BY <2>1, <2>2, RecordsKept DEF Quiet
<1>2. CASE ClaimReserved(p) \/ ClaimReplyLost(p) \/ LateClaim(p)
  <2>1. \A q \in Requests : Started(q)' => Started(q) \/ q = p
    BY <1>0, <1>2 DEF ClaimReserved, ClaimReplyLost, LateClaim, Goto, Started, TypeOK
  <2>. QED
    BY <1>2, <2>1, ReserveKept DEF ClaimReserved, ClaimReplyLost, LateClaim
<1>3. CASE ClaimReplay(p)
  <2>1. /\ pc[p] = "claiming"
        /\ pc' = [pc EXCEPT ![p] = "replayed"]
        /\ resp' = [resp EXCEPT ![p] = Held(p).answer]
        /\ UNCHANGED <<redis, call>>
        /\ Held(p) # None /\ Held(p).answer # None
    BY <1>3 DEF ClaimReplay, Goto, Replayable
  <2>2. resp[p] = None
    BY <2>1 DEF DurableInv, Inv, Fresh
  <2>3. Held(p).answer.by # p
    <3>1. /\ Held(p).answer.by = Held(p).owner
          /\ Held(p).answer = resp[Held(p).owner]
      BY <1>0, <2>1, HeldType DEF DurableInv, Inv, RecordGenuine, Held
    <3>. QED
      BY <3>1, <2>1, <2>2
  <2>4. \A q \in Requests : Started(q)' => Started(q)
    BY <1>0, <2>1, <2>3 DEF Started, TypeOK
  <2>5. \A q \in Requests : resp[q] # None => resp'[q] = resp[q]
    BY <1>0, <2>1, <2>2 DEF TypeOK
  <2>. QED
    BY <2>1, <2>4, <2>5, RecordsKept
<1>4. CASE RunHandler(p)
  <2>1. /\ pc[p] = "running"
        /\ pc' = [pc EXCEPT ![p] = "completing"]
        /\ UNCHANGED <<redis, call>>
        /\ \A q \in Requests : q # p => resp'[q] = resp[q]
    BY <1>0, <1>4 DEF RunHandler, Goto, TypeOK
  <2>2. resp[p] = None
    BY <2>1 DEF DurableInv, Inv, Fresh
  <2>3. \A q \in Requests : Started(q)' => Started(q)
    BY <1>0, <2>1 DEF Started, TypeOK
  <2>. QED
    BY <2>1, <2>2, <2>3, RecordsKept
<1>5. CASE Complete(p) \/ CompleteReplyLost(p) \/ LateComplete(p)
  <2>1. resp[p] # None
    BY <1>5 DEF Complete, CompleteReplyLost, LateComplete, Goto,
                DurableInv, Inv, ResponseGenuine
  <2>2. \A q \in Requests : Started(q)' => Started(q)
    BY <1>0, <1>5 DEF Complete, CompleteReplyLost, LateComplete, Goto, Started, TypeOK
  <2>. QED
    BY <1>5, <2>1, <2>2, StoreKept DEF Complete, CompleteReplyLost, LateComplete
<1>6. CASE LateEffect(p)
  <2>1. \A q \in Requests : Started(q)' => Started(q)
    BY <1>6 DEF LateEffect, Started
  <2>. QED
    BY <1>6, <2>1, RecordsKept DEF LateEffect
<1>. QED
  BY <1>1, <1>2, <1>3, <1>4, <1>5, <1>6 DEF Step, Claim, Finish

(* Memory and file age alike.                                              *)
LEMMA TimePassesKept ==
    ASSUME DurableInv, TimePasses
    PROVE  DurableTypeOK' /\ DiskGenuine' /\ SyncedAnswersSurvive' /\ StartedHolds'
<1>1. /\ \A k \in Keys : redis'[k] = Age(redis[k]) /\ disk'[k] = Age(disk[k])
      /\ UNCHANGED <<call, pc, resp, effects>>
      /\ lapsed' = lapsed \cup {k \in Keys : Lapses(redis[k])}
  BY DEF TimePasses, Tick
<1>2. TypeOK'
  BY NextTypeOK DEF DurableInv, DurableTypeOK, TimePasses, Next
<1>3. DurableTypeOK'
  <2>1. \A k \in Keys : Age(disk[k]) \in Record \cup {None}
    BY AgeType DEF DurableInv, DurableTypeOK
  <2>. QED
    BY <1>2, <2>1 DEF TimePasses, DurableTypeOK, DurableInv
<1>4. DiskGenuine'
  BY <1>1, AgeSame DEF DurableInv, DiskGenuine
<1>5. SyncedAnswersSurvive'
  BY <1>1, AgeSame DEF DurableInv, SyncedAnswersSurvive
<1>6. StartedHolds'
  <2>. SUFFICES ASSUME NEW p \in Requests, Started(p)', call[p].key \notin lapsed'
                PROVE  /\ Held(p)' # None
                       /\ Held(p)'.owner = p
                       /\ Held(p)'.answer # None \/ Held(p)'.lease > 0
    BY <1>1 DEF StartedHolds
  <2>1. Started(p) /\ call[p].key \notin lapsed /\ call[p].key \in Keys
    BY <1>1, HeldType DEF Started, DurableInv, Inv
  <2>2. Held(p) # None /\ Held(p).owner = p
    BY <2>1 DEF DurableInv, StartedHolds
  <2>3. ~Lapses(Held(p)) /\ Held(p)' = Age(Held(p))
    BY <1>1, <2>1 DEF Held
  <2>4. /\ Age(Held(p)) # None
        /\ Age(Held(p)).answer # None \/ Age(Held(p)).lease # 0
    BY <2>2, <2>3 DEF Lapses
  <2>5. Age(Held(p)).lease \in Nat
    BY <2>4, AgeType, HeldType, LeaseAssumption DEF DurableInv, Inv, Record
  <2>. QED
    BY <2>2, <2>3, <2>4, <2>5, AgeSame
<1>. QED
  BY <1>3, <1>4, <1>5, <1>6

(* A crash puts back records that were genuine when they were synced, and  *)
(* voids the promises on all others.                                       *)
LEMMA CrashInv ==
    ASSUME DurableInv, Crash
    PROVE  DurableInv'
<1>1. /\ redis' = disk
      /\ UNCHANGED <<call, pc, resp, effects, disk>>
      /\ lapsed' = lapsed \cup {k \in Keys : disk[k] # redis[k]}
      /\ \A p \in Requests :
            promise'[p] > 0 => Held(p)' = Held(p) /\ promise'[p] = promise[p]
  BY DEF Crash, Held, DurableInv, Inv, TypeOK
<1>2. TypeOK'
  <2>1. promise' \in [Requests -> 0..TTL]
    BY TTLAssumption DEF Crash, DurableInv, Inv, TypeOK
  <2>. QED
    BY <1>1, <2>1 DEF DurableInv, Inv, DurableTypeOK, TypeOK
<1>3. DurableTypeOK'
  BY <1>1, <1>2 DEF DurableInv, DurableTypeOK
<1>4. PromiseBacked' /\ AnswerKept'
  BY <1>1 DEF DurableInv, Inv, PromiseBacked, AnswerKept
<1>5. RecordGenuine'
  BY <1>1 DEF DurableInv, DiskGenuine, RecordGenuine
<1>6. ResponseGenuine' /\ ToldGenuine' /\ Fresh' /\ ResponseTrue'
  BY <1>1 DEF DurableInv, Inv, ResponseGenuine, ToldGenuine, Fresh, ResponseTrue
<1>7. Inv'
  BY <1>2, <1>4, <1>5, <1>6 DEF Inv
<1>8. DiskGenuine' /\ SyncedAnswersSurvive'
  BY <1>1 DEF DurableInv, DiskGenuine, SyncedAnswersSurvive
<1>9. StartedHolds'
  <2>. SUFFICES ASSUME NEW p \in Requests, Started(p)', call[p].key \notin lapsed'
                PROVE  /\ Held(p)' # None
                       /\ Held(p)'.owner = p
                       /\ Held(p)'.answer # None \/ Held(p)'.lease > 0
    BY <1>1 DEF StartedHolds
  <2>1. Started(p) /\ call[p].key \notin lapsed /\ call[p].key \in Keys
    BY <1>1, HeldType DEF Started, DurableInv, Inv
  <2>2. Held(p)' = Held(p)
    BY <1>1, <2>1 DEF Held
  <2>. QED
    BY <2>1, <2>2 DEF DurableInv, StartedHolds
<1>. QED
  BY <1>3, <1>7, <1>8, <1>9 DEF DurableInv

(* Every step keeps the invariant.                                         *)
LEMMA DurableNextInv == DurableInv /\ [DurableNext]_durableVars => DurableInv'
<1>. SUFFICES ASSUME DurableInv, [DurableNext]_durableVars PROVE DurableInv'
  OBVIOUS
<1>1. ASSUME NEW p \in Requests, Step(p), UNCHANGED <<disk, lapsed>>
      PROVE  DurableInv'
  <2>1. Inv'
    BY <1>1, NextInv DEF DurableInv, Next
  <2>2. DurableTypeOK'
    BY <1>1, <2>1 DEF Inv, DurableInv, DurableTypeOK
  <2>. QED
    BY <1>1, <2>1, <2>2, StepKept DEF DurableInv
<1>2. CASE TimePasses
  <2>1. Inv'
    BY <1>2, NextInv DEF DurableInv, Next, TimePasses
  <2>. QED
    BY <1>2, <2>1, TimePassesKept DEF DurableInv
<1>3. CASE Sync
  <2>1. UNCHANGED vars /\ disk' = redis /\ lapsed' = lapsed
    BY <1>3 DEF Sync
  <2>2. Inv'
    BY <2>1, NextInv DEF DurableInv
  <2>3. DurableTypeOK'
    BY <2>1, <2>2 DEF Inv, TypeOK, DurableInv, DurableTypeOK, vars
  <2>4. DiskGenuine' /\ SyncedAnswersSurvive'
    BY <2>1 DEF DurableInv, Inv, RecordGenuine, DiskGenuine, SyncedAnswersSurvive, vars
  <2>5. StartedHolds'
    BY <2>1 DEF DurableInv, StartedHolds, Started, Held, vars
  <2>. QED
    BY <2>2, <2>3, <2>4, <2>5 DEF DurableInv
<1>4. CASE Crash
  BY <1>4, CrashInv
<1>5. CASE UNCHANGED durableVars
  <2>1. Inv'
    BY <1>5, NextInv DEF DurableInv, durableVars
  <2>. QED
    BY <1>5, <2>1 DEF durableVars, vars, DurableInv, DurableTypeOK, Inv, DiskGenuine,
                      SyncedAnswersSurvive, StartedHolds, Started, Held
<1>. QED
  BY <1>1, <1>2, <1>3, <1>4, <1>5 DEF DurableNext

(* The inductive invariant of the layer and of what is on the disk.        *)
THEOREM DurableInvHolds == DurableSpec => []DurableInv
BY DurableInitInv, DurableNextInv, PTL DEF DurableSpec

(* The variables keep their types whatever Redis forgets.                  *)
THEOREM DurableTypes == DurableSpec => []DurableTypeOK
<1>1. DurableInv => DurableTypeOK
  BY DEF DurableInv
<1>. QED
  BY <1>1, DurableInvHolds, PTL

(* An answer that has been synced is never displaced before it expires.    *)
THEOREM SyncedSurvive == DurableSpec => []SyncedAnswersSurvive
<1>1. DurableInv => SyncedAnswersSurvive
  BY DEF DurableInv
<1>. QED
  BY <1>1, DurableInvHolds, PTL

(* Two handlers are started for a key only if its record was lost, or left *)
(* unanswered at the end of its lease.                                     *)
THEOREM StartedOnce == DurableSpec => []OneStartUnlessLapsed
<1>1. DurableInv => OneStartUnlessLapsed
  BY DEF DurableInv, StartedHolds, OneStartUnlessLapsed, Held
<1>. QED
  BY <1>1, DurableInvHolds, PTL

(* A crash of Redis is, to its callers, a register that forgets.           *)
LEMMA CrashRegister ==
    ASSUME DurableInv, Crash
    PROVE  \E S \in SUBSET Keys : Register!Forget(S)
<1>. DEFINE S == {k \in Keys : settled'[k] = None}
<1>1. redis' = disk /\ UNCHANGED <<call, pc, resp>>
  BY DEF Crash
<1>2. \A k \in Keys : settled'[k] = None \/ settled'[k] = settled[k]
  BY <1>1 DEF settled, DurableInv, SyncedAnswersSurvive
<1>3. settled' = [k \in Keys |-> IF k \in S THEN None ELSE settled[k]]
  BY <1>2 DEF settled
<1>4. answered' = answered
  BY <1>1 DEF answered
<1>5. Register!Forget(S)
  BY <1>1, <1>3, <1>4 DEF Register!Forget
<1>. QED
  BY <1>5

(* Even over a Redis that crashes the layer is one write-once register per *)
(* key: what a crash brings back never contradicts an answer that was      *)
(* given, unless the answer is forgotten altogether.                       *)
THEOREM DurableImplements == DurableSpec => ImplementsRegister
<1>1. DurableInit => Register!Init
  BY InitRegister DEF DurableInit
<1>2. DurableInv /\ [DurableNext]_durableVars => [Register!Next]_(Register!vars)
  <2>. SUFFICES ASSUME DurableInv, [DurableNext]_durableVars
                PROVE  [Register!Next]_(Register!vars)
    OBVIOUS
  <2>1. CASE \E p \in Requests : Step(p)
    BY <2>1, NextRegister DEF DurableInv, Next
  <2>2. CASE TimePasses
    BY <2>2, NextRegister DEF DurableInv, Next, TimePasses
  <2>3. CASE Sync \/ UNCHANGED durableVars
    BY <2>3, NextRegister DEF DurableInv, Sync, durableVars
  <2>4. CASE Crash
    BY <2>4, CrashRegister DEF Register!Next
  <2>. QED
    BY <2>1, <2>2, <2>3, <2>4 DEF DurableNext
<1>. QED
  BY <1>1, <1>2, DurableInvHolds, PTL DEF DurableSpec, ImplementsRegister, Register!Spec

=============================================================================
