------------------------ MODULE IdempotencyProofs ------------------------
(***************************************************************************)
(* Proofs about Idempotency, for any sets of requests, keys and            *)
(* fingerprints and for every lease and time to live.                      *)
(***************************************************************************)
EXTENDS Idempotency, TLAPS

(* What is left of a lease or a time to live never grows with time.        *)
LEMMA DownType == \A n \in Nat : Down(n) \in 0..n
BY DEF Down

(* Every value that a record of a key or a reply can be made of.           *)
LEMMA HeldType ==
    ASSUME TypeOK, NEW p \in Requests
    PROVE  /\ call[p].key \in Keys
           /\ call[p].hash \in Fingerprints
           /\ Held(p) \in Record \cup {None}
BY DEF TypeOK, Held, Call

(* A record that ages is a record, or gone.                                *)
LEMMA AgeType ==
    ASSUME NEW r \in Record \cup {None}
    PROVE  Age(r) \in Record \cup {None}
<1>. USE LeaseAssumption, TTLAssumption
<1>1. CASE r = None \/ r.ttl = 0
  BY <1>1 DEF Age
<1>2. CASE r # None /\ r.ttl # 0
  <2>1. r \in Record
    BY <1>2
  <2>2. r.ttl - 1 \in 0..TTL
    BY <1>2, <2>1 DEF Record
  <2>3. Down(r.lease) \in 0..Lease
    BY <2>1 DEF Record, Down
  <2>4. Age(r) = [hash |-> r.hash, owner |-> r.owner,
                  lease |-> Down(r.lease), ttl |-> r.ttl - 1, answer |-> r.answer]
    BY <1>2 DEF Age
  <2>. QED
    BY <2>1, <2>2, <2>3, <2>4 DEF Record
<1>. QED
  BY <1>1, <1>2

(* A record that outlives a tick is the same one with less time left.      *)
LEMMA AgeSame ==
    ASSUME NEW r, Age(r) # None
    PROVE  /\ r # None
           /\ Age(r).hash = r.hash
           /\ Age(r).owner = r.owner
           /\ Age(r).answer = r.answer
           /\ Age(r).lease = Down(r.lease)
           /\ Age(r).ttl = r.ttl - 1
<1>1. r # None /\ r.ttl # 0
  BY DEF Age
<1>2. Age(r) = [hash |-> r.hash, owner |-> r.owner,
                lease |-> Down(r.lease), ttl |-> r.ttl - 1, answer |-> r.answer]
  BY <1>1 DEF Age
<1>. QED
  BY <1>1, <1>2

(* A reservation is well typed.                                            *)
LEMMA ReserveType ==
    ASSUME TypeOK, NEW p \in Requests, Reserve(p)
    PROVE  /\ redis' \in [Keys -> Record \cup {None}]
           /\ promise' \in [Requests -> 0..TTL]
<1>. USE LeaseAssumption, TTLAssumption, HeldType
<1>1. [hash |-> call[p].hash, owner |-> p,
       lease |-> Lease, ttl |-> TTL, answer |-> None] \in Record
  BY DEF Record
<1>. QED
  BY <1>1 DEF TypeOK, Reserve

(* So is the storing of an answer.                                         *)
LEMMA StoreType ==
    ASSUME TypeOK, NEW p \in Requests, Held(p) # None, Store(p)
    PROVE  /\ redis' \in [Keys -> Record \cup {None}]
           /\ promise' \in [Requests -> 0..TTL]
<1>. USE LeaseAssumption, TTLAssumption, HeldType
<1>1. Held(p) \in Record /\ resp[p] \in Response \cup {None}
  BY DEF TypeOK
<1>2. [hash |-> Held(p).hash, owner |-> Held(p).owner,
       lease |-> Held(p).lease, ttl |-> TTL, answer |-> resp[p]] \in Record
  BY <1>1 DEF Record
<1>. QED
  BY <1>2 DEF TypeOK, Store

-----------------------------------------------------------------------------
(* Type correctness.                                                       *)

(* Types at the start.                                                     *)
LEMMA InitTypeOK == Init => TypeOK
<1>. USE LeaseAssumption, TTLAssumption
<1>. QED
  BY DEF Init, TypeOK, InFlight

(* Every step keeps the types.                                             *)
LEMMA NextTypeOK == TypeOK /\ [Next]_vars => TypeOK'
<1>. SUFFICES ASSUME TypeOK, [Next]_vars PROVE TypeOK'
  OBVIOUS
<1>. USE LeaseAssumption, TTLAssumption
<1>1. CASE Tick
  <2>1. \A k \in Keys : Age(redis[k]) \in Record \cup {None}
    BY AgeType DEF TypeOK
  <2>2. \A p \in Requests : Down(promise[p]) \in 0..TTL
    BY DEF TypeOK, Down
  <2>. QED
    BY <1>1, <2>1, <2>2 DEF Tick, TypeOK
<1>2. ASSUME NEW p \in Requests, Step(p) PROVE TypeOK'
  <2>1. CASE RejectRequest(p)
    BY <2>1 DEF RejectRequest, Goto, TypeOK, Answered
  <2>2. CASE Begin(p)
    BY <2>2 DEF Begin, Goto, TypeOK, InFlight
  <2>3. CASE BeginFails(p)
    BY <2>3 DEF BeginFails, Goto, TypeOK, Answered
  <2>4. CASE ClaimReserved(p)
    BY <2>4, ReserveType DEF ClaimReserved, Goto, TypeOK, InFlight
  <2>5. CASE ClaimConflict(p)
    BY <2>5 DEF ClaimConflict, Goto, TypeOK, Answered
  <2>6. CASE ClaimReplay(p)
    <3>1. Held(p).answer \in Response \cup {None}
      BY <2>6, HeldType DEF ClaimReplay, Replayable, Record
    <3>. QED
      BY <2>6, <3>1 DEF ClaimReplay, Goto, TypeOK, Answered
  <2>7. CASE ClaimWait(p)
    BY <2>7 DEF ClaimWait, Goto, TypeOK, InFlight
  <2>8. CASE ClaimFails(p)
    BY <2>8 DEF ClaimFails, Goto, TypeOK, Answered, Pending
  <2>9. CASE ClaimReplyLost(p)
    BY <2>9, ReserveType DEF ClaimReplyLost, Goto, TypeOK, InFlight
  <2>10. CASE Poll(p)
    BY <2>10 DEF Poll, Goto, TypeOK, InFlight
  <2>11. CASE WaitCancelled(p)
    BY <2>11 DEF WaitCancelled, Goto, TypeOK, Answered
  <2>12. CASE RunHandler(p)
    <3>1. /\ pc' \in [Requests -> InFlight \cup Answered \cup Pending \cup Dead]
          /\ UNCHANGED <<redis, call, promise>>
      BY <2>12 DEF RunHandler, Goto, TypeOK, InFlight
    <3>2. PICK status \in Statuses :
            /\ resp' = [resp EXCEPT ![p] = [by |-> p, status |-> status]]
            /\ effects' = IF status = "ok" THEN effects \cup {p} ELSE effects
      BY <2>12 DEF RunHandler
    <3>3. [by |-> p, status |-> status] \in Response
      BY DEF Response
    <3>4. resp' \in [Requests -> Response \cup {None}]
      BY <3>2, <3>3 DEF TypeOK
    <3>5. effects' \in SUBSET Requests
      BY <3>2 DEF TypeOK
    <3>. QED
      BY <3>1, <3>4, <3>5 DEF TypeOK
  <2>13. CASE Complete(p)
    BY <2>13, StoreType DEF Complete, Owned, Goto, TypeOK, Answered
  <2>14. CASE CompleteNotOwned(p)
    BY <2>14 DEF CompleteNotOwned, Goto, TypeOK, Answered
  <2>15. CASE CompleteFails(p)
    BY <2>15 DEF CompleteFails, Goto, TypeOK, Answered, Pending
  <2>16. CASE CompleteReplyLost(p)
    BY <2>16, StoreType DEF CompleteReplyLost, Owned, Goto, TypeOK, Answered
  <2>17. CASE Die(p)
    BY <2>17 DEF Die, TypeOK, Dead
  <2>18. CASE LateClaim(p)
    BY <2>18, ReserveType DEF LateClaim, Goto, TypeOK, Answered
  <2>19. CASE LateComplete(p)
    BY <2>19, StoreType DEF LateComplete, Owned, Goto, TypeOK, Answered
  <2>20. CASE LateEffect(p)
    BY <2>20 DEF LateEffect, TypeOK
  <2>. QED
    BY <1>2, <2>1, <2>2, <2>3, <2>4, <2>5, <2>6, <2>7, <2>8, <2>9, <2>10,
       <2>11, <2>12, <2>13, <2>14, <2>15, <2>16, <2>17, <2>18, <2>19, <2>20
    DEF Step, Claim, Finish
<1>3. CASE UNCHANGED vars
  BY <1>3 DEF vars, TypeOK
<1>. QED
  BY <1>1, <1>2, <1>3 DEF Next

(* The variables only ever hold values of their types.                     *)
THEOREM TypeCorrect == Spec => []TypeOK
BY InitTypeOK, NextTypeOK, PTL DEF Spec

-----------------------------------------------------------------------------
(* The inductive invariant.                                                *)

(* A record was written by its owner, whose call it describes; its answer  *)
(* is the response of the owner's handler.                                 *)
RecordGenuine ==
    \A k \in Keys :
        redis[k] # None =>
            /\ call[redis[k].owner].key = k
            /\ call[redis[k].owner].hash = redis[k].hash
            /\ redis[k].answer # None =>
                /\ redis[k].answer.by = redis[k].owner
                /\ redis[k].answer = resp[redis[k].owner]

(* What a request is about to store is its own handler's response.         *)
ResponseGenuine ==
    \A p \in Requests :
        pc[p] \in {"completing", "completePending"} =>
            resp[p] # None /\ resp[p].by = p

(* What a request was told is the response of the handler that made it.    *)
ToldGenuine ==
    \A p \in Requests :
        pc[p] \in {"executed", "replayed"} =>
            /\ resp[p] # None
            /\ call[resp[p].by] = call[p]
            /\ resp[resp[p].by] = resp[p]

(* A request has no response until its handler returns or it replays one,  *)
(* and no effect until its handler returns or is cut off.                  *)
Fresh ==
    \A p \in Requests :
        /\ pc[p] \in {"arrived", "claiming", "waiting", "running", "cut"} =>
                resp[p] = None
        /\ pc[p] \in {"arrived", "claiming", "waiting", "running"} => p \notin effects

(* A handler's response says what its transaction did, a 5xx aside.        *)
ResponseTrue ==
    \A p \in Requests :
        resp[p] # None /\ resp[p].by = p =>
            /\ resp[p].status = "ok" => p \in effects
            /\ resp[p].status = "refused" => p \notin effects

Inv ==
    /\ TypeOK
    /\ PromiseBacked
    /\ RecordGenuine
    /\ ResponseGenuine
    /\ AnswerKept
    /\ ToldGenuine
    /\ Fresh
    /\ ResponseTrue

(* At the start nothing is promised or stored.                             *)
LEMMA InitInv == Init => Inv
<1>. SUFFICES ASSUME Init PROVE Inv
  OBVIOUS
<1>1. TypeOK
  BY InitTypeOK
<1>2. PromiseBacked /\ RecordGenuine
  BY DEF Init, PromiseBacked, RecordGenuine
<1>3. ResponseGenuine /\ AnswerKept /\ ToldGenuine
  BY DEF Init, ResponseGenuine, AnswerKept, ToldGenuine
<1>4. Fresh /\ ResponseTrue
  BY DEF Init, Fresh, ResponseTrue
<1>. QED
  BY <1>1, <1>2, <1>3, <1>4 DEF Inv

(* The steps that only move a request's program counter, and not to a      *)
(* place where Inv asks anything of it.                                    *)
Quiet(p) ==
    /\ pc[p] \in InFlight
    /\ \E to \in {"claiming", "waiting", "conflict", "invalid", "error", "lost",
                  "cut", "claimPending", "completePending"} :
        /\ pc' = [pc EXCEPT ![p] = to]
        /\ to = "completePending" => pc[p] = "completing"
        /\ to = "cut" => pc[p] = "running"
        /\ to \in {"claiming", "waiting"} => pc[p] \in {"arrived", "claiming", "waiting"}
    /\ UNCHANGED <<redis, call, resp, effects, promise>>

(* Which steps touch neither records nor promises.                         *)
LEMMA QuietSteps ==
    ASSUME NEW p \in Requests,
           \/ RejectRequest(p) \/ Begin(p) \/ BeginFails(p)
           \/ ClaimConflict(p) \/ ClaimWait(p) \/ ClaimFails(p)
           \/ Poll(p) \/ WaitCancelled(p)
           \/ CompleteNotOwned(p) \/ CompleteFails(p) \/ Die(p)
    PROVE  Quiet(p)
BY DEF Quiet, Goto, RejectRequest, Begin, BeginFails, ClaimConflict, ClaimWait,
       ClaimFails, Poll, WaitCancelled, CompleteNotOwned, CompleteFails, Die,
       InFlight

(* Those steps keep the invariant.                                         *)
LEMMA QuietInv ==
    ASSUME Inv, NEW p \in Requests, Quiet(p), TypeOK'
    PROVE  Inv'
<1>. USE DEF Inv, Quiet
<1>1. PromiseBacked'
  BY DEF PromiseBacked, Held
<1>2. RecordGenuine'
  BY DEF RecordGenuine
<1>3. ResponseGenuine'
  BY DEF ResponseGenuine, TypeOK
<1>4. AnswerKept'
  BY DEF AnswerKept, Held, TypeOK
<1>5. ToldGenuine'
  BY DEF ToldGenuine, TypeOK
<1>6. Fresh'
  BY DEF Fresh, TypeOK
<1>7. ResponseTrue'
  BY DEF ResponseTrue
<1>. QED
  BY <1>1, <1>2, <1>3, <1>4, <1>5, <1>6, <1>7

(* Whoever can reserve a key does so when no promise on it is left.        *)
LEMMA ReservableUnpromised ==
    ASSUME Inv, NEW p \in Requests, Reservable(p),
           NEW q \in Requests, call[q].key = call[p].key
    PROVE  promise[q] = 0
BY DEF Inv, PromiseBacked, Reservable, Held, TypeOK

(* Whoever owns the record of a key is the only one with a promise on it.  *)
LEMMA OwnerOnlyPromised ==
    ASSUME Inv, NEW p \in Requests, Owned(p),
           NEW q \in Requests, call[q].key = call[p].key, q # p
    PROVE  promise[q] = 0
BY DEF Inv, PromiseBacked, Owned, Held, TypeOK

(* Reserving, as the claim script does it, whatever becomes of its reply.  *)
LEMMA ReserveInv ==
    ASSUME Inv, NEW p \in Requests, Reservable(p), Reserve(p),
           NEW from \in {"claiming", "claimPending"},
           NEW to \in {"claiming", "running", "error"}, Goto(p, from, to),
           from = "claimPending" => to = "error",
           UNCHANGED <<call, resp, effects>>, TypeOK'
    PROVE  Inv'
<1>. DEFINE k == call[p].key
            r == [hash |-> call[p].hash, owner |-> p,
                  lease |-> Lease, ttl |-> TTL, answer |-> None]
<1>. USE LeaseAssumption, TTLAssumption, NoneAssumption
<1>1. /\ k \in Keys
      /\ redis' = [redis EXCEPT ![k] = r]
      /\ promise' = [promise EXCEPT ![p] = Lease]
  BY HeldType DEF Inv, Reserve
<1>2. r # None /\ r \in Record
  <2>1. redis'[k] \in Record \cup {None}
    BY <1>1 DEF TypeOK
  <2>2. r \in Record
    BY HeldType DEF Inv, Record
  <2>. QED
    BY <2>2
<1>3. \A q \in Requests :
        call[q].key = k => Held(q)' = r /\ (q # p => promise'[q] = 0)
  BY <1>1, ReservableUnpromised DEF Inv, Held, TypeOK
<1>4. \A q \in Requests :
        call[q].key # k => Held(q)' = Held(q) /\ promise'[q] = promise[q]
  BY <1>1 DEF Inv, Held, TypeOK, Call
<1>5. PromiseBacked'
  BY <1>1, <1>2, <1>3, <1>4 DEF Inv, PromiseBacked, TypeOK
<1>6. RecordGenuine'
  BY <1>1 DEF Inv, RecordGenuine, TypeOK
<1>7. pc' = [pc EXCEPT ![p] = to] /\ pc[p] = from
  BY DEF Goto
<1>8. ResponseGenuine'
  BY <1>7 DEF Inv, ResponseGenuine, TypeOK
<1>9. AnswerKept'
  <2>. SUFFICES ASSUME NEW q \in Requests, pc'[q] = "executed", promise'[q] > 0
                PROVE  /\ Held(q)' # None
                       /\ Held(q)'.hash = call[q].hash
                       /\ Held(q)'.answer = resp[q]
    BY DEF AnswerKept
  <2>1. q # p /\ pc[q] = "executed"
    BY <1>7 DEF Inv, TypeOK
  <2>2. call[q].key # k
    BY <1>3, <2>1
  <2>. QED
    BY <1>4, <2>1, <2>2 DEF Inv, AnswerKept
<1>10. ToldGenuine'
  BY <1>7 DEF Inv, ToldGenuine, TypeOK
<1>11. Fresh' /\ ResponseTrue'
  BY <1>7 DEF Inv, Fresh, ResponseTrue, TypeOK
<1>. QED
  BY <1>5, <1>6, <1>8, <1>9, <1>10, <1>11 DEF Inv

(* Storing, as the complete script does it, whatever becomes of its reply. *)
LEMMA StoreInv ==
    ASSUME Inv, NEW p \in Requests, Owned(p), Store(p),
           NEW from \in {"completing", "completePending"},
           NEW to \in {"executed", "error"}, Goto(p, from, to),
           UNCHANGED <<call, resp, effects>>, TypeOK'
    PROVE  Inv'
<1>. DEFINE k == call[p].key
            r == [hash |-> Held(p).hash, owner |-> Held(p).owner,
                  lease |-> Held(p).lease, ttl |-> TTL, answer |-> resp[p]]
<1>. USE LeaseAssumption, TTLAssumption, NoneAssumption
<1>1. /\ k \in Keys
      /\ redis' = [redis EXCEPT ![k] = r]
      /\ promise' = [promise EXCEPT ![p] = TTL]
      /\ pc' = [pc EXCEPT ![p] = to]
      /\ pc[p] = from
  BY HeldType DEF Inv, Store, Goto
<1>2. Held(p) \in Record /\ Held(p).owner = p
  BY HeldType DEF Inv, Owned
<1>3. /\ resp[p] \in Response
      /\ resp[p] # None
      /\ resp[p].by = p
  BY <1>1 DEF Inv, ResponseGenuine, TypeOK
<1>4. r \in Record /\ r # None
  BY <1>2, <1>3 DEF Record
<1>5. \A q \in Requests :
        call[q].key = k => Held(q)' = r /\ (q # p => promise'[q] = 0)
  BY <1>1, OwnerOnlyPromised DEF Inv, Held, TypeOK
<1>6. \A q \in Requests :
        call[q].key # k => Held(q)' = Held(q) /\ promise'[q] = promise[q]
  BY <1>1 DEF Inv, Held, TypeOK, Call
<1>7. PromiseBacked'
  BY <1>1, <1>2, <1>3, <1>4, <1>5, <1>6 DEF Inv, PromiseBacked, TypeOK
<1>8. /\ Held(p).hash = call[p].hash
      /\ redis[k] = Held(p)
  BY <1>1, <1>2, <1>4 DEF Inv, RecordGenuine, Owned, Held
<1>9. RecordGenuine'
  BY <1>1, <1>2, <1>3, <1>8 DEF Inv, RecordGenuine, TypeOK
<1>10. ResponseGenuine'
  BY <1>1 DEF Inv, ResponseGenuine, TypeOK
<1>11. AnswerKept'
  <2>. SUFFICES ASSUME NEW q \in Requests, pc'[q] = "executed", promise'[q] > 0
                PROVE  /\ Held(q)' # None
                       /\ Held(q)'.hash = call[q].hash
                       /\ Held(q)'.answer = resp[q]
    BY DEF AnswerKept
  <2>1. CASE q = p
    BY <2>1, <1>4, <1>5, <1>8
  <2>2. CASE q # p
    <3>1. pc[q] = "executed" /\ call[q].key # k
      BY <2>2, <1>1, <1>5 DEF Inv, TypeOK
    <3>. QED
      BY <3>1, <1>6 DEF Inv, AnswerKept
  <2>. QED
    BY <2>1, <2>2
<1>12. ToldGenuine'
  BY <1>1, <1>3 DEF Inv, ToldGenuine, TypeOK
<1>13. Fresh' /\ ResponseTrue'
  BY <1>1 DEF Inv, Fresh, ResponseTrue, TypeOK
<1>. QED
  BY <1>7, <1>9, <1>10, <1>11, <1>12, <1>13 DEF Inv

(* A replay tells what the record has, which is genuine.                   *)
LEMMA ReplayInv ==
    ASSUME Inv, NEW p \in Requests, ClaimReplay(p), TypeOK'
    PROVE  Inv'
<1>1. /\ pc' = [pc EXCEPT ![p] = "replayed"]
      /\ resp' = [resp EXCEPT ![p] = Held(p).answer]
      /\ UNCHANGED <<redis, call, effects, promise>>
      /\ pc[p] = "claiming"
  BY DEF ClaimReplay, Goto
<1>2. /\ Held(p) # None
      /\ Held(p).hash = call[p].hash
      /\ Held(p).answer # None
      /\ Held(p) = redis[call[p].key]
      /\ call[p].key \in Keys
  BY HeldType DEF ClaimReplay, Replayable, Held, Inv
<1>3. /\ Held(p).answer.by = Held(p).owner
      /\ Held(p).owner \in Requests
      /\ call[Held(p).owner] = call[p]
      /\ Held(p).answer = resp[Held(p).owner]
  BY <1>2, HeldType DEF Inv, RecordGenuine, Record, TypeOK, Call
<1>4. resp[p] = None /\ Held(p).owner # p
  BY <1>1, <1>2, <1>3 DEF Inv, Fresh
<1>5. PromiseBacked'
  BY <1>1 DEF Inv, PromiseBacked, Held
<1>6. RecordGenuine'
  BY <1>1, <1>4 DEF Inv, RecordGenuine, TypeOK, Record
<1>7. ResponseGenuine' /\ AnswerKept'
  BY <1>1 DEF Inv, ResponseGenuine, AnswerKept, Held, TypeOK
<1>8. ToldGenuine'
  <2>. SUFFICES ASSUME NEW q \in Requests, pc'[q] \in {"executed", "replayed"}
                PROVE  /\ resp'[q] # None
                       /\ call[resp'[q].by] = call[q]
                       /\ resp'[resp'[q].by] = resp'[q]
    BY <1>1 DEF ToldGenuine
  <2>1. CASE q = p
    BY <2>1, <1>1, <1>2, <1>3, <1>4 DEF Inv, TypeOK
  <2>2. CASE q # p
    <3>1. /\ resp'[q] = resp[q]
          /\ resp[q] # None
          /\ call[resp[q].by] = call[q]
          /\ resp[resp[q].by] = resp[q]
      BY <2>2, <1>1 DEF Inv, ToldGenuine, TypeOK
    <3>2. resp[q].by # p
      BY <3>1, <1>4
    <3>3. resp'[resp[q].by] = resp[resp[q].by]
      BY <3>2, <1>1 DEF Inv, TypeOK
    <3>. QED
      BY <3>1, <3>3
  <2>. QED
    BY <2>1, <2>2
<1>9. Fresh'
  BY <1>1 DEF Inv, Fresh, TypeOK
<1>10. ResponseTrue'
  BY <1>1, <1>3, <1>4 DEF Inv, ResponseTrue, TypeOK
<1>. QED
  BY <1>5, <1>6, <1>7, <1>8, <1>9, <1>10 DEF Inv

(* The handler produces the response of its own request.                   *)
LEMMA RunInv ==
    ASSUME Inv, NEW p \in Requests, RunHandler(p), TypeOK'
    PROVE  Inv'
<1>1. PICK status \in Statuses :
        /\ resp' = [resp EXCEPT ![p] = [by |-> p, status |-> status]]
        /\ effects' = IF status = "ok" THEN effects \cup {p} ELSE effects
  BY DEF RunHandler
<1>. DEFINE r == [by |-> p, status |-> status]
<1>2. /\ pc[p] = "running"
      /\ pc' = [pc EXCEPT ![p] = "completing"]
      /\ UNCHANGED <<redis, call, promise>>
      /\ \A q \in Requests : q # p => (q \in effects' <=> q \in effects)
      /\ status = "ok" <=> p \in effects'
      /\ resp[p] = None
  BY <1>1 DEF RunHandler, Goto, Inv, Fresh, TypeOK
<1>3. /\ r # None
      /\ r.by = p
      /\ r.status = status
      /\ resp'[p] = r
      /\ \A q \in Requests : q # p => resp'[q] = resp[q]
  BY <1>1, NoneAssumption DEF Response, Inv, TypeOK
<1>4. PromiseBacked'
  BY <1>2 DEF Inv, PromiseBacked, Held
<1>5. RecordGenuine'
  BY <1>2, <1>3 DEF Inv, RecordGenuine, TypeOK, Record
<1>6. ResponseGenuine'
  BY <1>2, <1>3 DEF Inv, ResponseGenuine, TypeOK
<1>7. AnswerKept'
  BY <1>2, <1>3 DEF Inv, AnswerKept, Held, TypeOK
<1>8. ToldGenuine'
  BY <1>2, <1>3 DEF Inv, ToldGenuine, TypeOK, Response
<1>9. Fresh'
  BY <1>2, <1>3 DEF Inv, Fresh, TypeOK
<1>10. ResponseTrue'
  BY <1>2, <1>3 DEF Inv, ResponseTrue, TypeOK
<1>. QED
  BY <1>4, <1>5, <1>6, <1>7, <1>8, <1>9, <1>10 DEF Inv

(* An effect that comes late belies no response: the handler was cut off,  *)
(* or its response is a 5xx.                                               *)
LEMMA LateEffectInv ==
    ASSUME Inv, NEW p \in Requests, LateEffect(p), TypeOK'
    PROVE  Inv'
<1>1. /\ UNCHANGED <<redis, call, pc, resp, promise>>
      /\ effects' = effects \cup {p}
      /\ pc[p] = "cut" \/ (resp[p] # None /\ resp[p].by = p /\ resp[p].status = "failed")
  BY DEF LateEffect
<1>2. PromiseBacked' /\ AnswerKept'
  BY <1>1 DEF Inv, PromiseBacked, AnswerKept, Held
<1>3. RecordGenuine' /\ ResponseGenuine' /\ ToldGenuine'
  BY <1>1 DEF Inv, RecordGenuine, ResponseGenuine, ToldGenuine
<1>4. Fresh'
  BY <1>1 DEF Inv, Fresh
<1>5. ResponseTrue'
  BY <1>1 DEF Inv, ResponseTrue, Fresh
<1>. QED
  BY <1>2, <1>3, <1>4, <1>5 DEF Inv

(* A tick shortens promises and records alike.                             *)
LEMMA TickInv ==
    ASSUME Inv, Tick, TypeOK'
    PROVE  Inv'
<1>1. /\ \A k \in Keys : redis'[k] = Age(redis[k])
      /\ \A p \in Requests : promise'[p] = Down(promise[p])
      /\ UNCHANGED <<call, pc, resp, effects>>
  BY DEF Tick
<1>2. \A k \in Keys :
        redis'[k] # None =>
            /\ redis[k] # None
            /\ redis'[k].hash = redis[k].hash
            /\ redis'[k].owner = redis[k].owner
            /\ redis'[k].answer = redis[k].answer
            /\ redis'[k].lease = Down(redis[k].lease)
            /\ redis'[k].ttl = redis[k].ttl - 1
  BY <1>1, AgeSame
<1>3. \A p \in Requests :
        promise'[p] > 0 => promise[p] > 0 /\ promise'[p] = promise[p] - 1
  BY <1>1 DEF Down, Inv, TypeOK
<1>4. ASSUME NEW p \in Requests, promise'[p] > 0
      PROVE  /\ Held(p)' # None
             /\ Held(p)' = redis'[call[p].key]
             /\ Held(p) = redis[call[p].key]
             /\ call[p].key \in Keys
  <2>1. /\ Held(p) = redis[call[p].key]
        /\ Held(p)' = redis'[call[p].key]
        /\ call[p].key \in Keys
    BY <1>1, HeldType DEF Held, Inv
  <2>2. Held(p) # None /\ Held(p) \in Record /\ Held(p).ttl # 0
    BY <1>3, <1>4, HeldType DEF Inv, PromiseBacked, TypeOK, Record
  <2>3. Held(p)' = [hash |-> Held(p).hash, owner |-> Held(p).owner,
                    lease |-> Down(Held(p).lease), ttl |-> Held(p).ttl - 1,
                    answer |-> Held(p).answer]
    BY <1>1, <2>1, <2>2 DEF Age
  <2>4. Held(p).ttl - 1 \in 0..TTL /\ Down(Held(p).lease) \in 0..Lease
    BY <2>2, TTLAssumption, LeaseAssumption DEF Record, Down
  <2>5. Held(p)' \in Record
    BY <2>2, <2>3, <2>4 DEF Record
  <2>. QED
    BY <2>1, <2>5, NoneAssumption
<1>5. PromiseBacked'
  <2>. SUFFICES ASSUME NEW p \in Requests, promise'[p] > 0
                PROVE  /\ Held(p)' # None
                       /\ Held(p)'.owner = p
                       /\ Held(p)'.ttl >= promise'[p]
                       /\ Held(p)'.answer = None => Held(p)'.lease = promise'[p]
    BY DEF PromiseBacked
  <2>1. promise[p] > 0 /\ promise'[p] = promise[p] - 1 /\ promise[p] \in 0..TTL
    BY <1>3 DEF Inv, TypeOK
  <2>2. /\ Held(p).owner = p
        /\ Held(p).ttl >= promise[p]
        /\ Held(p).answer = None => Held(p).lease = promise[p]
        /\ Held(p) \in Record
    BY <2>1, HeldType DEF Inv, PromiseBacked
  <2>3. /\ Held(p)'.owner = p
        /\ Held(p)'.answer = Held(p).answer
        /\ Held(p)'.lease = Down(Held(p).lease)
        /\ Held(p)'.ttl = Held(p).ttl - 1
    BY <1>2, <1>4, <2>2
  <2>4. Held(p).ttl \in Int
    BY <2>2 DEF Record
  <2>. QED
    BY <1>4, <2>1, <2>2, <2>3, <2>4, TTLAssumption DEF Down
<1>6. RecordGenuine'
  BY <1>1, <1>2 DEF Inv, RecordGenuine
<1>7. ResponseGenuine'
  BY <1>1 DEF Inv, ResponseGenuine
<1>8. AnswerKept'
  BY <1>1, <1>2, <1>3, <1>4 DEF Inv, AnswerKept
<1>9. ToldGenuine'
  BY <1>1 DEF Inv, ToldGenuine
<1>10. Fresh' /\ ResponseTrue'
  BY <1>1 DEF Inv, Fresh, ResponseTrue
<1>. QED
  BY <1>5, <1>6, <1>7, <1>8, <1>9, <1>10 DEF Inv

(* Every step keeps the invariant.                                         *)
LEMMA NextInv == Inv /\ [Next]_vars => Inv'
<1>. SUFFICES ASSUME Inv, [Next]_vars PROVE Inv'
  OBVIOUS
<1>1. TypeOK'
  BY NextTypeOK DEF Inv
<1>2. CASE Tick
  BY <1>1, <1>2, TickInv
<1>3. ASSUME NEW p \in Requests, Step(p) PROVE Inv'
  <2>1. CASE \/ RejectRequest(p) \/ Begin(p) \/ BeginFails(p)
             \/ ClaimConflict(p) \/ ClaimWait(p) \/ ClaimFails(p)
             \/ Poll(p) \/ WaitCancelled(p)
             \/ CompleteNotOwned(p) \/ CompleteFails(p) \/ Die(p)
    BY <1>1, <2>1, QuietSteps, QuietInv
  <2>2. CASE ClaimReserved(p)
    BY <1>1, <2>2, ReserveInv DEF ClaimReserved
  <2>3. CASE ClaimReplyLost(p) \/ LateClaim(p)
    BY <1>1, <2>3, ReserveInv DEF ClaimReplyLost, LateClaim
  <2>4. CASE ClaimReplay(p)
    BY <1>1, <2>4, ReplayInv
  <2>5. CASE RunHandler(p)
    BY <1>1, <2>5, RunInv
  <2>6. CASE Complete(p)
    BY <1>1, <2>6, StoreInv DEF Complete
  <2>7. CASE CompleteReplyLost(p) \/ LateComplete(p)
    BY <1>1, <2>7, StoreInv DEF CompleteReplyLost, LateComplete
  <2>8. CASE LateEffect(p)
    BY <1>1, <2>8, LateEffectInv
  <2>. QED
    BY <1>3, <2>1, <2>2, <2>3, <2>4, <2>5, <2>6, <2>7, <2>8 DEF Step, Claim, Finish
<1>4. CASE UNCHANGED vars
  BY <1>4 DEF vars, Inv, TypeOK, PromiseBacked, RecordGenuine, ResponseGenuine,
              AnswerKept, ToldGenuine, Fresh, ResponseTrue, Held
<1>. QED
  BY <1>2, <1>3, <1>4 DEF Next

(* The inductive invariant: promises in force are mirrored by records, and *)
(* what is stored or about to be stored belongs to the request that made   *)
(* it.                                                                     *)
THEOREM InvHolds == Spec => []Inv
BY InitInv, NextInv, PTL DEF Spec

(* A request holds a promise on its key (the lease it runs under, or the   *)
(* keeping of its answer) only while no other request holds one: the two   *)
(* scripts never hand a key to two requests at a time.                     *)
THEOREM Exclusive == Spec => []OnePromisePerKey
<1>1. Inv => OnePromisePerKey
  <2>. SUFFICES ASSUME Inv, NEW p \in Requests, NEW q \in Requests,
                       p # q, call[p].key = call[q].key,
                       promise[p] # 0, promise[q] # 0
                PROVE  FALSE
    BY DEF OnePromisePerKey
  <2>1. promise[p] > 0 /\ promise[q] > 0
    BY TTLAssumption DEF Inv, TypeOK
  <2>2. Held(p) = Held(q)
    BY DEF Held
  <2>. QED
    BY <2>1, <2>2 DEF Inv, PromiseBacked
<1>. QED
  BY <1>1, InvHolds, PTL

(* Every promise is backed by the record of its key.                       *)
THEOREM Backed == Spec => []PromiseBacked
<1>1. Inv => PromiseBacked
  BY DEF Inv
<1>. QED
  BY <1>1, InvHolds, PTL

(* The answer given by an execution is kept, whole, for a time to live.    *)
THEOREM Kept == Spec => []AnswerKept
<1>1. Inv => AnswerKept
  BY DEF Inv
<1>. QED
  BY <1>1, InvHolds, PTL

(* No request is ever answered with another call's response, told of a     *)
(* success that was not committed, or of a refusal that was carried out.   *)
THEOREM Genuine == Spec => []AnswerIsGenuine
<1>1. Inv => AnswerIsGenuine
  <2>. SUFFICES ASSUME Inv, NEW p \in Requests, pc[p] \in {"executed", "replayed"}
                PROVE  /\ resp[p] # None
                       /\ call[resp[p].by] = call[p]
                       /\ resp[p].status = "ok" => resp[p].by \in effects
                       /\ resp[p].status = "refused" => resp[p].by \notin effects
    BY DEF AnswerIsGenuine
  <2>. DEFINE q == resp[p].by
  <2>1. /\ resp[p] # None
        /\ call[q] = call[p]
        /\ resp[q] = resp[p]
    BY DEF Inv, ToldGenuine
  <2>2. q \in Requests
    BY <2>1 DEF Inv, TypeOK, Response
  <2>. QED
    BY <2>1, <2>2 DEF Inv, ResponseTrue
<1>. QED
  BY <1>1, InvHolds, PTL

-----------------------------------------------------------------------------
(* The layer implements the register of answers.                           *)

(* No key has an answer at the start.                                      *)
LEMMA InitRegister == Init => Register!Init
<1>. SUFFICES ASSUME Init PROVE Register!Init
  OBVIOUS
<1>1. settled = [k \in Keys |-> None]
  BY DEF Init, settled
<1>2. answered = [p \in Requests |-> None]
  BY DEF Init, answered
<1>. QED
  BY <1>1, <1>2 DEF Init, Call, Register!Init, Register!Calls

(* A step that neither answers a request nor touches an answer is a        *)
(* stutter of the register.                                                *)
LEMMA QuietRegister ==
    ASSUME Inv, NEW p \in Requests, pc[p] \notin {"executed", "replayed"},
           NEW to, to \notin {"executed", "replayed"}, pc' = [pc EXCEPT ![p] = to],
           \A q \in Requests : q # p => resp'[q] = resp[q],
           call' = call, settled' = settled
    PROVE  UNCHANGED Register!vars
<1>1. answered' = answered
  BY DEF answered, Inv, TypeOK
<1>. QED
  BY <1>1 DEF Register!vars

(* A completion by the record's owner, in time or late, settles the        *)
(* register.                                                               *)
LEMMA StoreRegister ==
    ASSUME Inv, NEW p \in Requests, Owned(p), Store(p),
           NEW from \in {"completing", "completePending"},
           NEW to \in {"executed", "error"}, Goto(p, from, to),
           UNCHANGED <<call, resp, effects>>
    PROVE  Register!Settle(p, resp[p]) /\ resp[p] \in Register!Answers
<1>. DEFINE k == call[p].key
<1>1. /\ k \in Keys
      /\ redis' = [redis EXCEPT ![k] =
                      [hash |-> Held(p).hash, owner |-> Held(p).owner,
                       lease |-> Held(p).lease, ttl |-> TTL, answer |-> resp[p]]]
      /\ pc' = [pc EXCEPT ![p] = to]
      /\ pc[p] = from
      /\ UNCHANGED <<call, resp>>
  BY HeldType DEF Inv, Store, Goto
<1>2. /\ resp[p] \in Response
      /\ resp[p] # None
      /\ resp[p].by = p
  BY <1>1 DEF Inv, ResponseGenuine, TypeOK
<1>3. /\ Held(p) = redis[k]
      /\ redis[k] # None
      /\ redis[k].answer = None
      /\ redis[k].hash = call[p].hash
  BY <1>1 DEF Owned, Held, Inv, RecordGenuine
<1>4. settled[k] = None
  BY <1>1, <1>3 DEF settled
<1>5. answered[p] = None
  BY <1>1 DEF answered
<1>6. settled' = [settled EXCEPT ![k] = [hash |-> call[p].hash, answer |-> resp[p]]]
  <2>. DEFINE r == [hash |-> Held(p).hash, owner |-> Held(p).owner,
                    lease |-> Held(p).lease, ttl |-> TTL, answer |-> resp[p]]
  <2>1. r \in Record /\ r # None
    BY <1>1, <1>2, <1>3, HeldType, NoneAssumption, TTLAssumption DEF Inv, Record
  <2>2. redis'[k] = r /\ \A j \in Keys : j # k => redis'[j] = redis[j]
    BY <1>1 DEF Inv, TypeOK
  <2>3. r.answer # None /\ r.answer = resp[p] /\ r.hash = call[p].hash
    BY <1>2, <1>3
  <2>4. settled'[k] = [hash |-> call[p].hash, answer |-> resp[p]]
    BY <1>1, <2>1, <2>2, <2>3 DEF settled
  <2>5. \A j \in Keys : j # k => settled'[j] = settled[j]
    BY <2>2 DEF settled
  <2>6. \A j \in Keys :
            settled'[j] = IF j = k THEN [hash |-> call[p].hash, answer |-> resp[p]]
                          ELSE settled[j]
    BY <2>4, <2>5
  <2>7. settled' = [j \in Keys |-> settled'[j]]
    BY DEF settled
  <2>8. settled = [j \in Keys |-> settled[j]]
    BY DEF settled
  <2>. HIDE DEF k
  <2>. QED
    BY <1>1, <2>6, <2>7, <2>8
<1>7. answered' \in {answered, [answered EXCEPT ![p] = resp[p]]}
  <2>1. CASE to = "executed"
    BY <1>1, <2>1 DEF answered, Inv, TypeOK
  <2>2. CASE to = "error"
    BY <1>1, <2>2 DEF answered, Inv, TypeOK
  <2>. QED
    BY <2>1, <2>2
<1>. QED
  BY <1>1, <1>2, <1>4, <1>5, <1>6, <1>7
  DEF Register!Settle, Register!Answers, Response, Statuses

(* A reservation leaves the register alone.                                *)
LEMMA ReserveRegister ==
    ASSUME Inv, NEW p \in Requests, Reservable(p), Reserve(p)
    PROVE  settled' = settled
<1>. DEFINE k == call[p].key
            r == [hash |-> call[p].hash, owner |-> p,
                  lease |-> Lease, ttl |-> TTL, answer |-> None]
<1>1. k \in Keys /\ redis' = [redis EXCEPT ![k] = r]
  BY HeldType DEF Inv, Reserve
<1>2. r.answer = None
  OBVIOUS
<1>3. settled[k] = None
  BY <1>1 DEF settled, Reservable, Held
<1>4. settled'[k] = None
  <2>1. redis'[k] = r
    BY <1>1 DEF Inv, TypeOK
  <2>2. redis'[k].answer = None
    BY <2>1, <1>2
  <2>. QED
    BY <1>1, <2>2 DEF settled
<1>5. \A j \in Keys : j # k => settled'[j] = settled[j]
  BY <1>1 DEF settled, Inv, TypeOK
<1>. QED
  BY <1>1, <1>3, <1>4, <1>5 DEF settled

(* A replay tells the answer of the register.                              *)
LEMMA ReplayRegister ==
    ASSUME Inv, NEW p \in Requests, ClaimReplay(p)
    PROVE  Register!Tell(p)
<1>1. /\ pc' = [pc EXCEPT ![p] = "replayed"]
      /\ resp' = [resp EXCEPT ![p] = Held(p).answer]
      /\ UNCHANGED <<redis, call>>
      /\ pc[p] = "claiming"
  BY DEF ClaimReplay, Goto
<1>2. /\ call[p].key \in Keys
      /\ Held(p) = redis[call[p].key]
      /\ Held(p) # None
      /\ Held(p).answer # None
      /\ Held(p).hash = call[p].hash
  BY HeldType DEF ClaimReplay, Replayable, Held, Inv
<1>3. settled[call[p].key] = [hash |-> call[p].hash, answer |-> Held(p).answer]
  BY <1>2 DEF settled
<1>4. settled[call[p].key] # None
  <2>1. /\ call[p].hash \in Fingerprints
        /\ Held(p).answer \in Response
    BY <1>2, HeldType DEF Inv, Record
  <2>. QED
    BY <1>3, <2>1, NoneAssumption DEF Outcome
<1>5. answered[p] = None
  BY <1>1 DEF answered
<1>6. answered' = [answered EXCEPT ![p] = Held(p).answer]
  BY <1>1 DEF answered, Inv, TypeOK
<1>7. settled' = settled
  BY <1>1 DEF settled
<1>. QED
  BY <1>1, <1>3, <1>4, <1>5, <1>6, <1>7 DEF Register!Tell

(* A tick forgets the answers that expire, and nothing else.               *)
LEMMA TickRegister ==
    ASSUME Inv, Tick
    PROVE  \E S \in SUBSET Keys : Register!Forget(S)
<1>. DEFINE S == {k \in Keys : settled'[k] = None}
<1>1. \A k \in Keys : settled'[k] = None \/ settled'[k] = settled[k]
  <2>. SUFFICES ASSUME NEW k \in Keys, settled'[k] # None
                PROVE  settled'[k] = settled[k]
    OBVIOUS
  <2>1. redis'[k] = Age(redis[k])
    BY DEF Tick
  <2>2. redis'[k] # None /\ redis'[k].answer # None
    BY DEF settled
  <2>3. redis[k] # None
        /\ redis'[k].hash = redis[k].hash /\ redis'[k].answer = redis[k].answer
    BY <2>1, <2>2, AgeSame
  <2>. QED
    BY <2>2, <2>3 DEF settled
<1>2. settled' = [k \in Keys |-> IF k \in S THEN None ELSE settled[k]]
  BY <1>1 DEF settled
<1>3. answered' = answered /\ call' = call
  BY DEF Tick, answered
<1>4. Register!Forget(S)
  BY <1>2, <1>3 DEF Register!Forget
<1>. QED
  BY <1>4

(* Every step of the layer is one of the register or leaves it alone.      *)
LEMMA NextRegister == Inv /\ [Next]_vars => [Register!Next]_(Register!vars)
<1>. SUFFICES ASSUME Inv, [Next]_vars PROVE [Register!Next]_(Register!vars)
  OBVIOUS
<1>1. CASE Tick
  BY <1>1, TickRegister DEF Register!Next
<1>2. ASSUME NEW p \in Requests, Step(p) PROVE [Register!Next]_(Register!vars)
  <2>1. CASE \/ RejectRequest(p) \/ Begin(p) \/ BeginFails(p)
             \/ ClaimConflict(p) \/ ClaimWait(p) \/ ClaimFails(p)
             \/ Poll(p) \/ WaitCancelled(p)
             \/ CompleteNotOwned(p) \/ CompleteFails(p) \/ Die(p)
    <3>1. pc[p] \notin {"executed", "replayed"}
      BY <2>1 DEF Goto, RejectRequest, Begin, BeginFails, ClaimConflict, ClaimWait,
                  ClaimFails, Poll, WaitCancelled, CompleteNotOwned, CompleteFails,
                  Die, InFlight
    <3>2. PICK to \in {"claiming", "waiting", "conflict", "invalid", "error", "lost",
                       "cut", "claimPending", "completePending"} :
            pc' = [pc EXCEPT ![p] = to]
      BY <2>1, QuietSteps DEF Quiet
    <3>3. UNCHANGED <<redis, call, resp>>
      BY <2>1, QuietSteps DEF Quiet
    <3>4. settled' = settled
      BY <3>3 DEF settled
    <3>. QED
      BY <3>1, <3>2, <3>3, <3>4, QuietRegister
  <2>2. CASE ClaimReserved(p) \/ ClaimReplyLost(p) \/ LateClaim(p)
    <3>1. settled' = settled
      BY <2>2, ReserveRegister DEF ClaimReserved, ClaimReplyLost, LateClaim
    <3>. QED
      BY <2>2, <3>1, QuietRegister DEF ClaimReserved, ClaimReplyLost, LateClaim, Goto
  <2>3. CASE ClaimReplay(p)
    BY <2>3, ReplayRegister DEF Register!Next
  <2>4. CASE RunHandler(p)
    <3>1. settled' = settled
      BY <2>4 DEF RunHandler, settled
    <3>. QED
      BY <2>4, <3>1, QuietRegister DEF RunHandler, Goto, Inv, TypeOK
  <2>5. CASE Complete(p) \/ CompleteReplyLost(p) \/ LateComplete(p)
    BY <2>5, StoreRegister DEF Complete, CompleteReplyLost, LateComplete, Register!Next
  <2>6. CASE LateEffect(p)
    BY <2>6 DEF LateEffect, Register!vars, settled, answered
  <2>. QED
    BY <1>2, <2>1, <2>2, <2>3, <2>4, <2>5, <2>6 DEF Step, Claim, Finish
<1>3. CASE UNCHANGED vars
  BY <1>3 DEF vars, Register!vars, settled, answered
<1>. QED
  BY <1>1, <1>2, <1>3 DEF Next

(* Every behaviour of the idempotency layer is, seen through the answers   *)
(* it stores and gives, a behaviour of one write-once register per key.    *)
THEOREM Implements == Spec => ImplementsRegister
<1>1. Init => Register!Init
  BY InitRegister
<1>2. Inv /\ [Next]_vars => [Register!Next]_(Register!vars)
  BY NextRegister
<1>. QED
  BY <1>1, <1>2, InvHolds, PTL DEF Spec, ImplementsRegister, Register!Spec

-----------------------------------------------------------------------------
(* The leases.                                                             *)

(* A record outlives its lease: no clock lets go of a key that is leased.  *)
Outlived == \A k \in Keys : redis[k] # None => redis[k].lease <= redis[k].ttl

(* What a step leaves of a record under lease.                             *)
Honoured(k) ==
    redis[k] # None /\ redis[k].answer = None /\ redis[k].lease > 0 =>
        /\ redis'[k] # None
        /\ redis'[k].hash = redis[k].hash
        /\ redis'[k].owner = redis[k].owner
        /\ redis'[k].lease \in {redis[k].lease, redis[k].lease - 1}
        /\ redis'[k].answer # None => redis'[k].answer.by = redis[k].owner

(* A reservation finds no lease, and makes one that the record outlives.   *)
LEMMA ReserveHonours ==
    ASSUME Inv, Outlived, NEW p \in Requests, Reservable(p), Reserve(p)
    PROVE  Outlived' /\ \A k \in Keys : Honoured(k)
<1>. DEFINE r == [hash |-> call[p].hash, owner |-> p,
                  lease |-> Lease, ttl |-> TTL, answer |-> None]
<1>1. \A k \in Keys : redis'[k] = IF k = call[p].key THEN r ELSE redis[k]
  BY DEF Reserve, Inv, TypeOK
<1>2. r.lease <= r.ttl
  BY LeaseAssumption, TTLAssumption
<1>3. Outlived'
  BY <1>1, <1>2 DEF Outlived
<1>4. ASSUME NEW k \in Keys PROVE Honoured(k)
  BY <1>1 DEF Honoured, Reservable, Held, Inv, TypeOK, Record
<1>. QED
  BY <1>3, <1>4

(* An answer is the owner's, and the record that has it lasts as long.     *)
LEMMA StoreHonours ==
    ASSUME Inv, Outlived, NEW p \in Requests, Owned(p), Store(p),
           pc[p] \in {"completing", "completePending"}
    PROVE  Outlived' /\ \A k \in Keys : Honoured(k)
<1>. DEFINE r == [hash |-> Held(p).hash, owner |-> Held(p).owner,
                  lease |-> Held(p).lease, ttl |-> TTL, answer |-> resp[p]]
<1>1. \A k \in Keys : redis'[k] = IF k = call[p].key THEN r ELSE redis[k]
  BY DEF Store, Inv, TypeOK
<1>2. Held(p) \in Record /\ Held(p).owner = p
  BY HeldType DEF Inv, Owned
<1>3. resp[p] \in Response /\ resp[p].by = p
  BY DEF Inv, ResponseGenuine, TypeOK
<1>4. r \in Record
  BY <1>2, <1>3, TTLAssumption DEF Record
<1>5. r # None
  BY <1>4, NoneAssumption
<1>6. r.lease <= r.ttl
  BY <1>2, LeaseAssumption, TTLAssumption DEF Record
<1>7. Outlived'
  BY <1>1, <1>6 DEF Outlived
<1>8. ASSUME NEW k \in Keys PROVE Honoured(k)
  <2>1. CASE k = call[p].key
    <3>1. redis[k] = Held(p) /\ redis'[k] = r
      BY <1>1, <2>1 DEF Held
    <3>. QED
      BY <1>2, <1>3, <1>5, <3>1 DEF Honoured
  <2>2. CASE k # call[p].key
    BY <1>1, <2>2 DEF Honoured
  <2>. QED
    BY <2>1, <2>2
<1>. QED
  BY <1>7, <1>8

(* Time takes as much off a lease as off the record.                       *)
LEMMA TickHonours ==
    ASSUME Inv, Outlived, Tick
    PROVE  Outlived' /\ \A k \in Keys : Honoured(k)
<1>1. ASSUME NEW k \in Keys
      PROVE  /\ redis'[k] = Age(redis[k])
             /\ redis[k] \in Record \cup {None}
             /\ redis[k] # None => redis[k].lease <= redis[k].ttl
  BY DEF Tick, Outlived, Inv, TypeOK
<1>2. ASSUME NEW k \in Keys, redis'[k] # None
      PROVE  redis'[k].lease <= redis'[k].ttl
  <2>1. /\ redis[k] \in Record /\ redis[k].ttl # 0 /\ redis[k].lease <= redis[k].ttl
        /\ redis'[k].lease = Down(redis[k].lease) /\ redis'[k].ttl = redis[k].ttl - 1
    BY <1>1, <1>2, AgeSame DEF Age
  <2>. QED
    BY <2>1, LeaseAssumption, TTLAssumption DEF Record, Down
<1>3. ASSUME NEW k \in Keys PROVE Honoured(k)
  <2>. SUFFICES ASSUME redis[k] # None, redis[k].answer = None, redis[k].lease > 0
                PROVE  /\ redis'[k] # None
                       /\ redis'[k].hash = redis[k].hash
                       /\ redis'[k].owner = redis[k].owner
                       /\ redis'[k].lease = redis[k].lease - 1
                       /\ redis'[k].answer = None
    BY DEF Honoured
  <2>1. redis[k] \in Record /\ redis[k].ttl # 0
    BY <1>1, LeaseAssumption, TTLAssumption DEF Record
  <2>2. redis'[k] = [hash |-> redis[k].hash, owner |-> redis[k].owner,
                     lease |-> redis[k].lease - 1, ttl |-> redis[k].ttl - 1, answer |-> None]
    BY <1>1, <2>1 DEF Age, Down
  <2>3. redis'[k] \in Record
    BY <2>1, <2>2, LeaseAssumption, TTLAssumption DEF Record
  <2>. QED
    BY <2>2, <2>3, NoneAssumption
<1>. QED
  BY <1>2, <1>3 DEF Outlived

(* No step breaks into a lease.                                            *)
LEMMA NextHonours ==
    Inv /\ Outlived /\ [Next]_vars => Outlived' /\ \A k \in Keys : Honoured(k)
<1>. SUFFICES ASSUME Inv, Outlived, [Next]_vars
              PROVE  Outlived' /\ \A k \in Keys : Honoured(k)
  OBVIOUS
<1>1. CASE UNCHANGED redis
  BY <1>1 DEF Outlived, Honoured, Inv, TypeOK, Record
<1>2. ASSUME NEW p \in Requests, Step(p)
      PROVE  \/ UNCHANGED redis
             \/ Reservable(p) /\ Reserve(p)
             \/ /\ Owned(p) /\ Store(p)
                /\ pc[p] \in {"completing", "completePending"}
  <2>1. CASE \/ RejectRequest(p) \/ Begin(p) \/ BeginFails(p)
             \/ ClaimConflict(p) \/ ClaimWait(p) \/ ClaimFails(p)
             \/ Poll(p) \/ WaitCancelled(p)
             \/ CompleteNotOwned(p) \/ CompleteFails(p) \/ Die(p)
    BY <2>1, QuietSteps DEF Quiet
  <2>2. CASE ClaimReplay(p) \/ RunHandler(p) \/ LateEffect(p)
    BY <2>2 DEF ClaimReplay, RunHandler, LateEffect
  <2>3. CASE ClaimReserved(p) \/ ClaimReplyLost(p) \/ LateClaim(p)
    BY <2>3 DEF ClaimReserved, ClaimReplyLost, LateClaim
  <2>4. CASE Complete(p) \/ CompleteReplyLost(p) \/ LateComplete(p)
    BY <2>4 DEF Complete, CompleteReplyLost, LateComplete, Goto
  <2>. QED
    BY <1>2, <2>1, <2>2, <2>3, <2>4 DEF Step, Claim, Finish
<1>. QED
  BY <1>1, <1>2, ReserveHonours, StoreHonours, TickHonours DEF Next, vars

(* However many requests press for a key and however late their scripts    *)
(* arrive: who has reserved it keeps it until its lease is over or its     *)
(* answer is there.                                                        *)
THEOREM LeasesHold == Spec => LeaseHonoured
<1>1. Init => Outlived
  BY DEF Init, Outlived
<1>2. Inv /\ Outlived /\ [Next]_vars => [\A k \in Keys : Honoured(k)]_vars
  BY NextHonours
<1>. QED
  BY <1>1, <1>2, NextHonours, InvHolds, PTL DEF Spec, LeaseHonoured, Honoured

(* claimScript replies in one way only, and in any state: a claim that     *)
(* reaches Redis is decided, and by one of the four branches.              *)
THEOREM OneReply ==
    ASSUME Inv, NEW p \in Requests
    PROVE  \E reply \in {"reserved", "conflict", "replay", "wait"} :
                /\ Reservable(p) <=> reply = "reserved"
                /\ Conflicting(p) <=> reply = "conflict"
                /\ Replayable(p) <=> reply = "replay"
                /\ Leased(p) <=> reply = "wait"
<1>1. Held(p) # None => Held(p).lease \in Nat
  BY HeldType, LeaseAssumption DEF Inv, Record
<1>2. CASE Held(p) = None
  BY <1>2 DEF Reservable, Conflicting, Replayable, Leased
<1>3. CASE Held(p) # None /\ Held(p).hash # call[p].hash
  BY <1>3 DEF Reservable, Conflicting, Replayable, Leased
<1>4. CASE Held(p) # None /\ Held(p).hash = call[p].hash /\ Held(p).answer # None
  BY <1>4 DEF Reservable, Conflicting, Replayable, Leased
<1>5. CASE Held(p) # None /\ Held(p).hash = call[p].hash /\ Held(p).answer = None
  BY <1>1, <1>5 DEF Reservable, Conflicting, Replayable, Leased
<1>. QED
  BY <1>2, <1>3, <1>4, <1>5

=============================================================================
