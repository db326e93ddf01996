--------------------------- MODULE Idempotency ---------------------------
(***************************************************************************)
(* The idempotency layer of the API: the middleware Require around a       *)
(* mutating handler, the Store whose records live in Redis, and the two    *)
(* Lua scripts that claim and complete a record                            *)
(* (api-service/internal/idempotency/idempotency.go).                      *)
(*                                                                         *)
(* A request is one HTTP request; a client that retries sends a further    *)
(* request with the same key and fingerprint.  Begin draws a fresh random  *)
(* owner token per request, so the request itself stands for its token.    *)
(*                                                                         *)
(* Each script runs atomically inside Redis, against Redis's own clock.    *)
(* The two deadlines a record carries, locked_until and the PEXPIRE of the *)
(* key, are kept as the number of ticks that are left until them.          *)
(***************************************************************************)
EXTENDS Integers

CONSTANTS
    Requests,       \* HTTP requests, and the owner tokens of their Begin
    Keys,           \* values of the Idempotency-Key header
    Fingerprints,   \* values of requestFingerprint
    Lease,          \* claimLease, in ticks
    TTL,            \* Store.ttl, in ticks
    None            \* an absent record, answer or response

(* 2xx, 4xx and 5xx.                                                       *)
Statuses == {"ok", "refused", "failed"}

Response == [by: Requests, status: Statuses]

Record == [hash: Fingerprints, owner: Requests,
           lease: 0..Lease, ttl: 0..TTL, answer: Response \cup {None}]

Call == [key: Keys, hash: Fingerprints]

Outcome == [hash: Fingerprints, answer: Response]

ASSUME LeaseAssumption == Lease \in Nat \ {0}

\* config.Load refuses an IDEMPOTENCY_TTL below one minute, and claimLease is
\* one minute.
ASSUME TTLAssumption == TTL \in Nat /\ TTL >= Lease

ASSUME NoneAssumption == None \notin Response \cup Record \cup Outcome

VARIABLES
    redis,      \* redis[k]: the record under key k, or None
    call,       \* call[p]: the key and the fingerprint of request p
    pc,         \* pc[p]: where request p is, or how it was answered
    resp,       \* resp[p]: the response p's handler produced or p replays
    effects,    \* the requests whose handler's transaction committed
    promise     \* promise[p]: ticks Redis still reserves p's key for p, or
                \* still keeps p's answer (history variable, read by no action)

vars == <<redis, call, pc, resp, effects, promise>>

InFlight == {"arrived", "claiming", "waiting", "running", "completing"}
Answered == {"executed", "replayed", "conflict", "invalid", "error"}

(* Over, by a 500, while the last script the request sent has yet to reach *)
(* Redis.                                                                  *)
Pending == {"claimPending", "completePending"}

(* Ended by the death of the process, or a panic; "cut" in its handler.    *)
Dead == {"lost", "cut"}

TypeOK ==
    /\ redis \in [Keys -> Record \cup {None}]
    /\ call \in [Requests -> Call]
    /\ pc \in [Requests -> InFlight \cup Answered \cup Pending \cup Dead]
    /\ resp \in [Requests -> Response \cup {None}]
    /\ effects \in SUBSET Requests
    /\ promise \in [Requests -> 0..TTL]

Init ==
    /\ redis = [k \in Keys |-> None]
    /\ call \in [Requests -> Call]
    /\ pc = [p \in Requests |-> "arrived"]
    /\ resp = [p \in Requests |-> None]
    /\ effects = {}
    /\ promise = [p \in Requests |-> 0]

Goto(p, from, to) == pc[p] = from /\ pc' = [pc EXCEPT ![p] = to]

(* The record request p's key has at the moment.                           *)
Held(p) == redis[call[p].key]

-----------------------------------------------------------------------------
(* Require, before the claim.                                              *)

(* 400: the key is blank or too long, or the body unreadable or too big.   *)
RejectRequest(p) ==
    /\ Goto(p, "arrived", "invalid")
    /\ UNCHANGED <<redis, call, resp, effects, promise>>

(* Store.Begin draws the owner token and enters its claim loop.            *)
Begin(p) ==
    /\ Goto(p, "arrived", "claiming")
    /\ UNCHANGED <<redis, call, resp, effects, promise>>

(* No entropy for the owner token: 500.                                    *)
BeginFails(p) ==
    /\ Goto(p, "arrived", "error")
    /\ UNCHANGED <<redis, call, resp, effects, promise>>

-----------------------------------------------------------------------------
(* claimScript, one predicate per reply.                                   *)

(* Mutant: the lease is looked at before the answer.                       *)
ReservableAnswered(p) ==
    Held(p) # None => Held(p).hash = call[p].hash /\ Held(p).lease = 0

(* Mutant: the lease of the record is not looked at.                       *)
ReservableUnderLease(p) ==
    Held(p) # None => Held(p).hash = call[p].hash /\ Held(p).answer = None

(* 'reserved': there is no record, or an unanswered one for the same       *)
(* request whose lease has run out (locked_until <= now).                  *)
Reservable(p) ==
    Held(p) # None =>
        /\ Held(p).hash = call[p].hash
        /\ Held(p).answer = None
        /\ Held(p).lease = 0

(* 'conflict': the record belongs to a request with another fingerprint.   *)
Conflicting(p) ==
    /\ Held(p) # None
    /\ Held(p).hash # call[p].hash

(* Mutant: the answer is looked up before the fingerprints are compared.   *)
ReplayableAnyHash(p) == Held(p) # None /\ Held(p).answer # None

(* 'replay': the same request has been answered.                           *)
Replayable(p) ==
    /\ Held(p) # None
    /\ Held(p).hash = call[p].hash
    /\ Held(p).answer # None

(* 'wait': the same request is being executed under a live lease.          *)
Leased(p) ==
    /\ Held(p) # None
    /\ Held(p).hash = call[p].hash
    /\ Held(p).answer = None
    /\ Held(p).lease > 0

(* Mutant: a take-over does not renew locked_until.                        *)
ReserveKeepingLease(p) ==
    /\ redis' = [redis EXCEPT ![call[p].key] =
                    [hash |-> call[p].hash, owner |-> p,
                     lease |-> IF Held(p) = None THEN Lease ELSE Held(p).lease,
                     ttl |-> TTL, answer |-> None]]
    /\ promise' = [promise EXCEPT ![p] = Lease]

(* What the script writes when it reserves.  Taking over a record keeps    *)
(* its request_hash, which is the caller's own in that case.               *)
Reserve(p) ==
    /\ redis' = [redis EXCEPT ![call[p].key] =
                    [hash |-> call[p].hash, owner |-> p,
                     lease |-> Lease, ttl |-> TTL, answer |-> None]]
    /\ promise' = [promise EXCEPT ![p] = Lease]

-----------------------------------------------------------------------------
(* The claim loop of Store.Begin and the decisions Require takes on it.    *)

ClaimReserved(p) ==
    /\ Goto(p, "claiming", "running")
    /\ Reservable(p)
    /\ Reserve(p)
    /\ UNCHANGED <<call, resp, effects>>

ClaimConflict(p) ==
    /\ Goto(p, "claiming", "conflict")
    /\ Conflicting(p)
    /\ UNCHANGED <<redis, call, resp, effects, promise>>

ClaimReplay(p) ==
    /\ Goto(p, "claiming", "replayed")
    /\ Replayable(p)
    /\ resp' = [resp EXCEPT ![p] = Held(p).answer]
    /\ UNCHANGED <<redis, call, effects, promise>>

ClaimWait(p) ==
    /\ Goto(p, "claiming", "waiting")
    /\ Leased(p)
    /\ UNCHANGED <<redis, call, resp, effects, promise>>

(* The call fails or its reply is unusable, and Begin with it: 500.  The   *)
(* script may never run, or may run when the request is long over.         *)
ClaimFails(p) ==
    /\ \E over \in {"error", "claimPending"} : Goto(p, "claiming", over)
    /\ UNCHANGED <<redis, call, resp, effects, promise>>

(* The script reserves the key for a request that is over.                 *)
LateClaim(p) ==
    /\ Goto(p, "claimPending", "error")
    /\ Reservable(p)
    /\ Reserve(p)
    /\ UNCHANGED <<call, resp, effects>>

(* The script reserved the key and its reply was lost: the Redis client    *)
(* sends the same claim, with the same owner token, again.                 *)
ClaimReplyLost(p) ==
    /\ Goto(p, "claiming", "claiming")
    /\ Reservable(p)
    /\ Reserve(p)
    /\ UNCHANGED <<call, resp, effects>>

(* Mutant: waiters are woken by the owner's answer only.                   *)
PollOnAnswer(p) ==
    /\ Goto(p, "waiting", "claiming")
    /\ Held(p) # None /\ Held(p).answer # None
    /\ UNCHANGED <<redis, call, resp, effects, promise>>

(* The poll timer fires and the claim is sent again.                       *)
Poll(p) ==
    /\ Goto(p, "waiting", "claiming")
    /\ UNCHANGED <<redis, call, resp, effects, promise>>

(* The client hangs up while its request waits: Begin returns ctx.Err().   *)
WaitCancelled(p) ==
    /\ Goto(p, "waiting", "error")
    /\ UNCHANGED <<redis, call, resp, effects, promise>>

-----------------------------------------------------------------------------
(* The handler and the completion.                                         *)

(* next(buffer, r): the handler runs to its end and leaves its response in *)
(* the buffer.  A 2xx is written only after tx.Commit returned nil, a 4xx  *)
(* only for a transaction that is rolled back.                             *)
RunHandler(p) ==
    /\ Goto(p, "running", "completing")
    /\ \E status \in Statuses :
        /\ resp' = [resp EXCEPT ![p] = [by |-> p, status |-> status]]
        /\ effects' = IF status = "ok" THEN effects \cup {p} ELSE effects
    /\ UNCHANGED <<redis, call, promise>>

(* A 5xx leaves open whether the transaction commits, and so does the end  *)
(* of a request in its handler: a COMMIT that was sent may be carried out  *)
(* then or later.                                                          *)
LateEffect(p) ==
    /\ \/ pc[p] = "cut"
       \/ resp[p] # None /\ resp[p].by = p /\ resp[p].status = "failed"
    /\ p \notin effects
    /\ effects' = effects \cup {p}
    /\ UNCHANGED <<redis, call, pc, resp, promise>>

(* Mutant: completeScript does not compare the owner tokens.               *)
OwnedByAnyone(p) == Held(p) # None /\ Held(p).answer = None

(* completeScript accepts only the present owner of an unanswered record.  *)
Owned(p) ==
    /\ Held(p) # None
    /\ Held(p).owner = p
    /\ Held(p).answer = None

(* Mutant: completeScript does not renew the key's expiry.                 *)
StoreWithoutExpiry(p) ==
    /\ redis' = [redis EXCEPT ![call[p].key].answer = resp[p]]
    /\ promise' = [promise EXCEPT ![p] = TTL]

(* What the script writes when it accepts.                                 *)
Store(p) ==
    /\ redis' = [redis EXCEPT ![call[p].key] =
                    [hash |-> Held(p).hash, owner |-> Held(p).owner,
                     lease |-> Held(p).lease, ttl |-> TTL, answer |-> resp[p]]]
    /\ promise' = [promise EXCEPT ![p] = TTL]

Complete(p) ==
    /\ Goto(p, "completing", "executed")
    /\ Owned(p)
    /\ Store(p)
    /\ UNCHANGED <<call, resp, effects>>

(* The script returned 0: the reservation is no longer owned, 500.         *)
CompleteNotOwned(p) ==
    /\ Goto(p, "completing", "error")
    /\ ~Owned(p)
    /\ UNCHANGED <<redis, call, resp, effects, promise>>

(* The call fails (Redis away, or the request's context done), 500.  The   *)
(* script may never run, or may run when the request is long over.         *)
CompleteFails(p) ==
    /\ \E over \in {"error", "completePending"} : Goto(p, "completing", over)
    /\ UNCHANGED <<redis, call, resp, effects, promise>>

(* The script stores the answer of a request that is over.                 *)
LateComplete(p) ==
    /\ Goto(p, "completePending", "error")
    /\ Owned(p)
    /\ Store(p)
    /\ UNCHANGED <<call, resp, effects>>

(* The script stored the answer and its reply was lost: the Redis client   *)
(* sends it again and is told 0, so that the caller is told 500.           *)
CompleteReplyLost(p) ==
    /\ Goto(p, "completing", "error")
    /\ Owned(p)
    /\ Store(p)
    /\ UNCHANGED <<call, resp, effects>>

-----------------------------------------------------------------------------
(* The process dies, or the handler panics and net/http recovers: nothing  *)
(* is stored, nothing is released (Reservation.Abort does nothing).        *)
Die(p) ==
    /\ pc[p] \in InFlight
    /\ pc' = [pc EXCEPT ![p] = IF @ = "running" THEN "cut" ELSE "lost"]
    /\ UNCHANGED <<redis, call, resp, effects, promise>>

(* Mutant: a deadline that has passed goes on counting.                    *)
DownUnguarded(n) == n - 1

Down(n) == IF n = 0 THEN 0 ELSE n - 1

(* A record lives through the instant its time to live ends and is gone    *)
(* at the next.                                                            *)
Age(r) ==
    IF r = None THEN None
    ELSE IF r.ttl = 0 THEN None
    ELSE [hash |-> r.hash, owner |-> r.owner,
          lease |-> Down(r.lease), ttl |-> r.ttl - 1, answer |-> r.answer]

(* Redis's clock advances.                                                 *)
Tick ==
    /\ redis' = [k \in Keys |-> Age(redis[k])]
    /\ promise' = [p \in Requests |-> Down(promise[p])]
    /\ UNCHANGED <<call, pc, resp, effects>>

Claim(p) ==
    ClaimReserved(p) \/ ClaimConflict(p) \/ ClaimReplay(p) \/ ClaimWait(p)

Finish(p) == Complete(p) \/ CompleteNotOwned(p)

Step(p) ==
    \/ RejectRequest(p) \/ Begin(p) \/ BeginFails(p)
    \/ Claim(p) \/ ClaimFails(p) \/ LateClaim(p) \/ ClaimReplyLost(p)
    \/ Poll(p) \/ WaitCancelled(p)
    \/ RunHandler(p) \/ LateEffect(p)
    \/ Finish(p) \/ CompleteFails(p) \/ LateComplete(p) \/ CompleteReplyLost(p)
    \/ Die(p)

Next == Tick \/ \E p \in Requests : Step(p)

Spec == Init /\ [][Next]_vars

(***************************************************************************)
(* Goroutines run, timers fire, handlers return and Redis's clock moves.   *)
(* The strong fairness says the network does not lose the reply of every   *)
(* claim that succeeds; no failure is ever obliged to happen.              *)
(***************************************************************************)
Fairness ==
    /\ WF_vars(Tick)
    /\ \A p \in Requests :
        /\ WF_vars(Begin(p))
        /\ WF_vars(Claim(p))
        /\ SF_vars(ClaimReserved(p))
        /\ WF_vars(Poll(p))
        /\ WF_vars(RunHandler(p))
        /\ WF_vars(Finish(p))

FairSpec == Spec /\ Fairness

-----------------------------------------------------------------------------
(* Safety.                                                                 *)

(* At most one request per key holds a promise of Redis, be it the lease   *)
(* it runs its handler under or the keeping of its answer: two handlers    *)
(* for one key overlap only once a lease has run out, and none starts      *)
(* while an acknowledged answer is kept.                                   *)
OnePromisePerKey ==
    \A p, q \in Requests :
        p # q /\ call[p].key = call[q].key => promise[p] = 0 \/ promise[q] = 0

(* An answer that a client has received from an execution stays under its  *)
(* key for a whole time to live: until then every retry replays it.        *)
AnswerKept ==
    \A p \in Requests :
        pc[p] = "executed" /\ promise[p] > 0 =>
            /\ Held(p) # None
            /\ Held(p).hash = call[p].hash
            /\ Held(p).answer = resp[p]

(* A promise is backed by the record of the key: the record is the         *)
(* promisee's own and outlives the promise, and until it is answered the   *)
(* lease is exactly what is left of the promise.                           *)
PromiseBacked ==
    \A p \in Requests :
        promise[p] > 0 =>
            /\ Held(p) # None
            /\ Held(p).owner = p
            /\ Held(p).ttl >= promise[p]
            /\ Held(p).answer = None => Held(p).lease = promise[p]

(* A request is answered, by execution or by replay, only with what the    *)
(* handler produced for a request with the same key and fingerprint: a     *)
(* success only when that handler's transaction has committed, a refusal   *)
(* only when it has not and will not.                                      *)
AnswerIsGenuine ==
    \A p \in Requests :
        pc[p] \in {"executed", "replayed"} =>
            /\ resp[p] # None
            /\ call[resp[p].by] = call[p]
            /\ resp[p].status = "ok" => resp[p].by \in effects
            /\ resp[p].status = "refused" => resp[p].by \notin effects

(* Until its lease is over, an unanswered record is there and its owner's: *)
(* time runs off the lease, and nobody takes the key over, prolongs the    *)
(* lease, ends it, or answers in the owner's place.                        *)
LeaseHonoured ==
    [][\A k \in Keys :
        redis[k] # None /\ redis[k].answer = None /\ redis[k].lease > 0 =>
            /\ redis'[k] # None
            /\ redis'[k].hash = redis[k].hash
            /\ redis'[k].owner = redis[k].owner
            /\ redis'[k].lease \in {redis[k].lease, redis[k].lease - 1}
            /\ redis'[k].answer # None => redis'[k].answer.by = redis[k].owner]_vars

(* What the documentation says of the key: an operation is protected from  *)
(* being carried out again.  The code does not keep this.                  *)
NeverExecutedTwice ==
    \A p, q \in effects : call[p] = call[q] => p = q

(* What a key's record says to a caller: the answer it was settled with.   *)
settled ==
    [k \in Keys |->
        IF redis[k] = None THEN None
        ELSE IF redis[k].answer = None THEN None
        ELSE [hash |-> redis[k].hash, answer |-> redis[k].answer]]

(* The response a request was given, if it was not an error of the layer.  *)
answered ==
    [p \in Requests |-> IF pc[p] \in {"executed", "replayed"} THEN resp[p] ELSE None]

(* The layer implements a write-once register per key: leases, take-overs, *)
(* lost replies, crashes and stale owners never settle a key twice, change *)
(* its answer, or tell a request an answer its key was not settled with.   *)
Register ==
    INSTANCE AnswerRegister WITH register <- settled, told <- answered

ImplementsRegister == Register!Spec

-----------------------------------------------------------------------------
(* Liveness.                                                               *)

(* Every request that has begun its claim is answered, whoever holds the   *)
(* key and whatever becomes of the holder, unless its own process dies.    *)
EveryRequestAnswered ==
    \A p \in Requests :
        pc[p] \in InFlight \ {"arrived"} ~> pc[p] \notin InFlight

=============================================================================
