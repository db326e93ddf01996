-------------------------- MODULE AnswerRegister --------------------------
(***************************************************************************)
(* What the idempotency layer promises, without leases, owners or clocks:  *)
(* every Idempotency-Key names a write-once register of answers.  A        *)
(* request that finds the register of its key empty may settle it with an  *)
(* answer of its own; a request whose fingerprint is the one that settled  *)
(* the register is told that answer and no other.  The register may be     *)
(* forgotten (the key's time to live), after which it is as good as new.   *)
(***************************************************************************)

CONSTANTS
    Requests,       \* HTTP requests
    Keys,           \* values of the Idempotency-Key header
    Fingerprints,   \* hashes of method, URI and body
    None            \* "no answer"

VARIABLES
    call,           \* call[p]: the key and fingerprint request p carries
    register,       \* register[k]: what settled key k, or None
    told            \* told[p]: the answer request p was given, or None

vars == <<call, register, told>>

Answers == [by: Requests, status: {"ok", "refused", "failed"}]
Calls == [key: Keys, hash: Fingerprints]

Init ==
    /\ call \in [Requests -> Calls]
    /\ register = [k \in Keys |-> None]
    /\ told = [p \in Requests |-> None]

(* Request p settles the empty register of its key with its own answer a,  *)
(* and is told a unless the confirmation is lost on the way.               *)
Settle(p, a) ==
    /\ register[call[p].key] = None
    /\ told[p] = None
    /\ a.by = p
    /\ register' = [register EXCEPT ![call[p].key] =
                        [hash |-> call[p].hash, answer |-> a]]
    /\ told' \in {told, [told EXCEPT ![p] = a]}
    /\ UNCHANGED call

(* Request p is told the answer its key was settled with, provided its     *)
(* fingerprint is the one the answer was computed for.                     *)
Tell(p) ==
    /\ register[call[p].key] # None
    /\ register[call[p].key].hash = call[p].hash
    /\ told[p] = None
    /\ told' = [told EXCEPT ![p] = register[call[p].key].answer]
    /\ UNCHANGED <<call, register>>

(* The registers of the keys in S run out of time.                         *)
Forget(S) ==
    /\ register' = [k \in Keys |-> IF k \in S THEN None ELSE register[k]]
    /\ UNCHANGED <<call, told>>

Next ==
    \/ \E p \in Requests : Tell(p) \/ \E a \in Answers : Settle(p, a)
    \/ \E S \in SUBSET Keys : Forget(S)

Spec == Init /\ [][Next]_vars

=============================================================================
