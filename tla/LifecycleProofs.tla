-------------------------- MODULE LifecycleProofs --------------------------
(***************************************************************************)
(* Theorems about Lifecycle, for any number of requests.                   *)
(***************************************************************************)
EXTENDS Integers, Lifecycle, FiniteSetTheorems, TLAPS

Unbothered == {"unsent", "answered"}

(* Nobody is served before both stores have answered.                      *)
NotYetServing ==
    main \in {"loading", "connecting", "pinging"} =>
        server = "none" /\ \A r \in Requests : stage[r] = "unsent"

(* As long as main.run has not returned, Redis is open and nobody has been *)
(* let down.                                                               *)
StillOpen ==
    /\ main \in {"serving", "shuttingDown", "drained"} => redis = "open"
    /\ main \in Running => \A r \in Requests : stage[r] \notin {"failed", "cut"}

(* Shutdown admits nobody, and what it has drained stays so.               *)
DrainedForGood ==
    /\ main \in {"shuttingDown", "drained"} => inShutdown
    /\ main = "drained" \/ exit = "ok" =>
        inShutdown /\ \A r \in Requests : stage[r] \in Unbothered

Inv == TypeOK /\ NotYetServing /\ StillOpen /\ DrainedForGood /\ ReportKept

-----------------------------------------------------------------------------
(* The invariant holds of a process that has not yet begun.                *)
LEMMA InitInv == Init => Inv
BY NoneAssumption
   DEF Init, Inv, TypeOK, NotYetServing, StillOpen, DrainedForGood, ReportKept,
       Running, Returning, Active, Over, Unbothered

(* Every step of main.run keeps the invariant: it returns with exit code   *)
(* zero from "drained" only.                                               *)
LEMMA MainInv == Inv /\ Main => Inv'
<1> SUFFICES ASSUME Inv, Main PROVE Inv'
  OBVIOUS
<1> USE NoneAssumption
    DEF Inv, TypeOK, NotYetServing, StillOpen, DrainedForGood, ReportKept,
        Running, Returning, Active, Over, Unbothered, requests
<1>1. CASE Load
  BY <1>1 DEF Load, Return
<1>2. CASE Connect
  BY <1>2 DEF Connect, Return
<1>3. CASE PingRedis
  BY <1>3 DEF PingRedis, Return
<1>4. CASE ServerFailed
  BY <1>4 DEF ServerFailed, Return
<1>5. CASE BeginShutdown
  BY <1>5 DEF BeginShutdown
<1>6. CASE Drained
  BY <1>6 DEF Drained, Idle
<1>7. CASE DrainTimeout
  BY <1>7 DEF DrainTimeout, Return
<1>8. CASE ServerStopped
  BY <1>8 DEF ServerStopped, Return
<1>9. CASE CloseRedis
  BY <1>9 DEF CloseRedis
<1>10. CASE BeginClosePool
  BY <1>10 DEF BeginClosePool
<1>11. CASE ClosePool
  BY <1>11 DEF ClosePool
<1> QED
  BY <1>1, <1>2, <1>3, <1>4, <1>5, <1>6, <1>7, <1>8, <1>9, <1>10, <1>11 DEF Main

(* So do the goroutine that serves, and a signal.                          *)
LEMMA ServerInv == Inv /\ (Server \/ Signal) => Inv'
<1> SUFFICES ASSUME Inv, Server \/ Signal PROVE Inv'
  OBVIOUS
<1> USE NoneAssumption
    DEF Inv, TypeOK, NotYetServing, StillOpen, DrainedForGood, ReportKept,
        Running, Returning, Active, Over, Unbothered, requests
<1>1. CASE Listen
  BY <1>1 DEF Listen
<1>2. CASE ServeEnds
  BY <1>2 DEF ServeEnds, Report
<1>3. CASE ServeFails
  BY <1>3 DEF ServeFails, Report
<1>4. CASE Signal
  BY <1>4 DEF Signal, Return
<1> QED
  BY <1>1, <1>2, <1>3, <1>4 DEF Server

(* So does a request: none is accepted once Shutdown has begun, and none   *)
(* fails before main.run has returned.                                     *)
LEMMA RequestInv ==
    ASSUME NEW r \in Requests, Inv, Accept(r) \/ Handle(r)
    PROVE  Inv'
<1> USE NoneAssumption
    DEF Inv, TypeOK, NotYetServing, StillOpen, DrainedForGood, ReportKept,
        Running, Returning, Active, Over, Unbothered, Move, process, Alive
<1>1. CASE Accept(r)
  BY <1>1 DEF Accept
<1>2. CASE Claim(r)
  BY <1>2 DEF Claim
<1>3. CASE BeginTransaction(r)
  BY <1>3 DEF BeginTransaction
<1>4. CASE Commit(r)
  BY <1>4 DEF Commit
<1>5. CASE Rollback(r)
  BY <1>5 DEF Rollback
<1>6. CASE Complete(r)
  BY <1>6 DEF Complete
<1> QED
  BY <1>1, <1>2, <1>3, <1>4, <1>5, <1>6 DEF Handle

(* The inductive invariant of the process.                                 *)
THEOREM InvHolds == Spec => []Inv
<1>1. Inv /\ UNCHANGED vars => Inv'
  BY DEF vars, Inv, TypeOK, NotYetServing, StillOpen, DrainedForGood, ReportKept
<1>2. Inv /\ [Next]_vars => Inv'
  BY <1>1, MainInv, ServerInv, RequestInv DEF Next
<1> QED
  BY InitInv, <1>2, PTL DEF Spec

(* Every variable of the process keeps its type; an exit code is there     *)
(* exactly from the moment main.run returns.                               *)
THEOREM TypeCorrect == Spec => []TypeOK
BY InvHolds, PTL DEF Inv

(* An exit code of zero means that every accepted request was answered.    *)
THEOREM Clean == Spec => []CleanExit
<1>1. Inv => CleanExit
  BY DEF Inv, DrainedForGood, CleanExit, Unbothered
<1> QED
  BY InvHolds, <1>1, PTL

(* main.run is never left at a receive with nothing to come, and the       *)
(* goroutine never at a send without room.                                 *)
THEOREM ReportIsKept == Spec => []ReportKept
BY InvHolds, PTL DEF Inv

(* No step takes a request out of its transaction but its own COMMIT or    *)
(* rollback, not even the end of the process.                              *)
THEOREM Uncut == Spec => NoTransactionCut
<1> DEFINE Kept == \A r \in Requests :
        stage[r] = "inTransaction" => stage'[r] \in {"inTransaction", "completing"}
<1>1. TypeOK /\ [Next]_vars => Kept
  <2> SUFFICES ASSUME TypeOK, [Next]_vars PROVE Kept
    OBVIOUS
  <2> USE DEF TypeOK, requests
  <2>1. CASE UNCHANGED vars \/ Signal \/ Server
    BY <2>1 DEF vars, Signal, Server, Listen, ServeEnds, ServeFails, Report
  <2>2. CASE ClosePool
    BY <2>2 DEF ClosePool
  <2>3. CASE Main /\ ~ClosePool
    BY <2>3 DEF Main, Load, Connect, PingRedis, ServerFailed, BeginShutdown, Drained,
                DrainTimeout, ServerStopped, CloseRedis, BeginClosePool
  <2>4. CASE \E r \in Requests : Accept(r) \/ Handle(r)
    BY <2>4 DEF Accept, Handle, Claim, BeginTransaction, Commit, Rollback, Complete, Move
  <2> QED
    BY <2>1, <2>2, <2>3, <2>4 DEF Next
<1>2. TypeOK /\ [Next]_vars => [Kept]_vars
  BY <1>1
<1> QED
  BY TypeCorrect, <1>2, PTL DEF Spec, NoTransactionCut

-----------------------------------------------------------------------------
(* What SignalEnds rests on, but for the fairness itself: once signalled,  *)
(* something can go on until the process has exited, and the steps of a    *)
(* process with finitely many requests run out.                            *)

InTransaction == {r \in Requests : stage[r] = "inTransaction"}

NextMain ==
    CASE main \in {"loading", "connecting"} -> "exited"
      [] main = "pinging" -> "closingPool"
      [] main = "serving" -> "shuttingDown"
      [] main = "shuttingDown" -> "closingRedis"
      [] main = "drained" -> IF serverErrors = None THEN "drained" ELSE "closingRedis"
      [] main = "closingRedis" -> "closingPool"
      [] main = "closingPool" -> "waitingForPool"
      [] main = "waitingForPool" -> IF InTransaction = {} THEN "exited" ELSE "waitingForPool"

NextExit ==
    CASE main \in {"loading", "connecting", "pinging", "shuttingDown"} -> "failure"
      [] main = "drained" /\ serverErrors # None ->
            IF serverErrors = "closed" THEN "ok" ELSE "failure"
      [] OTHER -> exit

NextStages ==
    CASE main = "waitingForPool" /\ InTransaction = {} ->
            [r \in Requests |-> IF stage[r] \in Active THEN "cut" ELSE stage[r]]
      [] main = "waitingForPool" /\ InTransaction # {} ->
            [stage EXCEPT ![CHOOSE r \in InTransaction : TRUE] = "completing"]
      [] OTHER -> stage

(* A next state, in which whatever main.run waits for has come a step      *)
(* closer, or main.run itself has: the stores are not reached, the timeout *)
(* of the shutdown is over, a transaction rolls back.                      *)
GoesOn ==
    /\ main' = NextMain
    /\ server' = IF main = "drained" /\ serverErrors = None THEN "stopped" ELSE server
    /\ inShutdown' = IF main = "serving" THEN TRUE ELSE inShutdown
    /\ serverErrors' = IF main = "drained"
                       THEN IF serverErrors = None THEN "closed" ELSE None
                       ELSE serverErrors
    /\ signalled' = signalled
    /\ pool' = CASE main = "closingPool" -> "closing"
                 [] main = "waitingForPool" /\ InTransaction = {} -> "closed"
                 [] OTHER -> pool
    /\ redis' = IF main \in {"pinging", "closingRedis"} THEN "closed" ELSE redis
    /\ exit' = NextExit
    /\ stage' = NextStages
    /\ committed' = committed
    /\ stored' = stored

(* In every state but the last, and those in which it serves and nobody    *)
(* has signalled, the process has a step that Fairness is about: GoesOn    *)
(* gives every variable its next value, so it can always be taken.         *)
THEOREM ProcessGoesOn ==
    ASSUME Inv, main # "exited", main = "serving" => signalled, GoesOn
    PROVE  (Main \/ Server \/ \E r \in Requests : Handle(r)) /\ vars' # vars
<1> DEFINE Step == Main \/ Server \/ \E r \in Requests : Handle(r)
           Moved == main' # main \/ server' # server \/ stage' # stage
<1> SUFFICES Step /\ Moved
  BY DEF vars
<1> USE DEF GoesOn
<1>1. TypeOK /\ main \in Running \cup Returning
  BY DEF Inv, TypeOK
<1>2. CASE main = "loading"
  BY <1>2 DEF Main, Load, Return, requests, NextMain, NextExit, NextStages
<1>3. CASE main = "connecting"
  BY <1>3 DEF Main, Connect, Return, requests, NextMain, NextExit, NextStages
<1>4. CASE main = "pinging"
  BY <1>4 DEF Main, PingRedis, Return, requests, NextMain, NextExit, NextStages
<1>5. CASE main = "serving"
  BY <1>5 DEF Main, BeginShutdown, requests, NextMain, NextExit, NextStages
<1>6. CASE main = "shuttingDown"
  BY <1>6 DEF Main, DrainTimeout, Return, requests, NextMain, NextExit, NextStages
<1>7. CASE main = "drained" /\ serverErrors # None
  BY <1>7 DEF Main, ServerStopped, Return, requests, NextMain, NextExit, NextStages
<1>8. CASE main = "drained" /\ serverErrors = None
  <2>1. inShutdown /\ server \in {"starting", "listening"}
    BY <1>1, <1>8 DEF Inv, DrainedForGood, ReportKept, TypeOK
  <2>2. ServeEnds
    BY <1>8, <2>1 DEF ServeEnds, Report, Alive, requests, NextMain, NextExit, NextStages
  <2> QED
    BY <1>8, <2>1, <2>2 DEF Server
<1>9. CASE main = "closingRedis"
  BY <1>9 DEF Main, CloseRedis, requests, NextMain, NextExit, NextStages
<1>10. CASE main = "closingPool"
  BY <1>10 DEF Main, BeginClosePool, requests, NextMain, NextExit, NextStages
<1>11. CASE main = "waitingForPool" /\ InTransaction = {}
  <2>1. \A r \in Requests : stage[r] # "inTransaction"
    BY <1>11 DEF InTransaction
  <2> QED
    BY <1>11, <2>1 DEF Main, ClosePool, NextMain, NextExit, NextStages
<1>12. CASE main = "waitingForPool" /\ InTransaction # {}
  <2> DEFINE r == CHOOSE q \in InTransaction : TRUE
  <2>1. r \in InTransaction
    BY <1>12
  <2>2. r \in Requests /\ stage[r] = "inTransaction"
    BY <2>1 DEF InTransaction
  <2>3. stage' = [stage EXCEPT ![r] = "completing"]
    BY <1>12 DEF NextStages
  <2>4. UNCHANGED process
    BY <1>12 DEF process, NextMain, NextExit
  <2> HIDE DEF r
  <2>5. Rollback(r)
    BY <1>12, <2>2, <2>3, <2>4 DEF Rollback, Move, Alive
  <2>6. stage' # stage
    BY <1>1, <2>2, <2>3 DEF TypeOK
  <2> QED
    BY <2>2, <2>5, <2>6 DEF Handle
<1> QED
  BY <1>1, <1>2, <1>3, <1>4, <1>5, <1>6, <1>7, <1>8, <1>9, <1>10, <1>11, <1>12
     DEF Running, Returning

(* What is left to main.run, to the goroutine that serves and to a         *)
(* request.                                                                *)
LeftOfMain ==
    CASE main = "loading" -> 9
      [] main = "connecting" -> 8
      [] main = "pinging" -> 7
      [] main = "serving" -> 6
      [] main = "shuttingDown" -> 5
      [] main = "drained" -> 4
      [] main = "closingRedis" -> 3
      [] main = "closingPool" -> 2
      [] main = "waitingForPool" -> 1
      [] OTHER -> 0

LeftOfServer ==
    CASE server = "none" -> 3
      [] server = "starting" -> 2
      [] server = "listening" -> 1
      [] OTHER -> 0

LeftOfSignals == IF signalled THEN 0 ELSE 1

LeftOf(at) ==
    CASE at = "unsent" -> 5
      [] at = "accepted" -> 4
      [] at = "claimed" -> 3
      [] at = "inTransaction" -> 2
      [] at = "completing" -> 1
      [] OTHER -> 0

Ahead == {step \in Requests \X (1..5) : step[2] <= LeftOf(stage[step[1]])}

StepsLeft == LeftOfMain + LeftOfServer + LeftOfSignals + Cardinality(Ahead)

StepsRunOut == [][StepsLeft' < StepsLeft]_vars

(* An interval is finite.                                                  *)
LEMMA UpToFinite == ASSUME NEW n \in Nat PROVE IsFiniteSet(1..n)
<1>1. IsFiniteSet(1..n) /\ Cardinality(1..n) = IF 1 > n THEN 0 ELSE n - 1 + 1
  BY FS_Interval
<1> QED
  BY <1>1

(* What the requests have ahead can be counted.                            *)
LEMMA AheadFinite ==
    ASSUME IsFiniteSet(Requests)
    PROVE  IsFiniteSet(Ahead) /\ Cardinality(Ahead) \in Nat
<1>1. IsFiniteSet(Requests \X (1..5))
  BY UpToFinite, FS_Product
<1>2. Ahead \in SUBSET (Requests \X (1..5))
  BY DEF Ahead
<1> QED
  BY <1>1, <1>2, FS_Subset, FS_CardinalityType

(* Requests that go on have less left, and the others no more.             *)
LEMMA NobodyBack ==
    ASSUME IsFiniteSet(Requests),
           \A q \in Requests : LeftOf(stage'[q]) <= LeftOf(stage[q])
    PROVE  /\ Cardinality(Ahead') \in Nat /\ Cardinality(Ahead) \in Nat
           /\ Cardinality(Ahead') <= Cardinality(Ahead)
           /\ \A r \in Requests : LeftOf(stage'[r]) < LeftOf(stage[r]) =>
                    Cardinality(Ahead') < Cardinality(Ahead)
<1>1. \A at : LeftOf(at) \in 0..5
  BY DEF LeftOf
<1>2. Ahead' \in SUBSET Ahead
  BY <1>1 DEF Ahead
<1>3. IsFiniteSet(Ahead) /\ Cardinality(Ahead) \in Nat
  BY AheadFinite
<1>4. /\ Cardinality(Ahead') <= Cardinality(Ahead)
      /\ Cardinality(Ahead) = Cardinality(Ahead') => Ahead = Ahead'
      /\ Cardinality(Ahead') \in Nat
  BY <1>2, <1>3, FS_Subset, FS_CardinalityType
<1>5. ASSUME NEW r \in Requests, LeftOf(stage'[r]) < LeftOf(stage[r])
      PROVE  Ahead # Ahead'
  <2>1. <<r, LeftOf(stage[r])>> \in Ahead
    BY <1>1, <1>5 DEF Ahead
  <2>2. <<r, LeftOf(stage[r])>> \notin Ahead'
    BY <1>1, <1>5 DEF Ahead
  <2> QED
    BY <2>1, <2>2
<1> QED
  BY <1>3, <1>4, <1>5

(* Every step of main.run, the goroutine, the signal or a request is one   *)
(* of finitely many: none is ever repeated.                                *)
THEOREM RunsOut == ASSUME IsFiniteSet(Requests) PROVE Spec => StepsRunOut
<1>1. /\ LeftOfMain \in 0..9 /\ LeftOfMain' \in 0..9
      /\ LeftOfServer \in 0..3 /\ LeftOfServer' \in 0..3
      /\ LeftOfSignals \in 0..1 /\ LeftOfSignals' \in 0..1
  BY DEF LeftOfMain, LeftOfServer, LeftOfSignals
<1>2. UNCHANGED server => LeftOfServer' = LeftOfServer
  BY DEF LeftOfServer
<1>3. UNCHANGED signalled => LeftOfSignals' = LeftOfSignals
  BY DEF LeftOfSignals
<1>4. UNCHANGED main => LeftOfMain' = LeftOfMain
  BY DEF LeftOfMain
<1>5. UNCHANGED stage => Cardinality(Ahead') = Cardinality(Ahead)
  BY DEF Ahead
<1>6. Cardinality(Ahead) \in Nat
  BY AheadFinite
<1>7. ASSUME Inv, Main PROVE StepsLeft' < StepsLeft
  <2>1. LeftOfMain' < LeftOfMain /\ UNCHANGED signalled
    BY <1>7 DEF Main, Load, Connect, PingRedis, ServerFailed, BeginShutdown, Drained,
         DrainTimeout, ServerStopped, CloseRedis, BeginClosePool, ClosePool, Return,
         LeftOfMain
  <2>2. LeftOfServer' <= LeftOfServer
    <3>1. CASE PingRedis
      <4>1. server = "none" /\ server' \in {"none", "starting"}
        BY <1>7, <3>1 DEF Inv, NotYetServing, PingRedis
      <4> QED
        BY <4>1 DEF LeftOfServer
    <3>2. CASE ~PingRedis
      <4>1. UNCHANGED server
        BY <1>7, <3>2 DEF Main, Load, Connect, ServerFailed, BeginShutdown, Drained,
             DrainTimeout, ServerStopped, CloseRedis, BeginClosePool, ClosePool
      <4> QED
        BY <1>1, <1>2, <4>1
    <3> QED
      BY <3>1, <3>2
  <2>3. Cardinality(Ahead') <= Cardinality(Ahead) /\ Cardinality(Ahead') \in Nat
    <3>1. CASE ClosePool
      <4>1. \A q \in Requests : stage'[q] \in {"cut", stage[q]}
        BY <3>1 DEF ClosePool
      <4>2. \A q \in Requests : LeftOf(stage'[q]) <= LeftOf(stage[q])
        BY <4>1 DEF LeftOf
      <4> QED
        BY <4>2, NobodyBack
    <3>2. CASE ~ClosePool
      <4>1. UNCHANGED stage
        BY <1>7, <3>2 DEF Main, Load, Connect, PingRedis, ServerFailed, BeginShutdown,
             Drained, DrainTimeout, ServerStopped, CloseRedis, BeginClosePool, requests
      <4> QED
        BY <1>5, <1>6, <4>1
    <3> QED
      BY <3>1, <3>2
  <2> QED
    BY <1>1, <1>3, <1>6, <2>1, <2>2, <2>3 DEF StepsLeft
<1>8. ASSUME Server PROVE StepsLeft' < StepsLeft
  <2>1. LeftOfServer' < LeftOfServer /\ UNCHANGED <<main, signalled, stage>>
    BY <1>8 DEF Server, Listen, ServeEnds, ServeFails, Report, requests, LeftOfServer
  <2> QED
    BY <1>1, <1>3, <1>4, <1>5, <1>6, <2>1 DEF StepsLeft
<1>9. ASSUME Signal PROVE StepsLeft' < StepsLeft
  <2>1. LeftOfMain' <= LeftOfMain
    <3>1. main' = main \/ main' = "exited"
      BY <1>9 DEF Signal, Return
    <3>2. main' = "exited" => LeftOfMain' = 0
      BY DEF LeftOfMain
    <3> QED
      BY <1>1, <1>4, <3>1, <3>2
  <2>2. LeftOfSignals' < LeftOfSignals /\ UNCHANGED <<server, stage>>
    BY <1>9 DEF Signal, LeftOfSignals
  <2> QED
    BY <1>1, <1>2, <1>5, <1>6, <2>1, <2>2 DEF StepsLeft
<1>10. ASSUME Inv, NEW r \in Requests, Accept(r) \/ Handle(r)
       PROVE  StepsLeft' < StepsLeft
  <2>1. PICK to : /\ stage' = [stage EXCEPT ![r] = to]
                  /\ LeftOf(to) < LeftOf(stage[r])
    BY <1>10 DEF Accept, Handle, Claim, BeginTransaction, Commit, Rollback, Complete, Move,
         LeftOf
  <2>2. UNCHANGED <<main, server, signalled>>
    BY <1>10 DEF Accept, Handle, Claim, BeginTransaction, Commit, Rollback, Complete, Move,
         process
  <2>3. stage'[r] = to /\ \A q \in Requests \ {r} : stage'[q] = stage[q]
    BY <1>10, <2>1 DEF Inv, TypeOK
  <2>4. \A at : LeftOf(at) \in 0..5
    BY DEF LeftOf
  <2>5. \A q \in Requests : LeftOf(stage'[q]) <= LeftOf(stage[q])
    BY <2>1, <2>3, <2>4
  <2>6. Cardinality(Ahead') < Cardinality(Ahead) /\ Cardinality(Ahead') \in Nat
    BY <2>1, <2>3, <2>5, NobodyBack
  <2> QED
    BY <1>1, <1>2, <1>3, <1>4, <1>6, <2>2, <2>6 DEF StepsLeft
<1>11. Inv /\ [Next]_vars => [StepsLeft' < StepsLeft]_vars
  BY <1>7, <1>8, <1>9, <1>10 DEF Next
<1> QED
  BY <1>11, InvHolds, PTL DEF Spec, StepsRunOut

=============================================================================
