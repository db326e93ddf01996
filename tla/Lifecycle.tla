----------------------------- MODULE Lifecycle -----------------------------
(***************************************************************************)
(* One life of the process: main.run from the configuration to the exit,   *)
(* the goroutine that serves HTTP, the signals that end it, and the        *)
(* requests that are in flight when they do (api-service/main.go).         *)
(*                                                                         *)
(* Redis and PostgreSQL may be unreachable at the start and are well from  *)
(* then on: what goes wrong later is the doing of the process itself.      *)
(***************************************************************************)

CONSTANTS
    Requests,   \* idempotent requests that clients send in this life
    None

ASSUME NoneAssumption == None \notin {"ok", "failure", "closed"}

VARIABLES
    main,           \* where main.run is
    server,         \* where server.ListenAndServe is, in its goroutine
    inShutdown,     \* Shutdown has been called, and the listener closed
    serverErrors,   \* the buffered channel the goroutine reports to
    signalled,      \* applicationContext is done
    pool,           \* the PostgreSQL pool
    redis,          \* the Redis client
    exit,           \* the exit code, once main.run has decided on one
    stage,          \* stage[r]: where request r is
    committed,      \* the requests whose transaction has committed
    stored          \* the requests whose response is in Redis

vars == <<main, server, inShutdown, serverErrors, signalled, pool, redis, exit,
          stage, committed, stored>>

(* In the order of main.run: its statements, and its deferred calls.       *)
Running == {"loading", "connecting", "pinging", "serving", "shuttingDown", "drained"}
Returning == {"closingRedis", "closingPool", "waitingForPool", "exited"}

(* A request that a goroutine of the server works on.                      *)
Active == {"accepted", "claimed", "inTransaction", "completing"}

(* How requests end: with their stored response, with an error, or cut off *)
(* by the exit of the process.                                             *)
Over == {"answered", "failed", "cut"}

TypeOK ==
    /\ main \in Running \cup Returning
    /\ server \in {"none", "starting", "listening", "stopped"}
    /\ inShutdown \in BOOLEAN
    /\ serverErrors \in {None, "closed", "failure"}
    /\ signalled \in BOOLEAN
    /\ pool \in {"none", "open", "closing", "closed"}
    /\ redis \in {"none", "open", "closed"}
    /\ exit \in IF main \in Returning THEN {"ok", "failure"} ELSE {None}
    /\ stage \in [Requests -> {"unsent"} \cup Active \cup Over]
    /\ committed \in SUBSET Requests
    /\ stored \in SUBSET Requests

Init ==
    /\ main = "loading"
    /\ server = "none"
    /\ inShutdown = FALSE
    /\ serverErrors = None
    /\ signalled = FALSE
    /\ pool = "none"
    /\ redis = "none"
    /\ exit = None
    /\ stage = [r \in Requests |-> "unsent"]
    /\ committed = {}
    /\ stored = {}

(* Mutant: an error is returned without becoming the exit code.            *)
ReturnWithoutCode(code, deferred) == main' = deferred /\ UNCHANGED exit

(* main.run returns; its deferred calls begin with the given one.          *)
Return(code, deferred) == exit' = code /\ main' = deferred

(* SIGINT or SIGTERM.  It kills the process until NotifyContext catches    *)
(* it, and is caught up to its stop, which is deferred before everything   *)
(* else: a second signal then does nothing.                                *)
Signal ==
    /\ main # "exited"
    /\ ~signalled
    /\ signalled' = TRUE
    /\ IF main = "loading" THEN Return("failure", "exited") ELSE UNCHANGED <<main, exit>>
    /\ UNCHANGED <<server, inShutdown, serverErrors, pool, redis, stage, committed, stored>>

-----------------------------------------------------------------------------
(* main.run.                                                               *)

requests == <<stage, committed, stored>>

(* config.Load, os.ReadFile of the OpenAPI document, redis.ParseURL.       *)
Load ==
    /\ main = "loading"
    /\ \/ main' = "connecting" /\ UNCHANGED exit
       \/ Return("failure", "exited")
    /\ UNCHANGED <<server, inShutdown, serverErrors, signalled, pool, redis, requests>>

(* database.NewPostgresPool; startupContext ends with applicationContext.  *)
Connect ==
    /\ main = "connecting"
    /\ \/ /\ ~signalled
          /\ main' = "pinging"
          /\ pool' = "open"
          /\ UNCHANGED exit
       \/ /\ Return("failure", "exited")
          /\ UNCHANGED pool
    /\ UNCHANGED <<server, inShutdown, serverErrors, signalled, redis, requests>>

(* redisClient.Ping, and the start of the goroutine that serves.           *)
PingRedis ==
    /\ main = "pinging"
    /\ \/ /\ ~signalled
          /\ main' = "serving"
          /\ redis' = "open"
          /\ server' = "starting"
          /\ UNCHANGED exit
       \/ /\ Return("failure", "closingPool")
          /\ redis' = "closed"
          /\ UNCHANGED server
    /\ UNCHANGED <<inShutdown, serverErrors, signalled, pool, requests>>

(* select: an error of the server.  It is never ErrServerClosed here, as   *)
(* nobody has called Shutdown.                                             *)
ServerFailed ==
    /\ main = "serving"
    /\ serverErrors = "failure"
    /\ serverErrors' = None
    /\ Return("failure", "closingRedis")
    /\ UNCHANGED <<server, inShutdown, signalled, pool, redis, requests>>

(* select: the signal.  server.Shutdown begins, and closes the listener.   *)
BeginShutdown ==
    /\ main = "serving"
    /\ signalled
    /\ main' = "shuttingDown"
    /\ inShutdown' = TRUE
    /\ UNCHANGED <<server, serverErrors, signalled, pool, redis, exit, requests>>

Idle == \A r \in Requests : stage[r] \notin Active

(* Mutant: Shutdown does not wait for the requests in flight.              *)
DrainedEarly ==
    /\ main = "shuttingDown"
    /\ main' = "drained"
    /\ UNCHANGED <<server, inShutdown, serverErrors, signalled, pool, redis, exit, requests>>

(* Shutdown has seen every connection idle.                                *)
Drained ==
    /\ main = "shuttingDown"
    /\ Idle
    /\ main' = "drained"
    /\ UNCHANGED <<server, inShutdown, serverErrors, signalled, pool, redis, exit, requests>>

(* HTTP_SHUTDOWN_TIMEOUT is over: run returns, the requests run on.        *)
DrainTimeout ==
    /\ main = "shuttingDown"
    /\ Return("failure", "closingRedis")
    /\ UNCHANGED <<server, inShutdown, serverErrors, signalled, pool, redis, requests>>

(* Mutant: only ErrServerClosed ends the wait.                             *)
ServerStoppedCleanly ==
    /\ main = "drained"
    /\ serverErrors = "closed"
    /\ serverErrors' = None
    /\ Return("ok", "closingRedis")
    /\ UNCHANGED <<server, inShutdown, signalled, pool, redis, requests>>

(* The receive from serverErrors after the shutdown.                       *)
ServerStopped ==
    /\ main = "drained"
    /\ serverErrors # None
    /\ serverErrors' = None
    /\ Return(IF serverErrors = "closed" THEN "ok" ELSE "failure", "closingRedis")
    /\ UNCHANGED <<server, inShutdown, signalled, pool, redis, requests>>

(* The deferred calls run in the reverse order of their defer statements.  *)
CloseRedis ==
    /\ main = "closingRedis"
    /\ redis' = "closed"
    /\ main' = "closingPool"
    /\ UNCHANGED <<server, inShutdown, serverErrors, signalled, pool, exit, requests>>

(* pool.Close refuses new transactions ...                                 *)
BeginClosePool ==
    /\ main = "closingPool"
    /\ pool' = "closing"
    /\ main' = "waitingForPool"
    /\ UNCHANGED <<server, inShutdown, serverErrors, signalled, redis, exit, requests>>

(* Mutant: the pool is closed under the transactions that use it.          *)
ClosePoolAtOnce ==
    /\ main = "waitingForPool"
    /\ pool' = "closed"
    /\ main' = "exited"
    /\ stage' = [r \in Requests |-> IF stage[r] \in Active THEN "cut" ELSE stage[r]]
    /\ UNCHANGED <<server, inShutdown, serverErrors, signalled, redis, exit, committed, stored>>

(* ... and waits for the connections in use.  Then the process exits, and  *)
(* the requests that still run with it.                                    *)
ClosePool ==
    /\ main = "waitingForPool"
    /\ \A r \in Requests : stage[r] # "inTransaction"
    /\ pool' = "closed"
    /\ main' = "exited"
    /\ stage' = [r \in Requests |-> IF stage[r] \in Active THEN "cut" ELSE stage[r]]
    /\ UNCHANGED <<server, inShutdown, serverErrors, signalled, redis, exit, committed, stored>>

Main ==
    \/ Load \/ Connect \/ PingRedis
    \/ ServerFailed \/ BeginShutdown \/ Drained \/ DrainTimeout \/ ServerStopped
    \/ CloseRedis \/ BeginClosePool \/ ClosePool

-----------------------------------------------------------------------------
(* The goroutine that serves.                                              *)

Alive == main # "exited"

Listen ==
    /\ Alive
    /\ server = "starting"
    /\ ~inShutdown
    /\ server' = "listening"
    /\ UNCHANGED <<main, inShutdown, serverErrors, signalled, pool, redis, exit, requests>>

(* The goroutine reports why ListenAndServe has returned: the channel has  *)
(* room, whether main.run still receives or not.                           *)
Report(error) ==
    /\ server' = "stopped"
    /\ serverErrors' = error
    /\ UNCHANGED <<main, inShutdown, signalled, pool, redis, exit, requests>>

(* Mutant: ErrServerClosed is no error, so nothing is reported.            *)
ServeEndsSilently ==
    /\ Alive
    /\ server \in {"starting", "listening"}
    /\ inShutdown
    /\ server' = "stopped"
    /\ UNCHANGED <<main, inShutdown, serverErrors, signalled, pool, redis, exit, requests>>

ServeEnds ==
    /\ Alive
    /\ server \in {"starting", "listening"}
    /\ inShutdown
    /\ Report("closed")

(* The address is taken, or Accept fails.                                  *)
ServeFails ==
    /\ Alive
    /\ server = "starting" \/ (server = "listening" /\ ~inShutdown)
    /\ Report("failure")

Server == Listen \/ ServeEnds \/ ServeFails

-----------------------------------------------------------------------------
(* A request, as far as it uses what main.run closes.                      *)

process == <<main, server, inShutdown, serverErrors, signalled, pool, redis, exit>>

Move(r, from, to) ==
    /\ Alive
    /\ stage[r] = from
    /\ stage' = [stage EXCEPT ![r] = to]
    /\ UNCHANGED process

Accept(r) ==
    /\ server = "listening"
    /\ ~inShutdown
    /\ Move(r, "unsent", "accepted")
    /\ UNCHANGED <<committed, stored>>

(* Store.Begin reserves the key, or fails on a closed client: 500.         *)
Claim(r) ==
    /\ Move(r, "accepted", IF redis = "open" THEN "claimed" ELSE "failed")
    /\ UNCHANGED <<committed, stored>>

(* pool.BeginTx fails once the pool is being closed; the handler's 500 is  *)
(* then what is to be stored.                                              *)
BeginTransaction(r) ==
    /\ Move(r, "claimed", IF pool = "open" THEN "inTransaction" ELSE "completing")
    /\ UNCHANGED <<committed, stored>>

Commit(r) ==
    /\ Move(r, "inTransaction", "completing")
    /\ committed' = committed \cup {r}
    /\ UNCHANGED stored

(* The transaction refuses the request and is rolled back.                 *)
Rollback(r) ==
    /\ Move(r, "inTransaction", "completing")
    /\ UNCHANGED <<committed, stored>>

(* Reservation.Complete stores the response, or fails: 500.                *)
Complete(r) ==
    /\ \/ /\ redis = "open"
          /\ Move(r, "completing", "answered")
          /\ stored' = stored \cup {r}
       \/ /\ redis # "open"
          /\ Move(r, "completing", "failed")
          /\ UNCHANGED stored
    /\ UNCHANGED committed

Handle(r) ==
    Claim(r) \/ BeginTransaction(r) \/ Commit(r) \/ Rollback(r) \/ Complete(r)

Next == Signal \/ Main \/ Server \/ \E r \in Requests : Accept(r) \/ Handle(r)

Spec == Init /\ [][Next]_vars

(* main.run and the goroutines go on, handlers return, timers fire.        *)
Fairness ==
    /\ WF_vars(Main)
    /\ WF_vars(Server)
    /\ \A r \in Requests : WF_vars(Handle(r))

FairSpec == Spec /\ Fairness

-----------------------------------------------------------------------------
(* An exit code of zero means that nobody was let down: every request that *)
(* was accepted has its answer, stored for its retries.                    *)
CleanExit ==
    exit = "ok" => \A r \in Requests : stage[r] \in {"unsent", "answered"}

(* The goroutine's report neither blocks it nor gets lost: as long as it   *)
(* serves, the channel has room, and as long as main.run may yet receive,  *)
(* at the select or after the shutdown, the goroutine serves or its report *)
(* is there.                                                               *)
ReportKept ==
    /\ server # "stopped" => serverErrors = None
    /\ main \in {"serving", "shuttingDown", "drained"} =>
            server # "none" /\ (server = "stopped" => serverErrors # None)

(* The process never ends under a transaction: even after the timeout each *)
(* one gets to its COMMIT or rollback.                                     *)
NoTransactionCut ==
    [][\A r \in Requests :
        stage[r] = "inTransaction" => stage'[r] \in {"inTransaction", "completing"}]_vars

(* A signal ends the process, whatever main.run, the server and the        *)
(* requests are doing when it arrives.                                     *)
SignalEnds == signalled ~> main = "exited"

(* What the documentation says of an Idempotency-Key, that a repeat is     *)
(* given the stored result, as seen from here: the response of a request   *)
(* that has committed is stored when the request is over.  The code does   *)
(* not keep this.                                                          *)
CommitsAreStored ==
    \A r \in Requests : stage[r] \in Over /\ r \in committed => r \in stored

=============================================================================
