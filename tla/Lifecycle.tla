------------------------------ MODULE Lifecycle -----------------------------
(***************************************************************************)
(* The stop of a server (server.ts, shutdown) against what it runs: HTTP   *)
(* requests, whose handlers take clients of the pool (db/transaction.ts),  *)
(* and the notification worker, woken by a timer                           *)
(* (notificationOutbox.worker.ts).  Docker kills what has not stopped in   *)
(* time.                                                                   *)
(***************************************************************************)
EXTENDS Naturals, FiniteSets

CONSTANTS
  Handlers  \* bound: requests at once

VARIABLES
  phase,    \* "up", "stopping", "ending" (pool.end called), "exited"
  shutting, \* shuttingDown
  forced,   \* closeAllConnections was called, at the deadline
  handler,  \* [Handlers -> what the handler does]
  socket,   \* handlers whose connection is open
  gone,     \* handlers whose client closed the connection itself
  worker,   \* what the run of the worker does
  timer,    \* a run of the worker is scheduled
  stopped   \* the flag of the worker

vars == <<phase, shutting, forced, handler, socket, gone, worker, timer, stopped>>

\* idle: no request; ready: between two statements; transaction: a client of
\* the pool is checked out.
HandlerStates == {"idle", "ready", "transaction"}
\* idle; running: between two statements; claimed: items in PROCESSING.
WorkerStates == {"idle", "running", "claimed"}

\* app.listen, and the first run of the worker.
Init ==
  /\ phase = "up" /\ shutting = FALSE /\ forced = FALSE
  /\ handler = [h \in Handlers |-> "idle"]
  /\ socket = {} /\ gone = {}
  /\ worker = "running" /\ timer = FALSE /\ stopped = FALSE

Alive == phase # "exited"
PoolOpen == phase \in {"up", "stopping"}

-----------------------------------------------------------------------------
(* Requests *)

Accept(h) ==
  /\ phase = "up"
  /\ handler[h] = "idle" /\ h \notin socket
  /\ handler' = [handler EXCEPT ![h] = "ready"]
  /\ socket' = socket \cup {h}
  /\ gone' = gone \ {h}
  /\ UNCHANGED <<phase, shutting, forced, worker, timer, stopped>>

\* withTransaction: a client is checked out; once pool.end was called it is
\* refused, the handler fails.
BeginTransaction(h) ==
  /\ Alive
  /\ handler[h] = "ready"
  /\ handler' = [handler EXCEPT ![h] = IF PoolOpen THEN "transaction" ELSE "idle"]
  /\ UNCHANGED <<phase, shutting, forced, socket, gone, worker, timer, stopped>>

EndTransaction(h) ==
  /\ Alive
  /\ handler[h] = "transaction"
  /\ handler' = [handler EXCEPT ![h] = "ready"]
  /\ UNCHANGED <<phase, shutting, forced, socket, gone, worker, timer, stopped>>

\* The answer is sent and the connection closes; a destroyed connection gets none.
Answer(h) ==
  /\ Alive
  /\ handler[h] = "ready"
  /\ handler' = [handler EXCEPT ![h] = "idle"]
  /\ socket' = socket \ {h}
  /\ UNCHANGED <<phase, shutting, forced, gone, worker, timer, stopped>>

\* The client closes the connection before the answer: the handler goes on.
Disconnect(h) ==
  /\ Alive
  /\ h \in socket
  /\ socket' = socket \ {h}
  /\ gone' = gone \cup {h}
  /\ UNCHANGED <<phase, shutting, forced, handler, worker, timer, stopped>>

-----------------------------------------------------------------------------
(* The notification worker *)

WakeUp ==
  /\ Alive /\ timer /\ worker = "idle"
  /\ worker' = "running" /\ timer' = FALSE
  /\ UNCHANGED <<phase, shutting, forced, handler, socket, gone, stopped>>

ClaimItems ==
  /\ Alive /\ worker = "running" /\ PoolOpen
  /\ worker' = "claimed"
  /\ UNCHANGED <<phase, shutting, forced, handler, socket, gone, timer, stopped>>

\* The batch is delivered, or there was none: the next run is scheduled unless
\* the worker was stopped.
EndRun ==
  /\ Alive /\ worker \in {"running", "claimed"}
  /\ worker' = "idle"
  /\ timer' = ~stopped
  /\ UNCHANGED <<phase, shutting, forced, handler, socket, gone, stopped>>

-----------------------------------------------------------------------------
(* The stop *)

\* SIGTERM or SIGINT: the port closes, the worker gets no further run.
Signal ==
  /\ phase = "up" /\ ~shutting
  /\ phase' = "stopping" /\ shutting' = TRUE
  /\ stopped' = TRUE /\ timer' = FALSE
  /\ UNCHANGED <<forced, handler, socket, gone, worker>>

\* Ten seconds later, the connections that remain are destroyed; their
\* handlers go on.
ForceClose ==
  /\ phase = "stopping" /\ ~forced
  /\ forced' = TRUE
  /\ socket' = {}
  /\ UNCHANGED <<phase, shutting, handler, gone, worker, timer, stopped>>

\* Mutant of EndPool: the stop does not wait for the run of the worker.
EndPoolAtOnce ==
  /\ phase = "stopping" /\ socket = {}
  /\ phase' = "ending"
  /\ UNCHANGED <<shutting, forced, handler, socket, gone, worker, timer, stopped>>

\* pool.end(), when the worker and the server are stopped.
EndPool ==
  /\ phase = "stopping" /\ socket = {} /\ worker = "idle"
  /\ phase' = "ending"
  /\ UNCHANGED <<shutting, forced, handler, socket, gone, worker, timer, stopped>>

\* pool.end() resolves once every client came back.
Exit ==
  /\ phase = "ending"
  /\ \A h \in Handlers : handler[h] # "transaction"
  /\ phase' = "exited"
  /\ UNCHANGED <<shutting, forced, handler, socket, gone, worker, timer, stopped>>

Next ==
  \/ \E h \in Handlers : Accept(h) \/ BeginTransaction(h) \/ EndTransaction(h)
                         \/ Answer(h) \/ Disconnect(h)
  \/ WakeUp \/ ClaimItems \/ EndRun
  \/ Signal \/ ForceClose \/ EndPool \/ Exit

Spec == Init /\ [][Next]_vars
-----------------------------------------------------------------------------
(* Properties *)

\* A graceful exit leaves nothing half done: no transaction is open, no item
\* of the outbox is left claimed for the lease of another worker to expire,
\* no run of the worker is still to come.  Only a request that outlived the
\* deadline, or that its client gave up, may be cut, and between transactions.
GracefulExit ==
  /\ phase \in {"ending", "exited"} => worker = "idle" /\ ~timer /\ socket = {}
  /\ phase = "exited" => \A h \in Handlers :
       /\ handler[h] # "transaction"
       /\ handler[h] = "ready" => forced \/ h \in gone
=============================================================================
