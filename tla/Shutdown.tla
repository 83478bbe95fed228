------------------------------- MODULE Shutdown --------------------------------
(***************************************************************************)
(* The scheduler's loops (start, spawn_task, run_with_retry of             *)
(* src/src/scheduler/service.rs) and the shutdown of the process           *)
(* (shutdown_signal of src/src/main.rs) beside HTTP requests that use the  *)
(* same pool of connections.                                               *)
(***************************************************************************)
EXTENDS Naturals, FiniteSets

CONSTANTS
  Loops,       \* the scheduler's task loops, started in some order
  FirstLoop,   \* the one that is joined first
  Requests,    \* HTTP requests in flight
  MaxRetries,  \* MAX_RETRIES: 3
  QueryBound   \* bound: queries of a request

ASSUME ShutdownAssumption ==
  /\ IsFiniteSet(Loops) /\ FirstLoop \in Loops /\ IsFiniteSet(Requests)
  /\ {MaxRetries, QueryBound} \subseteq Nat \ {0}

VARIABLES
  loop,      \* each loop: where it is, and the attempt of its run
  request,   \* each request: where it is (at its client in "body" and "answer"), queries left
  stop,      \* the value in the watch channel
  pool,      \* "open", "closing": no connection is handed out, "closed"
  main,      \* where shutdown_signal and main are
  timedOut   \* whether the wait for the scheduler ran out

processVars == <<loop, request, stop, pool, main, timedOut>>

ProcessInit ==
  /\ loop = [l \in Loops |-> [pc |-> "wait", attempt |-> 0]]
  /\ request = [q \in Requests |-> [pc |-> "none", left |-> 0]]
  /\ stop = FALSE /\ pool = "open" /\ main = "serve" /\ timedOut = FALSE

LoopGoes(l, pc, attempt) ==
  /\ loop' = [loop EXCEPT ![l] = [pc |-> pc, attempt |-> attempt]]
  /\ UNCHANGED <<request, stop, pool, main, timedOut>>
-----------------------------------------------------------------------------
(* A loop: select! of the ticker and the channel                               *)

TickerFires(l) ==
  /\ loop[l].pc = "wait"
  /\ IF stop THEN LoopGoes(l, "stopped", 0) ELSE LoopGoes(l, "run", 1)

StopSeen(l) == loop[l].pc = "wait" /\ stop /\ LoopGoes(l, "stopped", 0)

\* A statement of the run takes a connection, ...
RunQueries(l) ==
  loop[l].pc = "run" /\ pool = "open" /\ LoopGoes(l, "query", loop[l].attempt)

\* ... is followed by another, ...
RunGoesOn(l) == loop[l].pc = "query" /\ LoopGoes(l, "run", loop[l].attempt)

\* ... or ends the run, which an error that is not transient does as well, ...
RunEnds(l) == loop[l].pc = "query" /\ LoopGoes(l, "wait", 0)

\* ... or fails: a transient error is retried after a while, which also a closed pool is.
RunFails(l) ==
  /\ loop[l].pc \in {"run", "query"}
  /\ \/ loop[l].attempt < MaxRetries /\ LoopGoes(l, "sleep", loop[l].attempt)
     \/ loop[l].attempt = MaxRetries /\ LoopGoes(l, "wait", 0)

RetryAgain(l) == loop[l].pc = "sleep" /\ LoopGoes(l, "run", loop[l].attempt + 1)
-----------------------------------------------------------------------------
(* Requests.  axum accepts them until shutdown_signal returns.  It waits without *)
(* a limit for a client to send the body and to take the answer.                *)

RequestGoes(q, pc, left) ==
  /\ request' = [request EXCEPT ![q] = [pc |-> pc, left |-> left]]
  /\ UNCHANGED <<loop, stop, pool, main, timedOut>>

Arrive(q) ==
  /\ request[q].pc = "none" /\ main \notin {"drain", "exit"}
  /\ RequestGoes(q, "body", QueryBound)

\* The client sends what is missing of the body, ...
BodySent(q) == request[q].pc = "body" /\ RequestGoes(q, "handler", QueryBound)

\* ... or takes the answer, ...
AnswerTaken(q) == request[q].pc = "answer" /\ RequestGoes(q, "none", 0)

\* ... or hangs up, upon which the handler is dropped wherever it is.
HangUp(q) == request[q].pc # "none" /\ RequestGoes(q, "none", 0)

QueryStarts(q) ==
  /\ request[q].pc = "handler" /\ request[q].left > 0 /\ pool = "open"
  /\ RequestGoes(q, "query", request[q].left - 1)

QueryEnds(q) ==
  request[q].pc = "query" /\ RequestGoes(q, "handler", request[q].left)

Answer(q) == request[q].pc = "handler" /\ RequestGoes(q, "answer", 0)

\* PoolClosed: the request is answered with an error.
PoolRefuses(q) ==
  /\ request[q].pc = "handler" /\ request[q].left > 0 /\ pool # "open"
  /\ RequestGoes(q, "answer", 0)
-----------------------------------------------------------------------------
(* shutdown_signal                                                              *)

MainGoes(from, to) == main = from /\ main' = to /\ UNCHANGED <<loop, request>>

\* SIGTERM or SIGINT
Signalled == MainGoes("serve", "close") /\ UNCHANGED <<stop, pool, timedOut>>

CloseAllSessions == MainGoes("close", "signal") /\ UNCHANGED <<stop, pool, timedOut>>

SignalScheduler == MainGoes("signal", "join") /\ stop' = TRUE /\ UNCHANGED <<pool, timedOut>>

\* Mutant: the wait ends with the first loop.
SchedulerStopped_First ==
  loop[FirstLoop].pc = "stopped" /\ MainGoes("join", "pool") /\ UNCHANGED <<stop, pool, timedOut>>

\* The handle that start returns ends when all loops have.
SchedulerStopped ==
  /\ \A l \in Loops : loop[l].pc = "stopped"
  /\ MainGoes("join", "pool") /\ UNCHANGED <<stop, pool, timedOut>>

\* Mutant: no timeout
JoinTimesOut_Never == FALSE /\ MainGoes("join", "pool") /\ UNCHANGED <<stop, pool, timedOut>>

JoinTimesOut == MainGoes("join", "pool") /\ timedOut' = TRUE /\ UNCHANGED <<stop, pool>>

ClosePool == MainGoes("pool", "closing") /\ pool' = "closing" /\ UNCHANGED <<stop, timedOut>>

\* close() waits for the connections that are out.
PoolClosed ==
  /\ \A l \in Loops : loop[l].pc # "query" /\ \A q \in Requests : request[q].pc # "query"
  /\ MainGoes("closing", "drain") /\ pool' = "closed" /\ UNCHANGED <<stop, timedOut>>

\* axum waits for the requests that were accepted, then main returns.
Exit ==
  /\ \A q \in Requests : request[q].pc = "none"
  /\ MainGoes("drain", "exit") /\ UNCHANGED <<stop, pool, timedOut>>

LoopStep(l) ==
  /\ main # "exit"
  /\ \/ TickerFires(l) \/ StopSeen(l) \/ RunQueries(l) \/ RunGoesOn(l) \/ RunEnds(l)
     \/ RunFails(l) \/ RetryAgain(l)

\* What the server does for a request, and what its client does.
RequestStep(q) == QueryStarts(q) \/ QueryEnds(q) \/ Answer(q) \/ PoolRefuses(q)
ClientStep(q) == BodySent(q) \/ AnswerTaken(q) \/ HangUp(q)

MainStep ==
  \/ CloseAllSessions \/ SignalScheduler \/ SchedulerStopped \/ JoinTimesOut \/ ClosePool
  \/ PoolClosed \/ Exit

ProcessNext ==
  \/ \E l \in Loops : LoopStep(l)
  \/ \E q \in Requests : Arrive(q) \/ RequestStep(q) \/ ClientStep(q)
  \/ Signalled \/ MainStep

ProcessSpec == ProcessInit /\ [][ProcessNext]_processVars
-----------------------------------------------------------------------------
ProcessTypeOK ==
  /\ loop \in [Loops -> [pc: {"wait", "run", "query", "sleep", "stopped"}, attempt: 0..MaxRetries]]
  /\ request \in [Requests -> [pc: {"none", "body", "handler", "query", "answer"}, left: 0..QueryBound]]
  /\ stop \in BOOLEAN /\ pool \in {"open", "closing", "closed"} /\ timedOut \in BOOLEAN
  /\ main \in {"serve", "close", "signal", "join", "pool", "closing", "drain", "exit"}

\* A run of a scheduled task is cut off by the closing of the pool only when the wait for
\* it has timed out: otherwise no loop is in a run, waits to retry or starts one again.
RunsComplete == pool # "open" /\ ~timedOut => \A l \in Loops : loop[l].pc = "stopped"

\* No request waits for its client for ever: nothing in the server sees to that.
ClientsGoOn == \A q \in Requests : []<>(request[q].pc \notin {"body", "answer"})

\* A process that was told to end stops its scheduler and closes its pool whatever its
\* clients do, with loops in the middle of a run or of a retry and requests that still
\* arrive.  It is gone only if every client goes on: the drain at the end has no limit.
ShutdownEnds ==
  /\ main = "close" ~> main \in {"drain", "exit"}
  /\ ClientsGoOn => (main = "drain" ~> main = "exit")
=============================================================================
