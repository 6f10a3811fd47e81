-------------------------- MODULE ServerLifecycle --------------------------
(***************************************************************************)
(* Admission and shutdown of one server process.  An admitted request      *)
(* holds a slot until its response has ended and every operation it        *)
(* started has settled, also those that go on after the response headers.  *)
(* SIGTERM stops admission, aborts what runs and closes PostgreSQL only    *)
(* when requests, worker and HTTP server are done, or gives up after 25 s. *)
(***************************************************************************)
EXTENDS Naturals, FiniteSets

CONSTANTS Request,
          Op,             \* operations a request may start (trackOperation)
          MaxConcurrent

ASSUME LifecycleAssumption ==
    /\ IsFiniteSet(Request)
    /\ MaxConcurrent \in Nat \ {0}

VARIABLES stage,     \* where RequestLifecycle.handle stands
          op,        \* the operations of a request's context
          transport, \* the cleanup of an MCP response: transport, tracker
          aborted,   \* the request's AbortController
          left,      \* the client closed its connection
          stopping,  \* SIGTERM arrived
          awaited,   \* the requests that stop() waits for
          worker,    \* the background worker's run
          http,      \* the HTTP server: open, closing, closed
          database,
          exited     \* the process: no, clean (exit 0), dirty (exit 1)

requests == <<stage, op, transport, aborted, left>>
server   == <<stopping, awaited, worker, http, database, exited>>
vars     == <<requests, server>>

Stage  == {"new", "running", "streaming", "finishing", "done", "refused"}
Active == {r \in Request : stage[r] \in {"running", "streaming", "finishing"}}

Init ==
    /\ stage = [r \in Request |-> "new"]
    /\ op = [r \in Request |-> [k \in Op |-> "none"]]
    /\ transport = [r \in Request |-> "none"]
    /\ aborted = [r \in Request |-> FALSE]
    /\ left = [r \in Request |-> FALSE]
    /\ stopping = FALSE
    /\ awaited = {}
    /\ worker = "idle"
    /\ http = "open"
    /\ database = "open"
    /\ exited = "no"

Settled(r) == \A k \in Op : op[r][k] # "working"

-----------------------------------------------------------------------------
(* Requests.                                                               *)

\* With the server stopping or full, the answer is a 503.
Refuse(r) ==
    /\ stage[r] = "new"
    /\ stopping \/ Cardinality(Active) >= MaxConcurrent
    /\ stage' = [stage EXCEPT ![r] = "refused"]
    /\ UNCHANGED <<op, transport, aborted, left, server>>

\* The client may be gone before its request is handled.
Admit(r) ==
    /\ stage[r] = "new"
    /\ ~stopping
    /\ Cardinality(Active) < MaxConcurrent
    /\ stage' = [stage EXCEPT ![r] = "running"]
    /\ aborted' = [aborted EXCEPT ![r] = left[r]]
    /\ UNCHANGED <<op, transport, left, server>>

\* Handlers start tracked operations before and while they stream.
StartOperation(r, k) ==
    /\ stage[r] \in {"running", "streaming"}
    /\ op[r][k] = "none"
    /\ op' = [op EXCEPT ![r][k] = "working"]
    /\ UNCHANGED <<stage, transport, aborted, left, server>>

EndOperation(r, k) ==
    /\ op[r][k] = "working"
    /\ op' = [op EXCEPT ![r][k] = "settled"]
    /\ UNCHANGED <<stage, transport, aborted, left, server>>

\* The handler returned without a body, or threw: finish() at once.
RespondEmpty(r) ==
    /\ stage[r] = "running"
    /\ stage' = [stage EXCEPT ![r] = "finishing"]
    /\ aborted' = [aborted EXCEPT ![r] = TRUE]
    /\ UNCHANGED <<op, transport, left, server>>

\* Mutation: the abort listener is added without looking whether the signal
\* has already fired.
StreamsAnyway(r, mcp) ==
    /\ stage[r] = "running"
    /\ stage' = [stage EXCEPT ![r] = "streaming"]
    /\ transport' = [transport EXCEPT ![r] = IF mcp THEN "open" ELSE "none"]
    /\ UNCHANGED <<op, aborted, left, server>>

\* The handler returned a body, of the MCP transport or of another route.
\* A request aborted meanwhile ends its stream before it begins.
RespondStream(r, mcp) ==
    /\ stage[r] = "running"
    /\ stage' = [stage EXCEPT ![r] = IF aborted[r] THEN "finishing" ELSE "streaming"]
    /\ transport' = [transport EXCEPT ![r] =
          IF ~mcp THEN "none" ELSE IF aborted[r] THEN "working" ELSE "open"]
    /\ UNCHANGED <<op, aborted, left, server>>

Closed(t) == IF t = "open" THEN "working" ELSE t

\* The abort signal reaches the stream of the transport before the outer one,
\* so its cleanup is pending when finish() looks at the pending operations.
Abort(R) ==
    /\ aborted' = [r \in Request |-> r \in R \/ aborted[r]]
    /\ stage' = [r \in Request |->
          IF r \in R /\ stage[r] = "streaming" THEN "finishing" ELSE stage[r]]
    /\ transport' = [r \in Request |->
          IF r \in R /\ stage[r] = "streaming" THEN Closed(transport[r]) ELSE transport[r]]

\* The body was sent to its end, or failed.
EndStream(r) ==
    /\ stage[r] = "streaming"
    /\ Abort({r})
    /\ UNCHANGED <<op, left, server>>

\* The connection dropped; the request's signal fires if it was admitted.
Leave(r) ==
    /\ ~left[r]
    /\ stage[r] \notin {"done", "refused"}
    /\ left' = [left EXCEPT ![r] = TRUE]
    /\ Abort(IF stage[r] = "new" THEN {} ELSE {r})
    /\ UNCHANGED <<op, server>>

\* Or the HTTP layer cancels the body.  Then the outer stream ends first: with
\* nothing pending the slot is free one microtask before the transport's
\* cleanup starts, which nobody waits for.
CancelStream(r) ==
    /\ stage[r] = "streaming"
    /\ left' = [left EXCEPT ![r] = TRUE]
    /\ IF Settled(r) /\ transport[r] = "open"
       THEN /\ stage' = [stage EXCEPT ![r] = "done"]
            /\ transport' = [transport EXCEPT ![r] = "stray"]
            /\ aborted' = [aborted EXCEPT ![r] = TRUE]
       ELSE Abort({r})
    /\ UNCHANGED <<op, server>>

\* transport.close, server.close and tracker.finish.
EndTransport(r) ==
    /\ transport[r] \in {"working", "stray"}
    /\ transport' = [transport EXCEPT ![r] = "closed"]
    /\ UNCHANGED <<stage, op, aborted, left, server>>

\* Mutation: finish() awaits the tool handlers it saw, not what they left.
LooksOnce(r) == Settled(r)

\* finish() looks again until nothing is pending.
Finished(r) == Settled(r) /\ transport[r] # "working"

Free(r) ==
    /\ stage[r] = "finishing"
    /\ Finished(r)
    /\ stage' = [stage EXCEPT ![r] = "done"]
    /\ UNCHANGED <<op, transport, aborted, left, server>>

-----------------------------------------------------------------------------
(* The worker and the shutdown.                                            *)

StartRun ==
    /\ worker = "idle"
    /\ ~stopping
    /\ worker' = "running"
    /\ UNCHANGED <<requests, stopping, awaited, http, database, exited>>

EndRun ==
    /\ worker = "running"
    /\ worker' = "idle"
    /\ UNCHANGED <<requests, stopping, awaited, http, database, exited>>

\* server.close, requests.stop and worker.stop are called one after another.
Shutdown ==
    /\ ~stopping
    /\ stopping' = TRUE
    /\ awaited' = Active
    /\ Abort(Active)
    /\ http' = "closing"
    /\ UNCHANGED <<op, left, worker, database, exited>>

\* The last connection ended.
CloseHttp ==
    /\ http = "closing"
    /\ \A r \in Request : stage[r] \in {"running", "streaming"} => left[r]
    /\ http' = "closed"
    /\ UNCHANGED <<requests, stopping, awaited, worker, database, exited>>

\* Mutation: the pool is closed beside the worker, not after it.
RequestsDrained ==
    /\ \A r \in awaited : stage[r] = "done"
    /\ http = "closed"

Drained ==
    /\ \A r \in awaited : stage[r] = "done"
    /\ worker = "idle"
    /\ http = "closed"

CloseDatabase ==
    /\ database = "open"
    /\ stopping
    /\ Drained
    /\ database' = "closed"
    /\ UNCHANGED <<requests, stopping, awaited, worker, http, exited>>

Exit ==
    /\ database = "closed"
    /\ exited' = "clean"
    /\ UNCHANGED <<requests, stopping, awaited, worker, http, database>>

\* Mutation: the timer is armed when the HTTP server has closed.
LateDeadline ==
    /\ http = "closed"
    /\ exited' = "dirty"
    /\ UNCHANGED <<requests, stopping, awaited, worker, http, database>>

\* 25 seconds passed.
Deadline ==
    /\ stopping
    /\ exited' = "dirty"
    /\ UNCHANGED <<requests, stopping, awaited, worker, http, database>>

RequestStep(r) ==
    \/ Refuse(r) \/ Admit(r)
    \/ \E k \in Op : StartOperation(r, k) \/ EndOperation(r, k)
    \/ RespondEmpty(r)
    \/ \E mcp \in BOOLEAN : RespondStream(r, mcp)
    \/ EndStream(r) \/ Leave(r) \/ CancelStream(r)
    \/ EndTransport(r) \/ Free(r)

ServerStep ==
    \/ StartRun \/ EndRun
    \/ Shutdown \/ CloseHttp \/ CloseDatabase \/ Exit \/ Deadline

Next ==
    /\ exited = "no"
    /\ ServerStep \/ \E r \in Request : RequestStep(r)

Spec == Init /\ [][Next]_vars

\* The timer of the shutdown fires, whatever hangs.
Alive(A) == exited = "no" /\ A
TimerSpec == Spec /\ WF_vars(Alive(Deadline))

\* Handlers, operations and cleanups are bounded by Provider and statement
\* timeouts; a client may stay and read as slowly as it likes.
Prompt ==
    \A r \in Request :
        /\ WF_vars(Alive(RespondEmpty(r) \/ \E mcp \in BOOLEAN : RespondStream(r, mcp)))
        /\ \A k \in Op : WF_vars(Alive(EndOperation(r, k)))
        /\ WF_vars(Alive(EndTransport(r)))
        /\ WF_vars(Alive(Free(r)))

-----------------------------------------------------------------------------
TypeOK ==
    /\ stage \in [Request -> Stage]
    /\ op \in [Request -> [Op -> {"none", "working", "settled"}]]
    /\ transport \in [Request -> {"none", "open", "working", "stray", "closed"}]
    /\ aborted \in [Request -> BOOLEAN]
    /\ left \in [Request -> BOOLEAN]
    /\ stopping \in BOOLEAN
    /\ awaited \in SUBSET Request
    /\ worker \in {"idle", "running"}
    /\ http \in {"open", "closing", "closed"}
    /\ database \in {"open", "closed"}
    /\ exited \in {"no", "clean", "dirty"}

\* A request is at work while its handler runs, an operation it started has
\* not settled, or the cleanup of its response runs, awaited or not.
AtWork(r) ==
    stage[r] = "running" \/ ~Settled(r) \/ transport[r] \in {"working", "stray"}

\* The cleanup that a cancelled stream leaves behind when nothing else of its
\* request was pending: the client is gone, the handler has returned, every
\* operation has settled and the slot is free.  It closes the transport and
\* the MCP server and writes the end of the call (index.ts:669-673).
Strays == {r \in Request :
    transport[r] = "stray" /\ stage[r] = "done" /\ left[r] /\ Settled(r)}

\* The slots bound the work requests cause, detached handlers and the cleanup
\* after a response included, not just the responses being sent
\* (lifecycle.ts:4).  What may run beside as many requests as there are slots
\* is the stray cleanup of cancelled streams, and nothing else.
WorkIsBounded == Cardinality({r \in Request : AtWork(r)} \ Strays) <= MaxConcurrent

\* When the pool of PostgreSQL is closed the worker is idle and no request,
\* admitted at any time, has a handler, an operation or an awaited cleanup at
\* work (lifecycle.ts:63).  What may still run is a stray cleanup, whose write
\* may then fail.
DatabaseOutlivesWork ==
    database = "closed" => worker = "idle" /\ \A r \in Request : AtWork(r) => r \in Strays

\* If nothing hangs, a request whose client left gives its slot back, wherever
\* it was when the connection dropped, unless the process ends first.
AbandonedSlotsReturn ==
    Prompt =>
        \A r \in Request :
            (left[r] /\ r \in Active) ~> (r \notin Active \/ exited # "no")

\* SIGTERM ends the process even when handlers and operations never settle
\* (lifecycle.ts:70).
ShutdownEnds == stopping ~> exited # "no"

=============================================================================
