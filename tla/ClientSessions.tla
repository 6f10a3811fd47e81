--------------------------- MODULE ClientSessions ---------------------------
(***************************************************************************)
(* Presence of one MCP client: its row of mcp_client_sessions, written by  *)
(* the requests of several server processes.  The transport is stateless,  *)
(* so what the console shows is derived from a counter of tool calls, the  *)
(* time of the last request and an explicit DELETE.                        *)
(***************************************************************************)
EXTENDS Naturals, FiniteSets

CONSTANTS Call,        \* tool calls of this client
          MaxRequests, \* bound on its other requests
          MaxDeletes,  \* bound on transport DELETEs
          MaxFaults    \* bound on failed statements and crashes

ASSUME SessionsAssumption ==
    /\ IsFiniteSet(Call)
    /\ MaxRequests \in Nat
    /\ MaxDeletes \in Nat
    /\ MaxFaults \in Nat

VARIABLES exists,        \* the row exists
          operations,    \* active_operations
          disconnected,  \* disconnected_at IS NOT NULL
          silence,       \* now - last_seen_at, against the two windows
          call,          \* tool calls: new, open (counted), unseen, over
          others, deletes, faults,
          orphans,       \* history: counted calls that nobody will release
          torn           \* history: calls were open when a DELETE came

row  == <<exists, operations, disconnected, silence>>
sessionVars == <<row, call, others, deletes, faults, orphans, torn>>

Silence == {"live", "idle", "stale"}

SessionsInit ==
    /\ exists = FALSE
    /\ operations = 0
    /\ disconnected = FALSE
    /\ silence = "live"
    /\ call = [c \in Call |-> "new"]
    /\ others = 0
    /\ deletes = 0
    /\ faults = 0
    /\ orphans = 0
    /\ torn = FALSE

Open == {c \in Call : call[c] = "open"}
\* Mutation: a release takes every call in flight for its own.
DecreasedToZero(n) == 0

Decreased(n) == IF n = 0 THEN 0 ELSE n - 1
Fault == faults < MaxFaults /\ faults' = faults + 1

-----------------------------------------------------------------------------
\* Mutation: every request is counted, whatever releases it later.
TouchCountsAll(delta) ==
    /\ exists' = TRUE
    /\ operations' = IF exists THEN operations + 1 ELSE 1
    /\ disconnected' = FALSE
    /\ silence' = "live"

\* touch(): the upsert of one request; delta is 1 for a tool call.
Touch(delta) ==
    /\ exists' = TRUE
    /\ operations' = IF exists THEN operations + delta ELSE delta
    /\ disconnected' = FALSE
    /\ silence' = "live"

BeginCall(c) ==
    /\ call[c] = "new"
    /\ Touch(1)
    /\ call' = [call EXCEPT ![c] = "open"]
    /\ UNCHANGED <<others, deletes, faults, orphans, torn>>

\* The statement failed.  The call goes on without a tracker; when only the
\* answer was lost it is counted all the same.
BeginUntracked(c) ==
    /\ call[c] = "new"
    /\ Fault
    /\ \/ Touch(1) /\ orphans' = orphans + 1
       \/ UNCHANGED <<row, orphans>>
    /\ call' = [call EXCEPT ![c] = "unseen"]
    /\ UNCHANGED <<others, deletes, torn>>

\* A request that calls no tool is seen, not counted.
OtherRequest ==
    /\ others < MaxRequests
    /\ others' = others + 1
    /\ Touch(0)
    /\ UNCHANGED <<call, deletes, faults, orphans, torn>>

\* release(): an UPDATE of the row that touch() left.
Release ==
    /\ operations' = Decreased(operations)
    /\ silence' = "live"
    /\ UNCHANGED <<exists, disconnected>>

EndCall(c) ==
    /\ call[c] = "open"
    /\ Release
    /\ call' = [call EXCEPT ![c] = "over"]
    /\ UNCHANGED <<others, deletes, faults, orphans, torn>>

\* tracker.finish swallows the error of its statement.
EndUnreleased(c) ==
    /\ call[c] = "open"
    /\ Fault
    /\ call' = [call EXCEPT ![c] = "over"]
    /\ orphans' = orphans + 1
    /\ UNCHANGED <<row, others, deletes, torn>>

EndUntracked(c) ==
    /\ call[c] = "unseen"
    /\ call' = [call EXCEPT ![c] = "over"]
    /\ UNCHANGED <<row, others, deletes, faults, orphans, torn>>

\* disconnect(): the client's DELETE, which does not wait for its calls.
Disconnect ==
    /\ deletes < MaxDeletes
    /\ deletes' = deletes + 1
    /\ IF exists THEN operations' = 0 /\ disconnected' = TRUE
                 ELSE UNCHANGED <<operations, disconnected>>
    /\ orphans' = 0
    /\ torn' = (Open # {})
    /\ UNCHANGED <<exists, silence, call, others, faults>>

\* A server process dies with the calls it ran.
Crash(lost) ==
    /\ lost # {}
    /\ Fault
    /\ call' = [c \in Call |-> IF c \in lost THEN "over" ELSE call[c]]
    /\ orphans' = orphans + Cardinality(lost)
    /\ UNCHANGED <<row, others, deletes, torn>>

\* No request for 90 seconds, then for 15 minutes.
Elapse ==
    /\ exists
    /\ silence # "stale"
    /\ silence' = IF silence = "live" THEN "idle" ELSE "stale"
    /\ UNCHANGED <<exists, operations, disconnected, call, others, deletes, faults, orphans, torn>>

SessionsNext ==
    \/ \E c \in Call : BeginCall(c) \/ BeginUntracked(c) \/ EndCall(c) \/ EndUnreleased(c) \/ EndUntracked(c)
    \/ OtherRequest \/ Disconnect \/ Elapse \/ \E lost \in SUBSET Open : Crash(lost)

SessionsSpec == SessionsInit /\ [][SessionsNext]_sessionVars

-----------------------------------------------------------------------------
\* deriveStatus(): what the console shows.
Status ==
    IF disconnected \/ silence = "stale" THEN "disconnected"
    ELSE IF operations > 0 THEN "uploading"
    ELSE IF silence = "live" THEN "connected" ELSE "idle"

SessionsTypeOK ==
    /\ exists \in BOOLEAN
    /\ operations \in Nat
    /\ disconnected \in BOOLEAN
    /\ silence \in Silence
    /\ call \in [Call -> {"new", "open", "unseen", "over"}]
    /\ others \in 0 .. MaxRequests
    /\ deletes \in 0 .. MaxDeletes
    /\ faults \in 0 .. MaxFaults
    /\ orphans \in Nat
    /\ torn \in BOOLEAN

\* Increments and decrements of concurrent calls never lose one another: the
\* counter is exact but for what crashes orphaned and DELETEs tore
\* (clients/types.ts:17).
CountMatches == ~torn => operations = Cardinality(Open) + orphans

\* However DELETEs and late releases interleave, the counter errs downwards: a
\* client whose calls all ended is not shown as uploading.
NoPhantomUpload == operations <= Cardinality(Open) + orphans
=============================================================================
