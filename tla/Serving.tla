------------------------------- MODULE Serving --------------------------------
(***************************************************************************)
(* What every call runs in (app/database/session.py, app/api/deps.py,      *)
(* app/mcp/dispatch.py): a session that takes a connection from the pool   *)
(* for each of its transactions, and the tenant that the row policies of   *)
(* the database look at.  The tenant is set for one transaction: it is     *)
(* gone when that ends, also for the next call that gets the connection.   *)
(* An HTTP request and an MCP call are one transaction; a job commits in   *)
(* its middle, and goes on.  An MCP call is logged by a session of its     *)
(* own, after the first one has ended.                                     *)
(***************************************************************************)
EXTENDS Naturals, FiniteSets

CONSTANTS
    Calls,        \* numbers; one call at a time each
    Tenants,      \* organizations
    Connections,  \* of the pool
    NoConnection,
    NoTenant,
    MaxCommits    \* bound on the commits in the middle of a job

ASSUME ServingConstants ==
    /\ Calls \subseteq Nat
    /\ NoTenant \notin Tenants /\ NoConnection \notin Connections
    /\ MaxCommits \in Nat

VARIABLES
    tenancy,  \* [Connections -> tenant set for the transaction under way]
    calls,    \* what each call is doing
    mcpLog    \* mcp_requests: the rows of each call, as a sequence of their statuses

servingVars == <<tenancy, calls, mcpLog>>

CallKinds == {"http", "mcp", "job"}
CallStages == {"new", "identity", "limit", "handler", "between", "log", "done"}

\* Auxiliary: seen, the tenants whose rows a statement could see; blind: a statement
\* ran without tenant, and saw none; kept: the transaction was committed; unlogged:
\* the row of the call could not be written; gone: the client or the timeout has
\* cancelled the call.
NoCall == [kind |-> "http", stage |-> "new", tenant |-> NoTenant, conn |-> NoConnection,
           commits |-> 0, status |-> 200, seen |-> {}, blind |-> FALSE, kept |-> FALSE,
           unlogged |-> FALSE, gone |-> FALSE]

ServingInit ==
    /\ tenancy = [k \in Connections |-> NoTenant]
    /\ calls = [c \in Calls |-> NoCall]
    /\ mcpLog = [c \in Calls |-> {}]

-----------------------------------------------------------------------------
Pool == Connections \ {calls[c].conn : c \in Calls}

\* set_tenant_context, as the first statement of a transaction or in it.
Scoped(k, tenant) == [tenancy EXCEPT ![k] = tenant]

\* COMMIT or ROLLBACK: the connection goes back to the pool without tenant.
Released(k) == IF k = NoConnection THEN tenancy ELSE [tenancy EXCEPT ![k] = NoTenant]

\* A protected statement of call r, and what it sees.
Touched(r) ==
    IF tenancy[r.conn] = NoTenant THEN [r EXCEPT !.blind = TRUE]
    ELSE [r EXCEPT !.seen = @ \cup {tenancy[r.conn]}]

\* With a plausible mistake: what the handler has returned is the outcome.
Outcome_Handler(handler, committed) == IF handler THEN 200 ELSE 500

\* 200 only when the session has committed; else the hint of the error, or 500.
Outcome(handler, committed) == IF handler /\ committed THEN 200 ELSE 500

\* How the session of a call ends: an MCP call is logged next.
EndsWith(r, status, kept) ==
    [r EXCEPT !.stage = IF r.kind = "mcp" THEN "log" ELSE "done",
              !.status = status, !.kept = @ \/ kept, !.conn = NoConnection]

-----------------------------------------------------------------------------
\* The token is verified without the database; then resolve_identity sets the tenant.
\* A job has looked its organization up by a function that needs none.
Begin(c, kind, tenant) ==
    /\ calls[c].stage = "new" /\ \A d \in Calls : d < c => calls[d].stage # "new"
    /\ \E k \in Pool :
        /\ tenancy' = Scoped(k, tenant)
        /\ calls' = [calls EXCEPT ![c] =
                [NoCall EXCEPT !.kind = kind, !.tenant = tenant, !.conn = k,
                               !.stage = IF kind = "job" THEN "handler" ELSE "identity"]]
    /\ UNCHANGED mcpLog

\* resolve_identity reads user_roles; get_current_identity sets the tenant again.
ResolveIdentity(c) ==
    /\ calls[c].stage = "identity"
    /\ LET r == Touched(calls[c]) IN
       /\ calls' = [calls EXCEPT ![c] = [r EXCEPT !.stage =
                    IF r.kind = "mcp" THEN "limit" ELSE "handler"]]
       /\ tenancy' = Scoped(r.conn, r.tenant)
    /\ UNCHANGED mcpLog

\* enforce_rate_limit: throttled, or the handler.
Throttle(c, throttled) ==
    LET r == calls[c] IN
    /\ r.stage = "limit"
    /\ IF throttled
       THEN /\ calls' = [calls EXCEPT ![c] = EndsWith(r, 429, FALSE)]
            /\ tenancy' = Released(r.conn)
       ELSE /\ calls' = [calls EXCEPT ![c].stage = "handler"]
            /\ tenancy' = Scoped(r.conn, r.tenant)
    /\ UNCHANGED mcpLog

RunStatement(c) ==
    /\ calls[c].stage = "handler"
    /\ calls' = [calls EXCEPT ![c] = Touched(@)]
    /\ UNCHANGED <<tenancy, mcpLog>>

\* The handler returns or raises, and the commit succeeds or fails.
HandlerEnds(c, handler, committed) ==
    LET r == calls[c] IN
    /\ r.stage = "handler"
    /\ committed => handler
    /\ calls' = [calls EXCEPT ![c] = EndsWith(r, Outcome(handler, committed), committed)]
    /\ tenancy' = Released(r.conn)
    /\ UNCHANGED mcpLog

-----------------------------------------------------------------------------
\* A job commits a batch; its next statement takes a connection.
CommitBatch(c) ==
    LET r == calls[c] IN
    /\ r.kind = "job" /\ r.stage = "handler" /\ r.commits < MaxCommits
    /\ calls' = [calls EXCEPT ![c] = [r EXCEPT !.stage = "between", !.commits = @ + 1,
                                               !.conn = NoConnection, !.kept = TRUE]]
    /\ tenancy' = Released(r.conn)
    /\ UNCHANGED mcpLog

\* With a plausible mistake: the tenant is thought to be set still.
ResumedWith_Nothing(r) == NoTenant

\* SET LOCAL does not survive COMMIT: every commit is followed by another.
ResumedWith(r) == r.tenant

Resume(c) ==
    LET r == calls[c] IN
    /\ r.stage = "between"
    /\ \E k \in Pool :
        /\ tenancy' = Scoped(k, ResumedWith(r))
        /\ calls' = [calls EXCEPT ![c] = [r EXCEPT !.stage = "handler", !.conn = k]]
    /\ UNCHANGED mcpLog

-----------------------------------------------------------------------------
\* CancelledError is no Exception: get_db_session and session_scope roll back for it
\* too; run_mcp_tool goes to its log with the status it began with.
Cancel(c) ==
    LET r == calls[c] IN
    /\ r.stage \in {"identity", "limit", "handler", "between"}
    /\ calls' = [calls EXCEPT ![c] = [EndsWith(r, 200, FALSE) EXCEPT !.gone = TRUE]]
    /\ tenancy' = Released(r.conn)
    /\ UNCHANGED mcpLog

\* record_mcp_request, in a session of its own, which sets no tenant; a failure of it
\* is swallowed.
WriteLog(c, written) ==
    /\ calls[c].stage = "log"
    /\ written => Pool # {}
    /\ mcpLog' = IF written THEN [mcpLog EXCEPT ![c] = @ \cup {calls[c].status}] ELSE mcpLog
    /\ calls' = [calls EXCEPT ![c].stage = "done", ![c].unlogged = ~written]
    /\ UNCHANGED tenancy

\* A call that has ended makes room for another.
Leave(c) ==
    /\ calls[c].stage = "done"
    /\ calls' = [calls EXCEPT ![c] = NoCall]
    /\ mcpLog' = [mcpLog EXCEPT ![c] = {}]
    /\ UNCHANGED tenancy

ServingNext ==
    \E c \in Calls :
        \/ \E kind \in CallKinds, t \in Tenants : Begin(c, kind, t)
        \/ ResolveIdentity(c) \/ RunStatement(c) \/ CommitBatch(c) \/ Resume(c)
        \/ Cancel(c) \/ Leave(c)
        \/ \E throttled \in BOOLEAN : Throttle(c, throttled)
        \/ \E handler, committed \in BOOLEAN : HandlerEnds(c, handler, committed)
        \/ \E written \in BOOLEAN : WriteLog(c, written)

ServingSpec == ServingInit /\ [][ServingNext]_servingVars

-----------------------------------------------------------------------------
ServingTypeOK ==
    /\ tenancy \in [Connections -> Tenants \cup {NoTenant}]
    /\ calls \in [Calls -> [kind : CallKinds, stage : CallStages,
                            tenant : Tenants \cup {NoTenant},
                            conn : Connections \cup {NoConnection}, commits : 0..MaxCommits,
                            status : {200, 429, 500}, seen : SUBSET Tenants, blind : BOOLEAN,
                            kept : BOOLEAN, unlogged : BOOLEAN, gone : BOOLEAN]]
    /\ mcpLog \in [Calls -> SUBSET {200, 429, 500}]

(***************************************************************************)
(* Each call is served in its own name: whatever connection it gets, from  *)
(* whomever, also after the commits of a job, its statements see the rows  *)
(* of its tenant, and never run without tenant (session.py:179-187); no    *)
(* connection is held by two, and who waits for one holds none; and the    *)
(* log of an MCP call that was not cancelled says that it succeeded        *)
(* exactly when its work was kept (dispatch.py:97-107).                    *)
(***************************************************************************)
ServedInItsName ==
    /\ \A c \in Calls : calls[c].seen \subseteq {calls[c].tenant} /\ ~calls[c].blind
    /\ \A k \in Pool : tenancy[k] = NoTenant
    /\ \A c, d \in Calls : c # d /\ calls[c].conn = calls[d].conn => calls[c].conn = NoConnection
    /\ \A c \in Calls :
         /\ calls[c].stage \in {"between", "log", "done"} => calls[c].conn = NoConnection
         /\ calls[c].kind = "mcp" /\ calls[c].stage = "done" /\ ~calls[c].gone =>
              mcpLog[c] = IF calls[c].unlogged THEN {} ELSE {calls[c].status}
         /\ calls[c].kind = "mcp" /\ calls[c].stage \in {"log", "done"} /\ ~calls[c].gone =>
              (calls[c].status = 200 <=> calls[c].kept)
=============================================================================
