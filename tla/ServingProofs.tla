----------------------------- MODULE ServingProofs -----------------------------
(***************************************************************************)
(* In whose name the system answers, for all sets of calls, tenants,       *)
(* connections, requests and accounts.  The statements of a call look at   *)
(* the tenant of its connection (Serving), so the invariant says what that *)
(* tenant is: the call's own while it holds the connection, and none while *)
(* nobody does.  It is of use only because no two calls hold the same      *)
(* connection.  Who is let in at all is the second part (Accounts), and    *)
(* what a page shows of a session the third (Browser): what holds there    *)
(* while calls are under way says why it is right once they are over.      *)
(***************************************************************************)
EXTENDS Serving, Accounts, Browser, FiniteSetTheorems, TLAPS

\* The types of a call, with its sets named one by one.
Statuses == {200, 429, 500}
TenantOrNone == Tenants \cup {NoTenant}
ConnectionOrNone == Connections \cup {NoConnection}
CallRecords ==
    [kind : CallKinds, stage : CallStages, tenant : TenantOrNone, conn : ConnectionOrNone,
     commits : 0..MaxCommits, status : Statuses, seen : SUBSET Tenants, blind : BOOLEAN,
     kept : BOOLEAN, unlogged : BOOLEAN, gone : BOOLEAN]
TypeInv ==
    /\ tenancy \in [Connections -> TenantOrNone]
    /\ calls \in [Calls -> CallRecords]
    /\ mcpLog \in [Calls -> SUBSET Statuses]

\* The stages in which a call holds a connection.
Holding == {"identity", "limit", "handler"}

\* A call holds a connection exactly in these stages, and no two hold the same one.
HoldInv ==
    /\ \A c \in Calls : calls[c].conn # NoConnection <=> calls[c].stage \in Holding
    /\ \A c, d \in Calls : c # d /\ calls[c].conn = calls[d].conn => calls[c].conn = NoConnection

\* What the policies of the database look at: the tenant of whoever holds the connection.
TenantInv ==
    /\ \A c \in Calls : calls[c].conn # NoConnection => tenancy[calls[c].conn] = calls[c].tenant
    /\ \A c \in Calls : calls[c].stage # "new" => calls[c].tenant \in Tenants
    /\ \A k \in Pool : tenancy[k] = NoTenant

\* What the statements of a call have seen so far.
SeenInv == \A c \in Calls : calls[c].seen \subseteq {calls[c].tenant} /\ ~calls[c].blind

\* What the log of an MCP call says of it.
LogInv ==
    \A c \in Calls :
        /\ calls[c].stage \notin {"done"} => mcpLog[c] = {} /\ ~calls[c].unlogged
        /\ calls[c].kind = "mcp" /\ calls[c].stage \in {"new", "identity", "limit", "handler"} =>
             ~calls[c].kept /\ ~calls[c].gone
        /\ calls[c].stage = "between" => calls[c].kind = "job"
        /\ calls[c].kind = "mcp" /\ calls[c].stage = "done" =>
             mcpLog[c] = IF calls[c].unlogged THEN {} ELSE {calls[c].status}
        /\ calls[c].kind = "mcp" /\ calls[c].stage \in {"log", "done"} /\ ~calls[c].gone =>
             (calls[c].status = 200 <=> calls[c].kept)

IndInv == TypeInv /\ HoldInv /\ TenantInv /\ SeenInv /\ LogInv

\* A connection is in the pool when no call holds it.
LEMMA PoolIsFree ==
    /\ \A k : k \in Pool <=> k \in Connections /\ \A c \in Calls : calls[c].conn # k
    /\ \A k : k \in Pool' <=> k \in Connections /\ \A c \in Calls : calls'[c].conn # k
BY DEF Pool

\* No call is being served, and no connection of the pool names a tenant.
LEMMA Initially == ServingInit => IndInv
<1> SUFFICES ASSUME ServingInit PROVE IndInv
    OBVIOUS
<1> USE ServingConstants DEF ServingInit
<1>1. TypeInv
    BY DEF TypeInv, CallRecords, NoCall, CallKinds, CallStages, Statuses, TenantOrNone, ConnectionOrNone
<1>2. HoldInv
    BY DEF HoldInv, NoCall, Holding
<1>3. TenantInv
    BY PoolIsFree DEF TenantInv, NoCall
<1>4. SeenInv
    BY DEF SeenInv, NoCall
<1>5. LogInv
    BY DEF LogInv, NoCall
<1> QED
    BY <1>1, <1>2, <1>3, <1>4, <1>5 DEF IndInv

-----------------------------------------------------------------------------
\* A call begins with a connection of the pool and the tenant of its token.
LEMMA BeginStep ==
    ASSUME IndInv, NEW c \in Calls, NEW kind \in CallKinds, NEW t \in Tenants,
           Begin(c, kind, t)
    PROVE  IndInv'
<1> USE ServingConstants
<1> DEFINE first == IF kind = "job" THEN "handler" ELSE "identity"
<1>f. first \in {"identity", "handler"}
    OBVIOUS
<1>1. PICK k \in Pool :
        /\ tenancy' = [tenancy EXCEPT ![k] = t]
        /\ calls' = [calls EXCEPT ![c] =
                [NoCall EXCEPT !.kind = kind, !.tenant = t, !.conn = k, !.stage = first]]
        /\ UNCHANGED mcpLog
    BY DEF Begin, Scoped
<1>2. calls[c].stage = "new" /\ k \in Connections /\ \A d \in Calls : calls[d].conn # k
    BY PoolIsFree DEF Begin
<1> HIDE DEF first
<1>3. TypeInv'
  <2>1. NoCall \in CallRecords
    BY DEF CallRecords, NoCall, CallKinds, CallStages, Statuses, TenantOrNone, ConnectionOrNone
  <2>2. first \in CallStages /\ t \in TenantOrNone /\ k \in ConnectionOrNone
    BY <1>f, <1>2 DEF CallStages, TenantOrNone, ConnectionOrNone
  <2>3. [NoCall EXCEPT !.kind = kind, !.tenant = t, !.conn = k, !.stage = first] \in CallRecords
    BY <2>1, <2>2 DEF CallRecords
  <2> QED
    BY <1>1, <2>2, <2>3 DEF IndInv, TypeInv
<1>4. HoldInv'
    BY <1>1, <1>2, <1>f DEF IndInv, TypeInv, HoldInv, NoCall, Holding
<1>5. TenantInv'
    BY <1>1, <1>2, <1>f, PoolIsFree DEF IndInv, TypeInv, HoldInv, TenantInv, NoCall, Holding
<1>6. SeenInv'
    BY <1>1, <1>2 DEF IndInv, TypeInv, SeenInv, NoCall
<1>7. LogInv'
    BY <1>1, <1>2, <1>f DEF IndInv, TypeInv, LogInv, NoCall, CallKinds
<1> QED
    BY <1>3, <1>4, <1>5, <1>6, <1>7 DEF IndInv

-----------------------------------------------------------------------------
\* A call that goes on within its transaction keeps its connection and its tenant.
LEMMA GoesOn ==
    ASSUME IndInv, NEW c \in Calls, NEW r \in CallRecords,
           calls[c].stage \in Holding, r.stage \in Holding,
           r.conn = calls[c].conn, r.tenant = calls[c].tenant,
           calls' = [calls EXCEPT ![c] = r],
           tenancy' = tenancy \/ tenancy' = Scoped(calls[c].conn, calls[c].tenant),
           mcpLog' = mcpLog
    PROVE  TypeInv' /\ HoldInv' /\ TenantInv'
<1> USE ServingConstants
<1>1. calls[c].conn \in Connections /\ tenancy[calls[c].conn] = calls[c].tenant
    BY DEF IndInv, TypeInv, CallRecords, ConnectionOrNone, HoldInv, TenantInv
<1>2. tenancy' = tenancy
    BY <1>1 DEF IndInv, TypeInv, Scoped
<1>3. TypeInv'
    BY <1>2 DEF IndInv, TypeInv, CallRecords
<1>4. /\ \A d \in Calls : calls'[d].conn = calls[d].conn /\ calls'[d].tenant = calls[d].tenant
      /\ \A d \in Calls : d # c => calls'[d].stage = calls[d].stage
      /\ calls'[c].stage \in Holding
    BY DEF IndInv, TypeInv
<1>5. HoldInv'
    BY <1>4 DEF IndInv, HoldInv
<1>6. TenantInv'
    BY <1>2, <1>4, PoolIsFree DEF IndInv, TenantInv, Holding
<1> QED
    BY <1>3, <1>5, <1>6

\* A call that ends its transaction gives its connection back without tenant.
LEMMA GivesBack ==
    ASSUME IndInv, NEW c \in Calls, NEW r \in CallRecords,
           calls[c].stage \in Holding \cup {"between"}, r.stage \in {"between", "log", "done"},
           r.conn = NoConnection, r.tenant = calls[c].tenant,
           calls' = [calls EXCEPT ![c] = r],
           tenancy' = Released(calls[c].conn),
           mcpLog' = mcpLog
    PROVE  TypeInv' /\ HoldInv' /\ TenantInv'
<1> USE ServingConstants
<1>1. TypeInv'
    BY DEF IndInv, TypeInv, TenantOrNone, Released
<1>2. /\ calls'[c] = r
      /\ \A d \in Calls : d # c => calls'[d] = calls[d]
    BY DEF IndInv, TypeInv
<1>3. HoldInv'
    BY <1>2 DEF IndInv, HoldInv, Holding
<1>4. ASSUME NEW d \in Calls, calls'[d].conn # NoConnection
      PROVE  tenancy'[calls'[d].conn] = calls'[d].tenant
  <2>1. d # c /\ calls[d].conn # calls[c].conn /\ calls[d].conn \in Connections
    BY <1>2, <1>4 DEF IndInv, HoldInv, TypeInv, CallRecords, ConnectionOrNone
  <2> QED
    BY <1>2, <1>4, <2>1 DEF IndInv, TypeInv, TenantInv, Released
<1>5. ASSUME NEW k \in Pool' PROVE tenancy'[k] = NoTenant
  <2>1. k \in Connections /\ (k = calls[c].conn \/ k \in Pool)
    BY <1>2, <1>5, PoolIsFree
  <2> QED
    BY <2>1 DEF IndInv, TypeInv, TenantInv, Released
<1>6. ASSUME NEW d \in Calls, calls'[d].stage # "new" PROVE calls'[d].tenant \in Tenants
    BY <1>2, <1>6 DEF IndInv, TenantInv, Holding
<1> QED
    BY <1>1, <1>3, <1>4, <1>5, <1>6 DEF TenantInv

\* What a statement sees is the call's own tenant.
LEMMA SeesItsOwn ==
    ASSUME IndInv, NEW c \in Calls, calls[c].stage \in Holding
    PROVE  /\ calls[c] \in CallRecords
           /\ Touched(calls[c]) = [calls[c] EXCEPT !.seen = @ \cup {calls[c].tenant}]
           /\ calls[c].tenant \in Tenants
<1> USE ServingConstants
<1>1. calls[c] \in CallRecords
    BY DEF IndInv, TypeInv, CallRecords
<1>2. calls[c].tenant \in Tenants
    BY DEF IndInv, TenantInv, Holding
<1>3. tenancy[calls[c].conn] = calls[c].tenant
    BY DEF IndInv, HoldInv, TenantInv
<1> QED
    BY <1>1, <1>2, <1>3 DEF Touched

-----------------------------------------------------------------------------
\* The user's roles are read in the name of the tenant.
LEMMA ResolveStep ==
    ASSUME IndInv, NEW c \in Calls, ResolveIdentity(c)
    PROVE  IndInv'
<1> DEFINE next == IF calls[c].kind = "mcp" THEN "limit" ELSE "handler"
<1> DEFINE r == [calls[c] EXCEPT !.seen = @ \cup {calls[c].tenant}, !.stage = next]
<1>1. calls[c].stage = "identity" /\ calls[c].stage \in Holding
    BY DEF ResolveIdentity, Holding
<1>2. /\ calls[c] \in CallRecords /\ calls[c].tenant \in Tenants
      /\ Touched(calls[c]) = [calls[c] EXCEPT !.seen = @ \cup {calls[c].tenant}]
    BY <1>1, SeesItsOwn
<1>3. next \in {"limit", "handler"} /\ next \in CallStages /\ next \in Holding
    BY DEF CallStages, Holding
<1>4. /\ calls' = [calls EXCEPT ![c] = r]
      /\ tenancy' = Scoped(calls[c].conn, calls[c].tenant) /\ mcpLog' = mcpLog
    BY <1>2 DEF ResolveIdentity, CallRecords
<1> HIDE DEF next
<1>5. /\ r \in CallRecords /\ r.stage \in Holding
      /\ r.conn = calls[c].conn /\ r.tenant = calls[c].tenant
    BY <1>2, <1>3 DEF CallRecords
<1> HIDE DEF r
<1>6. TypeInv' /\ HoldInv' /\ TenantInv'
    BY <1>1, <1>4, <1>5, GoesOn
<1> USE DEF r
<1>7. SeenInv'
    BY <1>2, <1>4 DEF IndInv, TypeInv, SeenInv, CallRecords
<1>8. LogInv'
    BY <1>1, <1>2, <1>3, <1>4 DEF IndInv, TypeInv, LogInv, CallRecords
<1> QED
    BY <1>6, <1>7, <1>8 DEF IndInv

\* The rate limiter lets the call on, or refuses it.
LEMMA ThrottleStep ==
    ASSUME IndInv, NEW c \in Calls, NEW throttled \in BOOLEAN, Throttle(c, throttled)
    PROVE  IndInv'
<1>1. calls[c].stage = "limit" /\ calls[c].stage \in Holding /\ mcpLog' = mcpLog
    BY DEF Throttle, Holding
<1>2. calls[c] \in CallRecords
    BY DEF IndInv, TypeInv, CallRecords
<1>3. CASE throttled
  <2> DEFINE next == IF calls[c].kind = "mcp" THEN "log" ELSE "done"
  <2> DEFINE kept == calls[c].kept \/ FALSE
  <2> DEFINE status == 429
  <2> DEFINE r == [calls[c] EXCEPT !.stage = next, !.status = status, !.kept = kept,
                                   !.conn = NoConnection]
  <2>1. /\ next \in {"log", "done"} /\ next \in CallStages
        /\ status \in Statuses /\ NoConnection \in ConnectionOrNone
        /\ kept \in BOOLEAN /\ (kept <=> calls[c].kept)
    BY <1>2 DEF CallStages, Statuses, ConnectionOrNone, CallRecords
  <2>e. EndsWith(calls[c], status, FALSE) = r
    BY DEF EndsWith
  <2>2. calls' = [calls EXCEPT ![c] = r] /\ tenancy' = Released(calls[c].conn)
    <3>1. calls' = [calls EXCEPT ![c] = EndsWith(calls[c], status, FALSE)]
          /\ tenancy' = Released(calls[c].conn)
      BY <1>3 DEF Throttle
    <3> HIDE DEF r
    <3> QED
      BY <2>e, <3>1
  <2> HIDE DEF next, kept, status
  <2>3. /\ r \in CallRecords /\ r.stage \in {"between", "log", "done"}
        /\ r.conn = NoConnection /\ r.tenant = calls[c].tenant
    BY <1>2, <2>1 DEF CallRecords
  <2> HIDE DEF r
  <2>4. TypeInv' /\ HoldInv' /\ TenantInv'
    BY <1>1, <2>2, <2>3, GivesBack
  <2> USE DEF r
  <2>5. SeenInv'
    BY <1>2, <2>2 DEF IndInv, TypeInv, SeenInv, CallRecords
  <2>6. LogInv'
    BY <1>1, <1>2, <2>1, <2>2 DEF IndInv, TypeInv, LogInv, CallRecords, next, status
  <2> QED
    BY <2>4, <2>5, <2>6 DEF IndInv
<1>4. CASE ~throttled
  <2> DEFINE r == [calls[c] EXCEPT !.stage = "handler"]
  <2>1. calls' = [calls EXCEPT ![c] = r] /\ tenancy' = Scoped(calls[c].conn, calls[c].tenant)
    BY <1>2, <1>4 DEF Throttle, CallRecords
  <2>2. /\ r \in CallRecords /\ r.stage \in Holding
        /\ r.conn = calls[c].conn /\ r.tenant = calls[c].tenant
    BY <1>2 DEF CallRecords, CallStages, Holding
  <2> HIDE DEF r
  <2>3. TypeInv' /\ HoldInv' /\ TenantInv'
    BY <1>1, <2>1, <2>2, GoesOn
  <2> USE DEF r
  <2>4. SeenInv' /\ LogInv'
    BY <1>1, <1>2, <2>1 DEF IndInv, TypeInv, SeenInv, LogInv, CallRecords
  <2> QED
    BY <2>3, <2>4 DEF IndInv
<1> QED
    BY <1>3, <1>4

\* A statement of the handler is run in the name the connection has.
LEMMA StatementStep ==
    ASSUME IndInv, NEW c \in Calls, RunStatement(c)
    PROVE  IndInv'
<1> DEFINE r == [calls[c] EXCEPT !.seen = @ \cup {calls[c].tenant}]
<1>1. calls[c].stage = "handler" /\ calls[c].stage \in Holding
    BY DEF RunStatement, Holding
<1>2. calls[c] \in CallRecords /\ calls[c].tenant \in Tenants /\ Touched(calls[c]) = r
    BY <1>1, SeesItsOwn
<1>3. calls' = [calls EXCEPT ![c] = r] /\ tenancy' = tenancy /\ mcpLog' = mcpLog
    BY <1>2 DEF RunStatement, IndInv, TypeInv
<1>4. /\ r \in CallRecords /\ r.stage \in Holding
      /\ r.conn = calls[c].conn /\ r.tenant = calls[c].tenant
    BY <1>1, <1>2 DEF CallRecords
<1> HIDE DEF r
<1>5. TypeInv' /\ HoldInv' /\ TenantInv'
    BY <1>1, <1>3, <1>4, GoesOn
<1> USE DEF r
<1>6. SeenInv' /\ LogInv'
    BY <1>1, <1>2, <1>3 DEF IndInv, TypeInv, SeenInv, LogInv, CallRecords
<1> QED
    BY <1>5, <1>6 DEF IndInv

\* The handler ends, well or badly.
LEMMA HandlerStep ==
    ASSUME IndInv, NEW c \in Calls, NEW handler \in BOOLEAN, NEW committed \in BOOLEAN,
           HandlerEnds(c, handler, committed)
    PROVE  IndInv'
<1> DEFINE next == IF calls[c].kind = "mcp" THEN "log" ELSE "done"
<1> DEFINE status == Outcome(handler, committed)
<1> DEFINE kept == calls[c].kept \/ committed
<1> DEFINE r == [calls[c] EXCEPT !.stage = next, !.status = status, !.kept = kept,
                                 !.conn = NoConnection]
<1>1. /\ calls[c].stage = "handler" /\ calls[c].stage \in Holding
      /\ mcpLog' = mcpLog /\ (committed => handler)
    BY DEF HandlerEnds, Holding
<1>2. calls[c] \in CallRecords
    BY DEF IndInv, TypeInv
<1>3. /\ next \in {"log", "done"} /\ next \in CallStages
      /\ status \in Statuses /\ NoConnection \in ConnectionOrNone /\ kept \in BOOLEAN
    BY DEF CallStages, Statuses, ConnectionOrNone, Outcome
<1>4. status = 200 <=> committed
    BY <1>1 DEF Outcome
<1>5. EndsWith(calls[c], status, committed) = r
    BY DEF EndsWith
<1>6. calls' = [calls EXCEPT ![c] = r] /\ tenancy' = Released(calls[c].conn)
    BY <1>5 DEF HandlerEnds
<1>7. calls[c].kind = "mcp" => ~calls[c].kept /\ next = "log"
    BY <1>1 DEF IndInv, LogInv
<1> HIDE DEF next, status, kept
<1>8. /\ r \in CallRecords /\ r.stage \in {"between", "log", "done"}
      /\ r.conn = NoConnection /\ r.tenant = calls[c].tenant
    BY <1>2, <1>3 DEF CallRecords
<1> HIDE DEF r
<1>9. TypeInv' /\ HoldInv' /\ TenantInv'
    BY <1>1, <1>6, <1>8, GivesBack
<1> USE DEF r
<1>10. SeenInv'
    BY <1>2, <1>6 DEF IndInv, TypeInv, SeenInv, CallRecords
<1>11. LogInv'
    BY <1>1, <1>2, <1>3, <1>4, <1>6, <1>7 DEF IndInv, TypeInv, LogInv, CallRecords, kept
<1> QED
    BY <1>9, <1>10, <1>11 DEF IndInv

\* A commit within the call: the tenant of the transaction is gone with it.
LEMMA CommitStep ==
    ASSUME IndInv, NEW c \in Calls, CommitBatch(c)
    PROVE  IndInv'
<1> USE ServingConstants
<1> DEFINE r == [calls[c] EXCEPT !.stage = "between", !.commits = @ + 1,
                                 !.conn = NoConnection, !.kept = TRUE]
<1>1. /\ calls[c].stage = "handler" /\ calls[c].stage \in Holding
      /\ calls[c].kind = "job" /\ calls[c].commits < MaxCommits
      /\ calls' = [calls EXCEPT ![c] = r] /\ tenancy' = Released(calls[c].conn)
      /\ mcpLog' = mcpLog
    BY DEF CommitBatch, Holding
<1>2. calls[c] \in CallRecords
    BY DEF IndInv, TypeInv
<1>3. /\ calls[c].commits + 1 \in 0..MaxCommits /\ "between" \in CallStages
      /\ NoConnection \in ConnectionOrNone
    BY <1>1, <1>2 DEF CallRecords, CallStages, ConnectionOrNone
<1>4. /\ r \in CallRecords /\ r.stage \in {"between", "log", "done"}
      /\ r.conn = NoConnection /\ r.tenant = calls[c].tenant
    BY <1>2, <1>3 DEF CallRecords
<1> HIDE DEF r
<1>5. TypeInv' /\ HoldInv' /\ TenantInv'
    BY <1>1, <1>4, GivesBack
<1> USE DEF r
<1>6. SeenInv' /\ LogInv'
    BY <1>1, <1>2 DEF IndInv, TypeInv, SeenInv, LogInv, CallRecords
<1> QED
    BY <1>5, <1>6 DEF IndInv

\* The next statement after a commit takes a connection, and names its tenant anew.
LEMMA ResumeStep ==
    ASSUME IndInv, NEW c \in Calls, Resume(c)
    PROVE  IndInv'
<1> USE ServingConstants
<1>1. PICK k \in Pool :
        /\ tenancy' = [tenancy EXCEPT ![k] = calls[c].tenant]
        /\ calls' = [calls EXCEPT ![c] = [calls[c] EXCEPT !.stage = "handler", !.conn = k]]
        /\ UNCHANGED mcpLog
    BY DEF Resume, Scoped, ResumedWith
<1>2. /\ calls[c].stage = "between" /\ calls[c] \in CallRecords
      /\ k \in Connections /\ \A d \in Calls : calls[d].conn # k
    BY PoolIsFree DEF Resume, IndInv, TypeInv
<1>3. calls[c].tenant \in Tenants
    BY <1>2 DEF IndInv, TenantInv
<1>4. k \in ConnectionOrNone /\ calls[c].tenant \in TenantOrNone /\ "handler" \in CallStages
    BY <1>2, <1>3 DEF ConnectionOrNone, TenantOrNone, CallStages
<1>5. TypeInv'
  <2>1. [calls[c] EXCEPT !.stage = "handler", !.conn = k] \in CallRecords
    BY <1>2, <1>4 DEF CallRecords
  <2> QED
    BY <1>1, <1>4, <2>1 DEF IndInv, TypeInv
<1>6. HoldInv'
    BY <1>1, <1>2 DEF IndInv, TypeInv, HoldInv, Holding, CallRecords
<1>7. TenantInv'
  <2>1. /\ calls'[c].conn = k /\ calls'[c].tenant = calls[c].tenant
        /\ \A d \in Calls : d # c => calls'[d] = calls[d]
    BY <1>1, <1>2 DEF IndInv, TypeInv, CallRecords
  <2>2. tenancy'[k] = calls[c].tenant /\ \A j \in Connections : j # k => tenancy'[j] = tenancy[j]
    BY <1>1, <1>2 DEF IndInv, TypeInv
  <2>3. ASSUME NEW d \in Calls, calls'[d].conn # NoConnection
        PROVE  tenancy'[calls'[d].conn] = calls'[d].tenant
    <3>1. CASE d = c
      BY <2>1, <2>2, <3>1
    <3>2. CASE d # c
      <4>1. calls[d].conn \in Connections /\ calls[d].conn # k
        BY <1>2, <2>1, <2>3, <3>2 DEF IndInv, TypeInv, CallRecords, ConnectionOrNone
      <4> QED
        BY <2>1, <2>2, <2>3, <3>2, <4>1 DEF IndInv, TenantInv
    <3> QED
      BY <3>1, <3>2
  <2>4. ASSUME NEW j \in Pool' PROVE tenancy'[j] = NoTenant
    <3>1. calls[c].conn = NoConnection /\ j # NoConnection /\ j # k /\ j \in Connections
      BY <1>2, <2>1, <2>4, PoolIsFree DEF IndInv, HoldInv, Holding
    <3>2. j \in Pool
      <4>1. \A d \in Calls : calls'[d].conn # j
        BY <2>4, PoolIsFree
      <4>2. \A d \in Calls : calls[d].conn # j
        BY <2>1, <3>1, <4>1
      <4> QED
        BY <3>1, <4>2, PoolIsFree
    <3> QED
      BY <2>2, <3>1, <3>2 DEF IndInv, TenantInv
  <2>5. ASSUME NEW d \in Calls, calls'[d].stage # "new" PROVE calls'[d].tenant \in Tenants
    BY <1>3, <2>1, <2>5 DEF IndInv, TenantInv
  <2> QED
    BY <2>3, <2>4, <2>5 DEF TenantInv
<1>8. SeenInv' /\ LogInv'
    BY <1>1, <1>2 DEF IndInv, TypeInv, SeenInv, LogInv, CallRecords
<1> QED
    BY <1>5, <1>6, <1>7, <1>8 DEF IndInv

\* The client goes away in the middle of a call, which is rolled back.
LEMMA CancelStep ==
    ASSUME IndInv, NEW c \in Calls, Cancel(c)
    PROVE  IndInv'
<1> DEFINE next == IF calls[c].kind = "mcp" THEN "log" ELSE "done"
<1> DEFINE kept == calls[c].kept \/ FALSE
<1> DEFINE status == 200
<1> DEFINE r == [calls[c] EXCEPT !.stage = next, !.status = status, !.kept = kept,
                                 !.conn = NoConnection, !.gone = TRUE]
<1>1. calls[c].stage \in Holding \cup {"between"} /\ mcpLog' = mcpLog
    BY DEF Cancel, Holding
<1>2. calls[c] \in CallRecords
    BY DEF IndInv, TypeInv
<1>3. /\ next \in {"log", "done"} /\ next \in CallStages /\ status \in Statuses
      /\ NoConnection \in ConnectionOrNone /\ kept \in BOOLEAN
    BY <1>2 DEF CallStages, Statuses, ConnectionOrNone, CallRecords
<1>4. [EndsWith(calls[c], status, FALSE) EXCEPT !.gone = TRUE] = r
    BY DEF EndsWith
<1>5. calls' = [calls EXCEPT ![c] = r] /\ tenancy' = Released(calls[c].conn)
    BY <1>4 DEF Cancel
<1>6. calls[c].kind = "mcp" => next = "log"
    OBVIOUS
<1> HIDE DEF next, kept, status
<1>7. /\ r \in CallRecords /\ r.stage \in {"between", "log", "done"}
      /\ r.conn = NoConnection /\ r.tenant = calls[c].tenant
    BY <1>2, <1>3 DEF CallRecords
<1> HIDE DEF r
<1>8. TypeInv' /\ HoldInv' /\ TenantInv'
    BY <1>1, <1>5, <1>7, GivesBack
<1> USE DEF r
<1>9. SeenInv'
    BY <1>2, <1>5 DEF IndInv, TypeInv, SeenInv, CallRecords
<1>10. LogInv'
    BY <1>1, <1>2, <1>3, <1>5, <1>6 DEF IndInv, TypeInv, LogInv, CallRecords, Holding
<1> QED
    BY <1>8, <1>9, <1>10 DEF IndInv

\* The log of a call that has ended; nothing but the log and its stage changes.
LEMMA LogStep ==
    ASSUME IndInv, NEW c \in Calls, NEW written \in BOOLEAN, WriteLog(c, written)
    PROVE  IndInv'
<1> DEFINE missing == ~written
<1>1. /\ calls[c].stage = "log" /\ calls[c] \in CallRecords /\ tenancy' = tenancy
      /\ calls' = [calls EXCEPT ![c] = [calls[c] EXCEPT !.stage = "done", !.unlogged = missing]]
      /\ mcpLog' = IF written THEN [mcpLog EXCEPT ![c] = @ \cup {calls[c].status}] ELSE mcpLog
    BY DEF WriteLog, IndInv, TypeInv
<1>2. "done" \in CallStages /\ missing \in BOOLEAN /\ (missing <=> ~written) /\ calls[c].status \in Statuses
    BY <1>1 DEF CallStages, CallRecords
<1> HIDE DEF missing
<1>3. TypeInv'
  <2>1. [calls[c] EXCEPT !.stage = "done", !.unlogged = missing] \in CallRecords
    BY <1>1, <1>2 DEF CallRecords
  <2> QED
    BY <1>1, <1>2, <2>1 DEF IndInv, TypeInv
<1>4. /\ \A d \in Calls : d # c => calls'[d] = calls[d] /\ mcpLog'[d] = mcpLog[d]
      /\ calls'[c] = [calls[c] EXCEPT !.stage = "done", !.unlogged = missing]
      /\ mcpLog'[c] = IF written THEN mcpLog[c] \cup {calls[c].status} ELSE mcpLog[c]
    BY <1>1 DEF IndInv, TypeInv
<1>5. \A d \in Calls : /\ calls'[d].conn = calls[d].conn /\ calls'[d].tenant = calls[d].tenant
                       /\ calls'[d].seen = calls[d].seen /\ calls'[d].blind = calls[d].blind
    BY <1>1, <1>4 DEF CallRecords
<1>6. HoldInv'
    BY <1>1, <1>4, <1>5 DEF IndInv, HoldInv, Holding, CallRecords
<1>7. TenantInv'
    BY <1>1, <1>4, <1>5, PoolIsFree DEF IndInv, TenantInv
<1>8. SeenInv'
    BY <1>5 DEF IndInv, SeenInv
<1>l. calls'[c] = [calls[c] EXCEPT !.stage = "done", !.unlogged = missing]
    BY <1>4
<1>r. calls[c] \in CallRecords /\ missing \in BOOLEAN
    BY <1>1, <1>2
<1>9. LogInv'
  <2>1. /\ calls'[c].stage = "done" /\ calls'[c].kind = calls[c].kind
        /\ calls'[c].status = calls[c].status
    BY <1>l, <1>r DEF CallRecords
  <2>3. (calls'[c].kept <=> calls[c].kept) /\ (calls'[c].gone <=> calls[c].gone)
    BY <1>l, <1>r DEF CallRecords
  <2>4. calls'[c].unlogged <=> missing
    BY <1>l, <1>r DEF CallRecords
  <2>2. mcpLog'[c] = IF calls'[c].unlogged THEN {} ELSE {calls'[c].status}
    BY <1>1, <1>2, <1>4, <2>1, <2>4 DEF IndInv, LogInv
  <2>5. calls[c].kind = "mcp" /\ ~calls[c].gone => (calls[c].status = 200 <=> calls[c].kept)
    BY <1>1 DEF IndInv, LogInv
  <2> SUFFICES ASSUME NEW d \in Calls PROVE LogInv!(d)'
    BY DEF LogInv
  <2>6. CASE d = c
    BY <2>1, <2>2, <2>3, <2>5, <2>6
  <2>7. CASE d # c
    BY <1>4, <2>7 DEF IndInv, LogInv
  <2> QED
    BY <2>6, <2>7
<1> QED
    BY <1>3, <1>6, <1>7, <1>8, <1>9 DEF IndInv

\* A call that has ended holds no connection, and makes room for another.
LEMMA LeaveStep ==
    ASSUME IndInv, NEW c \in Calls, Leave(c)
    PROVE  IndInv'
<1> USE ServingConstants
<1>1. /\ calls[c].stage = "done" /\ tenancy' = tenancy
      /\ calls' = [calls EXCEPT ![c] = NoCall] /\ mcpLog' = [mcpLog EXCEPT ![c] = {}]
    BY DEF Leave
<1>2. NoCall \in CallRecords
    BY DEF CallRecords, NoCall, CallKinds, CallStages, Statuses, TenantOrNone, ConnectionOrNone
<1>3. TypeInv'
    BY <1>1, <1>2 DEF IndInv, TypeInv
<1>4. /\ \A d \in Calls : d # c => calls'[d] = calls[d] /\ mcpLog'[d] = mcpLog[d]
      /\ calls'[c] = NoCall /\ mcpLog'[c] = {}
    BY <1>1 DEF IndInv, TypeInv
<1>5. calls[c].conn = NoConnection
    BY <1>1 DEF IndInv, HoldInv, Holding
<1>6. HoldInv'
    BY <1>4 DEF IndInv, HoldInv, Holding, NoCall
<1>7. TenantInv'
    BY <1>1, <1>4, <1>5, PoolIsFree DEF IndInv, TenantInv, NoCall
<1>8. SeenInv'
    BY <1>4 DEF IndInv, SeenInv, NoCall
<1>9. LogInv'
  <2> DEFINE Tells(r, log) ==
        /\ r.stage \notin {"done"} => log = {} /\ ~r.unlogged
        /\ r.kind = "mcp" /\ r.stage \in {"new", "identity", "limit", "handler"} =>
             ~r.kept /\ ~r.gone
        /\ r.stage = "between" => r.kind = "job"
        /\ r.kind = "mcp" /\ r.stage = "done" =>
             log = IF r.unlogged THEN {} ELSE {r.status}
        /\ r.kind = "mcp" /\ r.stage \in {"log", "done"} /\ ~r.gone =>
             (r.status = 200 <=> r.kept)
  <2>1. Tells(NoCall, {})
      BY DEF NoCall
  <2>2. \A d \in Calls : Tells(calls[d], mcpLog[d])
      BY DEF IndInv, LogInv
  <2> HIDE DEF Tells
  <2>3. \A d \in Calls : Tells(calls'[d], mcpLog'[d])
      BY <1>4, <2>1, <2>2
  <2> USE DEF Tells
  <2> QED
      BY <2>3 DEF LogInv
<1> QED
    BY <1>3, <1>6, <1>7, <1>8, <1>9 DEF IndInv

-----------------------------------------------------------------------------
\* Every step of the calls keeps the invariant.
LEMMA Step == IndInv /\ [ServingNext]_servingVars => IndInv'
<1> SUFFICES ASSUME IndInv, [ServingNext]_servingVars PROVE IndInv'
    OBVIOUS
<1>1. CASE UNCHANGED servingVars
    BY <1>1 DEF servingVars, IndInv, TypeInv, HoldInv, TenantInv, SeenInv, LogInv, Pool
<1>2. CASE ServingNext
    BY <1>2, BeginStep, ResolveStep, StatementStep, CommitStep, ResumeStep, CancelStep,
       LeaveStep, ThrottleStep, HandlerStep, LogStep DEF ServingNext
<1> QED
    BY <1>1, <1>2

\* The invariant holds in all states that the calls and the pool reach.
THEOREM ServingInvariant == ServingSpec => []IndInv
BY Initially, Step, PTL DEF ServingSpec

\* Calls, connections and the log keep their types (session.py, dispatch.py).
THEOREM ServingTypes == ServingSpec => []ServingTypeOK
<1>1. IndInv => ServingTypeOK
    BY DEF IndInv, TypeInv, ServingTypeOK, CallRecords, Statuses, TenantOrNone, ConnectionOrNone
<1> QED
    BY <1>1, ServingInvariant, PTL

\* Whatever connection a call gets, its statements see its own tenant's rows, and the
\* log of an MCP call says what became of its work.
THEOREM CallsAreServedInTheirName == ServingSpec => []ServedInItsName
<1>1. IndInv => ServedInItsName
  <2> SUFFICES ASSUME IndInv PROVE ServedInItsName
      OBVIOUS
  <2>1. \A c \in Calls : calls[c].stage \in {"between", "log", "done"} => calls[c].conn = NoConnection
      BY DEF IndInv, HoldInv, Holding
  <2> QED
      BY <2>1 DEF IndInv, HoldInv, TenantInv, SeenInv, LogInv, ServedInItsName
<1> QED
    BY <1>1, ServingInvariant, PTL

-----------------------------------------------------------------------------
(* Who comes in (Accounts): a session is of an organization to which the   *)
(* account belonged while the request ran.  The invariant says of a        *)
(* request what it has read and what it has seen since: the organizations  *)
(* it has ever belonged to exist, and those to which it belongs all the    *)
(* while are among those that it read.                                     *)

AddressOrNobody == Addresses \cup {Nobody}
AccountOrNobody == Accounts \cup {Nobody}
SlugOrNobody    == Slugs \cup {Nobody}
KindOrNone      == VisitKinds \cup {"none"}
Phases          == {"idle", "read", "decided"}
Found           == {"role", "mapping"}
Roles           == {"admin", "member"}

AccountRow == [email : AddressOrNobody, password : BOOLEAN, active : BOOLEAN, made : BOOLEAN]
VisitRecord ==
    [kind : KindOrNone, phase : Phases, email : AddressOrNobody, org : SlugOrNobody,
     account : AccountOrNobody, seeded : BOOLEAN, has : SUBSET Found, belongs : SUBSET Slugs,
     held : SUBSET Slugs, always : SUBSET Slugs]

AccountTypes ==
    /\ users \in [Accounts -> AccountRow]
    /\ founded \subseteq Slugs
    /\ members \subseteq Accounts \X Slugs \X Roles
    /\ identities \subseteq Accounts \X Slugs \X Addresses
    /\ catalog \in BOOLEAN
    /\ selecting \subseteq Accounts
    /\ erasures \in 0..MaxErasures
    /\ visits \in [Visitors -> VisitRecord]
    /\ issued \in VisitRecord

\* Rows are of accounts and organizations that are there.
RowsHold ==
    /\ IsFiniteSet(founded)
    /\ \A m \in members : users[m[1]].made /\ m[2] \in founded /\ (m[3] = "admin" => catalog)
    /\ \A i \in identities : users[i[1]].made /\ i[2] \in founded
    /\ \A a \in Accounts : users[a].active => users[a].made
    /\ \A a \in selecting : users[a].made

\* What the request r may rely on, with the accounts us, the organizations fs and the
\* roles ms: what it has chosen exists, and it has read all that it belongs to.
VisitHolds(r, us, fs, ms) ==
    r.phase # "idle" =>
        /\ r.kind \in VisitKinds
        /\ r.kind \in {"login", "select", "switch"} => r.account \in Accounts
        /\ r.kind \in {"signup", "join", "sso"} => r.email \in Addresses /\ r.org \in Slugs
        /\ r.account \in Accounts => us[r.account].made
        /\ r.held \subseteq fs
        /\ r.always \subseteq Of(ms, r.account)
        /\ r.phase = "decided" =>
             /\ r.belongs \subseteq r.held
             /\ r.kind = "login" => r.always \subseteq r.belongs
             /\ "mapping" \in r.has => r.kind = "sso" /\ r.org \in r.held

VisitsHold == \A v \in Visitors : VisitHolds(visits[v], users, founded, members)

IssuedHolds ==
    /\ issued # NoVisit => issued.org \in issued.held \cap founded
    /\ issued.kind = "login" => Cardinality(issued.always) <= 1

AccountInv == AccountTypes /\ RowsHold /\ VisitsHold /\ IssuedHolds

\* The rows from which everything starts.
LEMMA AccountBlanks ==
    /\ NoVisit \in VisitRecord /\ NoVisit.phase = "idle" /\ NoVisit.kind = "none"
    /\ Absent \in AccountRow /\ ~Absent.active
    /\ [Absent EXCEPT !.made = TRUE] \in AccountRow
    /\ [Absent EXCEPT !.made = TRUE].made /\ ~[Absent EXCEPT !.made = TRUE].active
    /\ \A us, fs, ms : VisitHolds(NoVisit, us, fs, ms)
<1>1. Nobody \in AddressOrNobody /\ Nobody \in AccountOrNobody /\ Nobody \in SlugOrNobody
      /\ "none" \in KindOrNone /\ "idle" \in Phases
  BY DEF AddressOrNobody, AccountOrNobody, SlugOrNobody, KindOrNone, Phases
<1>2. NoVisit \in VisitRecord /\ NoVisit.phase = "idle" /\ NoVisit.kind = "none"
  BY <1>1 DEF NoVisit, VisitRecord
<1> QED
  BY <1>1, <1>2 DEF Absent, AccountRow, VisitHolds

\* At first there is nobody.
LEMMA AccountsInitially == AccountInit => AccountInv
<1> SUFFICES ASSUME AccountInit
             PROVE  AccountInv
  OBVIOUS
<1>1. 0 \in 0..MaxErasures
  BY AccountConstants
<1>2. AccountTypes
  BY <1>1, AccountBlanks DEF AccountInit, AccountTypes
<1>3. RowsHold
  BY AccountBlanks, FS_EmptySet DEF AccountInit, RowsHold
<1>4. VisitsHold
  BY AccountBlanks DEF AccountInit, VisitsHold
<1>5. IssuedHolds
  BY AccountBlanks DEF AccountInit, IssuedHolds
<1> QED
  BY <1>2, <1>3, <1>4, <1>5 DEF AccountInv

\* The organizations of some rows.
LEMMA OfMore ==
    ASSUME NEW ms, NEW ns, ms \subseteq ns, NEW a
    PROVE  Of(ms, a) \subseteq Of(ns, a)
BY DEF Of

\* An account belongs to organizations that exist.
LEMMA BelongsToFounded ==
    ASSUME AccountInv, NEW a
    PROVE  Of(members \cup identities, a) \subseteq founded /\ Of(members, a) \subseteq founded
BY DEF AccountInv, RowsHold, Of

\* A request that gets on by itself, all rows staying as they are.
LEMMA VisitGoesOn ==
    ASSUME AccountInv, NEW v \in Visitors, NEW r \in VisitRecord,
           VisitHolds(r, users, founded, members),
           visits' = [visits EXCEPT ![v] = r], issued' = NoVisit,
           UNCHANGED <<users, founded, members, identities, catalog, selecting, erasures>>
    PROVE  AccountInv'
<1>1. visits' \in [Visitors -> VisitRecord] /\ visits'[v] = r
      /\ \A w \in Visitors \ {v} : visits'[w] = visits[w]
  BY DEF AccountInv, AccountTypes
<1>2. AccountTypes'
  BY <1>1, AccountBlanks DEF AccountInv, AccountTypes
<1>3. RowsHold'
  BY DEF AccountInv, RowsHold
<1>4. \A w \in Visitors : VisitHolds(visits'[w], users, founded, members)
  BY <1>1 DEF AccountInv, VisitsHold
<1>5. VisitsHold'
  BY <1>4 DEF VisitsHold
<1>6. IssuedHolds'
  BY AccountBlanks DEF IssuedHolds
<1> QED
  BY <1>2, <1>3, <1>5, <1>6 DEF AccountInv

\* Whom an address leads to is an account that was made.
LEMMA ByEmailFinds ==
    ASSUME NEW email
    PROVE  ByEmail(email) = Nobody \/ (ByEmail(email) \in Accounts /\ users[ByEmail(email)].made)
BY DEF ByEmail

\* A visit that has begun.
LEMMA BegunVisit ==
    ASSUME AccountInv, NEW kind \in VisitKinds, NEW email \in AddressOrNobody,
           NEW org \in SlugOrNobody, NEW account \in AccountOrNobody,
           kind \in {"login", "select", "switch"} => account \in Accounts,
           kind \in {"signup", "join", "sso"} => email \in Addresses /\ org \in Slugs,
           account \in Accounts => users[account].made
    PROVE  /\ Visit(kind, email, org, account) \in VisitRecord
           /\ VisitHolds(Visit(kind, email, org, account), users, founded, members)
<1> DEFINE r == Visit(kind, email, org, account)
           hold == Belonging(account)
           all == MemberOf(account)
<1>1. hold \subseteq founded /\ all = Of(members, account) /\ all \subseteq founded
      /\ founded \subseteq Slugs
  BY BelongsToFounded DEF Belonging, MemberOf, AccountInv, AccountTypes
<1> HIDE DEF hold, all
<1>2. "read" \in Phases /\ kind \in KindOrNone
  BY DEF Phases, KindOrNone
<1>3. r = [NoVisit EXCEPT !.kind = kind, !.phase = "read", !.email = email, !.org = org,
                          !.account = account, !.held = hold, !.always = all]
  BY DEF Visit, hold, all
<1> HIDE DEF r
<1>4. r \in VisitRecord
  BY <1>1, <1>2, <1>3, AccountBlanks DEF VisitRecord
<1>5. /\ r.kind = kind /\ r.phase = "read" /\ r.email = email /\ r.org = org
      /\ r.account = account /\ r.held = hold /\ r.always = all
  BY <1>3, AccountBlanks DEF VisitRecord
<1>6. VisitHolds(r, users, founded, members)
  BY <1>1, <1>5 DEF VisitHolds
<1> QED
  BY <1>4, <1>6 DEF r

\* A request arrives with an address.
LEMMA ArriveHolds ==
    ASSUME AccountInv, NEW v \in Visitors, NEW kind \in {"signup", "join", "sso", "login"},
           NEW email \in Addresses, NEW org \in Slugs, Arrive(v, kind, email, org)
    PROVE  AccountInv'
<1>1. /\ email \in AddressOrNobody /\ Nobody \in AddressOrNobody
      /\ org \in SlugOrNobody /\ Nobody \in SlugOrNobody
      /\ Nobody \in AccountOrNobody /\ Nobody \notin Accounts
      /\ kind \in VisitKinds
  BY AccountConstants DEF AddressOrNobody, SlugOrNobody, AccountOrNobody, VisitKinds
<1>2. CASE kind = "login"
  <2>1. ByEmail(email) \in Accounts /\ users[ByEmail(email)].made
    BY <1>2, ByEmailFinds DEF Arrive, May
  <2>2. visits' = [visits EXCEPT ![v] = Visit(kind, Nobody, Nobody, ByEmail(email))]
    BY <1>2 DEF Arrive
  <2>3. ByEmail(email) \in AccountOrNobody
    BY <2>1 DEF AccountOrNobody
  <2>4. /\ Visit(kind, Nobody, Nobody, ByEmail(email)) \in VisitRecord
        /\ VisitHolds(Visit(kind, Nobody, Nobody, ByEmail(email)), users, founded, members)
    BY <1>1, <1>2, <2>1, <2>3, BegunVisit
  <2> QED
    BY <2>2, <2>4, VisitGoesOn DEF Arrive
<1>3. CASE kind # "login"
  <2>1. visits' = [visits EXCEPT ![v] = Visit(kind, email, org, Nobody)]
    BY <1>3 DEF Arrive
  <2>2. /\ Visit(kind, email, org, Nobody) \in VisitRecord
        /\ VisitHolds(Visit(kind, email, org, Nobody), users, founded, members)
    BY <1>1, <1>3, BegunVisit
  <2> QED
    BY <2>1, <2>2, VisitGoesOn DEF Arrive
<1> QED
  BY <1>2, <1>3

\* A request returns with a token.
LEMMA ReturnHolds ==
    ASSUME AccountInv, NEW v \in Visitors, NEW kind \in {"select", "switch"},
           NEW a \in Accounts, NEW org \in Slugs, Return(v, kind, a, org)
    PROVE  AccountInv'
<1>1. users[a].made
  BY DEF Return, AccountInv, RowsHold
<1>2. /\ Nobody \in AddressOrNobody /\ org \in SlugOrNobody /\ a \in AccountOrNobody
      /\ kind \in VisitKinds
  BY DEF AddressOrNobody, SlugOrNobody, AccountOrNobody, VisitKinds
<1>3. /\ Visit(kind, Nobody, org, a) \in VisitRecord
      /\ VisitHolds(Visit(kind, Nobody, org, a), users, founded, members)
  BY <1>1, <1>2, BegunVisit
<1> QED
  BY <1>3, VisitGoesOn DEF Return

\* A request is refused.
LEMMA RefusedHolds ==
    ASSUME AccountInv, NEW v \in Visitors, Refused(v)
    PROVE  AccountInv'
BY AccountBlanks, VisitGoesOn DEF Refused

\* A request looks for the account, and for what it has of its own.
LEMMA LookHolds ==
    ASSUME AccountInv, NEW v \in Visitors, Look(v)
    PROVE  AccountInv'
<1> DEFINE r       == visits[v]
           mapping == {i \in identities : i[2] = r.org /\ i[3] = r.email}
           account == CASE r.kind \in {"login", "select", "switch"} -> r.account
                        [] r.kind = "sso" /\ mapping # {} -> (CHOOSE i \in mapping : TRUE)[1]
                        [] OTHER -> ByEmail(r.email)
           seeded  == r.kind = "signup" /\ catalog
           has     == {x \in {"role", "mapping"} :
                         \/ x = "role" /\ r.kind \in {"join", "sso"}
                                    /\ <<account, r.org, "member">> \in members
                         \/ x = "mapping" /\ r.kind = "sso" /\ mapping # {}}
           belongs == MemberOf(account)
           held    == r.held \cup Belonging(account)
           always  == IF r.account = account THEN r.always ELSE MemberOf(account)
           new     == [r EXCEPT !.phase = "decided", !.account = account, !.seeded = seeded,
                                !.has = has, !.belongs = belongs, !.held = held,
                                !.always = always]
<1>1. r \in VisitRecord /\ VisitHolds(r, users, founded, members) /\ r.phase = "read"
  BY DEF Look, AccountInv, AccountTypes, VisitsHold
<1>2. visits' = [visits EXCEPT ![v] = new]
  BY DEF Look
<1>3. seeded \in BOOLEAN
  BY <1>1 DEF AccountInv, AccountTypes
<1>4. r.kind \in {"login", "select", "switch"} => account = r.account /\ account \in Accounts
  BY <1>1 DEF VisitHolds
<1>5. account = Nobody \/ (account \in Accounts /\ users[account].made)
  <2>1. CASE r.kind \in {"login", "select", "switch"}
    BY <1>1, <1>4, <2>1 DEF VisitHolds
  <2>2. CASE r.kind = "sso" /\ mapping # {}
    <3>1. (CHOOSE i \in mapping : TRUE) \in mapping
      BY <2>2
    <3>2. \A i \in mapping : i[1] \in Accounts /\ users[i[1]].made
      BY DEF AccountInv, AccountTypes, RowsHold
    <3>3. account = (CHOOSE i \in mapping : TRUE)[1]
      BY <2>2
    <3> HIDE DEF mapping, account
    <3> QED
      BY <3>1, <3>2, <3>3
  <2>3. CASE r.kind \notin {"login", "select", "switch"} /\ ~(r.kind = "sso" /\ mapping # {})
    <3>1. account = ByEmail(r.email)
      BY <2>3
    <3> HIDE DEF account
    <3> QED
      BY <3>1, ByEmailFinds
  <2> HIDE DEF account, mapping
  <2> QED
    BY <2>1, <2>2, <2>3
<1>6. "mapping" \in has => r.kind = "sso" /\ r.org \in Belonging(account)
  <2> SUFFICES ASSUME "mapping" \in has
               PROVE  r.kind = "sso" /\ r.org \in Belonging(account)
    OBVIOUS
  <2>1. r.kind = "sso" /\ mapping # {}
    OBVIOUS
  <2>2. (CHOOSE i \in mapping : TRUE) \in mapping
    BY <2>1
  <2>3. account = (CHOOSE i \in mapping : TRUE)[1]
    BY <2>1
  <2>4. \A i \in mapping : i \in identities /\ i[2] = r.org
    OBVIOUS
  <2> HIDE DEF account, mapping, has
  <2> QED
    BY <2>1, <2>2, <2>3, <2>4 DEF Belonging, Of
<1>7. has \in SUBSET Found
  BY DEF Found
<1> HIDE DEF account, has, seeded
<1>8. /\ Belonging(account) \subseteq founded /\ MemberOf(account) \subseteq Belonging(account)
      /\ founded \subseteq Slugs
  <2>1. Of(members, account) \subseteq Of(members \cup identities, account)
    BY OfMore
  <2>2. Of(members \cup identities, account) \subseteq founded
    BY BelongsToFounded
  <2> QED
    BY <2>1, <2>2 DEF Belonging, MemberOf, AccountInv, AccountTypes
<1>9. always \subseteq MemberOf(account)
  BY <1>1 DEF VisitHolds, MemberOf
<1>10. r.held \subseteq founded
  BY <1>1 DEF VisitHolds
<1>11. belongs \in SUBSET Slugs /\ held \in SUBSET Slugs /\ always \in SUBSET Slugs
       /\ belongs \subseteq held /\ held \subseteq founded
  BY <1>8, <1>9, <1>10
<1>12. r.kind = "login" => always \subseteq belongs
  BY <1>9
<1>13. r.kind = "sso" /\ "mapping" \in has => r.org \in held
  BY <1>6
<1>14. always \subseteq Of(members, account)
  BY <1>9 DEF MemberOf
<1> HIDE DEF belongs, held, always, r
<1>15. account \in AccountOrNobody /\ "decided" \in Phases
  BY <1>5 DEF AccountOrNobody, Phases
<1>16. new \in VisitRecord
  BY <1>1, <1>3, <1>7, <1>11, <1>15 DEF VisitRecord
<1>17. /\ new.phase = "decided" /\ new.kind = r.kind /\ new.email = r.email /\ new.org = r.org
       /\ new.account = account /\ new.has = has /\ new.belongs = belongs /\ new.held = held
       /\ new.always = always
  BY <1>1 DEF VisitRecord
<1> HIDE DEF new
<1>18. VisitHolds(new, users, founded, members)
  <2>1. account \in Accounts => users[account].made
    BY <1>5, AccountConstants
  <2> QED
    BY <1>1, <1>4, <1>6, <1>11, <1>12, <1>13, <1>14, <1>17, <2>1 DEF VisitHolds
<1> QED
  BY <1>2, <1>16, <1>18, VisitGoesOn DEF Look

\* A request is led in, or to a choice.
LEMMA EnterHolds ==
    ASSUME AccountInv, NEW v \in Visitors, Enter(v)
    PROVE  AccountInv'
<1> DEFINE r  == visits[v]
           to == Destination(r)
<1>1. /\ r \in VisitRecord /\ VisitHolds(r, users, founded, members) /\ r.phase = "decided"
      /\ ~NewRole(r)
  BY DEF Enter, AccountInv, AccountTypes, VisitsHold
<1>2. /\ visits' = [visits EXCEPT ![v] = NoVisit]
      /\ selecting' = IF Cardinality(to) > 1 THEN selecting \cup {r.account} ELSE selecting
      /\ issued' \in IF Cardinality(to) = 1 THEN {[r EXCEPT !.org = o] : o \in to} ELSE {NoVisit}
      /\ UNCHANGED <<users, founded, members, identities, catalog, erasures>>
  BY DEF Enter
<1>3. r.belongs \subseteq r.held /\ r.held \subseteq founded /\ founded \subseteq Slugs
  BY <1>1 DEF VisitHolds, AccountInv, AccountTypes
<1>4. r.kind \in VisitKinds /\ r.kind \notin {"signup", "join"}
      /\ (r.kind = "sso" => "mapping" \in r.has)
  BY <1>1 DEF VisitHolds, NewRole
<1>5. r.kind = "sso" => r.org \in r.held
  BY <1>1, <1>4 DEF VisitHolds
<1>6. to \subseteq r.held
  BY <1>3, <1>5 DEF Destination, Chosen
<1>7. IsFiniteSet(to)
  <2>1. IsFiniteSet(founded) /\ to \in SUBSET founded
    BY <1>3, <1>6 DEF AccountInv, RowsHold
  <2> QED
    BY <2>1, FS_Subset
<1>8. r.kind = "login" => to = r.belongs /\ r.always \subseteq to
  BY <1>1 DEF Destination, VisitHolds
<1>9. r.kind # "login" => \E o : to = {o} \/ to = {}
  BY DEF Destination, Chosen
<1>10. r.kind \in {"login", "select", "switch"} => r.account \in Accounts
  BY <1>1 DEF VisitHolds
<1>11. r.account \in Accounts => users[r.account].made
  BY <1>1 DEF VisitHolds
<1> HIDE DEF to, r
<1>12. Cardinality(to) > 1 => r.account \in Accounts
  <2>1. CASE r.kind = "login"
    BY <1>10, <2>1
  <2>2. CASE r.kind # "login"
    <3>1. PICK o : to = {o} \/ to = {}
      BY <1>9, <2>2
    <3>2. Cardinality(to) = 1 \/ Cardinality(to) = 0
      BY <3>1, FS_Singleton, FS_EmptySet
    <3> QED
      BY <3>2
  <2> QED
    BY <2>1, <2>2
<1>13. visits' \in [Visitors -> VisitRecord] /\ visits'[v] = NoVisit
       /\ \A w \in Visitors \ {v} : visits'[w] = visits[w]
  BY <1>2, AccountBlanks DEF AccountInv, AccountTypes
<1>14. selecting' \subseteq Accounts /\ \A a \in selecting' : users[a].made
  BY <1>2, <1>11, <1>12 DEF AccountInv, AccountTypes, RowsHold
<1>15. \/ issued' = NoVisit
       \/ \E o \in to : to = {o} /\ issued' = [r EXCEPT !.org = o]
  <2>1. CASE Cardinality(to) = 1
    <3>1. PICK o : to = {o}
      BY <1>7, <2>1, FS_Singleton
    <3>2. issued' \in {[r EXCEPT !.org = x] : x \in to}
      BY <1>2, <2>1
    <3> QED
      BY <3>1, <3>2
  <2>2. CASE Cardinality(to) # 1
    BY <1>2, <2>2
  <2> QED
    BY <2>1, <2>2
<1>16. issued' \in VisitRecord /\ IssuedHolds'
  <2>1. CASE issued' = NoVisit
    BY <2>1, AccountBlanks DEF IssuedHolds
  <2>2. ASSUME NEW o \in to, to = {o}, issued' = [r EXCEPT !.org = o]
        PROVE  issued' \in VisitRecord /\ IssuedHolds'
    <3> DEFINE new == issued'
    <3>1. o \in SlugOrNobody /\ o \in r.held /\ o \in founded
      BY <1>3, <1>6 DEF SlugOrNobody
    <3> HIDE DEF new
    <3>2. new = [r EXCEPT !.org = o]
      BY <2>2 DEF new
    <3>3. new \in VisitRecord
      BY <1>1, <3>1, <3>2 DEF VisitRecord
    <3>4. /\ new.org = o /\ new.held = r.held /\ new.kind = r.kind /\ new.always = r.always
      BY <1>1, <3>2 DEF VisitRecord
    <3>5. new.kind = "login" => Cardinality(new.always) <= 1
      <4>1. ASSUME new.kind = "login"
            PROVE  new.always \subseteq {o}
        BY <1>8, <2>2, <3>4, <4>1
      <4>2. new.always \subseteq {o} => new.always = {} \/ new.always = {o}
        OBVIOUS
      <4>3. new.always = {} \/ new.always = {o} => Cardinality(new.always) <= 1
        <5>1. Cardinality({}) = 0 /\ Cardinality({o}) = 1
          BY FS_EmptySet, FS_Singleton
        <5> QED
          BY <5>1
      <4> QED
        BY <4>1, <4>2, <4>3
    <3>6. new.org \in new.held /\ new.org \in founded'
      BY <1>2, <3>1, <3>4
    <3> USE DEF new
    <3> QED
      BY <3>3, <3>5, <3>6 DEF IssuedHolds
  <2> QED
    BY <1>15, <2>1, <2>2
<1>17. AccountTypes'
  BY <1>2, <1>13, <1>14, <1>16 DEF AccountInv, AccountTypes
<1>18. RowsHold'
  BY <1>2, <1>14 DEF AccountInv, RowsHold
<1>19. \A w \in Visitors : VisitHolds(visits'[w], users, founded, members)
  BY <1>13, AccountBlanks DEF AccountInv, VisitsHold
<1>20. VisitsHold'
  BY <1>2, <1>19 DEF VisitsHold
<1> QED
  BY <1>16, <1>17, <1>18, <1>20 DEF AccountInv

\* Rows change: what remains to be shown when the requests watch.
LEMMA RowsChange ==
    ASSUME AccountInv, NEW vs \in [Visitors -> VisitRecord],
           \A v \in Visitors : VisitHolds(vs[v], users, founded, members),
           visits' = Watched(vs, members', identities'),
           founded \subseteq founded', founded' \subseteq Slugs,
           \A a \in Accounts : users[a].made => users'[a].made,
           RowsHold'
    PROVE  visits' \in [Visitors -> VisitRecord] /\ VisitsHold'
<1> DEFINE ms == members'
           is == identities'
           us == users'
           fs == founded'
           new == visits'
<1>1. \A a : Of(ms \cup is, a) \subseteq fs
  BY DEF RowsHold, Of
<1>2. founded \subseteq fs /\ fs \subseteq Slugs /\ new = Watched(vs, ms, is)
      /\ \A a \in Accounts : users[a].made => us[a].made
  OBVIOUS
<1> HIDE DEF ms, is, us, fs, new
<1>3. ASSUME NEW v \in Visitors
      PROVE  /\ new[v] \in VisitRecord
             /\ VisitHolds(new[v], us, fs, ms)
  <2>1. CASE vs[v].phase = "idle"
    <3>1. new[v] = vs[v]
      BY <1>2, <2>1 DEF Watched
    <3> QED
      BY <2>1, <3>1 DEF VisitHolds
  <2>2. CASE vs[v].phase # "idle"
    <3> DEFINE r      == vs[v]
               held   == r.held \cup Of(ms \cup is, r.account)
               always == r.always \cap Of(ms, r.account)
               next   == new[v]
    <3>1. next = [r EXCEPT !.held = held, !.always = always]
      BY <1>2, <2>2 DEF Watched
    <3>2. r \in VisitRecord /\ VisitHolds(r, users, founded, members) /\ r.phase # "idle"
      BY <2>2
    <3>3. Of(ms \cup is, r.account) \subseteq fs
      BY <1>1
    <3> HIDE DEF r, next
    <3>4. r.held \subseteq founded /\ r.always \subseteq Slugs
      BY <3>2 DEF VisitHolds, VisitRecord
    <3>5. held \subseteq fs /\ held \in SUBSET Slugs /\ always \in SUBSET Slugs
          /\ always \subseteq Of(ms, r.account) /\ r.held \subseteq held /\ always \subseteq r.always
      BY <1>2, <3>3, <3>4
    <3> HIDE DEF held, always
    <3>6. next \in VisitRecord
      BY <3>1, <3>2, <3>5 DEF VisitRecord
    <3>7. /\ next.phase = r.phase /\ next.kind = r.kind /\ next.email = r.email /\ next.org = r.org
          /\ next.account = r.account /\ next.has = r.has /\ next.belongs = r.belongs
          /\ next.held = held /\ next.always = always
      BY <3>1, <3>2 DEF VisitRecord
    <3>8. VisitHolds(next, us, fs, ms)
      BY <1>2, <3>2, <3>5, <3>7 DEF VisitHolds
    <3> QED
      BY <3>6, <3>8 DEF next
  <2> QED
    BY <2>1, <2>2
<1>4. new = [v \in Visitors |-> new[v]]
  BY <1>2 DEF Watched
<1>5. new \in [Visitors -> VisitRecord]
  BY <1>3, <1>4
<1>6. \A v \in Visitors : VisitHolds(new[v], us, fs, ms)
  BY <1>3
<1> USE DEF ms, us, fs, new
<1> QED
  BY <1>5, <1>6 DEF VisitsHold

\* The account of a commit.
LEMMA ProvisionedAccount ==
    ASSUME AccountInv, NEW v \in Visitors, visits[v].phase = "decided", NewRole(visits[v]),
           NEW a, a = IF visits[v].account = Nobody THEN Fresh ELSE visits[v].account, a # Nobody
    PROVE  /\ a \in Accounts
           /\ RowOf(visits[v]) \in AccountRow /\ RowOf(visits[v]).made
           /\ visits[v].org \in Slugs /\ visits[v].email \in Addresses
           /\ visits[v].kind \in {"signup", "join", "sso"}
<1> DEFINE r == visits[v]
<1>1. r \in VisitRecord /\ VisitHolds(r, users, founded, members)
  BY DEF AccountInv, AccountTypes, VisitsHold
<1>2. r.kind \in {"signup", "join", "sso"}
  BY DEF NewRole
<1>3. r.org \in Slugs /\ r.email \in Addresses
  BY <1>1, <1>2 DEF VisitHolds
<1>4. r.account \in Accounts => users[r.account].made
  BY <1>1 DEF VisitHolds
<1>5. r.account = Nobody \/ r.account \in Accounts
  BY <1>1 DEF VisitRecord, AccountOrNobody
<1>6. Fresh = Nobody \/ Fresh \in Accounts
  BY DEF Fresh
<1>7. a \in Accounts
  BY <1>5, <1>6
<1>8. RowOf(r) \in AccountRow /\ RowOf(r).made
  <2>1. CASE r.account = Nobody
    <3>1. r.email \in AddressOrNobody /\ (r.kind # "sso") \in BOOLEAN
      BY <1>3 DEF AddressOrNobody
    <3> QED
      BY <2>1, <3>1 DEF RowOf, AccountRow
  <2>2. CASE r.account # Nobody
    <3> DEFINE old == users[r.account]
               secret == old.password \/ r.kind # "sso"
    <3>1. old \in AccountRow /\ old.made /\ secret \in BOOLEAN
      BY <1>4, <1>5, <2>2 DEF AccountInv, AccountTypes
    <3>2. RowOf(r) = [old EXCEPT !.password = secret]
      BY <2>2 DEF RowOf
    <3> HIDE DEF old, secret
    <3> QED
      BY <3>1, <3>2 DEF AccountRow
  <2> QED
    BY <2>1, <2>2
<1> QED
  BY <1>2, <1>3, <1>7, <1>8

\* A request makes its rows.
LEMMA ProvisionHolds ==
    ASSUME AccountInv, NEW v \in Visitors, Provision(v)
    PROVE  AccountInv'
<1> DEFINE r  == visits[v]
           a  == IF r.account = Nobody THEN Fresh ELSE r.account
           vs == [visits EXCEPT ![v] = NoVisit]
<1>1. r.phase = "decided" /\ NewRole(r) /\ UNCHANGED <<selecting, erasures>>
  BY DEF Provision
<1>2. CASE Collides(r)
  <2>1. UNCHANGED <<users, founded, members, identities, catalog, selecting, erasures>>
        /\ visits' = vs /\ issued' = NoVisit
    BY <1>1, <1>2 DEF Provision
  <2> QED
    BY <2>1, AccountBlanks, VisitGoesOn
<1>3. CASE ~Collides(r)
  <2>1. /\ a # Nobody
        /\ users' = [users EXCEPT ![a] = RowOf(r)]
        /\ founded' = founded \cup {r.org}
        /\ members' = members \cup {<<a, r.org, Role(r.kind)>>}
        /\ identities' = identities \cup {i \in {<<a, r.org, r.email>>} : Inserts(r, "mapping")}
        /\ catalog' = Seeded(r)
        /\ visits' = Watched(vs, members', identities')
        /\ issued' = [r EXCEPT !.account = a, !.held = @ \cup {r.org}]
    BY <1>3 DEF Provision
  <2>2. /\ a \in Accounts /\ RowOf(r) \in AccountRow /\ RowOf(r).made
        /\ r.org \in Slugs /\ r.email \in Addresses /\ r.kind \in {"signup", "join", "sso"}
    BY <1>1, <2>1, ProvisionedAccount
  <2>3. r \in VisitRecord
    BY DEF AccountInv, AccountTypes
  <2>4. vs \in [Visitors -> VisitRecord]
        /\ \A w \in Visitors : VisitHolds(vs[w], users, founded, members)
    BY AccountBlanks DEF AccountInv, AccountTypes, VisitsHold
  <2>5. Role(r.kind) \in Roles /\ (Role(r.kind) = "admin" => r.kind = "signup")
    BY DEF Role, Roles
  <2>6. catalog' \in BOOLEAN /\ (catalog => catalog') /\ (r.kind = "signup" => catalog')
    BY <2>1 DEF Seeded, AccountInv, AccountTypes
  <2> HIDE DEF r, a, vs
  <2>7. /\ users' \in [Accounts -> AccountRow] /\ users'[a].made
        /\ \A b \in Accounts : users[b].made => users'[b].made
        /\ \A b \in Accounts \ {a} : users'[b] = users[b]
    BY <2>1, <2>2 DEF AccountInv, AccountTypes
  <2>8. founded \subseteq founded' /\ founded' \subseteq Slugs /\ r.org \in founded'
    BY <2>1, <2>2 DEF AccountInv, AccountTypes
  <2>9. members' \subseteq Accounts \X Slugs \X Roles
        /\ identities' \subseteq Accounts \X Slugs \X Addresses
    BY <2>1, <2>2, <2>5 DEF AccountInv, AccountTypes
  <2>10. RowsHold'
    <3>1. IsFiniteSet(founded')
      BY <2>1, FS_AddElement DEF AccountInv, RowsHold
    <3>2. \A m \in members' : users'[m[1]].made /\ m[2] \in founded' /\ (m[3] = "admin" => catalog')
      <4>1. ASSUME NEW m \in members
            PROVE  users'[m[1]].made /\ m[2] \in founded' /\ (m[3] = "admin" => catalog')
        <5>1. m[1] \in Accounts
          BY DEF AccountInv, AccountTypes
        <5> QED
          BY <5>1, <2>6, <2>7, <2>8 DEF AccountInv, RowsHold
      <4> QED
        BY <2>1, <2>5, <2>6, <2>7, <2>8, <4>1
    <3>3. \A i \in identities' : users'[i[1]].made /\ i[2] \in founded'
      <4>1. ASSUME NEW i \in identities
            PROVE  users'[i[1]].made /\ i[2] \in founded'
        <5>1. i[1] \in Accounts
          BY DEF AccountInv, AccountTypes
        <5> QED
          BY <5>1, <2>7, <2>8 DEF AccountInv, RowsHold
      <4> QED
        BY <2>1, <2>7, <2>8, <4>1
    <3>4. \A b \in Accounts : users'[b].active => users'[b].made
      BY <2>7 DEF AccountInv, RowsHold
    <3>5. \A b \in selecting' : users'[b].made
      BY <1>1, <2>7 DEF AccountInv, AccountTypes, RowsHold
    <3> QED
      BY <3>1, <3>2, <3>3, <3>4, <3>5 DEF RowsHold
  <2>11. visits' \in [Visitors -> VisitRecord] /\ VisitsHold'
    BY <2>1, <2>4, <2>7, <2>8, <2>10, RowsChange
  <2>12. issued' \in VisitRecord /\ IssuedHolds'
    <3> DEFINE new == issued'
               held == r.held \cup {r.org}
    <3>1. new = [r EXCEPT !.account = a, !.held = held]
      BY <2>1
    <3>2. a \in AccountOrNobody /\ held \in SUBSET Slugs /\ r.org \in held
      BY <2>2, <2>3 DEF AccountOrNobody, VisitRecord
    <3> HIDE DEF new, held
    <3>3. new \in VisitRecord /\ new.org = r.org /\ new.held = held /\ new.kind = r.kind
      BY <2>3, <3>1, <3>2 DEF VisitRecord
    <3>4. new.org \in new.held \cap founded' /\ new.kind # "login"
      BY <2>2, <2>8, <3>2, <3>3
    <3> USE DEF new
    <3> QED
      BY <3>3, <3>4 DEF IssuedHolds
  <2>13. AccountTypes'
    BY <1>1, <2>6, <2>7, <2>8, <2>9, <2>11, <2>12 DEF AccountInv, AccountTypes
  <2> QED
    BY <2>10, <2>11, <2>12, <2>13 DEF AccountInv
<1> QED
  BY <1>2, <1>3

\* An erasure takes rows away, but no account and no organization.
LEMMA ErasedHolds ==
    ASSUME AccountInv, NEW a \in Accounts, NEW o \in Slugs, NEW steps, Erased(a, o, steps)
    PROVE  AccountInv'
<1> DEFINE row == IF "record" \in steps THEN [Absent EXCEPT !.made = TRUE] ELSE users[a]
<1>1. /\ users' = [users EXCEPT ![a] = row] /\ users[a].made
      /\ members' \subseteq members /\ identities' \subseteq identities
      /\ visits' = Watched(visits, members', identities') /\ issued' = NoVisit
      /\ UNCHANGED <<founded, catalog, selecting>>
  BY DEF Erased
<1>2. erasures' \in 0..MaxErasures
  <2>1. erasures \in 0..MaxErasures /\ erasures < MaxErasures /\ erasures' = erasures + 1
    BY DEF Erased, AccountInv, AccountTypes
  <2> QED
    BY <2>1, AccountConstants
<1>3. row \in AccountRow /\ row.made
  BY <1>1, AccountBlanks DEF AccountInv, AccountTypes
<1> HIDE DEF row
<1>4. /\ users' \in [Accounts -> AccountRow]
      /\ \A b \in Accounts : users[b].made => users'[b].made
      /\ \A b \in Accounts \ {a} : users'[b] = users[b]
      /\ users'[a].made
  BY <1>1, <1>3 DEF AccountInv, AccountTypes
<1>5. RowsHold'
  <2>1. /\ \A m \in members' : m[1] \in Accounts /\ users[m[1]].made /\ m[2] \in founded
                                 /\ (m[3] = "admin" => catalog)
        /\ \A i \in identities' : i[1] \in Accounts /\ users[i[1]].made /\ i[2] \in founded
    BY <1>1 DEF AccountInv, AccountTypes, RowsHold
  <2>2. \A b \in Accounts : users'[b].active => users'[b].made
    BY <1>4 DEF AccountInv, RowsHold
  <2>3. \A b \in selecting' : users'[b].made
    BY <1>1, <1>4 DEF AccountInv, AccountTypes, RowsHold
  <2>4. IsFiniteSet(founded')
    BY <1>1 DEF AccountInv, RowsHold
  <2> QED
    BY <1>1, <1>4, <2>1, <2>2, <2>3, <2>4 DEF RowsHold
<1>6. visits' \in [Visitors -> VisitRecord] /\ VisitsHold'
  <2>1. visits \in [Visitors -> VisitRecord]
        /\ \A w \in Visitors : VisitHolds(visits[w], users, founded, members)
    BY DEF AccountInv, AccountTypes, VisitsHold
  <2>2. founded \subseteq founded' /\ founded' \subseteq Slugs
    BY <1>1 DEF AccountInv, AccountTypes
  <2> QED
    BY <1>1, <1>4, <1>5, <2>1, <2>2, RowsChange
<1>7. issued' \in VisitRecord /\ IssuedHolds'
  BY <1>1, AccountBlanks DEF IssuedHolds
<1>8. AccountTypes'
  BY <1>1, <1>2, <1>4, <1>6, <1>7 DEF AccountInv, AccountTypes
<1> QED
  BY <1>5, <1>6, <1>7, <1>8 DEF AccountInv

\* Others found an organization.
LEMMA OthersHold ==
    ASSUME AccountInv, NEW o \in Slugs, Others(o)
    PROVE  AccountInv'
<1>1. /\ founded' = founded \cup {o} /\ catalog' \in {catalog, TRUE} /\ issued' = NoVisit
      /\ UNCHANGED <<users, members, identities, selecting, visits, erasures>>
  BY DEF Others
<1>2. catalog' \in BOOLEAN /\ (catalog => catalog')
  BY <1>1 DEF AccountInv, AccountTypes
<1>3. AccountTypes'
  BY <1>1, <1>2, AccountBlanks DEF AccountInv, AccountTypes
<1>4. RowsHold'
  <2>1. IsFiniteSet(founded')
    BY <1>1, FS_AddElement DEF AccountInv, RowsHold
  <2> QED
    BY <1>1, <1>2, <2>1 DEF AccountInv, RowsHold
<1>5. VisitsHold'
  <2>1. \A v \in Visitors : VisitHolds(visits[v], users, founded', members)
    BY <1>1 DEF AccountInv, VisitsHold, VisitHolds
  <2> QED
    BY <1>1, <2>1 DEF VisitsHold
<1>6. IssuedHolds'
  BY <1>1, AccountBlanks DEF IssuedHolds
<1> QED
  BY <1>3, <1>4, <1>5, <1>6 DEF AccountInv

\* A token expires, or a session is handed over.
LEMMA TokensPass ==
    ASSUME AccountInv, issued' = NoVisit, selecting' \subseteq selecting,
           UNCHANGED <<users, founded, members, identities, catalog, visits, erasures>>
    PROVE  AccountInv'
<1>1. AccountTypes' /\ RowsHold' /\ IssuedHolds'
  BY AccountBlanks DEF AccountInv, AccountTypes, RowsHold, IssuedHolds
<1>2. VisitsHold'
  BY DEF AccountInv, VisitsHold
<1> QED
  BY <1>1, <1>2 DEF AccountInv

\* Every step keeps the invariant.
LEMMA AccountStep == AccountInv /\ [AccountNext]_accountVars => AccountInv'
<1> SUFFICES ASSUME AccountInv, [AccountNext]_accountVars
             PROVE  AccountInv'
  OBVIOUS
<1>1. ASSUME NEW a \in Accounts, SelectionExpires(a)
      PROVE  AccountInv'
  BY <1>1, TokensPass DEF SelectionExpires
<1>2. CASE HandedOver
  BY <1>2, TokensPass DEF HandedOver
<1>3. CASE UNCHANGED accountVars
  <2>1. AccountTypes' /\ RowsHold' /\ IssuedHolds'
    BY <1>3 DEF accountVars, AccountInv, AccountTypes, RowsHold, IssuedHolds
  <2>2. VisitsHold'
    BY <1>3 DEF accountVars, AccountInv, VisitsHold
  <2> QED
    BY <2>1, <2>2 DEF AccountInv
<1> QED
  BY <1>1, <1>2, <1>3, ArriveHolds, ReturnHolds, LookHolds, RefusedHolds, ProvisionHolds,
     EnterHolds, OthersHold, ErasedHolds DEF AccountNext

LEMMA AccountInvariant == AccountSpec => []AccountInv
BY AccountsInitially, AccountStep, PTL DEF AccountSpec

\* A session is of an organization to which the account belonged while the request ran,
\* whoever belongs to several is asked, and no row is of an account or an organization
\* that is not there: for any number of requests, accounts and organizations.
THEOREM EntryIsAlwaysEarned == AccountSpec => []EntryIsEarned
<1>1. AccountInv => EntryIsEarned
  BY DEF AccountInv, RowsHold, IssuedHolds, EntryIsEarned
<1> QED
  BY <1>1, AccountInvariant, PTL

\* The rows, the requests and the session keep their types.
THEOREM AccountTypesHold == AccountSpec => []AccountTypeOK
<1>1. AccountInv => AccountTypeOK
  BY DEF AccountInv, AccountTypes, AccountTypeOK, AccountRow, AddressOrNobody, Roles,
         VisitRecord, KindOrNone
<1> QED
  BY <1>1, AccountInvariant, PTL
-----------------------------------------------------------------------------
\* Pages, calls and what was sent, with their sets named one by one.
FirmOrNothing == Firms \cup {Nothing}
ScopeOrNothing == Members \cup {Nothing}
PageRecord ==
    [token : Nat, user : ScopeOrNothing, loading : BOOLEAN, listed : Persons \cup {Nothing},
     organization : FirmOrNothing, projects : FirmOrNothing, cache : FirmOrNothing]
CallRecord ==
    [kind : AuthKinds, stage : AuthStages, uses : Nat, scope : ScopeOrNothing, gets : Nat]
SentRecord ==
    [listings : SUBSET Nat, projects : SUBSET (Firms \X Nat), queries : SUBSET Nat]
PairRecord == [scope : Members, refresh : {"live", "used"}, access : BOOLEAN]
Ways == {"half", "revived", "swapped", "outrun", "cached"}
IssuedOnly(out, srv) == out.listings \cup out.queries \subseteq 0..Len(srv)
BrowserTypes ==
    /\ server \in Seq(PairRecord) /\ Len(server) <= MaxSessions
    /\ storage \in 0..Len(server)
    /\ pages \in [Pages -> PageRecord]
    /\ auth \in [Pages -> CallRecord]
    /\ sent \in [Pages -> SentRecord]
    /\ crossed \in [Pages -> SUBSET Ways]
    /\ \A p \in Pages : IssuedOnly(sent[p], server)

\* The call that is to change the session: the tokens it names have been issued, and
\* only a switch finds a user there.
CallHolds(page, call, srv) ==
    /\ page.token \in 0..Len(srv) /\ call.uses \in 0..Len(srv) /\ call.gets \in 0..Len(srv)
    /\ page.loading => call.kind = "refresh"
    /\ call.kind = "none" => call.stage = "idle"
    /\ call.kind \in {"login", "refresh"} => page.user = Nothing
    /\ call.kind = "refresh" => call.uses # 0
    /\ call.kind = "login" => call.scope \in Members
    /\ call.stage \in {"answered", "me"} /\ call.kind # "logout" => call.gets # 0
    /\ call.stage = "me" => call.kind # "logout"

\* A switch starts from the user's token, and the pair it gives is the same person's.
SwitchHolds(page, call, how, srv) ==
    call.kind = "switch" /\ page.user # Nothing /\ how \cap {"half", "revived"} = {} =>
        /\ call.stage = "sent" => call.uses # 0 /\ srv[call.uses].scope = page.user
        /\ call.stage \in {"answered", "me"} => srv[call.gets].scope[1] = page.user[1]
        /\ call.stage = "me" => page.token = call.gets

\* The user is the one that the token names, but while a new pair waits for its user.
UserHolds(page, call, how, srv) ==
    call.stage # "me" /\ how \cap {"half", "revived"} = {} =>
        page.user = IF page.token = 0 THEN Nothing ELSE srv[page.token].scope

\* No listing is under way: what was listed is the user's, and so are the organization
\* and, once they have come, its projects.
FirmHolds(page, call, out, how) ==
    page.user # Nothing /\ out.listings = {} /\ how \cap {"half", "revived", "swapped"} = {} =>
        /\ page.listed = page.user[1]
        /\ call.stage # "me" => page.organization = page.user[2]
        /\ out.projects = {} /\ "outrun" \notin how => page.projects = page.organization

\* The data are of the user's organization, those that are under way too.
CacheHolds(page, call, out, how, srv) ==
    page.user # Nothing /\ call.stage # "me" /\ how \cap {"half", "revived", "cached"} = {} =>
        /\ page.cache \in {Nothing, page.user[2]}
        /\ \A n \in out.queries : n \in 1..Len(srv) /\ srv[n].scope[2] = page.user[2]

SessionHolds(page, call, out, how, srv) ==
    /\ CallHolds(page, call, srv)
    /\ SwitchHolds(page, call, how, srv)
    /\ UserHolds(page, call, how, srv)
    /\ FirmHolds(page, call, out, how)
    /\ CacheHolds(page, call, out, how, srv)

PagesHold == \A p \in Pages : SessionHolds(pages[p], auth[p], sent[p], crossed[p], server)

BrowserInv == BrowserTypes /\ PagesHold

LEMMA BrowserBlanks ==
    /\ NoPage \in PageRecord /\ NoAuth \in CallRecord /\ NothingSent \in SentRecord
    /\ NoPage.token = 0 /\ NoPage.user = Nothing
    /\ NoAuth.kind = "none" /\ NoAuth.stage = "idle" /\ NoAuth.uses = 0 /\ NoAuth.gets = 0
    /\ NothingSent.listings = {} /\ NothingSent.projects = {} /\ NothingSent.queries = {}
BY DEF NoPage, NoAuth, NothingSent, PageRecord, CallRecord, SentRecord, FirmOrNothing,
       ScopeOrNothing, AuthKinds, AuthStages

LEMMA PagesInitially == BrowserInit => BrowserInv
<1> SUFFICES ASSUME BrowserInit
             PROVE  BrowserInv
  OBVIOUS
<1>1. BrowserTypes
  <2>1. \A p \in Pages : IssuedOnly(sent[p], server)
    BY BrowserBlanks DEF BrowserInit, IssuedOnly
  <2> QED
    BY <2>1, BrowserBlanks, BrowserConstants DEF BrowserInit, BrowserTypes
<1>2. PagesHold
  <2> SUFFICES ASSUME NEW p \in Pages
               PROVE  SessionHolds(pages[p], auth[p], sent[p], crossed[p], server)
    BY DEF PagesHold
  <2>1. pages[p] = NoPage /\ auth[p] = NoAuth /\ sent[p] = NothingSent /\ server = <<>>
    BY DEF BrowserInit
  <2> QED
    BY <2>1, BrowserBlanks DEF SessionHolds, CallHolds, SwitchHolds, UserHolds, FirmHolds,
       CacheHolds, NoPage
<1> QED
  BY <1>1, <1>2 DEF BrowserInv

\* The pairs that have been issued keep their claims, whatever becomes of them.
Extends(srv, more) ==
    /\ Len(srv) <= Len(more)
    /\ \A n \in 1..Len(srv) : more[n].scope = srv[n].scope

\* What holds of a page goes on to hold when more pairs are issued.
LEMMA MoreSessions ==
    ASSUME NEW page, NEW call, NEW out, NEW how, NEW srv, NEW more,
           Len(srv) \in Nat, Len(more) \in Nat, Extends(srv, more),
           SessionHolds(page, call, out, how, srv)
    PROVE  SessionHolds(page, call, out, how, more)
<1>1. /\ \A n \in 0..Len(srv) : n \in 0..Len(more)
      /\ \A n \in 1..Len(srv) : n \in 1..Len(more) /\ more[n].scope = srv[n].scope
      /\ \A n \in 0..Len(srv) : n # 0 => n \in 1..Len(srv)
  BY DEF Extends
<1>2. CallHolds(page, call, more)
  BY <1>1 DEF SessionHolds, CallHolds
<1>3. SwitchHolds(page, call, how, more)
  BY <1>1 DEF SessionHolds, SwitchHolds, CallHolds
<1>4. UserHolds(page, call, how, more)
  BY <1>1 DEF SessionHolds, UserHolds, CallHolds
<1>5. CacheHolds(page, call, out, how, more)
  BY <1>1 DEF SessionHolds, CacheHolds
<1> QED
  BY <1>2, <1>3, <1>4, <1>5 DEF SessionHolds

\* A step of one page, by which no pair is issued.
LEMMA OnePageSteps ==
    ASSUME BrowserInv, NEW p \in Pages, UNCHANGED server, storage' \in 0..Len(server),
           NEW page \in PageRecord, NEW call \in CallRecord, NEW out \in SentRecord,
           NEW how \in SUBSET Ways,
           pages' = [pages EXCEPT ![p] = page], auth' = [auth EXCEPT ![p] = call],
           sent' = [sent EXCEPT ![p] = out], crossed' = [crossed EXCEPT ![p] = how],
           IssuedOnly(out, server),
           SessionHolds(page, call, out, how, server)
    PROVE  BrowserInv'
<1>1. BrowserTypes'
  <2>1. \A q \in Pages : IssuedOnly(sent'[q], server)
    BY DEF BrowserInv, BrowserTypes
  <2> QED
    BY <2>1 DEF BrowserInv, BrowserTypes
<1>2. PagesHold'
  <2> SUFFICES ASSUME NEW q \in Pages
               PROVE  SessionHolds(pages'[q], auth'[q], sent'[q], crossed'[q], server)
    BY DEF PagesHold
  <2>1. CASE q = p
    BY <2>1 DEF BrowserInv, BrowserTypes
  <2>2. CASE q # p
    <3>1. /\ pages'[q] = pages[q] /\ auth'[q] = auth[q]
          /\ sent'[q] = sent[q] /\ crossed'[q] = crossed[q]
      BY <2>2 DEF BrowserInv, BrowserTypes
    <3> QED
      BY <3>1 DEF BrowserInv, PagesHold
  <2> QED
    BY <2>1, <2>2
<1> QED
  BY <1>1, <1>2 DEF BrowserInv

\* The state of one page, taken apart.
LEMMA OnePage ==
    ASSUME BrowserInv, NEW p \in Pages
    PROVE  /\ pages[p] \in PageRecord /\ auth[p] \in CallRecord /\ sent[p] \in SentRecord
           /\ crossed[p] \in SUBSET Ways /\ storage \in 0..Len(server)
           /\ IssuedOnly(sent[p], server)
           /\ pages = [pages EXCEPT ![p] = pages[p]] /\ auth = [auth EXCEPT ![p] = auth[p]]
           /\ sent = [sent EXCEPT ![p] = sent[p]]
           /\ crossed = [crossed EXCEPT ![p] = crossed[p]]
           /\ SessionHolds(pages[p], auth[p], sent[p], crossed[p], server)
           /\ Len(server) \in Nat
           /\ \A n \in 1..Len(server) : server[n] \in PairRecord /\ Who(n) \in Members
<1>1. /\ pages[p] \in PageRecord /\ auth[p] \in CallRecord /\ sent[p] \in SentRecord
      /\ crossed[p] \in SUBSET Ways /\ storage \in 0..Len(server)
      /\ IssuedOnly(sent[p], server)
  BY DEF BrowserInv, BrowserTypes
<1>2. /\ pages = [pages EXCEPT ![p] = pages[p]] /\ auth = [auth EXCEPT ![p] = auth[p]]
      /\ sent = [sent EXCEPT ![p] = sent[p]] /\ crossed = [crossed EXCEPT ![p] = crossed[p]]
  BY DEF BrowserInv, BrowserTypes
<1>3. SessionHolds(pages[p], auth[p], sent[p], crossed[p], server)
  BY DEF BrowserInv, PagesHold
<1>4. Len(server) \in Nat /\ \A n \in 1..Len(server) : server[n] \in PairRecord
  BY DEF BrowserInv, BrowserTypes
<1>5. \A n \in 1..Len(server) : Who(n) \in Members
  BY <1>4 DEF Who, PairRecord
<1> QED
  BY <1>1, <1>2, <1>3, <1>4, <1>5

LEMMA LoadHolds ==
    ASSUME BrowserInv, NEW p \in Pages, Load(p)
    PROVE  BrowserInv'
<1> DEFINE page == [NoPage EXCEPT !.loading = storage # 0]
           call == IF storage = 0 THEN NoAuth
                   ELSE [NoAuth EXCEPT !.kind = "refresh", !.stage = "sent", !.uses = storage]
<1>1. /\ pages' = [pages EXCEPT ![p] = page] /\ auth' = [auth EXCEPT ![p] = call]
      /\ sent' = [sent EXCEPT ![p] = NothingSent] /\ crossed' = [crossed EXCEPT ![p] = {}]
      /\ UNCHANGED <<server, storage>>
  BY DEF Load
<1>2. storage \in 0..Len(server) /\ Len(server) \in Nat /\ storage \in Nat
  BY OnePage
<1>3. page \in PageRecord /\ call \in CallRecord
  <2>1. page \in PageRecord
    BY BrowserBlanks DEF PageRecord
  <2>2. CASE storage = 0
    BY <2>1, <2>2, BrowserBlanks
  <2>3. CASE storage # 0
    BY <1>2, <2>1, <2>3, BrowserBlanks DEF CallRecord, AuthKinds, AuthStages
  <2> QED
    BY <2>2, <2>3
<1>4. /\ page.token = 0 /\ page.user = Nothing /\ (page.loading => storage # 0)
      /\ call.gets = 0 /\ call.uses = storage
      /\ IF storage = 0 THEN call.kind = "none" /\ call.stage = "idle"
                        ELSE call.kind = "refresh" /\ call.stage = "sent"
  BY BrowserBlanks DEF NoPage, NoAuth
<1> HIDE DEF page, call
<1>5. SessionHolds(page, call, NothingSent, {}, server)
  <2>1. CallHolds(page, call, server)
    BY <1>2, <1>4 DEF CallHolds
  <2> QED
    BY <1>4, <2>1 DEF SessionHolds, SwitchHolds, UserHolds, FirmHolds, CacheHolds
<1>6. IssuedOnly(NothingSent, server)
  BY BrowserBlanks DEF IssuedOnly
<1> QED
  BY <1>1, <1>2, <1>3, <1>5, <1>6, BrowserBlanks, OnePageSteps DEF Ways

\* The calls that change a session begin.
LEMMA BeginHolds ==
    ASSUME BrowserInv, NEW p \in Pages, NEW call \in CallRecord, Begins(p, call),
           call.kind \in {"login", "switch", "logout"}, call.stage = "sent", call.gets = 0,
           call.uses \in 0..Len(server),
           call.kind = "login" => call.scope \in Members /\ pages[p].user = Nothing,
           call.kind = "switch" => call.uses = pages[p].token
    PROVE  BrowserInv'
<1>1. /\ auth' = [auth EXCEPT ![p] = call] /\ auth[p].kind = "none" /\ ~pages[p].loading
      /\ UNCHANGED <<server, storage, pages, sent, crossed>>
  BY DEF Begins
<1>2. SessionHolds(pages[p], auth[p], sent[p], crossed[p], server) /\ auth[p].stage = "idle"
  BY <1>1, OnePage DEF SessionHolds, CallHolds
<1>3. CallHolds(pages[p], call, server)
  BY <1>1, <1>2 DEF SessionHolds, CallHolds
<1>4. SwitchHolds(pages[p], call, crossed[p], server)
  BY <1>2 DEF SessionHolds, SwitchHolds, UserHolds
<1>5. UserHolds(pages[p], call, crossed[p], server)
  BY <1>2 DEF SessionHolds, UserHolds
<1>6. FirmHolds(pages[p], call, sent[p], crossed[p])
  BY <1>2 DEF SessionHolds, FirmHolds
<1>7. CacheHolds(pages[p], call, sent[p], crossed[p], server)
  BY <1>2 DEF SessionHolds, CacheHolds
<1>8. SessionHolds(pages[p], call, sent[p], crossed[p], server)
  BY <1>3, <1>4, <1>5, <1>6, <1>7 DEF SessionHolds
<1> QED
  BY <1>1, <1>8, OnePage, OnePageSteps

LEMMA LoginHolds ==
    ASSUME BrowserInv, NEW p \in Pages, NEW scope \in LoginsTo, Login(p, scope)
    PROVE  BrowserInv'
<1> DEFINE call == [NoAuth EXCEPT !.kind = "login", !.stage = "sent", !.scope = scope]
<1>1. Begins(p, call) /\ pages[p].user = Nothing
  BY DEF Login, Authenticated
<1>2. scope \in Members /\ Len(server) \in Nat
  BY OnePage, BrowserConstants
<1>3. /\ call \in CallRecord /\ call.kind = "login" /\ call.stage = "sent" /\ call.gets = 0
      /\ call.uses = 0 /\ call.scope = scope
  BY <1>2, BrowserBlanks DEF CallRecord, AuthKinds, AuthStages, ScopeOrNothing, NoAuth
<1> HIDE DEF call
<1> QED
  BY <1>1, <1>2, <1>3, BeginHolds

LEMMA SwitchBegins ==
    ASSUME BrowserInv, NEW p \in Pages, NEW firm \in Firms, Switch(p, firm)
    PROVE  BrowserInv'
<1> DEFINE scope == <<pages[p].listed, firm>>
           call == [NoAuth EXCEPT !.kind = "switch", !.stage = "sent",
                                  !.uses = pages[p].token, !.scope = scope]
<1>1. Begins(p, call) /\ scope \in Members
  BY DEF Switch
<1>2. pages[p].token \in 0..Len(server) /\ pages[p].token \in Nat
  BY OnePage DEF SessionHolds, CallHolds, PageRecord
<1> HIDE DEF scope
<1>3. /\ call \in CallRecord /\ call.kind = "switch" /\ call.stage = "sent" /\ call.gets = 0
      /\ call.uses = pages[p].token
  BY <1>1, <1>2, BrowserBlanks DEF CallRecord, AuthKinds, AuthStages, ScopeOrNothing, NoAuth
<1> HIDE DEF call
<1> QED
  BY <1>1, <1>2, <1>3, BeginHolds

LEMMA LogoutBegins ==
    ASSUME BrowserInv, NEW p \in Pages, Logout(p)
    PROVE  BrowserInv'
<1> DEFINE call == [NoAuth EXCEPT !.kind = "logout", !.stage = "sent", !.uses = storage]
<1>1. Begins(p, call)
  BY DEF Logout
<1>2. storage \in 0..Len(server) /\ Len(server) \in Nat /\ storage \in Nat
  BY OnePage
<1>3. /\ call \in CallRecord /\ call.kind = "logout" /\ call.stage = "sent" /\ call.gets = 0
      /\ call.uses = storage
  BY <1>2, BrowserBlanks DEF CallRecord, AuthKinds, AuthStages, NoAuth
<1> HIDE DEF call
<1> QED
  BY <1>1, <1>2, <1>3, BeginHolds

LEMMA QueryHolds ==
    ASSUME BrowserInv, NEW p \in Pages, Query(p)
    PROVE  BrowserInv'
<1> DEFINE out == [sent[p] EXCEPT !.queries = {pages[p].token}]
<1>1. /\ pages[p].user # Nothing
      /\ sent' = [sent EXCEPT ![p] = out]
      /\ UNCHANGED <<server, storage, pages, auth, crossed>>
  BY OnePage DEF Query, Authenticated
<1>2. SessionHolds(pages[p], auth[p], sent[p], crossed[p], server)
  BY OnePage
<1>3. /\ pages[p].token \in 0..Len(server) /\ Len(server) \in Nat
      /\ sent[p] \in SentRecord /\ pages[p].token \in Nat
  BY OnePage, <1>2 DEF SessionHolds, CallHolds, PageRecord
<1>4. /\ out \in SentRecord /\ out.queries = {pages[p].token}
      /\ out.listings = sent[p].listings /\ out.projects = sent[p].projects
  BY <1>3 DEF SentRecord
<1> HIDE DEF out
<1>5. FirmHolds(pages[p], auth[p], out, crossed[p])
  BY <1>2, <1>4 DEF SessionHolds, FirmHolds
<1>6. CacheHolds(pages[p], auth[p], out, crossed[p], server)
  <2> SUFFICES ASSUME auth[p].stage # "me", crossed[p] \cap {"half", "revived", "cached"} = {}
               PROVE  /\ pages[p].cache \in {Nothing, pages[p].user[2]}
                      /\ \A n \in out.queries :
                           n \in 1..Len(server) /\ server[n].scope[2] = pages[p].user[2]
    BY DEF CacheHolds
  <2>1. pages[p].cache \in {Nothing, pages[p].user[2]}
    BY <1>1, <1>2 DEF SessionHolds, CacheHolds
  <2>2. pages[p].user = IF pages[p].token = 0 THEN Nothing ELSE server[pages[p].token].scope
    BY <1>2 DEF SessionHolds, UserHolds
  <2>3. pages[p].token \in 1..Len(server) /\ server[pages[p].token].scope = pages[p].user
    BY <1>1, <1>3, <2>2
  <2> QED
    BY <1>4, <2>1, <2>3
<1>7. SessionHolds(pages[p], auth[p], out, crossed[p], server)
  BY <1>2, <1>5, <1>6 DEF SessionHolds
<1>8. IssuedOnly(out, server)
  BY <1>3, <1>4, OnePage DEF IssuedOnly
<1>9. /\ pages' = [pages EXCEPT ![p] = pages[p]] /\ auth' = [auth EXCEPT ![p] = auth[p]]
      /\ crossed' = [crossed EXCEPT ![p] = crossed[p]]
      /\ pages[p] \in PageRecord /\ auth[p] \in CallRecord /\ crossed[p] \in SUBSET Ways
      /\ storage' \in 0..Len(server) /\ UNCHANGED server
  BY <1>1, OnePage
<1> QED
  BY <1>1, <1>4, <1>7, <1>8, <1>9, OnePageSteps
-----------------------------------------------------------------------------
\* Nobody is there: nothing is said of what the page still shows.
LEMMA NobodyThere ==
    ASSUME NEW page, NEW call, NEW out, NEW how, NEW srv, page.token = 0, page.user = Nothing,
           CallHolds(page, call, srv)
    PROVE  SessionHolds(page, call, out, how, srv)
BY DEF SessionHolds, SwitchHolds, UserHolds, FirmHolds, CacheHolds

\* A call is over that has left the page as it was.
LEMMA CallIsOver ==
    ASSUME NEW page, NEW call, NEW out, NEW how, NEW srv, Len(srv) \in Nat,
           SessionHolds(page, call, out, how, srv), call.stage # "me", call.kind # "refresh"
    PROVE  SessionHolds(page, NoAuth, out, how, srv)
<1>1. CallHolds(page, NoAuth, srv)
  BY BrowserBlanks DEF SessionHolds, CallHolds
<1>2. SwitchHolds(page, NoAuth, how, srv)
  BY BrowserBlanks DEF SwitchHolds
<1>3. UserHolds(page, NoAuth, how, srv) /\ FirmHolds(page, NoAuth, out, how)
  BY DEF SessionHolds, UserHolds, FirmHolds
<1>4. CacheHolds(page, NoAuth, out, how, srv)
  BY DEF SessionHolds, CacheHolds
<1> QED
  BY <1>1, <1>2, <1>3, <1>4 DEF SessionHolds

\* What a page holds after a step by which its ways were only more.
LEMMA MoreWays ==
    ASSUME NEW page, NEW call, NEW out, NEW how, NEW more, NEW srv, how \subseteq more,
           SessionHolds(page, call, out, how, srv)
    PROVE  SessionHolds(page, call, out, more, srv)
<1>1. SwitchHolds(page, call, more, srv) /\ UserHolds(page, call, more, srv)
  BY DEF SessionHolds, SwitchHolds, UserHolds
<1>2. FirmHolds(page, call, out, more)
  BY DEF SessionHolds, FirmHolds
<1>3. CacheHolds(page, call, out, more, srv)
  BY DEF SessionHolds, CacheHolds
<1> QED
  BY <1>1, <1>2, <1>3 DEF SessionHolds

\* A page without its user.
LEMMA SignsOut ==
    ASSUME NEW page \in PageRecord
    PROVE  /\ SignedOut(page) \in PageRecord
           /\ SignedOut(page).token = 0 /\ SignedOut(page).user = Nothing
           /\ SignedOut(page).loading = page.loading
           /\ [SignedOut(page) EXCEPT !.loading = FALSE] \in PageRecord
           /\ [SignedOut(page) EXCEPT !.loading = FALSE].token = 0
           /\ [SignedOut(page) EXCEPT !.loading = FALSE].user = Nothing
           /\ ~[SignedOut(page) EXCEPT !.loading = FALSE].loading
BY DEF SignedOut, PageRecord, ScopeOrNothing

\* The server has issued or ended pairs, for the call of one page.
LEMMA ServerSteps ==
    ASSUME BrowserInv, NEW p \in Pages, NEW call \in CallRecord, NEW more \in Seq(PairRecord),
           Len(more) <= MaxSessions, Extends(server, more),
           server' = more, auth' = [auth EXCEPT ![p] = call],
           UNCHANGED <<storage, pages, sent, crossed>>,
           SessionHolds(pages[p], call, sent[p], crossed[p], more)
    PROVE  BrowserInv'
<1>1. Len(server) \in Nat /\ Len(more) \in Nat /\ storage \in 0..Len(server)
  BY OnePage
<1>2. BrowserTypes'
  <2>1. storage' \in 0..Len(server')
    BY <1>1 DEF Extends
  <2>2. auth' \in [Pages -> CallRecord]
    BY DEF BrowserInv, BrowserTypes
  <2>3. \A q \in Pages : IssuedOnly(sent[q], more)
    BY <1>1 DEF BrowserInv, BrowserTypes, IssuedOnly, Extends
  <2> QED
    BY <2>1, <2>2, <2>3 DEF BrowserInv, BrowserTypes
<1>3. PagesHold'
  <2> SUFFICES ASSUME NEW q \in Pages
               PROVE  SessionHolds(pages[q], auth'[q], sent[q], crossed[q], more)
    BY DEF PagesHold
  <2>1. CASE q = p
    BY <2>1 DEF BrowserInv, BrowserTypes
  <2>2. CASE q # p
    <3>1. auth'[q] = auth[q]
      BY <2>2 DEF BrowserInv, BrowserTypes
    <3>2. SessionHolds(pages[q], auth[q], sent[q], crossed[q], server)
      BY DEF BrowserInv, PagesHold
    <3> QED
      BY <1>1, <3>1, <3>2, MoreSessions
  <2> QED
    BY <2>1, <2>2
<1> QED
  BY <1>2, <1>3 DEF BrowserInv

\* A token is used up or expires: who it is for stays.
LEMMA PairEnds ==
    ASSUME BrowserInv, NEW n \in 1..Len(server), NEW pair \in PairRecord,
           pair.scope = server[n].scope
    PROVE  /\ [server EXCEPT ![n] = pair] \in Seq(PairRecord)
           /\ Len([server EXCEPT ![n] = pair]) = Len(server)
           /\ Extends(server, [server EXCEPT ![n] = pair])
<1>1. server \in Seq(PairRecord) /\ Len(server) \in Nat
  BY DEF BrowserInv, BrowserTypes
<1>2. [server EXCEPT ![n] = pair] \in Seq(PairRecord)
  BY <1>1
<1>3. Len([server EXCEPT ![n] = pair]) = Len(server)
  BY <1>1
<1>4. \A m \in 1..Len(server) : [server EXCEPT ![n] = pair][m].scope = server[m].scope
  BY <1>1
<1> QED
  BY <1>1, <1>2, <1>3, <1>4 DEF Extends

LEMMA ExpiryHolds ==
    ASSUME BrowserInv, NEW n \in DOMAIN server, TokenExpires(n)
    PROVE  BrowserInv'
<1> DEFINE pair == [server[n] EXCEPT !.access = FALSE]
           more == [server EXCEPT ![n] = pair]
<1>1. n \in 1..Len(server) /\ server[n] \in PairRecord /\ Len(server) \in Nat
      /\ Len(server) <= MaxSessions /\ server \in Seq(PairRecord)
  BY DEF BrowserInv, BrowserTypes
<1>2. pair \in PairRecord /\ pair.scope = server[n].scope
  BY <1>1 DEF PairRecord
<1>3. server' = more /\ UNCHANGED <<storage, pages, auth, sent, crossed>>
  BY <1>1 DEF TokenExpires
<1> HIDE DEF pair
<1>4. more \in Seq(PairRecord) /\ Len(more) = Len(server) /\ Extends(server, more)
  BY <1>1, <1>2, PairEnds
<1> HIDE DEF more
<1>5. BrowserTypes'
  BY <1>1, <1>3, <1>4 DEF BrowserInv, BrowserTypes, IssuedOnly
<1>6. ASSUME NEW q \in Pages
      PROVE  SessionHolds(pages[q], auth[q], sent[q], crossed[q], more)
  <2>1. SessionHolds(pages[q], auth[q], sent[q], crossed[q], server)
    BY DEF BrowserInv, PagesHold
  <2> QED
    BY <1>1, <1>4, <2>1, MoreSessions
<1> QED
  BY <1>3, <1>5, <1>6 DEF BrowserInv, PagesHold

LEMMA LoseHolds ==
    ASSUME BrowserInv, NEW p \in Pages, Lose(p)
    PROVE  BrowserInv'
<1> DEFINE call == [auth[p] EXCEPT !.stage = "failed"]
<1>1. /\ auth' = [auth EXCEPT ![p] = call] /\ auth[p].stage = "answered"
      /\ UNCHANGED <<server, storage, pages, sent, crossed>>
  BY OnePage DEF Lose
<1>2. SessionHolds(pages[p], auth[p], sent[p], crossed[p], server) /\ auth[p] \in CallRecord
  BY OnePage
<1>3. /\ call \in CallRecord /\ call.stage = "failed" /\ call.kind = auth[p].kind
      /\ call.uses = auth[p].uses /\ call.gets = auth[p].gets /\ call.scope = auth[p].scope
  BY <1>2 DEF CallRecord, AuthStages
<1> HIDE DEF call
<1>4. CallHolds(pages[p], call, server)
  BY <1>1, <1>2, <1>3 DEF SessionHolds, CallHolds
<1>5. SwitchHolds(pages[p], call, crossed[p], server)
  BY <1>3 DEF SwitchHolds
<1>6. UserHolds(pages[p], call, crossed[p], server)
  BY <1>1, <1>2 DEF SessionHolds, UserHolds
<1>7. FirmHolds(pages[p], call, sent[p], crossed[p])
  BY <1>1, <1>2 DEF SessionHolds, FirmHolds
<1>8. CacheHolds(pages[p], call, sent[p], crossed[p], server)
  BY <1>1, <1>2 DEF SessionHolds, CacheHolds
<1>9. SessionHolds(pages[p], call, sent[p], crossed[p], server)
  BY <1>4, <1>5, <1>6, <1>7, <1>8 DEF SessionHolds
<1> QED
  BY <1>1, <1>3, <1>9, OnePage, OnePageSteps

\* applySession: the new pair waits for its user.
LEMMA SessionArrivesHolds ==
    ASSUME BrowserInv, NEW p \in Pages, SessionArrives(p)
    PROVE  BrowserInv'
<1> DEFINE call == [auth[p] EXCEPT !.stage = "me"]
           page == [pages[p] EXCEPT !.token = auth[p].gets]
<1>1. /\ pages' = [pages EXCEPT ![p] = page] /\ auth' = [auth EXCEPT ![p] = call]
      /\ auth[p].stage = "answered" /\ auth[p].kind # "logout"
      /\ storage' = auth[p].gets /\ UNCHANGED <<server, sent, crossed>>
  BY OnePage DEF SessionArrives
<1>2. SessionHolds(pages[p], auth[p], sent[p], crossed[p], server)
  BY OnePage
<1>3. /\ pages[p] \in PageRecord /\ auth[p] \in CallRecord
      /\ auth[p].gets \in 0..Len(server) /\ auth[p].gets \in Nat
  BY <1>2, OnePage DEF SessionHolds, CallHolds, CallRecord
<1>4. /\ call \in CallRecord /\ call.stage = "me" /\ call.kind = auth[p].kind
      /\ call.uses = auth[p].uses /\ call.gets = auth[p].gets /\ call.scope = auth[p].scope
  BY <1>3 DEF CallRecord, AuthStages
<1>5. /\ page \in PageRecord /\ page.token = auth[p].gets
      /\ page.user = pages[p].user /\ page.loading = pages[p].loading
      /\ page.listed = pages[p].listed /\ page.organization = pages[p].organization
      /\ page.projects = pages[p].projects
  BY <1>3 DEF PageRecord
<1> HIDE DEF call, page
<1>6. CallHolds(page, call, server)
  BY <1>1, <1>2, <1>3, <1>4, <1>5 DEF SessionHolds, CallHolds
<1>7. SwitchHolds(page, call, crossed[p], server)
  BY <1>1, <1>2, <1>4, <1>5 DEF SessionHolds, SwitchHolds
<1>8. UserHolds(page, call, crossed[p], server) /\ CacheHolds(page, call, sent[p], crossed[p], server)
  BY <1>4 DEF UserHolds, CacheHolds
<1>9. FirmHolds(page, call, sent[p], crossed[p])
  BY <1>2, <1>4, <1>5 DEF SessionHolds, FirmHolds
<1>10. SessionHolds(page, call, sent[p], crossed[p], server)
  BY <1>6, <1>7, <1>8, <1>9 DEF SessionHolds
<1> QED
  BY <1>1, <1>3, <1>4, <1>5, <1>10, OnePage, OnePageSteps

\* The server answers the call of a page: it issues a pair, ends one, or refuses.
LEMMA HandleHolds ==
    ASSUME BrowserInv, NEW p \in Pages, Handle(p)
    PROVE  BrowserInv'
<1> DEFINE n == auth[p].uses
           used == [server[n] EXCEPT !.refresh = "used"]
           ends == IF n = 0 \/ auth[p].kind = "switch" THEN server
                   ELSE [server EXCEPT ![n] = used]
           scope == CASE auth[p].kind = "refresh" -> Who(n)
                      [] auth[p].kind = "switch" -> <<Who(n)[1], auth[p].scope[2]>>
                      [] OTHER -> auth[p].scope
           granted == [auth[p] EXCEPT !.stage = "answered", !.gets = Len(server) + 1]
           answered == [auth[p] EXCEPT !.stage = "answered"]
           failed == [auth[p] EXCEPT !.stage = "failed"]
<1>1. /\ auth[p] \in CallRecord /\ auth[p].stage = "sent"
      /\ SessionHolds(pages[p], auth[p], sent[p], crossed[p], server)
      /\ server \in Seq(PairRecord) /\ Len(server) \in Nat /\ Len(server) <= MaxSessions
      /\ n \in 0..Len(server)
      /\ \A m \in 1..Len(server) : server[m] \in PairRecord /\ Who(m) \in Members
  BY OnePage DEF Handle, BrowserInv, BrowserTypes, SessionHolds, CallHolds
<1>2. ends \in Seq(PairRecord) /\ Len(ends) = Len(server) /\ Extends(server, ends)
  <2>1. CASE n = 0 \/ auth[p].kind = "switch"
    BY <1>1, <2>1 DEF Extends
  <2>2. CASE n # 0 /\ auth[p].kind # "switch"
    <3>1. n \in 1..Len(server) /\ used \in PairRecord /\ used.scope = server[n].scope
      BY <1>1, <2>2 DEF PairRecord
    <3>2. ends = [server EXCEPT ![n] = used]
      BY <2>2
    <3> HIDE DEF used, ends, n
    <3> QED
      BY <3>1, <3>2, PairEnds
  <2> QED
    BY <2>1, <2>2
<1>3. /\ UNCHANGED <<storage, pages, sent, crossed>>
      /\ \/ /\ Grants(auth[p]) /\ Len(server) < MaxSessions
            /\ server' = Append(ends, Pair(scope)) /\ auth' = [auth EXCEPT ![p] = granted]
         \/ /\ auth[p].kind = "logout"
            /\ server' = ends /\ auth' = [auth EXCEPT ![p] = answered]
         \/ UNCHANGED server /\ auth' = [auth EXCEPT ![p] = failed]
  <2>1. n # 0 => [server EXCEPT ![n].refresh = "used"] = [server EXCEPT ![n] = used]
    BY <1>1
  <2> QED
    BY <1>1, <2>1 DEF Handle
<1>4. ASSUME NEW call \in CallRecord, call.kind = auth[p].kind, call.uses = auth[p].uses,
             call.scope = auth[p].scope, call.stage \in {"answered", "failed"},
             NEW more \in Seq(PairRecord), Len(more) <= MaxSessions, Extends(server, more),
             server' = more, auth' = [auth EXCEPT ![p] = call], call.gets \in 0..Len(more),
             call.stage = "answered" /\ call.kind # "logout" => call.gets # 0,
             call.stage = "answered" /\ call.kind = "switch" =>
                 more[call.gets].scope[1] = server[call.uses].scope[1]
      PROVE  BrowserInv'
  <2>1. Len(more) \in Nat
    BY <1>4
  <2>2. SessionHolds(pages[p], auth[p], sent[p], crossed[p], more)
    BY <1>1, <1>4, <2>1, MoreSessions
  <2>3. CallHolds(pages[p], call, more)
    BY <1>1, <1>4, <2>1, <2>2 DEF SessionHolds, CallHolds
  <2>4. SwitchHolds(pages[p], call, crossed[p], more)
    BY <1>1, <1>4 DEF SessionHolds, SwitchHolds
  <2>5. /\ UserHolds(pages[p], call, crossed[p], more)
        /\ FirmHolds(pages[p], call, sent[p], crossed[p])
    BY <1>1, <1>4, <2>2 DEF SessionHolds, UserHolds, FirmHolds
  <2>6. CacheHolds(pages[p], call, sent[p], crossed[p], more)
    BY <1>1, <1>4, <2>2 DEF SessionHolds, CacheHolds
  <2>7. SessionHolds(pages[p], call, sent[p], crossed[p], more)
    BY <2>3, <2>4, <2>5, <2>6 DEF SessionHolds
  <2> QED
    BY <1>3, <1>4, <2>7, ServerSteps
<1>5. /\ answered \in CallRecord /\ answered.stage = "answered" /\ answered.kind = auth[p].kind
      /\ answered.uses = auth[p].uses /\ answered.scope = auth[p].scope
      /\ answered.gets = auth[p].gets
  BY <1>1 DEF CallRecord, AuthStages
<1>6. /\ failed \in CallRecord /\ failed.stage = "failed" /\ failed.kind = auth[p].kind
      /\ failed.uses = auth[p].uses /\ failed.scope = auth[p].scope
      /\ failed.gets = auth[p].gets
  BY <1>1 DEF CallRecord, AuthStages
<1>7. /\ granted \in CallRecord /\ granted.stage = "answered" /\ granted.kind = auth[p].kind
       /\ granted.uses = auth[p].uses /\ granted.scope = auth[p].scope
       /\ granted.gets = Len(server) + 1
  <2> DEFINE next == Len(server) + 1
  <2>1. next \in Nat
    BY <1>1
  <2> HIDE DEF next
  <2>2. [auth[p] EXCEPT !.stage = "answered", !.gets = next] \in CallRecord
    BY <1>1, <2>1 DEF CallRecord, AuthStages
  <2>3. granted = [auth[p] EXCEPT !.stage = "answered", !.gets = next]
    BY DEF next
  <2>4. /\ granted.stage = "answered" /\ granted.kind = auth[p].kind
        /\ granted.uses = auth[p].uses /\ granted.scope = auth[p].scope
        /\ granted.gets = next
    BY <1>1, <2>3 DEF CallRecord
  <2> QED
    BY <2>2, <2>3, <2>4 DEF next
<1>8. auth[p].gets \in 0..Len(server)
  BY <1>1 DEF SessionHolds, CallHolds
<1>9. CASE Grants(auth[p]) /\ Len(server) < MaxSessions /\ server' = Append(ends, Pair(scope))
           /\ auth' = [auth EXCEPT ![p] = granted]
  <2> DEFINE more == Append(ends, Pair(scope))
  <2>1. /\ scope \in Members
        /\ auth[p].kind = "switch" => n \in 1..Len(server) /\ scope[1] = Who(n)[1]
    <3>1. CASE auth[p].kind = "refresh"
      <4>1. n \in 1..Len(server)
        BY <1>1, <3>1 DEF SessionHolds, CallHolds
      <4> QED
        BY <1>1, <3>1, <4>1
    <3>2. CASE auth[p].kind = "switch"
      <4>1. Valid(n) /\ <<Who(n)[1], auth[p].scope[2]>> \in Members
        BY <1>9, <3>2 DEF Grants
      <4>2. n \in 1..Len(server)
        BY <1>1, <4>1 DEF Valid
      <4> QED
        BY <3>2, <4>1, <4>2
    <3>3. CASE auth[p].kind \notin {"refresh", "switch"}
      <4>1. auth[p].kind = "login"
        BY <1>9, <3>3 DEF Grants
      <4> QED
        BY <1>1, <3>3, <4>1 DEF SessionHolds, CallHolds
    <3> QED
      BY <3>1, <3>2, <3>3
  <2> HIDE DEF scope, ends
  <2>2. Pair(scope) \in PairRecord /\ Pair(scope).scope = scope
    BY <2>1 DEF Pair, PairRecord
  <2>3. /\ more \in Seq(PairRecord) /\ Len(more) = Len(server) + 1
        /\ more[Len(server) + 1] = Pair(scope)
        /\ \A m \in 1..Len(server) : more[m] = ends[m]
    BY <1>1, <1>2, <2>2
  <2>4. Extends(server, more)
    BY <1>1, <1>2, <2>3 DEF Extends
  <2>5. Len(more) <= MaxSessions /\ granted.gets \in 0..Len(more) /\ granted.gets # 0
    BY <1>1, <1>7, <1>9, <2>3, BrowserConstants
  <2>6. granted.kind = "switch" => more[granted.gets].scope[1] = server[granted.uses].scope[1]
    BY <1>7, <2>1, <2>2, <2>3 DEF Who
  <2>7. server' = more
    BY <1>9
  <2> HIDE DEF more, granted, n
  <2> QED
    BY <1>4, <1>7, <1>9, <2>3, <2>4, <2>5, <2>6, <2>7
<1>10. CASE auth[p].kind = "logout" /\ server' = ends /\ auth' = [auth EXCEPT ![p] = answered]
  <2> HIDE DEF ends, answered
  <2> QED
    BY <1>1, <1>2, <1>4, <1>5, <1>8, <1>10
<1>11. CASE UNCHANGED server /\ auth' = [auth EXCEPT ![p] = failed]
  <2>1. Extends(server, server)
    BY <1>1 DEF Extends
  <2> HIDE DEF failed
  <2> QED
    BY <1>1, <1>4, <1>6, <1>8, <1>11, <2>1
<1> QED
  BY <1>3, <1>9, <1>10, <1>11

\* The session of a page is gone, for an answer 401 or because its call ends it.
LEMMA GoneHolds ==
    ASSUME BrowserInv, NEW p \in Pages, UNCHANGED <<server, crossed>>, storage' = 0,
           NEW page \in PageRecord, page.token = 0, page.user = Nothing,
           pages' = [pages EXCEPT ![p] = page],
           NEW call \in CallRecord, auth' = [auth EXCEPT ![p] = call],
           page.loading => call.kind = "refresh",
           call = NoAuth \/ call = auth[p],
           NEW out \in SentRecord, sent' = [sent EXCEPT ![p] = out], IssuedOnly(out, server)
    PROVE  BrowserInv'
<1>1. CallHolds(pages[p], auth[p], server) /\ Len(server) \in Nat
  BY OnePage DEF SessionHolds
<1>2. CallHolds(page, call, server)
  <2>1. CASE call = NoAuth
    BY <1>1, <2>1, BrowserBlanks DEF CallHolds
  <2>2. CASE call = auth[p]
    BY <1>1, <2>2 DEF CallHolds
  <2> QED
    BY <2>1, <2>2
<1>3. SessionHolds(page, call, out, crossed[p], server)
  BY <1>2, NobodyThere
<1>4. storage' \in 0..Len(server) /\ crossed[p] \in SUBSET Ways
      /\ crossed' = [crossed EXCEPT ![p] = crossed[p]]
  BY <1>1, OnePage
<1> QED
  BY <1>3, <1>4, OnePageSteps

\* A page is left with half a session: nothing more is said of it.
LEMMA HalfHolds ==
    ASSUME BrowserInv, NEW p \in Pages, UNCHANGED <<server, storage, pages>>,
           Crosses(p, {"half"}),
           NEW call \in CallRecord, auth' = [auth EXCEPT ![p] = call],
           CallHolds(pages[p], call, server),
           NEW out \in SentRecord, sent' = [sent EXCEPT ![p] = out], IssuedOnly(out, server)
    PROVE  BrowserInv'
<1> DEFINE how == crossed[p] \cup {"half"}
<1>1. crossed' = [crossed EXCEPT ![p] = how] /\ how \in SUBSET Ways /\ "half" \in how
  BY OnePage DEF Crosses, Ways
<1> HIDE DEF how
<1>2. SessionHolds(pages[p], call, out, how, server)
  BY <1>1 DEF SessionHolds, SwitchHolds, UserHolds, FirmHolds, CacheHolds
<1> QED
  BY <1>1, <1>2, OnePage, OnePageSteps

LEMMA SessionFailsHolds ==
    ASSUME BrowserInv, NEW p \in Pages, SessionFails(p)
    PROVE  BrowserInv'
<1>1. /\ auth[p].stage = "failed" /\ auth[p].kind # "logout"
      /\ auth' = [auth EXCEPT ![p] = NoAuth] /\ UNCHANGED <<server, sent>>
  BY DEF SessionFails, Ends
<1>2. /\ pages[p] \in PageRecord /\ Len(server) \in Nat
      /\ sent[p] \in SentRecord /\ sent = [sent EXCEPT ![p] = sent[p]]
      /\ IssuedOnly(sent[p], server) /\ NoAuth \in CallRecord
      /\ SessionHolds(pages[p], auth[p], sent[p], crossed[p], server)
      /\ pages[p].loading => auth[p].kind = "refresh"
  BY OnePage, BrowserBlanks DEF SessionHolds, CallHolds
<1> DEFINE gone == SignedOut(pages[p])
           still == [gone EXCEPT !.loading = FALSE]
<1>3. /\ gone \in PageRecord /\ gone.token = 0 /\ gone.user = Nothing
      /\ gone.loading = pages[p].loading
      /\ still \in PageRecord /\ still.token = 0 /\ still.user = Nothing /\ ~still.loading
  BY <1>2, SignsOut
<1>4. CASE /\ auth[p].kind = "refresh" /\ storage' = 0 /\ UNCHANGED crossed
           /\ pages' = [pages EXCEPT ![p] = [SignedOut(@) EXCEPT !.loading = FALSE]]
  <2>1. pages' = [pages EXCEPT ![p] = still]
    BY <1>4, OnePage
  <2> HIDE DEF gone, still
  <2> QED
    BY <1>1, <1>2, <1>3, <1>4, <2>1, GoneHolds
<1>5. CASE auth[p].kind = "switch" /\ Expired(p)
  <2>1. pages' = [pages EXCEPT ![p] = gone] /\ storage' = 0 /\ UNCHANGED crossed
    BY <1>5, OnePage DEF Expired
  <2> HIDE DEF gone, still
  <2> QED
    BY <1>1, <1>2, <1>3, <1>5, <2>1, GoneHolds
<1>6. CASE auth[p].kind # "refresh" /\ UNCHANGED <<pages, storage, crossed>>
  <2>1. SessionHolds(pages[p], NoAuth, sent[p], crossed[p], server)
    BY <1>1, <1>2, <1>6, CallIsOver
  <2> QED
    BY <1>1, <1>2, <1>6, <2>1, OnePage, OnePageSteps
<1> QED
  BY <1>4, <1>5, <1>6 DEF SessionFails

LEMMA UserFailsHolds ==
    ASSUME BrowserInv, NEW p \in Pages, UserFails(p)
    PROVE  BrowserInv'
<1>1. /\ auth[p].stage = "me"
      /\ auth' = [auth EXCEPT ![p] = NoAuth] /\ UNCHANGED <<server, sent>>
  BY DEF UserFails, Ends
<1>2. /\ pages[p] \in PageRecord /\ Len(server) \in Nat
      /\ sent[p] \in SentRecord /\ sent = [sent EXCEPT ![p] = sent[p]]
      /\ IssuedOnly(sent[p], server) /\ NoAuth \in CallRecord
      /\ CallHolds(pages[p], auth[p], server)
      /\ pages[p].loading => auth[p].kind = "refresh"
  BY OnePage, BrowserBlanks DEF SessionHolds, CallHolds
<1> DEFINE gone == SignedOut(pages[p])
           still == [gone EXCEPT !.loading = FALSE]
<1>3. /\ gone \in PageRecord /\ gone.token = 0 /\ gone.user = Nothing
      /\ gone.loading = pages[p].loading
      /\ still \in PageRecord /\ still.token = 0 /\ still.user = Nothing /\ ~still.loading
  BY <1>2, SignsOut
<1>4. CASE /\ auth[p].kind = "refresh" /\ storage' = 0 /\ UNCHANGED crossed
           /\ pages' = [pages EXCEPT ![p] = [SignedOut(@) EXCEPT !.loading = FALSE]]
  <2>1. pages' = [pages EXCEPT ![p] = still]
    BY <1>4, OnePage
  <2> HIDE DEF gone, still
  <2> QED
    BY <1>1, <1>2, <1>3, <1>4, <2>1, GoneHolds
<1>5. CASE auth[p].kind # "refresh" /\ Expired(p)
  <2>1. pages' = [pages EXCEPT ![p] = gone] /\ storage' = 0 /\ UNCHANGED crossed
    BY <1>5, OnePage DEF Expired
  <2> HIDE DEF gone, still
  <2> QED
    BY <1>1, <1>2, <1>3, <1>5, <2>1, GoneHolds
<1>6. CASE auth[p].kind # "refresh" /\ Crosses(p, {"half"}) /\ UNCHANGED <<pages, storage>>
  <2>1. CallHolds(pages[p], NoAuth, server)
    BY <1>2, <1>6, BrowserBlanks DEF CallHolds
  <2> QED
    BY <1>1, <1>2, <1>6, <2>1, HalfHolds
<1> QED
  BY <1>4, <1>5, <1>6 DEF UserFails

LEMMA LogoutEndsHolds ==
    ASSUME BrowserInv, NEW p \in Pages, LogoutEnds(p)
    PROVE  BrowserInv'
<1> DEFINE gone == SignedOut(pages[p])
<1>1. /\ auth[p].kind = "logout" /\ auth' = [auth EXCEPT ![p] = NoAuth]
      /\ pages' = [pages EXCEPT ![p] = gone] /\ storage' = 0
      /\ UNCHANGED <<server, sent, crossed>>
  BY OnePage DEF LogoutEnds, Ends
<1>2. /\ pages[p] \in PageRecord /\ sent[p] \in SentRecord /\ sent = [sent EXCEPT ![p] = sent[p]]
      /\ IssuedOnly(sent[p], server) /\ NoAuth \in CallRecord
      /\ ~pages[p].loading
  BY <1>1, OnePage, BrowserBlanks DEF SessionHolds, CallHolds
<1>3. gone \in PageRecord /\ gone.token = 0 /\ gone.user = Nothing /\ ~gone.loading
  BY <1>2, SignsOut
<1> HIDE DEF gone
<1> QED
  BY <1>1, <1>2, <1>3, GoneHolds

\* The user of a new pair arrives: the organization of a switch is looked up again, the
\* organizations are listed for whoever was not there before.
LEMMA UserArrivesHolds ==
    ASSUME BrowserInv, NEW p \in Pages, UserArrives(p)
    PROVE  BrowserInv'
<1> DEFINE old == pages[p]
           n == auth[p].gets
           named == [old EXCEPT !.user = Who(n), !.loading = FALSE]
           firm == IF auth[p].kind = "switch" THEN Rederived(p, named) ELSE old.organization
           new == [named EXCEPT !.organization = firm]
           shown == IF firm = Nothing THEN Nothing ELSE old.projects
           page == [new EXCEPT !.projects = shown]
           listings == IF Authenticated(new) /\ ~new.loading /\ ~(Authenticated(old) /\ ~old.loading)
                       THEN sent[p].listings \cup {old.token} ELSE sent[p].listings
           projects == IF firm \notin {Nothing, old.organization}
                       THEN sent[p].projects \cup {<<firm, old.token>>} ELSE sent[p].projects
           out == [sent[p] EXCEPT !.listings = listings, !.projects = projects]
           ways == (IF old.token # n THEN {"revived"} ELSE {})
                   \cup (IF old.cache \notin {Nothing, Who(n)[2]} \/ sent[p].queries # {}
                         THEN {"cached"} ELSE {})
           how == crossed[p] \cup ways
<1>1. /\ old \in PageRecord /\ auth[p] \in CallRecord /\ sent[p] \in SentRecord
      /\ crossed[p] \in SUBSET Ways /\ Len(server) \in Nat /\ IssuedOnly(sent[p], server)
      /\ SessionHolds(old, auth[p], sent[p], crossed[p], server)
      /\ \A m \in 1..Len(server) : Who(m) \in Members
  BY OnePage
<1>2. /\ auth[p].stage = "me" /\ n \in 1..Len(server) /\ Who(n) \in Members
      /\ old.token \in 0..Len(server) /\ old.token \in Nat
      /\ auth[p].kind \in {"login", "refresh", "switch"}
      /\ old.loading => auth[p].kind = "refresh"
      /\ auth[p].kind # "switch" => old.user = Nothing
  <2>1. auth[p].stage = "me"
    BY DEF UserArrives
  <2>2. /\ n \in 0..Len(server) /\ auth[p].kind \in AuthKinds /\ old.token \in 0..Len(server)
        /\ auth[p].kind # "none" /\ auth[p].kind # "logout"
    BY <1>1, <2>1 DEF SessionHolds, CallHolds, CallRecord
  <2>3. n # 0 /\ (old.loading => auth[p].kind = "refresh")
        /\ (auth[p].kind \in {"login", "refresh"} => old.user = Nothing)
    BY <1>1, <2>1, <2>2 DEF SessionHolds, CallHolds
  <2>4. auth[p].kind \in {"login", "refresh", "switch"}
    BY <2>2 DEF AuthKinds
  <2>5. n \in 1..Len(server)
    BY <1>1, <2>2, <2>3
  <2> QED
    BY <1>1, <2>1, <2>2, <2>3, <2>4, <2>5
<1>3. Who(n)[1] \in Persons /\ Who(n)[2] \in Firms /\ Who(n) = <<Who(n)[1], Who(n)[2]>>
  BY <1>2, BrowserConstants
<1>4. /\ named \in PageRecord /\ named.user = Who(n) /\ ~named.loading
      /\ named.token = old.token /\ named.listed = old.listed /\ named.cache = old.cache
      /\ named.organization = old.organization /\ named.projects = old.projects
  BY <1>1, <1>2 DEF PageRecord, ScopeOrNothing
<1>5. firm \in FirmOrNothing
  <2>1. \A m \in 1..Len(server) : Who(m)[2] \in Firms
    BY <1>1, BrowserConstants
  <2>2. named.token # 0 => Who(named.token)[2] \in Firms
    BY <1>1, <1>2, <1>4, <2>1
  <2>3. Rederived(p, named) \in FirmOrNothing
    BY <2>2 DEF Rederived, FirmOrNothing
  <2> QED
    BY <1>1, <2>3 DEF PageRecord
<1> HIDE DEF named
<1>6. auth[p].kind = "switch" =>
        firm = IF old.token # 0 /\ <<old.listed, Who(old.token)[2]>> \in Members
               THEN Who(old.token)[2] ELSE Nothing
  BY <1>4 DEF Rederived
<1>7. auth[p].kind # "switch" => firm = old.organization
  OBVIOUS
<1> HIDE DEF firm
<1>8. /\ new \in PageRecord /\ new.user = Who(n) /\ ~new.loading
      /\ new.token = old.token /\ new.listed = old.listed /\ new.cache = old.cache
      /\ new.organization = firm /\ new.projects = old.projects
  BY <1>4, <1>5 DEF PageRecord
<1>9. (IF auth[p].kind = "switch" THEN [named EXCEPT !.organization = Rederived(p, named)]
       ELSE named) = new
  BY <1>4 DEF firm, PageRecord
<1> HIDE DEF new
<1>10. shown \in FirmOrNothing
  BY <1>1 DEF PageRecord, FirmOrNothing
<1>11. page = IF new.organization = Nothing THEN [new EXCEPT !.projects = Nothing] ELSE new
  BY <1>8 DEF PageRecord
<1> HIDE DEF shown
<1>12. /\ page \in PageRecord /\ page.user = Who(n) /\ ~page.loading
       /\ page.token = old.token /\ page.listed = old.listed /\ page.cache = old.cache
       /\ page.organization = firm /\ page.projects = shown
  BY <1>8, <1>10 DEF PageRecord
<1> HIDE DEF page
<1>13. /\ AfterEffects(p, new) /\ Crosses(p, ways)
       /\ auth' = [auth EXCEPT ![p] = NoAuth] /\ UNCHANGED <<server, storage>>
  BY <1>9 DEF UserArrives, Ends, named, Authenticated
<1>14. listings \in SUBSET Nat /\ projects \in SUBSET (Firms \X Nat)
       /\ listings \subseteq sent[p].listings \cup {old.token}
  <2>1. sent[p].listings \in SUBSET Nat /\ sent[p].projects \in SUBSET (Firms \X Nat)
    BY <1>1 DEF SentRecord
  <2>2. firm # Nothing => firm \in Firms
    BY <1>5 DEF FirmOrNothing
  <2> QED
    BY <1>2, <2>1, <2>2
<1>15. /\ pages' = [pages EXCEPT ![p] = page]
       /\ sent' = [sent EXCEPT ![p] = out]
  <2>1. pages' = [pages EXCEPT ![p] = page]
    BY <1>11, <1>13 DEF AfterEffects
  <2>2. sent' = [sent EXCEPT ![p] = out]
    BY <1>8, <1>13 DEF AfterEffects
  <2> QED
    BY <2>1, <2>2
<1>16. (Authenticated(new) /\ ~new.loading) <=> Who(n) # Nothing
  BY <1>8 DEF Authenticated
<1>17. listings = {} /\ Who(n) # Nothing => sent[p].listings = {} /\ old.user # Nothing
  BY <1>16 DEF Authenticated
<1>18. projects = {} => sent[p].projects = {} /\ firm \in {Nothing, old.organization}
  OBVIOUS
<1> HIDE DEF listings, projects
<1>19. /\ out \in SentRecord /\ out.listings = listings /\ out.projects = projects
       /\ out.queries = sent[p].queries
  BY <1>1, <1>14 DEF SentRecord
<1>20. IssuedOnly(out, server)
  BY <1>1, <1>2, <1>14, <1>19 DEF IssuedOnly
<1>21. /\ crossed' = [crossed EXCEPT ![p] = how] /\ how \in SUBSET Ways
       /\ crossed[p] \subseteq how
       /\ "revived" \notin how => old.token = n
       /\ "cached" \notin how => old.cache \in {Nothing, Who(n)[2]} /\ sent[p].queries = {}
  BY <1>1, <1>13 DEF Crosses, Ways
<1> HIDE DEF out, how, ways
<1>22. CallHolds(page, NoAuth, server)
  BY <1>1, <1>2, <1>12, BrowserBlanks DEF CallHolds
<1>23. SwitchHolds(page, NoAuth, how, server)
  BY BrowserBlanks DEF SwitchHolds
<1>24. UserHolds(page, NoAuth, how, server)
  BY <1>1, <1>2, <1>12, <1>21 DEF UserHolds, Who
<1>25. FirmHolds(page, NoAuth, out, how)
  <2> SUFFICES ASSUME Who(n) # Nothing, listings = {},
                      how \cap {"half", "revived", "swapped"} = {}
               PROVE  /\ old.listed = Who(n)[1] /\ firm = Who(n)[2]
                      /\ projects = {} /\ "outrun" \notin how => shown = firm
    BY <1>12, <1>19 DEF FirmHolds
  <2>1. /\ old.token = n /\ crossed[p] \cap {"half", "revived", "swapped"} = {}
        /\ sent[p].listings = {} /\ old.user # Nothing /\ auth[p].kind = "switch"
    BY <1>2, <1>17, <1>21
  <2>2. old.listed = old.user[1] /\ Who(n)[1] = old.user[1]
    BY <1>1, <1>2, <2>1 DEF SessionHolds, FirmHolds, SwitchHolds, Who
  <2>3. firm = Who(n)[2]
    BY <1>2, <1>3, <1>6, <2>1, <2>2
  <2>4. ASSUME projects = {}, "outrun" \notin how
        PROVE  shown = firm
    <3>1. CASE firm = Nothing
      BY <3>1 DEF shown
    <3>2. CASE firm # Nothing
      <4>1. sent[p].projects = {} /\ firm = old.organization /\ "outrun" \notin crossed[p]
        BY <1>18, <1>21, <2>4, <3>2
      <4>2. old.projects = old.organization
        BY <1>1, <2>1, <4>1 DEF SessionHolds, FirmHolds
      <4> QED
        BY <3>2, <4>1, <4>2 DEF shown
    <3> QED
      BY <3>1, <3>2
  <2> QED
    BY <2>2, <2>3, <2>4
<1>26. CacheHolds(page, NoAuth, out, how, server)
  BY <1>12, <1>19, <1>21 DEF CacheHolds
<1>27. SessionHolds(page, NoAuth, out, how, server)
  BY <1>22, <1>23, <1>24, <1>25, <1>26 DEF SessionHolds
<1> QED
  BY <1>12, <1>13, <1>15, <1>19, <1>20, <1>21, <1>27, BrowserBlanks, OnePage, OnePageSteps

\* The list of the organizations arrives.
LEMMA ListingHolds ==
    ASSUME BrowserInv, NEW p \in Pages, NEW n \in SessionNumbers, ListingArrives(p, n)
    PROVE  BrowserInv'
<1>1. /\ pages[p] \in PageRecord /\ auth[p] \in CallRecord /\ sent[p] \in SentRecord
      /\ crossed[p] \in SUBSET Ways /\ Len(server) \in Nat /\ IssuedOnly(sent[p], server)
      /\ SessionHolds(pages[p], auth[p], sent[p], crossed[p], server)
      /\ \A m \in 1..Len(server) : Who(m) \in Members
  BY OnePage
<1> DEFINE person == Who(n)[1]
           firms == {f \in Firms : <<person, f>> \in Members}
           named == IF pages[p].token = 0 THEN {} ELSE {Who(pages[p].token)[2]} \cap firms
<1>2. PICK firm \in IF named = {} THEN firms ELSE named :
         /\ pages' = [pages EXCEPT ![p] = [pages[p] EXCEPT !.listed = person,
                                                           !.organization = firm]]
         /\ sent' = [sent EXCEPT ![p].listings = @ \ {n},
                                 ![p].projects = @ \cup {<<firm, pages[p].token>>}]
  BY DEF ListingArrives
<1>3. /\ n \in sent[p].listings /\ n # 0 /\ UNCHANGED <<server, storage, auth>>
      /\ Crosses(p, IF n # pages[p].token THEN {"swapped"} ELSE {})
  BY DEF ListingArrives, Valid
<1>4. n \in 1..Len(server) /\ Who(n) \in Members /\ pages[p].token \in Nat
      /\ pages[p].token \in 0..Len(server)
  BY <1>1, <1>3 DEF IssuedOnly, SessionHolds, CallHolds
<1>5. /\ person \in Persons /\ Who(n)[2] \in Firms /\ Who(n) = <<person, Who(n)[2]>>
  BY <1>4, BrowserConstants
<1>6. firm \in Firms /\ (pages[p].token = n => firm = Who(n)[2])
  <2>1. named \subseteq firms /\ firms \subseteq Firms
    OBVIOUS
  <2>2. pages[p].token = n => named = {Who(n)[2]}
    BY <1>3, <1>4, <1>5
  <2> QED
    BY <1>2, <2>1, <2>2
<1> DEFINE page == [pages[p] EXCEPT !.listed = person, !.organization = firm]
           listings == sent[p].listings \ {n}
           projects == sent[p].projects \cup {<<firm, pages[p].token>>}
           out == [sent[p] EXCEPT !.listings = listings, !.projects = projects]
           ways == IF n # pages[p].token THEN {"swapped"} ELSE {}
           how == crossed[p] \cup ways
<1>7. pages' = [pages EXCEPT ![p] = page] /\ sent' = [sent EXCEPT ![p] = out]
  BY <1>2
<1> HIDE DEF person, firms, named
<1>8. /\ page \in PageRecord /\ page.token = pages[p].token /\ page.user = pages[p].user
      /\ page.loading = pages[p].loading /\ page.listed = person
      /\ page.organization = firm /\ page.projects = pages[p].projects
      /\ page.cache = pages[p].cache
  BY <1>1, <1>5, <1>6 DEF PageRecord, FirmOrNothing
<1>9. /\ listings \in SUBSET Nat /\ projects \in SUBSET (Firms \X Nat)
      /\ listings \subseteq sent[p].listings /\ projects # {}
  <2>1. sent[p].listings \in SUBSET Nat /\ sent[p].projects \in SUBSET (Firms \X Nat)
    BY <1>1 DEF SentRecord
  <2>2. <<firm, pages[p].token>> \in Firms \X Nat
    BY <1>4, <1>6
  <2> QED
    BY <2>1, <2>2
<1> HIDE DEF page, listings, projects
<1>10. /\ out \in SentRecord /\ out.listings = listings /\ out.projects = projects
       /\ out.queries = sent[p].queries
  BY <1>1, <1>9 DEF SentRecord
<1>11. IssuedOnly(out, server)
  BY <1>1, <1>9, <1>10 DEF IssuedOnly
<1>12. /\ crossed' = [crossed EXCEPT ![p] = how] /\ how \in SUBSET Ways
       /\ crossed[p] \subseteq how /\ ("swapped" \notin how => n = pages[p].token)
  BY <1>1, <1>3 DEF Crosses, Ways
<1> HIDE DEF out, how, ways
<1>13. CallHolds(page, auth[p], server)
  BY <1>1, <1>8 DEF SessionHolds, CallHolds
<1>14. SwitchHolds(page, auth[p], how, server)
  BY <1>1, <1>8, <1>12 DEF SessionHolds, SwitchHolds
<1>15. UserHolds(page, auth[p], how, server)
  BY <1>1, <1>8, <1>12 DEF SessionHolds, UserHolds
<1>16. FirmHolds(page, auth[p], out, how)
  <2> SUFFICES ASSUME pages[p].user # Nothing, how \cap {"half", "revived", "swapped"} = {}
               PROVE  /\ person = pages[p].user[1]
                      /\ auth[p].stage # "me" => firm = pages[p].user[2]
    BY <1>8, <1>9, <1>10 DEF FirmHolds
  <2>1. n = pages[p].token /\ crossed[p] \cap {"half", "revived"} = {}
    BY <1>12
  <2>2. CASE auth[p].stage # "me"
    <3>1. pages[p].user = Who(n)
      BY <1>1, <1>3, <2>1, <2>2 DEF SessionHolds, UserHolds, Who
    <3> QED
      BY <1>6, <2>1, <3>1 DEF person
  <2>3. CASE auth[p].stage = "me"
    <3>1. auth[p].kind \in AuthKinds
      BY <1>1 DEF CallRecord
    <3>2. auth[p].kind = "switch"
      BY <1>1, <2>3, <3>1 DEF SessionHolds, CallHolds, AuthKinds
    <3>3. Who(auth[p].gets)[1] = pages[p].user[1] /\ pages[p].token = auth[p].gets
      BY <1>1, <2>1, <2>3, <3>2 DEF SessionHolds, SwitchHolds, Who
    <3> QED
      BY <2>1, <2>3, <3>3 DEF person
  <2> QED
    BY <2>2, <2>3
<1>17. CacheHolds(page, auth[p], out, how, server)
  BY <1>1, <1>8, <1>10, <1>12 DEF SessionHolds, CacheHolds
<1>18. SessionHolds(page, auth[p], out, how, server)
  BY <1>13, <1>14, <1>15, <1>16, <1>17 DEF SessionHolds
<1>19. auth' = [auth EXCEPT ![p] = auth[p]] /\ storage' \in 0..Len(server) /\ UNCHANGED server
  BY <1>3, OnePage
<1> QED
  BY <1>1, <1>7, <1>8, <1>10, <1>11, <1>12, <1>18, <1>19, OnePageSteps

\* The projects of an organization arrive.
LEMMA ProjectsHold ==
    ASSUME BrowserInv, NEW p \in Pages, NEW n \in SessionNumbers, NEW firm \in Firms,
           ProjectsArrive(p, firm, n)
    PROVE  BrowserInv'
<1>1. /\ pages[p] \in PageRecord /\ auth[p] \in CallRecord /\ sent[p] \in SentRecord
      /\ crossed[p] \in SUBSET Ways /\ IssuedOnly(sent[p], server)
      /\ SessionHolds(pages[p], auth[p], sent[p], crossed[p], server)
  BY OnePage
<1> DEFINE page == [pages[p] EXCEPT !.projects = firm]
           projects == sent[p].projects \ {<<firm, n>>}
           out == [sent[p] EXCEPT !.projects = projects]
           ways == IF firm # pages[p].organization THEN {"outrun"} ELSE {}
           how == crossed[p] \cup ways
<1>2. /\ pages' = [pages EXCEPT ![p] = page] /\ sent' = [sent EXCEPT ![p] = out]
      /\ Crosses(p, ways) /\ UNCHANGED <<server, storage, auth>>
  BY OnePage DEF ProjectsArrive
<1>3. /\ page \in PageRecord /\ page.token = pages[p].token /\ page.user = pages[p].user
      /\ page.loading = pages[p].loading /\ page.listed = pages[p].listed
      /\ page.organization = pages[p].organization /\ page.projects = firm
      /\ page.cache = pages[p].cache
  BY <1>1 DEF PageRecord, FirmOrNothing
<1>4. projects \in SUBSET (Firms \X Nat)
  BY <1>1 DEF SentRecord
<1> HIDE DEF page, projects
<1>5. /\ out \in SentRecord /\ out.listings = sent[p].listings /\ out.queries = sent[p].queries
  BY <1>1, <1>4 DEF SentRecord
<1>6. IssuedOnly(out, server)
  BY <1>1, <1>5 DEF IssuedOnly
<1>7. /\ crossed' = [crossed EXCEPT ![p] = how] /\ how \in SUBSET Ways
      /\ crossed[p] \subseteq how /\ ("outrun" \notin how => firm = pages[p].organization)
  BY <1>1, <1>2 DEF Crosses, Ways
<1> HIDE DEF out, how, ways
<1>8. CallHolds(page, auth[p], server)
  BY <1>1, <1>3 DEF SessionHolds, CallHolds
<1>9. SwitchHolds(page, auth[p], how, server)
  BY <1>1, <1>3, <1>7 DEF SessionHolds, SwitchHolds
<1>10. UserHolds(page, auth[p], how, server)
  BY <1>1, <1>3, <1>7 DEF SessionHolds, UserHolds
<1>11. FirmHolds(page, auth[p], out, how)
  BY <1>1, <1>3, <1>5, <1>7 DEF SessionHolds, FirmHolds
<1>12. CacheHolds(page, auth[p], out, how, server)
  BY <1>1, <1>3, <1>5, <1>7 DEF SessionHolds, CacheHolds
<1>13. SessionHolds(page, auth[p], out, how, server)
  BY <1>8, <1>9, <1>10, <1>11, <1>12 DEF SessionHolds
<1>14. auth' = [auth EXCEPT ![p] = auth[p]] /\ storage' \in 0..Len(server) /\ UNCHANGED server
  BY <1>2, OnePage
<1> QED
  BY <1>1, <1>2, <1>3, <1>5, <1>6, <1>7, <1>13, <1>14, OnePageSteps

\* The data of a query arrive.
LEMMA DataHold ==
    ASSUME BrowserInv, NEW p \in Pages, NEW n \in SessionNumbers, DataArrives(p, n)
    PROVE  BrowserInv'
<1>1. /\ pages[p] \in PageRecord /\ auth[p] \in CallRecord /\ sent[p] \in SentRecord
      /\ crossed[p] \in SUBSET Ways /\ IssuedOnly(sent[p], server) /\ Len(server) \in Nat
      /\ SessionHolds(pages[p], auth[p], sent[p], crossed[p], server)
      /\ \A m \in 1..Len(server) : Who(m) \in Members
  BY OnePage
<1> DEFINE firm == Who(n)[2]
           page == [pages[p] EXCEPT !.cache = firm]
           out == [sent[p] EXCEPT !.queries = {}]
<1>2. /\ pages' = [pages EXCEPT ![p] = page] /\ sent' = [sent EXCEPT ![p] = out]
      /\ n \in sent[p].queries /\ n # 0 /\ UNCHANGED <<server, storage, auth, crossed>>
  BY OnePage DEF DataArrives, Valid
<1>3. n \in 1..Len(server)
  BY <1>1, <1>2 DEF IssuedOnly
<1>4. firm \in Firms
  BY <1>1, <1>3, BrowserConstants
<1>5. firm = server[n].scope[2]
  BY DEF Who
<1> HIDE DEF firm
<1>6. /\ page \in PageRecord /\ page.token = pages[p].token /\ page.user = pages[p].user
      /\ page.loading = pages[p].loading /\ page.listed = pages[p].listed
      /\ page.organization = pages[p].organization /\ page.projects = pages[p].projects
      /\ page.cache = firm
  BY <1>1, <1>4 DEF PageRecord, FirmOrNothing
<1>7. /\ out \in SentRecord /\ out.listings = sent[p].listings
      /\ out.projects = sent[p].projects /\ out.queries = {}
  BY <1>1 DEF SentRecord
<1> HIDE DEF page, out
<1>8. IssuedOnly(out, server)
  BY <1>1, <1>7 DEF IssuedOnly
<1>9. CallHolds(page, auth[p], server)
  BY <1>1, <1>6 DEF SessionHolds, CallHolds
<1>10. /\ SwitchHolds(page, auth[p], crossed[p], server)
       /\ UserHolds(page, auth[p], crossed[p], server)
  BY <1>1, <1>6 DEF SessionHolds, SwitchHolds, UserHolds
<1>11. FirmHolds(page, auth[p], out, crossed[p])
  BY <1>1, <1>6, <1>7 DEF SessionHolds, FirmHolds
<1>12. CacheHolds(page, auth[p], out, crossed[p], server)
  BY <1>1, <1>2, <1>5, <1>6, <1>7 DEF SessionHolds, CacheHolds
<1>13. SessionHolds(page, auth[p], out, crossed[p], server)
  BY <1>9, <1>10, <1>11, <1>12 DEF SessionHolds
<1>14. /\ auth' = [auth EXCEPT ![p] = auth[p]] /\ crossed' = [crossed EXCEPT ![p] = crossed[p]]
       /\ storage' \in 0..Len(server) /\ UNCHANGED server
  BY <1>2, OnePage
<1> QED
  BY <1>1, <1>2, <1>6, <1>7, <1>8, <1>13, <1>14, OnePageSteps

\* A call other than those that change the session fails.
LEMMA CallFailsHolds ==
    ASSUME BrowserInv, NEW p \in Pages, CallFails(p)
    PROVE  BrowserInv'
<1>1. /\ pages[p] \in PageRecord /\ auth[p] \in CallRecord /\ sent[p] \in SentRecord
      /\ crossed[p] \in SUBSET Ways /\ IssuedOnly(sent[p], server)
      /\ SessionHolds(pages[p], auth[p], sent[p], crossed[p], server)
  BY OnePage
<1>2. PICK n \in SessionNumbers :
        /\ \/ /\ n \in sent[p].listings
              /\ sent' = [sent EXCEPT ![p].listings = @ \ {n}]
           \/ \E firm \in Firms :
                /\ <<firm, n>> \in sent[p].projects
                /\ sent' = [sent EXCEPT ![p].projects = @ \ {<<firm, n>>}]
           \/ /\ n \in sent[p].queries
              /\ sent' = [sent EXCEPT ![p].queries = {}]
        /\ IF n # 0 /\ ~Valid(n) THEN Expired(p)
           ELSE /\ Crosses(p, IF sent'[p].queries = sent[p].queries THEN {"half"} ELSE {})
                /\ UNCHANGED <<pages, storage>>
        /\ UNCHANGED <<server, auth, reloads>>
  BY DEF CallFails
<1>3. /\ auth' = [auth EXCEPT ![p] = auth[p]] /\ storage \in 0..Len(server)
      /\ pages = [pages EXCEPT ![p] = pages[p]] /\ UNCHANGED server
      /\ sent = [sent EXCEPT ![p] = sent[p]] /\ sent \in [Pages -> SentRecord]
      /\ CallHolds(pages[p], auth[p], server)
  BY <1>2, OnePage DEF SessionHolds, BrowserInv, BrowserTypes
\* Whatever has failed, the other calls of the page are still under way.
<1>4. ASSUME NEW out \in SentRecord, sent' = [sent EXCEPT ![p] = out], IssuedOnly(out, server),
             \/ out.queries = sent[p].queries
             \/ /\ out.queries = {} /\ n \in sent[p].queries
                /\ out.listings = sent[p].listings /\ out.projects = sent[p].projects
      PROVE  BrowserInv'
  <2> DEFINE gone == SignedOut(pages[p])
  <2>1. /\ gone \in PageRecord /\ gone.token = 0 /\ gone.user = Nothing
        /\ gone.loading = pages[p].loading
    BY <1>1, SignsOut
  <2>2. sent'[p] = out
    BY <1>3, <1>4
  <2>3. CASE n # 0 /\ ~Valid(n)
    <3>1. pages' = [pages EXCEPT ![p] = gone] /\ storage' = 0 /\ UNCHANGED crossed
      BY <1>2, <1>3, <2>3 DEF Expired
    <3>2. gone.loading => auth[p].kind = "refresh"
      BY <1>3, <2>1 DEF CallHolds
    <3> HIDE DEF gone
    <3> QED
      BY <1>1, <1>3, <1>4, <2>1, <3>1, <3>2, GoneHolds
  <2>4. CASE ~(n # 0 /\ ~Valid(n)) /\ out.queries = sent[p].queries
    <3>1. Crosses(p, {"half"}) /\ UNCHANGED <<server, storage, pages>>
      BY <1>2, <2>2, <2>4
    <3> QED
      BY <1>1, <1>3, <1>4, <3>1, HalfHolds
  <2>5. CASE ~(n # 0 /\ ~Valid(n)) /\ out.queries # sent[p].queries
    <3>1. Crosses(p, {}) /\ UNCHANGED <<server, storage, pages>>
      BY <1>2, <2>2, <2>5
    <3>2. crossed' = [crossed EXCEPT ![p] = crossed[p]] /\ crossed[p] \in SUBSET Ways
      BY <1>1, <3>1 DEF Crosses
    <3>3. /\ out.queries = {} /\ out.listings = sent[p].listings
          /\ out.projects = sent[p].projects
      BY <1>4, <2>5
    <3>4. FirmHolds(pages[p], auth[p], out, crossed[p])
      BY <1>1, <3>3 DEF SessionHolds, FirmHolds
    <3>5. CacheHolds(pages[p], auth[p], out, crossed[p], server)
      BY <1>1, <3>3 DEF SessionHolds, CacheHolds
    <3>6. SessionHolds(pages[p], auth[p], out, crossed[p], server)
      BY <1>1, <3>4, <3>5 DEF SessionHolds
    <3>7. pages' = [pages EXCEPT ![p] = pages[p]] /\ storage' \in 0..Len(server)
      BY <1>3, <3>1
    <3> QED
      BY <1>1, <1>3, <1>4, <3>2, <3>6, <3>7, OnePageSteps
  <2> QED
    BY <2>3, <2>4, <2>5
<1>5. CASE n \in sent[p].listings /\ sent' = [sent EXCEPT ![p].listings = @ \ {n}]
  <2> DEFINE listings == sent[p].listings \ {n}
             out == [sent[p] EXCEPT !.listings = listings]
  <2>1. listings \in SUBSET Nat /\ listings \subseteq sent[p].listings
    BY <1>1 DEF SentRecord
  <2>2. sent' = [sent EXCEPT ![p] = out]
    BY <1>5
  <2> HIDE DEF listings
  <2>3. /\ out \in SentRecord /\ out.listings = listings
        /\ out.queries = sent[p].queries
    BY <1>1, <2>1 DEF SentRecord
  <2>4. IssuedOnly(out, server)
    BY <1>1, <2>1, <2>3 DEF IssuedOnly
  <2> HIDE DEF out
  <2> QED
    BY <1>4, <2>2, <2>3, <2>4
<1>6. ASSUME NEW firm \in Firms, <<firm, n>> \in sent[p].projects,
             sent' = [sent EXCEPT ![p].projects = @ \ {<<firm, n>>}]
      PROVE  BrowserInv'
  <2> DEFINE projects == sent[p].projects \ {<<firm, n>>}
             out == [sent[p] EXCEPT !.projects = projects]
  <2>1. projects \in SUBSET (Firms \X Nat)
    BY <1>1 DEF SentRecord
  <2>2. sent' = [sent EXCEPT ![p] = out]
    BY <1>6
  <2> HIDE DEF projects
  <2>3. /\ out \in SentRecord /\ out.listings = sent[p].listings
        /\ out.queries = sent[p].queries
    BY <1>1, <2>1 DEF SentRecord
  <2>4. IssuedOnly(out, server)
    BY <1>1, <2>3 DEF IssuedOnly
  <2> HIDE DEF out
  <2> QED
    BY <1>4, <2>2, <2>3, <2>4
<1>7. CASE n \in sent[p].queries /\ sent' = [sent EXCEPT ![p].queries = {}]
  <2> DEFINE out == [sent[p] EXCEPT !.queries = {}]
  <2>1. sent' = [sent EXCEPT ![p] = out]
    BY <1>7
  <2>2. /\ out \in SentRecord /\ out.listings = sent[p].listings
        /\ out.projects = sent[p].projects /\ out.queries = {}
    BY <1>1 DEF SentRecord
  <2>3. IssuedOnly(out, server)
    BY <1>1, <2>2 DEF IssuedOnly
  <2> HIDE DEF out
  <2> QED
    BY <1>4, <1>7, <2>1, <2>2, <2>3
<1> QED
  BY <1>2, <1>5, <1>6, <1>7

\* Every step keeps what holds of the pages.
LEMMA PageStep == BrowserInv /\ [BrowserNext]_browserVars => BrowserInv'
<1> SUFFICES ASSUME BrowserInv, [BrowserNext]_browserVars
             PROVE  BrowserInv'
  OBVIOUS
<1>1. CASE UNCHANGED browserVars
  <2>1. BrowserTypes'
    BY <1>1 DEF browserVars, BrowserInv, BrowserTypes
  <2>2. PagesHold'
    BY <1>1 DEF browserVars, BrowserInv, PagesHold
  <2> QED
    BY <2>1, <2>2 DEF BrowserInv
<1>2. ASSUME NEW p \in Pages, Load(p) \/ Logout(p) \/ Query(p) \/ Handle(p) \/ Lose(p)
      PROVE  BrowserInv'
  BY <1>2, LoadHolds, LogoutBegins, QueryHolds, HandleHolds, LoseHolds
<1>3. ASSUME NEW p \in Pages,
             \/ \E scope \in LoginsTo : Login(p, scope)
             \/ \E firm \in Firms : Switch(p, firm)
      PROVE  BrowserInv'
  BY <1>3, LoginHolds, SwitchBegins
<1>4. ASSUME NEW p \in Pages,
             \/ SessionArrives(p) \/ SessionFails(p) \/ UserArrives(p) \/ UserFails(p)
             \/ LogoutEnds(p) \/ CallFails(p)
      PROVE  BrowserInv'
  BY <1>4, SessionArrivesHolds, SessionFailsHolds, UserArrivesHolds, UserFailsHolds,
     LogoutEndsHolds, CallFailsHolds
<1>5. ASSUME NEW p \in Pages, NEW n \in SessionNumbers,
             \/ ListingArrives(p, n) \/ DataArrives(p, n)
             \/ \E firm \in Firms : ProjectsArrive(p, firm, n)
      PROVE  BrowserInv'
  BY <1>5, ListingHolds, DataHold, ProjectsHold
<1> QED
  BY <1>1, <1>2, <1>3, <1>4, <1>5, ExpiryHolds DEF BrowserNext

LEMMA BrowserInvariant == BrowserSpec => []BrowserInv
BY PagesInitially, PageStep, PTL DEF BrowserSpec

\* What a page shows once nothing is under way is of the session it holds, or it was
\* parted from it in one of the ways that are named: for any number of pages, people,
\* organizations, sessions and reloads, and with answers in any order.
THEOREM PageIsAlwaysOfItsSession == BrowserSpec => []PageIsOfItsSession
<1>1. BrowserInv => PageIsOfItsSession
  <2> SUFFICES ASSUME BrowserInv, NEW p \in Pages, ~Busy(p)
               PROVE  LET page == pages[p] IN
        /\ ~page.loading
        /\ crossed[p] \cap {"half", "revived"} = {} =>
             page.user = IF page.token = 0 THEN Nothing ELSE Who(page.token)
        /\ Authenticated(page) /\ crossed[p] \cap {"half", "revived", "swapped"} = {} =>
             page.organization = page.user[2]
        /\ Authenticated(page) /\ crossed[p] \cap {"half", "revived", "swapped", "outrun"} = {} =>
             page.projects = page.organization
        /\ Authenticated(page) /\ crossed[p] \cap {"half", "revived", "cached"} = {} =>
             page.cache \in {Nothing, page.user[2]}
    BY DEF PageIsOfItsSession
  <2>1. /\ auth[p].kind = "none" /\ sent[p].listings = {} /\ sent[p].projects = {}
    BY BrowserBlanks DEF Busy
  <2>2. SessionHolds(pages[p], auth[p], sent[p], crossed[p], server)
    BY OnePage
  <2>3. auth[p].stage = "idle" /\ ~pages[p].loading
    BY <2>1, <2>2 DEF SessionHolds, CallHolds
  <2>4. crossed[p] \cap {"half", "revived"} = {} =>
          pages[p].user = IF pages[p].token = 0 THEN Nothing ELSE Who(pages[p].token)
    BY <2>2, <2>3 DEF SessionHolds, UserHolds, Who
  <2>5. Authenticated(pages[p]) /\ crossed[p] \cap {"half", "revived", "swapped"} = {} =>
          /\ pages[p].organization = pages[p].user[2]
          /\ "outrun" \notin crossed[p] => pages[p].projects = pages[p].organization
    BY <2>1, <2>2, <2>3 DEF SessionHolds, FirmHolds, Authenticated
  <2>6. Authenticated(pages[p]) /\ crossed[p] \cap {"half", "revived", "cached"} = {} =>
          pages[p].cache \in {Nothing, pages[p].user[2]}
    BY <2>2, <2>3 DEF SessionHolds, CacheHolds, Authenticated
  <2> QED
    BY <2>3, <2>4, <2>5, <2>6
<1> QED
  BY <1>1, BrowserInvariant, PTL

\* The pages, their calls and the stored token keep their types.
THEOREM PageTypesHold == BrowserSpec => []BrowserTypeOK
<1>1. BrowserInv => BrowserTypeOK
  <2> SUFFICES ASSUME BrowserInv
               PROVE  BrowserTypeOK
    OBVIOUS
  <2>1. Len(server) \in Nat /\ Len(server) <= MaxSessions /\ storage \in 0..Len(server)
    BY DEF BrowserInv, BrowserTypes
  <2>2. \A n \in 0..Len(server) : n \in SessionNumbers
    BY <2>1, BrowserConstants DEF SessionNumbers
  <2>3. ASSUME NEW p \in Pages
        PROVE  /\ pages[p].token \in SessionNumbers /\ pages[p].user \in Members \cup {Nothing}
               /\ pages[p].organization \in Firms \cup {Nothing}
               /\ pages[p].projects \in Firms \cup {Nothing}
               /\ auth[p].kind \in AuthKinds /\ auth[p].stage \in AuthStages
               /\ crossed[p] \subseteq {"half", "revived", "swapped", "outrun", "cached"}
    <3>1. pages[p].token \in 0..Len(server)
      BY OnePage DEF SessionHolds, CallHolds
    <3>2. pages[p] \in PageRecord /\ auth[p] \in CallRecord /\ crossed[p] \in SUBSET Ways
      BY OnePage
    <3>3. /\ pages[p].user \in Members \cup {Nothing}
          /\ pages[p].organization \in Firms \cup {Nothing}
          /\ pages[p].projects \in Firms \cup {Nothing}
      BY <3>2 DEF PageRecord, FirmOrNothing, ScopeOrNothing
    <3> QED
      BY <2>2, <3>1, <3>2, <3>3 DEF CallRecord, Ways
  <2> QED
    BY <2>1, <2>2, <2>3 DEF BrowserTypeOK
<1> QED
  BY <1>1, BrowserInvariant, PTL
=============================================================================
