------------------------------- MODULE Erasure -------------------------------
(***************************************************************************)
(* The deletion of a person's data (app/core/privacy), together with the   *)
(* requests of that person that may be under way: those on agent memory    *)
(* (module Memory), and those that write a row naming the person into one  *)
(* of the tables below.                                                    *)
(*                                                                         *)
(* One deletion is one transaction of eight steps.  Each statement sees    *)
(* what is committed when it runs; what it does is seen by others when the *)
(* transaction commits.  A step that fails without touching the database   *)
(* is recorded and the others still run; a failing statement poisons the   *)
(* transaction, the audit event raises, and everything is rolled back.     *)
(***************************************************************************)
EXTENDS Memory, Sequences

CONSTANTS
    Subject,    \* the identities of the person: one for each organization
    TableSteps  \* the tables swept by one statement each, in order:
                \* refresh_tokens, user_roles, project_memberships,
                \* external_identity_mappings, agent_executions

ASSUME SubjectIsSomebody == Subject \subseteq Persons /\ Subject # {}

VARIABLES
    rowsOf,     \* the tables with a row that names the person, by organization
    invited,    \* an invitation of the organization holds the raw address
    email,      \* users.email is the raw address
    erasure,    \* the deletion under way in each organization
    result,     \* DeletionResult.status of the last one
    visits,     \* requests of the person that will write a row
    since       \* auxiliary: what was written after the statement that sweeps it

privacyVars == <<rowsOf, invited, email, erasure, result, visits, since>>
erasureVars == <<memoryVars, privacyVars>>

Tables == {TableSteps[i] : i \in 1..Len(TableSteps)}
Steps  == TableSteps \o <<"agent_memories", "invitations", "users">>

ASSUME TablesAreNamed ==
    /\ TableSteps \in Seq(Tables)
    /\ Tables \cap {"agent_memories", "invitations", "users"} = {}

NotStarted == [step |-> 0, address |-> FALSE, swept |-> {}, gone |-> {}, failed |-> {}]

ErasureInit ==
    /\ MemoryInit
    /\ rowsOf = [p \in Subject |-> Tables]
    /\ invited \in [Subject -> BOOLEAN]
    /\ email = TRUE
    /\ erasure = [p \in Subject |-> NotStarted]
    /\ result = [p \in Subject |-> "none"]
    /\ visits = {}
    /\ since = [p \in Subject |-> {}]

-----------------------------------------------------------------------------
(***************************************************************************)
(* The person's other requests.  resolve_identity and the logins refuse an *)
(* inactive user at the beginning, and never look again.                   *)
(***************************************************************************)
BeginVisit(p, table) ==
    /\ active[p]
    /\ visits' = visits \cup {<<p, table>>}
    /\ UNCHANGED <<memoryVars, rowsOf, invited, email, erasure, result, since>>

\* The row is committed; a statement that has already swept the table misses it.
EndVisit(p, table) ==
    /\ <<p, table>> \in visits
    /\ visits' = visits \ {<<p, table>>}
    /\ rowsOf' = [rowsOf EXCEPT ![p] = @ \cup {table}]
    /\ erasure' = [erasure EXCEPT ![p].swept = @ \ {table}]
    /\ since' = [since EXCEPT ![p] = @ \cup {table}]
    /\ UNCHANGED <<memoryVars, invited, email, result>>

\* create_invitation by somebody else, to the raw address.
Invite(p) ==
    /\ ~invited[p]
    /\ invited' = [invited EXCEPT ![p] = TRUE]
    /\ erasure' = [erasure EXCEPT ![p].swept = @ \ {"invitations"}]
    /\ since' = [since EXCEPT ![p] = @ \cup {"invitations"}]
    /\ UNCHANGED <<memoryVars, rowsOf, email, result, visits>>

\* A request on memory; a private note that it adds is missed by an earlier sweep.
MemoryStep ==
    /\ MemoryRequest
    /\ since' = [p \in Subject |->
            IF \E m \in Memories : memories[m].status = "absent" /\ memories'[m].owner = p
            THEN since[p] \cup {"agent_memories"} ELSE since[p]]
    /\ UNCHANGED <<rowsOf, invited, email, erasure, result, visits>>

-----------------------------------------------------------------------------
\* get_user_email: None once the address has been replaced.
StartErasure(p) ==
    /\ erasure[p].step = 0
    /\ erasure' = [erasure EXCEPT ![p] = [NotStarted EXCEPT !.step = 1, !.address = email]]
    /\ result' = [result EXCEPT ![p] = "none"]
    /\ UNCHANGED <<memoryVars, rowsOf, invited, email, visits, since>>

Running(p) == erasure[p].step \in 1..Len(Steps)

\* With a plausible mistake: private notes are not counted among a person's data.
Sweep_NotMemory(p, step) ==
    IF step = "agent_memories" THEN [erasure[p] EXCEPT !.step = @ + 1]
    ELSE [erasure[p] EXCEPT !.step = @ + 1, !.swept = @ \cup {step}]

\* With a plausible mistake: a step counts for two.
Sweep_Twice(p, step) == [erasure[p] EXCEPT !.step = @ + 2, !.swept = @ \cup {step}]

(***************************************************************************)
(* What a step that succeeds leaves to the commit.  Invitations are found  *)
(* by the address; without one the step is recorded as done.               *)
(***************************************************************************)
Sweep(p, step) ==
    CASE step = "agent_memories" -> [erasure[p] EXCEPT !.step = @ + 1, !.gone = Private(p)]
      [] step = "invitations" /\ ~erasure[p].address -> [erasure[p] EXCEPT !.step = @ + 1]
      [] OTHER -> [erasure[p] EXCEPT !.step = @ + 1, !.swept = @ \cup {step}]

StepSucceeds(p) ==
    /\ Running(p)
    /\ LET step == Steps[erasure[p].step] IN
        /\ erasure' = [erasure EXCEPT ![p] = Sweep(p, step)]
        /\ since' = [since EXCEPT ![p] = @ \ {step}]
    /\ UNCHANGED <<memoryVars, rowsOf, invited, email, result, visits>>

\* _run records the exception of a step and goes on.
StepFails(p) ==
    /\ Running(p)
    /\ ~(Steps[erasure[p].step] = "invitations" /\ ~erasure[p].address)
    /\ erasure' = [erasure EXCEPT ![p].step = @ + 1,
                                  ![p].failed = @ \cup {Steps[erasure[p].step]}]
    /\ UNCHANGED <<memoryVars, rowsOf, invited, email, result, visits, since>>

\* The database fails, or the caller goes away.
ErasureAborts(p) ==
    /\ erasure[p].step > 0
    /\ erasure' = [erasure EXCEPT ![p] = NotStarted]
    /\ UNCHANGED <<memoryVars, rowsOf, invited, email, result, visits, since>>

\* With a plausible mistake: the status does not look at the failures.
DerivedStatus_Always(failed) == "completed"

\* _derive_status.  (Only its "failed", when no step succeeded, is not told apart.)
DerivedStatus(failed) == IF failed = {} THEN "completed" ELSE "partially_completed"

\* The audit event, and the commit of all that the steps did.
FinishErasure(p) ==
    /\ erasure[p].step = Len(Steps) + 1
    /\ LET done == erasure[p].swept IN
        /\ rowsOf' = [rowsOf EXCEPT ![p] = @ \ done]
        /\ invited' = [invited EXCEPT ![p] = @ /\ "invitations" \notin done]
        /\ email' = (email /\ "users" \notin done)
        /\ active' = IF "users" \in done
                     THEN [q \in Persons |-> q \notin Subject /\ active[q]] ELSE active
    /\ memories' = WithoutRows(erasure[p].gone)
    /\ result' = [result EXCEPT ![p] = DerivedStatus(erasure[p].failed)]
    /\ erasure' = [erasure EXCEPT ![p] = NotStarted]
    /\ UNCHANGED <<work, memOverlaps, visits, since>>

ErasureNext ==
    \/ MemoryStep
    \/ \E p \in Subject :
        \/ \E table \in Tables : BeginVisit(p, table) \/ EndVisit(p, table)
        \/ Invite(p)
        \/ StartErasure(p)
        \/ StepSucceeds(p)
        \/ StepFails(p)
        \/ ErasureAborts(p)
        \/ FinishErasure(p)

ErasureSpec == ErasureInit /\ [][ErasureNext]_erasureVars

-----------------------------------------------------------------------------
ErasureTypeOK ==
    /\ MemoryTypeOK
    /\ rowsOf \in [Subject -> SUBSET Tables]
    /\ invited \in [Subject -> BOOLEAN]
    /\ email \in BOOLEAN
    /\ erasure \in [Subject -> [step : 0..(Len(Steps) + 1), address : BOOLEAN,
                                swept : SUBSET (Tables \cup {"invitations", "users"}),
                                gone : SUBSET Memories,
                                failed : SUBSET (Tables \cup {"agent_memories", "invitations", "users"})]]
    /\ result \in [Subject -> {"none", "partially_completed", "completed"}]
    /\ visits \subseteq (Subject \X Tables)
    /\ since \in [Subject -> SUBSET (Tables \cup {"agent_memories", "invitations"})]

\* What still names the person in an organization.
Leftovers(p) ==
    rowsOf[p] \cup (IF Private(p) = {} THEN {} ELSE {"agent_memories"})
              \cup (IF invited[p] THEN {"invitations"} ELSE {})

(***************************************************************************)
(* A deletion that reports "completed" leaves nothing that was there when  *)
(* its statement ran: what is left was written since, by requests that     *)
(* overlapped it.  And the person has no access any more, in no            *)
(* organization.  Invitations are excepted: a retry after the address has  *)
(* been replaced cannot find them and records them as done.                *)
(***************************************************************************)
CompletedLeavesNothing ==
    \A p \in Subject : result[p] = "completed" =>
        /\ Leftovers(p) \subseteq since[p] \cup {"invitations"}
        /\ ~email /\ \A q \in Subject : ~active[q]
=============================================================================
