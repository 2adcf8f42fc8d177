------------------------------- MODULE Tenancy -------------------------------
(***************************************************************************)
(* One organization (app/core/tenancy, app/core/users, and the joining     *)
(* half of app/core/auth): its projects, the invitations and the access    *)
(* rule for one address, and the account that a person gets by them.       *)
(*                                                                         *)
(* A request is one transaction that decides on the rows it has read.  A   *)
(* second look at an invitation in the same session returns the copy of    *)
(* the first one; only the time is looked at anew.                         *)
(***************************************************************************)
EXTENDS Naturals, FiniteSets

CONSTANTS
    ProjectIds,     \* projects that can be made
    General,        \* the project that create_organization makes
    Invitations,    \* rows that can be made
    NoInvitation,
    Callers         \* requests that may be under way at one time

ASSUME TenancyConstants == General \in ProjectIds /\ NoInvitation \notin Invitations

VARIABLES
    projects,       \* each project: absent, plain or default (is_default)
    invitations,    \* status of each invitation to the address
    late,           \* invitations whose expires_at has passed
    rule,           \* an active access rule matches the address
    account,        \* which rows of the person exist: user, role, mapping
    calls,          \* what each request is doing, with its copies
    byRule,         \* auxiliary: a rule has granted the role
    disputed        \* auxiliary: invitations that two requests took for
                    \* pending at the same time

tenancyVars == <<projects, invitations, late, rule, account, calls, byRule, disputed>>

InvitationStatus == {"absent", "pending", "accepted", "expired", "revoked"}
Closed           == {"accepted", "expired", "revoked"}
Rows             == {"user", "role", "mapping"}
CallKinds        == {"invite", "revoke", "accept", "sso"}

\* invitation: the one it is about; expire: it has marked that one expired;
\* rows: the rows of the person that it found.
NoCall == [kind |-> "none", invitation |-> NoInvitation, expire |-> FALSE, rows |-> {}]

TenancyInit ==
    /\ projects = [p \in ProjectIds |-> IF p = General THEN "default" ELSE "absent"]
    /\ invitations = [i \in Invitations |-> "absent"]
    /\ late = {}
    /\ rule = FALSE
    /\ account = {}
    /\ calls = [c \in Callers |-> NoCall]
    /\ byRule = FALSE
    /\ disputed = {}

-----------------------------------------------------------------------------
\* create_project: `is_default` is the caller's.
CreateProject(p) ==
    /\ projects[p] = "absent"
    /\ \E flag \in {"plain", "default"} : projects' = [projects EXCEPT ![p] = flag]
    /\ UNCHANGED <<invitations, late, rule, account, calls, byRule, disputed>>

\* create_access_rule, deactivate_access_rule.
SwitchRule ==
    /\ rule' = ~rule
    /\ UNCHANGED <<projects, invitations, late, account, calls, byRule, disputed>>

\* Time passes an invitation's expires_at.
Expires(i) ==
    /\ invitations[i] = "pending"
    /\ late' = late \cup {i}
    /\ UNCHANGED <<projects, invitations, rule, account, calls, byRule, disputed>>

-----------------------------------------------------------------------------
PendingInvitations == {i \in Invitations : invitations[i] = "pending"}

\* A request has read what it decides on.
BeginCall(c, call) ==
    /\ calls[c].kind = "none"
    /\ calls' = [calls EXCEPT ![c] = call]
    /\ disputed' = disputed \cup
            ({call.invitation} \cap {calls[d].invitation : d \in Callers} \cap Invitations)
    /\ UNCHANGED <<projects, invitations, late, rule, account, byRule>>

EndCall(c) == calls' = [calls EXCEPT ![c] = NoCall]

\* A check, a unique constraint, the identity provider or the client fails it.
CallFails(c) ==
    /\ calls[c].kind # "none"
    /\ EndCall(c)
    /\ UNCHANGED <<projects, invitations, late, rule, account, byRule, disputed>>

\* create_invitation: one that is past its time still counts as pending.
StartInvite(c) == PendingInvitations = {} /\ BeginCall(c, [NoCall EXCEPT !.kind = "invite"])

\* insert_invitation; uq_invitations_org_email_pending refuses a second one.
CommitInvite(c) ==
    /\ calls[c].kind = "invite"
    /\ PendingInvitations = {}
    /\ \E i \in Invitations :
        /\ invitations[i] = "absent"
        /\ invitations' = [invitations EXCEPT ![i] = "pending"]
    /\ EndCall(c)
    /\ UNCHANGED <<projects, late, rule, account, byRule, disputed>>

\* With a plausible mistake: the status is not looked at.
Open_Any(i) == invitations[i] # "absent"

\* What revoking and accepting demand of the invitation they read.
Open(i) == invitations[i] = "pending"

StartRevoke(c, i) == Open(i) /\ BeginCall(c, [NoCall EXCEPT !.kind = "revoke", !.invitation = i])

CommitRevoke(c) ==
    /\ calls[c].kind = "revoke"
    /\ invitations' = [invitations EXCEPT ![calls[c].invitation] = "revoked"]
    /\ EndCall(c)
    /\ UNCHANGED <<projects, late, rule, account, byRule, disputed>>

-----------------------------------------------------------------------------
\* accept_invitation_with_password, up to the user and the role it finds.
StartAccept(c, i) ==
    /\ Open(i)
    /\ i \notin late
    /\ BeginCall(c, [NoCall EXCEPT !.kind = "accept", !.invitation = i,
                                   !.rows = account \cap {"user", "role"}])

\* complete_sso_login of a person who has a mapping already: nothing to join.
\* evaluate_provisioning: an invitation in time, or else a rule; one that is
\* past its time is marked on the way, with the rest of the transaction.
StartSso(c) ==
    /\ "mapping" \notin account
    /\ \/ \E i \in PendingInvitations \ late :
            BeginCall(c, [NoCall EXCEPT !.kind = "sso", !.invitation = i, !.rows = account])
       \/ /\ PendingInvitations = {} /\ rule
          /\ BeginCall(c, [NoCall EXCEPT !.kind = "sso", !.rows = account])
       \/ \E i \in PendingInvitations \cap late :
            /\ rule
            /\ BeginCall(c, [NoCall EXCEPT !.kind = "sso", !.invitation = i,
                                           !.expire = TRUE, !.rows = account])

\* get_or_create_user, assign_role, insert_external_identity_mapping: what was
\* not found is inserted, and refused if it has come to be since.
Wanted(kind)  == IF kind = "sso" THEN Rows ELSE {"user", "role"}
Insertable(c) == (Wanted(calls[c].kind) \ calls[c].rows) \cap account = {}

\* With a plausible mistake: the invitation stays as it was.
Consumed_Not(c) == invitations

\* accept_invitation on the copy, or the mark of one that is past its time.
Consumed(c) ==
    LET call == calls[c] IN
    IF call.invitation = NoInvitation THEN invitations
    ELSE [invitations EXCEPT ![call.invitation] = IF call.expire THEN "expired" ELSE "accepted"]

\* accept_invitation looks at the time again; then everything is committed.
CommitJoin(c) ==
    LET call == calls[c] IN
    /\ call.kind \in {"accept", "sso"}
    /\ Insertable(c)
    /\ call.invitation \in late => call.expire
    /\ account' = account \cup Wanted(call.kind)
    /\ invitations' = Consumed(c)
    /\ byRule' = (byRule \/ call.invitation = NoInvitation \/ call.expire)
    /\ EndCall(c)
    /\ UNCHANGED <<projects, late, rule, disputed>>

TenancyNext ==
    \/ \E p \in ProjectIds : CreateProject(p)
    \/ SwitchRule
    \/ \E i \in Invitations : Expires(i)
    \/ \E c \in Callers :
        \/ StartInvite(c)
        \/ CommitInvite(c)
        \/ \E i \in Invitations : StartRevoke(c, i) \/ StartAccept(c, i)
        \/ CommitRevoke(c)
        \/ StartSso(c)
        \/ CommitJoin(c)
        \/ CallFails(c)

TenancySpec == TenancyInit /\ [][TenancyNext]_tenancyVars

-----------------------------------------------------------------------------
TenancyTypeOK ==
    /\ projects \in [ProjectIds -> {"absent", "plain", "default"}]
    /\ invitations \in [Invitations -> InvitationStatus]
    /\ late \subseteq Invitations
    /\ rule \in BOOLEAN /\ byRule \in BOOLEAN
    /\ account \subseteq Rows
    /\ calls \in [Callers -> [kind : CallKinds \cup {"none"}, expire : BOOLEAN,
                              invitation : Invitations \cup {NoInvitation}, rows : SUBSET Rows]]
    /\ disputed \subseteq Invitations

(***************************************************************************)
(* An invitation that was accepted, revoked or marked expired is a closed  *)
(* case (revoke_invitation), unless two requests took it for pending at    *)
(* the same time: accept_invitation's second check sees the first's copy.  *)
(***************************************************************************)
InvitationStaysClosed ==
    [][\A i \in Invitations :
        invitations[i] \in Closed /\ i \notin disputed => invitations'[i] = invitations[i]
      ]_tenancyVars

(***************************************************************************)
(* Who has a role in the organization was let in by an invitation that     *)
(* says so, or by a rule: failures between provisioning and the mark leave *)
(* neither without the other.                                              *)
(***************************************************************************)
RoleHasReason ==
    "role" \in account =>
        \/ byRule
        \/ \E i \in Invitations : invitations[i] = "accepted" \/ i \in disputed

\* An invitation decides once, and nobody comes in without one or a rule.
InvitationsDecide == []RoleHasReason /\ InvitationStaysClosed
=============================================================================
