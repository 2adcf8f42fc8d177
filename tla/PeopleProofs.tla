----------------------------- MODULE PeopleProofs -----------------------------
(***************************************************************************)
(* Requests of people that read a row, decide on their copy and commit: an *)
(* invitation decides once (Tenancy), a session is one chain of tokens     *)
(* (Sessions), an incident has one postmortem and its approval is final    *)
(* (Incidents), a note has one successor and keeps nothing once deleted    *)
(* (Memory), and an erasure that reports completion left nothing behind    *)
(* (Erasure), but for the overlaps that these properties name.  The proofs *)
(* say of every request under way how what it has read still relates to    *)
(* the row.                                                                *)
(***************************************************************************)
EXTENDS Tenancy, Sessions, Incidents, Erasure, FiniteSetTheorems, SequenceTheorems, TLAPS

-----------------------------------------------------------------------------
(* One organization: who is let in, and why.                               *)

InvitationOrNone == Invitations \cup {NoInvitation}
CallKindOrNone == CallKinds \cup {"none"}
CallRecords ==
    [kind : CallKindOrNone, expire : BOOLEAN, invitation : InvitationOrNone, rows : SUBSET Rows]

TenancyTypes ==
    /\ projects \in [ProjectIds -> {"absent", "plain", "default"}]
    /\ invitations \in [Invitations -> InvitationStatus]
    /\ late \subseteq Invitations
    /\ rule \in BOOLEAN /\ byRule \in BOOLEAN
    /\ account \subseteq Rows
    /\ calls \in [Callers -> CallRecords]
    /\ disputed \subseteq Invitations

\* What a request has read of an invitation is still so, unless another has read it too.
Holds(c) ==
    LET i == calls[c].invitation IN
    /\ calls[c].kind \in {"none", "invite"} => i = NoInvitation
    /\ calls[c].kind \in {"revoke", "accept"} => i \in Invitations
    /\ calls[c].expire => calls[c].kind = "sso"
    /\ i \in Invitations /\ i \notin disputed =>
            invitations[i] = "pending" /\ \A d \in Callers \ {c} : calls[d].invitation # i

TenancyInv == TenancyTypes /\ RoleHasReason /\ \A c \in Callers : Holds(c)

\* What a step may never do to an invitation.
ClosedStays ==
    \A i \in Invitations :
        invitations[i] \in Closed /\ i \notin disputed => invitations'[i] = invitations[i]

\* A request that does nothing has read nothing.
LEMMA NoCallFacts ==
    /\ NoCall \in CallRecords /\ NoCall.kind = "none" /\ NoCall.invitation = NoInvitation
    /\ NoCall.expire = FALSE /\ NoCall.rows = {}
    /\ NoInvitation \notin Invitations
BY TenancyConstants DEF NoCall, CallRecords, CallKindOrNone, InvitationOrNone

\* The organization is founded with one project, and nobody is invited.
LEMMA TenancyInitially == TenancyInit => TenancyInv
<1> SUFFICES ASSUME TenancyInit PROVE TenancyInv
    OBVIOUS
<1>1. TenancyTypes
    BY NoCallFacts DEF TenancyInit, TenancyTypes, InvitationStatus
<1>2. RoleHasReason
    BY DEF TenancyInit, RoleHasReason
<1>3. \A c \in Callers : Holds(c)
    BY NoCallFacts DEF TenancyInit, Holds
<1> QED
    BY <1>1, <1>2, <1>3 DEF TenancyInv

\* A request reads an invitation that is pending, or none.
LEMMA BeginCallStep ==
    ASSUME TenancyInv, NEW c \in Callers, NEW call \in CallRecords, BeginCall(c, call),
           call.kind \in {"none", "invite"} => call.invitation = NoInvitation,
           call.kind \in {"revoke", "accept"} => call.invitation \in Invitations,
           call.expire => call.kind = "sso",
           call.invitation \in Invitations => invitations[call.invitation] = "pending"
    PROVE  TenancyInv' /\ ClosedStays
<1>1. /\ calls' = [calls EXCEPT ![c] = call] /\ disputed \subseteq disputed'
      /\ UNCHANGED <<projects, invitations, late, rule, account, byRule>>
      /\ \A d \in Callers : calls[d].invitation = call.invitation /\ call.invitation \in Invitations
                            => call.invitation \in disputed'
      /\ disputed' \subseteq Invitations
    BY DEF BeginCall, TenancyInv, TenancyTypes
<1>2. TenancyTypes'
    BY <1>1 DEF TenancyInv, TenancyTypes
<1>3. RoleHasReason'
    BY <1>1 DEF TenancyInv, RoleHasReason
<1>4. \A d \in Callers : calls'[d] = IF d = c THEN call ELSE calls[d]
    BY <1>1 DEF TenancyInv, TenancyTypes
<1>5. Holds(c)'
    BY <1>1, <1>4 DEF Holds
<1>6. ASSUME NEW d \in Callers, d # c
      PROVE  Holds(d)'
    BY <1>1, <1>4, <1>6 DEF TenancyInv, Holds
<1>7. ClosedStays
    BY <1>1 DEF ClosedStays
<1> QED
    BY <1>2, <1>3, <1>5, <1>6, <1>7 DEF TenancyInv

\* A request ends, and may have written the invitation it had read, and the rows of the
\* person whom it lets in for a reason.
LEMMA EndCallStep ==
    ASSUME TenancyInv, NEW c \in Callers, EndCall(c), disputed' = disputed, late' = late,
           projects' = projects, rule' = rule,
           byRule' \in BOOLEAN, byRule => byRule', account' \subseteq Rows,
           NEW status \in InvitationStatus,
           invitations' = invitations
             \/ invitations' = [invitations EXCEPT ![calls[c].invitation] = status],
           "role" \in account' => "role" \in account \/ byRule'
             \/ \E i \in Invitations : invitations'[i] = "accepted" \/ i \in disputed
    PROVE  TenancyInv' /\ ClosedStays
<1>1. /\ calls' = [calls EXCEPT ![c] = NoCall]
      /\ \A d \in Callers : calls'[d] = IF d = c THEN NoCall ELSE calls[d]
    BY DEF EndCall, TenancyInv, TenancyTypes
<1>2. /\ invitations' \in [Invitations -> InvitationStatus]
      /\ \A i \in Invitations : i # calls[c].invitation => invitations'[i] = invitations[i]
    BY DEF TenancyInv, TenancyTypes
<1>3. TenancyTypes'
    BY <1>1, <1>2, NoCallFacts DEF TenancyInv, TenancyTypes
<1>4. ClosedStays
  <2> SUFFICES ASSUME NEW i \in Invitations, invitations[i] \in Closed, i \notin disputed
               PROVE  i # calls[c].invitation
      BY <1>2 DEF ClosedStays
  <2> QED
      BY DEF TenancyInv, Holds, Closed
<1>5. RoleHasReason'
    BY <1>4 DEF TenancyInv, RoleHasReason, ClosedStays, Closed
<1>6. Holds(c)'
    BY <1>1, NoCallFacts DEF Holds
<1>7. ASSUME NEW d \in Callers, d # c
      PROVE  Holds(d)'
    BY <1>1, <1>2, <1>7, NoCallFacts DEF TenancyInv, Holds
<1> QED
    BY <1>3, <1>4, <1>5, <1>6, <1>7 DEF TenancyInv

\* What the administrators do, and the time that passes, decides nothing.
LEMMA AdministrationStep ==
    ASSUME TenancyInv,
           \/ \E p \in ProjectIds : CreateProject(p)
           \/ SwitchRule
           \/ \E i \in Invitations : Expires(i)
    PROVE  TenancyInv' /\ ClosedStays
<1>1. /\ projects' \in [ProjectIds -> {"absent", "plain", "default"}] /\ rule' \in BOOLEAN
      /\ late' \subseteq Invitations
      /\ UNCHANGED <<invitations, account, calls, byRule, disputed>>
  <2>1. CASE \E p \in ProjectIds : CreateProject(p)
      BY <2>1 DEF CreateProject, TenancyInv, TenancyTypes
  <2>2. CASE SwitchRule
      BY <2>2 DEF SwitchRule, TenancyInv, TenancyTypes
  <2>3. CASE \E i \in Invitations : Expires(i)
      BY <2>3 DEF Expires, TenancyInv, TenancyTypes
  <2> QED
      BY <2>1, <2>2, <2>3
<1> QED
    BY <1>1 DEF TenancyInv, TenancyTypes, RoleHasReason, Holds, ClosedStays

\* The first reads of the requests: what they found is pending.
LEMMA StartCallStep ==
    ASSUME TenancyInv, NEW c \in Callers,
           \/ StartInvite(c) \/ StartSso(c)
           \/ \E i \in Invitations : StartRevoke(c, i) \/ StartAccept(c, i)
    PROVE  TenancyInv' /\ ClosedStays
<1>1. \A i \in Invitations : i \in InvitationOrNone
    BY DEF InvitationOrNone
<1>2. CASE StartInvite(c)
  <2> DEFINE call == [NoCall EXCEPT !.kind = "invite"]
  <2>1. /\ call \in CallRecords /\ call.kind = "invite" /\ call.invitation = NoInvitation
        /\ call.expire = FALSE
      BY NoCallFacts DEF CallRecords, CallKindOrNone, CallKinds
  <2>2. BeginCall(c, call)
      BY <1>2 DEF StartInvite
  <2> HIDE DEF call
  <2> QED
      BY <2>1, <2>2, NoCallFacts, BeginCallStep
<1>3. ASSUME NEW i \in Invitations, StartRevoke(c, i)
      PROVE  TenancyInv' /\ ClosedStays
  <2> DEFINE call == [NoCall EXCEPT !.kind = "revoke", !.invitation = i]
  <2>1. /\ call \in CallRecords /\ call.kind = "revoke" /\ call.invitation = i
        /\ call.expire = FALSE
      BY <1>1, NoCallFacts DEF CallRecords, CallKindOrNone, CallKinds
  <2>2. BeginCall(c, call) /\ invitations[i] = "pending"
      BY <1>3 DEF StartRevoke, Open
  <2> HIDE DEF call
  <2> QED
      BY <2>1, <2>2, BeginCallStep
<1>4. ASSUME NEW i \in Invitations, StartAccept(c, i)
      PROVE  TenancyInv' /\ ClosedStays
  <2> DEFINE call == [NoCall EXCEPT !.kind = "accept", !.invitation = i,
                                    !.rows = account \cap {"user", "role"}]
  <2>1. /\ call \in CallRecords /\ call.kind = "accept" /\ call.invitation = i
        /\ call.expire = FALSE
      BY <1>1, NoCallFacts DEF CallRecords, CallKindOrNone, CallKinds, Rows
  <2>2. BeginCall(c, call) /\ invitations[i] = "pending"
      BY <1>4 DEF StartAccept, Open
  <2> HIDE DEF call
  <2> QED
      BY <2>1, <2>2, BeginCallStep
<1>5. ASSUME NEW i \in PendingInvitations \ late,
             BeginCall(c, [NoCall EXCEPT !.kind = "sso", !.invitation = i, !.rows = account])
      PROVE  TenancyInv' /\ ClosedStays
  <2> DEFINE call == [NoCall EXCEPT !.kind = "sso", !.invitation = i, !.rows = account]
  <2>1. /\ call \in CallRecords /\ call.kind = "sso" /\ call.invitation = i
        /\ call.expire = FALSE
      BY <1>1, <1>5, NoCallFacts
         DEF CallRecords, CallKindOrNone, CallKinds, PendingInvitations, TenancyInv, TenancyTypes
  <2>2. BeginCall(c, call)
      BY <1>5
  <2> HIDE DEF call
  <2> QED
      BY <1>5, <2>1, <2>2, NoCallFacts, BeginCallStep DEF PendingInvitations
<1>6. ASSUME BeginCall(c, [NoCall EXCEPT !.kind = "sso", !.rows = account])
      PROVE  TenancyInv' /\ ClosedStays
  <2> DEFINE call == [NoCall EXCEPT !.kind = "sso", !.rows = account]
  <2>1. /\ call \in CallRecords /\ call.kind = "sso" /\ call.invitation = NoInvitation
        /\ call.expire = FALSE
      BY <1>1, <1>6, NoCallFacts
         DEF CallRecords, CallKindOrNone, CallKinds, PendingInvitations, TenancyInv, TenancyTypes
  <2>2. BeginCall(c, call)
      BY <1>6
  <2> HIDE DEF call
  <2> QED
      BY <1>6, <2>1, <2>2, NoCallFacts, BeginCallStep DEF PendingInvitations
<1>7. ASSUME NEW i \in PendingInvitations \cap late,
             BeginCall(c, [NoCall EXCEPT !.kind = "sso", !.invitation = i,
                                         !.expire = TRUE, !.rows = account])
      PROVE  TenancyInv' /\ ClosedStays
  <2> DEFINE call == [NoCall EXCEPT !.kind = "sso", !.invitation = i,
                                    !.expire = TRUE, !.rows = account]
  <2>1. /\ call \in CallRecords /\ call.kind = "sso" /\ call.invitation = i
        /\ call.expire = TRUE
      BY <1>1, <1>7, NoCallFacts
         DEF CallRecords, CallKindOrNone, CallKinds, PendingInvitations, TenancyInv, TenancyTypes
  <2>2. BeginCall(c, call)
      BY <1>7
  <2> HIDE DEF call
  <2> QED
      BY <1>7, <2>1, <2>2, NoCallFacts, BeginCallStep DEF PendingInvitations
<1>8. CASE StartSso(c)
    BY <1>5, <1>6, <1>7, <1>8 DEF StartSso
<1> QED
    BY <1>2, <1>3, <1>4, <1>8

\* An invitation is written, revoked, or a request fails: nobody is let in.
LEMMA CommitCallStep ==
    ASSUME TenancyInv, NEW c \in Callers, CommitInvite(c) \/ CommitRevoke(c) \/ CallFails(c)
    PROVE  TenancyInv' /\ ClosedStays
<1> USE DEF InvitationStatus
<1>1. CASE CallFails(c)
    BY <1>1, EndCallStep DEF CallFails, TenancyInv, TenancyTypes, RoleHasReason
<1>2. CASE CommitRevoke(c)
  <2>1. invitations' = [invitations EXCEPT ![calls[c].invitation] = "revoked"]
      BY <1>2 DEF CommitRevoke
  <2>2. "role" \in account => byRule \/ \E i \in Invitations : invitations'[i] = "accepted" \/ i \in disputed
    <3>1. CASE calls[c].invitation \in disputed
        BY <3>1 DEF TenancyInv, TenancyTypes
    <3>2. CASE calls[c].invitation \notin disputed
      <4>1. invitations[calls[c].invitation] # "accepted" \/ calls[c].invitation \notin Invitations
          BY <3>2 DEF TenancyInv, Holds
      <4> QED
          BY <2>1, <4>1 DEF TenancyInv, TenancyTypes, RoleHasReason
    <3> QED
        BY <3>1, <3>2
  <2> QED
      BY <1>2, <2>1, <2>2, EndCallStep DEF CommitRevoke, TenancyInv, TenancyTypes
<1>3. CASE CommitInvite(c)
  <2>1. PICK i \in Invitations :
            invitations[i] = "absent" /\ invitations' = [invitations EXCEPT ![i] = "pending"]
      BY <1>3 DEF CommitInvite
  <2>2. /\ calls' = [calls EXCEPT ![c] = NoCall]
        /\ UNCHANGED <<projects, late, rule, account, byRule, disputed>>
      BY <1>3 DEF CommitInvite, EndCall
  <2>3. /\ invitations' \in [Invitations -> InvitationStatus] /\ invitations'[i] = "pending"
        /\ \A j \in Invitations : j # i => invitations'[j] = invitations[j]
      BY <2>1 DEF TenancyInv, TenancyTypes
  <2>4. TenancyTypes'
      BY <2>2, <2>3, NoCallFacts DEF TenancyInv, TenancyTypes
  <2>5. ClosedStays
      BY <2>1, <2>3 DEF ClosedStays, Closed
  <2>6. RoleHasReason'
      BY <2>2, <2>5 DEF TenancyInv, RoleHasReason, ClosedStays, Closed
  <2>7. \A d \in Callers : calls'[d] = IF d = c THEN NoCall ELSE calls[d]
      BY <2>2 DEF TenancyInv, TenancyTypes
  <2>8. \A d \in Callers : Holds(d)'
      BY <2>1, <2>2, <2>3, <2>7, NoCallFacts DEF TenancyInv, Holds
  <2> QED
      BY <2>4, <2>5, <2>6, <2>8 DEF TenancyInv
<1> QED
    BY <1>1, <1>2, <1>3

\* A person is let in: the invitation says so from now on, or a rule has done it.
LEMMA CommitJoinStep ==
    ASSUME TenancyInv, NEW c \in Callers, CommitJoin(c)
    PROVE  TenancyInv' /\ ClosedStays
<1> DEFINE call == calls[c]
<1> DEFINE status == IF call.expire THEN "expired" ELSE "accepted"
<1>1. /\ call \in CallRecords /\ call.kind \in {"accept", "sso"} /\ Holds(c)
      /\ account' = account \cup Wanted(call.kind) /\ invitations' = Consumed(c)
      /\ byRule' = (byRule \/ call.invitation = NoInvitation \/ call.expire)
      /\ EndCall(c) /\ UNCHANGED <<projects, late, rule, disputed>>
    BY DEF CommitJoin, TenancyInv, TenancyTypes
<1>2. status \in InvitationStatus
    BY DEF InvitationStatus
<1>3. /\ invitations' = invitations \/ invitations' = [invitations EXCEPT ![call.invitation] = status]
      /\ call.invitation \in Invitations =>
            invitations' = [invitations EXCEPT ![call.invitation] = status]
    BY <1>1, NoCallFacts DEF Consumed
<1>4. byRule' \in BOOLEAN /\ (byRule => byRule') /\ account' \subseteq Rows
    BY <1>1 DEF Wanted, Rows, TenancyInv, TenancyTypes
<1>5. byRule' \/ \E i \in Invitations : invitations'[i] = "accepted" \/ i \in disputed
  <2>1. CASE call.invitation = NoInvitation \/ call.expire
      BY <1>1, <2>1
  <2>2. CASE call.invitation # NoInvitation /\ ~call.expire
    <3>1. call.invitation \in Invitations
        BY <1>1, <2>2 DEF CallRecords, InvitationOrNone
    <3>2. invitations'[call.invitation] = "accepted"
        BY <1>3, <2>2, <3>1 DEF TenancyInv, TenancyTypes
    <3> QED
        BY <3>1, <3>2
  <2> QED
      BY <2>1, <2>2
<1> HIDE DEF status
<1> QED
    BY <1>1, <1>2, <1>3, <1>4, <1>5, EndCallStep

\* Every step of the requests and of the administrators keeps the invariant, and what
\* is closed.
LEMMA TenancyStep == TenancyInv /\ [TenancyNext]_tenancyVars => TenancyInv' /\ (ClosedStays \/ UNCHANGED tenancyVars)
<1> SUFFICES ASSUME TenancyInv, [TenancyNext]_tenancyVars
             PROVE  TenancyInv' /\ (ClosedStays \/ UNCHANGED tenancyVars)
    OBVIOUS
<1>1. CASE UNCHANGED tenancyVars
    BY <1>1 DEF tenancyVars, TenancyInv, TenancyTypes, RoleHasReason, Holds
<1>2. CASE TenancyNext
    BY <1>2, AdministrationStep, StartCallStep, CommitCallStep, CommitJoinStep DEF TenancyNext
<1> QED
    BY <1>1, <1>2

\* An invitation that was accepted, revoked or marked expired decides nothing any more,
\* and whoever has a role was let in by an invitation or a rule, however the requests
\* of revoke_invitation, accept_invitation and a single sign-on overlap.
THEOREM InvitationsAlwaysDecide == TenancySpec => InvitationsDecide
<1>1. TenancyInit => TenancyInv
    BY TenancyInitially
<1>2. TenancyInv /\ [TenancyNext]_tenancyVars => TenancyInv'
    BY TenancyStep
<1>3. TenancyInv /\ [TenancyNext]_tenancyVars => [ClosedStays]_tenancyVars
    BY TenancyStep
<1>4. TenancyInv => RoleHasReason
    BY DEF TenancyInv
<1>5. TenancySpec => []TenancyInv
    BY <1>1, <1>2, PTL DEF TenancySpec
<1>6. TenancySpec => [][ClosedStays]_tenancyVars
    BY <1>3, <1>5, PTL DEF TenancySpec
<1>7. [][ClosedStays]_tenancyVars => InvitationStaysClosed
    BY DEF InvitationStaysClosed, ClosedStays
<1> QED
    BY <1>4, <1>5, <1>6, <1>7, PTL DEF InvitationsDecide

\* The rows of one organization and the copies of its requests keep their types.
THEOREM TenancyTypesHold == TenancySpec => []TenancyTypeOK
<1>1. TenancyInit => TenancyInv
    BY TenancyInitially
<1>2. TenancyInv /\ [TenancyNext]_tenancyVars => TenancyInv'
    BY TenancyStep
<1>3. TenancyInv => TenancyTypeOK
    BY DEF TenancyInv, TenancyTypes, TenancyTypeOK, CallRecords, CallKindOrNone, InvitationOrNone
<1> QED
    BY <1>1, <1>2, <1>3, PTL DEF TenancySpec
-----------------------------------------------------------------------------
(* Sessions: chains of refresh tokens, and the flows that end in one.      *)

TokenStates == {"none", "live", "revoked"}
TokenOrNone == Tokens \cup {NoToken}
TokenRows == [state : TokenStates, family : TokenOrNone]
TripKinds == {"none", "refresh", "logout"}
TripRecords == [kind : TripKinds, token : TokenOrNone]

TokenTypes ==
    /\ tokens \in [Tokens -> TokenRows]
    /\ trips \in [Users -> TripRecords]
    /\ forked \subseteq Tokens /\ outlived \subseteq Tokens

\* A family is named by a token that was issued, so that a new one is of none.
FamiliesInv ==
    \A t \in Tokens :
        /\ tokens[t].state = "none" => tokens[t].family = NoToken
        /\ tokens[t].state # "none" => /\ tokens[t].family \in Tokens
                                       /\ tokens[tokens[t].family].state # "none"

\* One token of a family is in use, where requests did not read the same one.
LiveInv ==
    \A s, t \in Live :
        tokens[s].family = tokens[t].family /\ tokens[t].family \notin forked => s = t

\* What a request has read of its token, and what it may still add to the family.
Carries(u) ==
    LET t == trips[u].token
        f == tokens[t].family
    IN
    /\ trips[u].kind = "none" <=> t = NoToken
    /\ t # NoToken =>
        /\ tokens[t].state # "none"
        /\ f \notin forked =>
             /\ \A v \in Users \ {u} :
                    trips[v].token # NoToken => tokens[trips[v].token].family # f
             /\ \A s \in Live : tokens[s].family = f => s = t
        /\ trips[u].kind = "refresh" => f \in outlived \/ \E s \in Live : tokens[s].family = f

TokenInv == TokenTypes /\ FamiliesInv /\ LiveInv /\ \A u \in Users : Carries(u)

\* What a step may never do to a session that has ended.
EndedStays ==
    \A t \in Tokens :
        /\ tokens[t].state = "revoked"
        /\ Family(t) \cap Live = {}
        /\ tokens[t].family \notin outlived
        => \A s \in Tokens : tokens'[s].family = tokens[t].family => tokens'[s].state # "live"

FlowStates == {"none", "pending", "claimed", "code", "over"}

FlowTypes ==
    /\ flows \in [Flows -> FlowStates]
    /\ confirming \in [Flows -> 0..2]
    /\ issued \in [Flows -> TokenOrNone]
    /\ handed \in [Tokens -> 0..2]
    /\ made \in [Flows -> Nat]

\* One request confirms a flow that it has claimed, and then no other.
StageInv(f) ==
    /\ flows[f] \in {"none", "pending"} => confirming[f] = 0 /\ made[f] = 0
    /\ flows[f] = "claimed" => confirming[f] = 1 /\ made[f] = 0
    /\ flows[f] \in {"code", "over"} => confirming[f] = 0 /\ made[f] <= 1

\* A session that waits for its code was never handed out.
WaitingInv ==
    /\ \A f \in Flows :
        issued[f] # NoToken => /\ flows[f] = "code"
                               /\ tokens[issued[f]].state # "none"
                               /\ handed[issued[f]] = 0
    /\ \A f, g \in Flows : issued[f] = issued[g] /\ issued[f] # NoToken => f = g
    /\ \A t \in Tokens : handed[t] <= 1 /\ (tokens[t].state = "none" => handed[t] = 0)

FlowInv == FlowTypes /\ WaitingInv /\ \A f \in Flows : StageInv(f)

SessionInv == TokenInv /\ FlowInv

\* A request that does nothing, and a token that was never issued.
LEMMA UnusedFacts ==
    /\ Unused \in TokenRows /\ Unused.state = "none" /\ Unused.family = NoToken
    /\ NoTrip \in TripRecords /\ NoTrip.kind = "none" /\ NoTrip.token = NoToken
    /\ NoToken \notin Tokens
BY SessionConstants DEF Unused, NoTrip, TokenRows, TokenStates, TokenOrNone, TripRecords, TripKinds

\* Nobody has logged in.
LEMMA SessionsInitially == SessionInit => SessionInv
<1> SUFFICES ASSUME SessionInit PROVE SessionInv
    OBVIOUS
<1>1. TokenTypes /\ FamiliesInv /\ LiveInv
    BY UnusedFacts DEF SessionInit, TokenTypes, FamiliesInv, LiveInv, Live
<1>2. \A u \in Users : Carries(u)
    BY UnusedFacts DEF SessionInit, Carries
<1>3. FlowTypes /\ WaitingInv /\ \A f \in Flows : StageInv(f)
    BY UnusedFacts DEF SessionInit, FlowTypes, FlowStates, TokenOrNone, WaitingInv, StageInv
<1> QED
    BY <1>1, <1>2, <1>3 DEF SessionInv, TokenInv, FlowInv

\* A login makes a family that was not there (_issue_session).
LEMMA LogInKeepsTokens ==
    ASSUME TokenInv, NEW t \in Free, tokens' = Issued(tokens, t, t),
           UNCHANGED <<trips, forked, outlived>>
    PROVE  /\ TokenInv' /\ EndedStays
           /\ \A s \in Tokens : tokens'[s].state = "none" => tokens[s].state = "none"
<1> DEFINE row == [state |-> "live", family |-> t]
<1>1. t \in Tokens /\ tokens[t].state = "none"
    BY DEF Free
<1>2. row \in TokenRows /\ row.state = "live" /\ row.family = t
    BY <1>1 DEF TokenRows, TokenStates, TokenOrNone
<1>3. tokens' = [tokens EXCEPT ![t] = row]
    BY DEF Issued
<1> HIDE DEF row
<1>4. \A s \in Tokens : tokens'[s] = IF s = t THEN row ELSE tokens[s]
    BY <1>3 DEF TokenInv, TokenTypes
<1>5. \A s \in Tokens : tokens[s].family # t
    BY <1>1, UnusedFacts DEF TokenInv, FamiliesInv
<1>6. TokenTypes'
    BY <1>2, <1>3 DEF TokenInv, TokenTypes
<1>7. FamiliesInv'
    BY <1>1, <1>2, <1>4 DEF TokenInv, FamiliesInv
<1>8. LiveInv'
    BY <1>2, <1>4, <1>5 DEF TokenInv, LiveInv, Live
<1>9. ASSUME NEW u \in Users
      PROVE  Carries(u)'
  <2>1. CASE trips[u].token = NoToken
      BY <2>1 DEF TokenInv, Carries
  <2>2. CASE trips[u].token # NoToken
    <3>1. trips[u].token \in Tokens
        BY <2>2 DEF TokenInv, TokenTypes, TripRecords, TokenOrNone
    <3>2. trips[u].token # t /\ tokens'[trips[u].token] = tokens[trips[u].token]
        BY <1>1, <1>4, <2>2, <3>1 DEF TokenInv, Carries
    <3>3. \A v \in Users : trips[v].token # NoToken =>
             trips[v].token \in Tokens /\ tokens'[trips[v].token] = tokens[trips[v].token]
        BY <1>1, <1>4 DEF TokenInv, Carries, TokenTypes, TripRecords, TokenOrNone
    <3>4. \A s \in Tokens : tokens'[s].family = tokens[trips[u].token].family =>
             tokens'[s] = tokens[s]
        BY <1>2, <1>4, <1>5, <3>1
    <3>5. \A s \in Live : tokens'[s] = tokens[s] /\ s \in Tokens
        BY <1>1, <1>4 DEF Live
    <3> QED
        BY <2>2, <3>1, <3>2, <3>3, <3>4, <3>5 DEF TokenInv, Carries, Live
  <2> QED
      BY <2>1, <2>2
<1>10. EndedStays
    BY <1>2, <1>4, <1>5 DEF EndedStays, Family, Live
<1> QED
    BY <1>2, <1>4, <1>6, <1>7, <1>8, <1>9, <1>10 DEF TokenInv

\* Tokens end: what a family has lost for good is written down for those who would still
\* refresh in it (revoke_refresh_token, revoke_all_for_user, expires_at).
LEMMA RevokingKeepsTokens ==
    ASSUME TokenInv, NEW gone \in SUBSET Tokens, NEW others \in SUBSET Users,
           \A t \in gone : tokens[t].state # "none",
           tokens' = Revoked(tokens, gone),
           \/ trips' = trips /\ others = Users
           \/ \E u \in Users : trips' = [trips EXCEPT ![u] = NoTrip] /\ others = Users \ {u},
           forked' = forked, outlived' = outlived \cup Outlived(others, tokens')
    PROVE  /\ TokenInv' /\ EndedStays
           /\ \A s \in Tokens : tokens'[s].state = "none" => tokens[s].state = "none"
<1>1. \A s \in Tokens : /\ tokens'[s] \in TokenRows
                        /\ tokens'[s].family = tokens[s].family
                        /\ tokens'[s].state = IF s \in gone THEN "revoked" ELSE tokens[s].state
    BY DEF Revoked, TokenInv, TokenTypes, TokenRows, TokenStates
<1>2. /\ \A v \in Users : trips'[v] \in TripRecords
      /\ \A v \in Users : trips'[v] = trips[v] \/ trips'[v] = NoTrip
      /\ \A v \in Users : trips'[v].kind # "none" => v \in others
      /\ trips' \in [Users -> TripRecords]
    BY UnusedFacts DEF TokenInv, TokenTypes
<1>3. outlived \subseteq outlived' /\ outlived' \subseteq Tokens
    BY DEF Outlived, TokenInv, TokenTypes
<1>4. tokens' \in [Tokens -> TokenRows]
    BY <1>1 DEF Revoked
<1>5. TokenTypes'
    BY <1>2, <1>3, <1>4 DEF TokenInv, TokenTypes
<1>6. Live' \subseteq Live /\ \A s \in Live : s \notin gone => s \in Live'
    BY <1>1 DEF Live
<1>7. FamiliesInv'
    BY <1>1 DEF TokenInv, FamiliesInv
<1>8. LiveInv'
    BY <1>1, <1>6 DEF TokenInv, LiveInv, Live
<1>9. ASSUME NEW u \in Users
      PROVE  Carries(u)'
  <2> DEFINE t == trips[u].token
  <2> DEFINE f == tokens[t].family
  <2>1. CASE trips'[u] = NoTrip
      BY <2>1, UnusedFacts DEF Carries
  <2>2. CASE trips'[u] = trips[u] /\ t = NoToken
      BY <2>2 DEF TokenInv, Carries
  <2>3. CASE trips'[u] = trips[u] /\ t # NoToken
    <3>1. /\ t \in Tokens /\ tokens[t].state # "none" /\ tokens'[t].family = f
          /\ trips[u].kind # "none" /\ u \in others /\ f \in Tokens
        BY <1>1, <1>2, <2>3
           DEF TokenInv, TokenTypes, TripRecords, TokenOrNone, Carries, FamiliesInv
    <3>2. tokens'[t].state # "none"
        BY <1>1, <3>1
    <3>3. f \notin forked =>
             /\ \A v \in Users \ {u} :
                  trips'[v].token # NoToken => tokens'[trips'[v].token].family # f
             /\ \A s \in Live' : tokens'[s].family = f => s = t
      <4>1. \A v \in Users : trips'[v].token # NoToken =>
               /\ trips'[v] = trips[v] /\ trips[v].token \in Tokens
               /\ tokens'[trips[v].token].family = tokens[trips[v].token].family
          BY <1>1, <1>2, UnusedFacts DEF TokenInv, TokenTypes, TripRecords, TokenOrNone
      <4>2. \A s \in Live' : s \in Live /\ tokens'[s].family = tokens[s].family
          BY <1>1, <1>6 DEF Live
      <4> QED
          BY <2>3, <4>1, <4>2 DEF TokenInv, Carries
    <3>4. trips[u].kind = "refresh" => f \in outlived' \/ \E s \in Live' : tokens'[s].family = f
      <4> SUFFICES ASSUME trips[u].kind = "refresh", \A s \in Live' : tokens'[s].family # f
                   PROVE  f \in outlived'
          OBVIOUS
      <4>1. \A s \in Tokens : tokens'[s].family = f => tokens'[s].state # "live"
          BY DEF Live
      <4>2. f \in Outlived(others, tokens')
          BY <3>1, <4>1 DEF Outlived
      <4> QED
          BY <4>2
    <3> QED
        BY <2>3, <3>1, <3>2, <3>3, <3>4 DEF Carries
  <2> QED
      BY <1>2, <2>1, <2>2, <2>3
<1>10. EndedStays
    BY <1>1 DEF EndedStays, Family, Live
<1> QED
    BY <1>1, <1>5, <1>7, <1>8, <1>9, <1>10 DEF TokenInv

\* A refresh puts a successor in the place of the token it has read.
LEMMA CommitRefreshKeepsTokens ==
    ASSUME TokenInv, NEW u \in Users, CommitRefresh(u)
    PROVE  /\ TokenInv' /\ EndedStays
           /\ \A s \in Tokens : tokens'[s].state = "none" => tokens[s].state = "none"
<1> DEFINE t == trips[u].token
<1> DEFINE f == tokens[t].family
<1>1. /\ t \in Tokens /\ t # NoToken /\ tokens[t].state # "none" /\ f \in Tokens
      /\ trips[u].kind = "refresh" /\ tokens[f].state # "none"
    BY DEF CommitRefresh, TokenInv, TokenTypes, TripRecords, TokenOrNone, Carries, FamiliesInv
<1>2. /\ f \in outlived \/ \E s \in Live : tokens[s].family = f
      /\ f \notin forked => \A s \in Live : tokens[s].family = f => s = t
      /\ f \notin forked => \A v \in Users \ {u} :
                    trips[v].token # NoToken => tokens[trips[v].token].family # f
    BY <1>1 DEF TokenInv, Carries
<1>3. PICK n \in Free : tokens' = Rotated(t, n)
    BY DEF CommitRefresh
<1>4. n \in Tokens /\ tokens[n].state = "none" /\ n # t
    BY <1>1 DEF Free
<1>5. /\ trips' = [trips EXCEPT ![u] = NoTrip] /\ UNCHANGED <<forked, outlived>>
      /\ \A v \in Users : trips'[v] = IF v = u THEN NoTrip ELSE trips[v]
    BY DEF CommitRefresh, TokenInv, TokenTypes
<1>6. /\ tokens' \in [Tokens -> TokenRows]
      /\ \A s \in Tokens : /\ s # n => tokens'[s].family = tokens[s].family
                           /\ s \notin {n, t} => tokens'[s].state = tokens[s].state
      /\ tokens'[n].state = "live" /\ tokens'[n].family = f /\ tokens'[t].state = "revoked"
  <2> DEFINE row == [state |-> "live", family |-> f]
  <2> DEFINE table == [s \in Tokens |-> IF s \in {t} THEN [tokens[s] EXCEPT !.state = "revoked"]
                                        ELSE tokens[s]]
  <2>1. row \in TokenRows /\ row.state = "live" /\ row.family = f
      BY <1>1 DEF TokenRows, TokenStates, TokenOrNone
  <2>2. /\ table \in [Tokens -> TokenRows] /\ table[t].state = "revoked"
        /\ \A s \in Tokens : table[s].family = tokens[s].family
        /\ \A s \in Tokens : s # t => table[s].state = tokens[s].state
      BY <1>1 DEF TokenInv, TokenTypes, TokenRows, TokenStates
  <2>3. tokens' = [table EXCEPT ![n] = row]
      BY <1>3 DEF Rotated, Issued, Revoked
  <2> HIDE DEF row, table
  <2> QED
      BY <1>1, <1>4, <2>1, <2>2, <2>3
<1> HIDE DEF t, f
<1>7. TokenTypes'
    BY <1>5, <1>6, UnusedFacts DEF TokenInv, TokenTypes
<1>8. FamiliesInv'
    BY <1>1, <1>4, <1>6 DEF TokenInv, FamiliesInv
<1>9. \A s \in Live' : /\ s \in Tokens /\ s # t
                       /\ s = n \/ (s \in Live /\ tokens'[s].family = tokens[s].family)
    BY <1>4, <1>6 DEF Live
<1>10. LiveInv'
    BY <1>2, <1>4, <1>5, <1>6, <1>9 DEF TokenInv, LiveInv, Live
<1>11. ASSUME NEW v \in Users
       PROVE  Carries(v)'
  <2>1. CASE trips'[v].token = NoToken
      BY <1>5, <2>1, UnusedFacts DEF TokenInv, Carries
  <2>2. CASE trips'[v].token # NoToken
    <3> DEFINE x == trips[v].token
    <3>1. /\ v # u /\ trips'[v] = trips[v] /\ x \in Tokens /\ x # NoToken
          /\ tokens[x].state # "none" /\ x # n /\ tokens'[x].family = tokens[x].family
          /\ tokens'[x].state # "none"
        BY <1>4, <1>5, <1>6, <2>2, UnusedFacts
           DEF TokenInv, TokenTypes, TripRecords, TokenOrNone, Carries
    <3>2. \A w \in Users : trips'[w].token # NoToken =>
             /\ trips'[w] = trips[w] /\ trips[w].token \in Tokens
             /\ tokens'[trips[w].token].family = tokens[trips[w].token].family
        BY <1>4, <1>5, <1>6, UnusedFacts
           DEF TokenInv, TokenTypes, TripRecords, TokenOrNone, Carries
    <3>3. ASSUME tokens[x].family \notin forked
          PROVE  \A s \in Live' : tokens'[s].family = tokens[x].family => s = x
      <4>1. tokens[x].family # f
          BY <1>1, <3>1, <3>3 DEF TokenInv, Carries, t, f
      <4> QED
          BY <1>6, <1>9, <3>1, <3>3, <4>1 DEF TokenInv, Carries
    <3>4. trips[v].kind = "refresh" =>
             tokens[x].family \in outlived' \/ \E s \in Live' : tokens'[s].family = tokens[x].family
      <4>1. CASE tokens[x].family = f
          BY <1>4, <1>6, <4>1 DEF Live
      <4>2. CASE tokens[x].family # f
        <5>1. \A s \in Live : tokens[s].family # f => s \in Live' /\ tokens'[s].family = tokens[s].family
            BY <1>4, <1>6 DEF Live, f
        <5> QED
            BY <1>5, <3>1, <4>2, <5>1 DEF TokenInv, Carries
      <4> QED
          BY <4>1, <4>2
    <3> QED
        BY <1>5, <3>1, <3>2, <3>3, <3>4 DEF TokenInv, Carries
  <2> QED
      BY <2>1, <2>2
<1>12. EndedStays
  <2> SUFFICES ASSUME NEW x \in Tokens, Family(x) \cap Live = {}, tokens[x].family \notin outlived,
                      NEW s \in Tokens, tokens'[s].family = tokens[x].family
               PROVE  tokens'[s].state # "live"
      BY DEF EndedStays
  <2>1. tokens[x].family # f
      BY <1>2 DEF Family, Live
  <2> QED
      BY <1>6, <2>1 DEF Family, Live
<1> QED
    BY <1>6, <1>7, <1>8, <1>10, <1>11, <1>12 DEF TokenInv

\* A request reads a token that is live; another that has read one of the family forks it.
LEMMA StartTripKeepsTokens ==
    ASSUME TokenInv, NEW u \in Users, NEW kind \in {"refresh", "logout"}, NEW t \in Tokens,
           StartTrip(u, kind, t)
    PROVE  TokenInv' /\ EndedStays
<1> DEFINE trip == [kind |-> kind, token |-> t]
<1>1. t \in Live /\ tokens' = tokens /\ outlived' = outlived /\ trips' = [trips EXCEPT ![u] = trip]
    BY DEF StartTrip, Usable
<1>2. trip \in TripRecords /\ trip.kind = kind /\ trip.token = t /\ t # NoToken
    BY UnusedFacts DEF TripRecords, TripKinds, TokenOrNone
<1> HIDE DEF trip
<1>3. \A v \in Users : trips'[v] = IF v = u THEN trip ELSE trips[v]
    BY <1>1 DEF TokenInv, TokenTypes
<1>4. tokens[t].state = "live" /\ tokens[t].family \in Tokens
    BY <1>1 DEF Live, TokenInv, FamiliesInv
<1>5. /\ forked \subseteq forked' /\ forked' \subseteq Tokens
      /\ \A v \in Users : trips[v].token \in Tokens /\ tokens[trips[v].token].family = tokens[t].family
            => tokens[t].family \in forked'
    BY <1>4, UnusedFacts DEF StartTrip, Family, TokenInv, TokenTypes
<1>6. TokenTypes'
    BY <1>1, <1>2, <1>5 DEF TokenInv, TokenTypes
<1>7. FamiliesInv' /\ LiveInv' /\ EndedStays
    BY <1>1, <1>5 DEF TokenInv, FamiliesInv, LiveInv, Live, EndedStays, Family
<1>8. \A v \in Users : trips[v].token # NoToken => trips[v].token \in Tokens
    BY DEF TokenInv, TokenTypes, TripRecords, TokenOrNone
<1>9. Carries(u)'
    BY <1>1, <1>2, <1>3, <1>4, <1>5, <1>8 DEF TokenInv, Carries, LiveInv, Live
<1>10. ASSUME NEW v \in Users, v # u
       PROVE  Carries(v)'
    BY <1>1, <1>2, <1>3, <1>4, <1>5, <1>8, <1>10 DEF TokenInv, Carries, Live
<1> QED
    BY <1>6, <1>7, <1>9, <1>10 DEF TokenInv

\* A request that fails leaves the tokens as they are.
LEMMA TripFailsKeepsTokens ==
    ASSUME TokenInv, NEW u \in Users, TripFails(u)
    PROVE  TokenInv' /\ EndedStays
<1>1. /\ trips' = [trips EXCEPT ![u] = NoTrip] /\ UNCHANGED <<tokens, forked, outlived>>
      /\ \A v \in Users : trips'[v] = IF v = u THEN NoTrip ELSE trips[v]
    BY DEF TripFails, TokenInv, TokenTypes
<1>2. TokenTypes'
    BY <1>1, UnusedFacts DEF TokenInv, TokenTypes
<1>3. FamiliesInv' /\ LiveInv' /\ EndedStays
    BY <1>1 DEF TokenInv, FamiliesInv, LiveInv, Live, EndedStays, Family
<1>4. \A v \in Users : Carries(v)'
    BY <1>1, UnusedFacts DEF TokenInv, Carries, Live
<1> QED
    BY <1>2, <1>3, <1>4 DEF TokenInv

\* What the flows promise needs of the tokens only that none is ever taken back.
LEMMA TokensKeepFlows ==
    ASSUME SessionInv, TokenInv', UNCHANGED <<flows, confirming, issued, handed, made>>,
           \A s \in Tokens : tokens'[s].state = "none" => tokens[s].state = "none"
    PROVE  SessionInv'
<1>1. FlowTypes' /\ \A f \in Flows : StageInv(f)'
    BY DEF SessionInv, FlowInv, FlowTypes, StageInv
<1>2. WaitingInv'
    BY DEF SessionInv, FlowInv, FlowTypes, WaitingInv, TokenOrNone
<1> QED
    BY <1>1, <1>2 DEF SessionInv, FlowInv

\* A step of the provider that leaves the tokens alone.
LEMMA FlowsKeepTokens ==
    ASSUME SessionInv, FlowInv', UNCHANGED <<tokens, trips, forked, outlived>>
    PROVE  SessionInv' /\ EndedStays
<1>1. TokenTypes' /\ FamiliesInv' /\ LiveInv' /\ EndedStays
    BY DEF SessionInv, TokenInv, TokenTypes, FamiliesInv, LiveInv, Live, EndedStays, Family
<1>2. \A u \in Users : Carries(u)'
    BY DEF SessionInv, TokenInv, Carries, Live
<1> QED
    BY <1>1, <1>2 DEF SessionInv, TokenInv

\* The requests of the person: login, refresh, logout, and the time that passes.
LEMMA TokenRequestStep ==
    ASSUME SessionInv,
           \/ LogIn \/ RevokeAll
           \/ \E t \in Tokens : TokenExpires(t)
           \/ \E u \in Users :
                \/ \E t \in Tokens, kind \in {"refresh", "logout"} : StartTrip(u, kind, t)
                \/ TripFails(u) \/ CommitRefresh(u) \/ CommitLogout(u)
    PROVE  SessionInv' /\ EndedStays
<1>1. TokenInv
    BY DEF SessionInv
<1>2. CASE LogIn
    BY <1>1, <1>2, LogInKeepsTokens, TokensKeepFlows DEF LogIn, oauth
<1>3. CASE RevokeAll
  <2>1. Live \in SUBSET Tokens /\ Users \in SUBSET Users /\ \A t \in Live : tokens[t].state # "none"
      BY DEF Live
  <2>2. TokenInv' /\ EndedStays /\ \A s \in Tokens : tokens'[s].state = "none" => tokens[s].state = "none"
      BY <1>1, <1>3, <2>1, RevokingKeepsTokens DEF RevokeAll
  <2> QED
      BY <1>3, <2>2, TokensKeepFlows DEF RevokeAll, oauth
<1>4. ASSUME NEW t \in Tokens, TokenExpires(t)
      PROVE  SessionInv' /\ EndedStays
  <2>1. {t} \in SUBSET Tokens /\ Users \in SUBSET Users /\ \A s \in {t} : tokens[s].state # "none"
      BY <1>4 DEF TokenExpires, Live
  <2>2. TokenInv' /\ EndedStays /\ \A s \in Tokens : tokens'[s].state = "none" => tokens[s].state = "none"
      BY <1>1, <1>4, <2>1, RevokingKeepsTokens DEF TokenExpires
  <2> QED
      BY <1>4, <2>2, TokensKeepFlows DEF TokenExpires, oauth
<1>5. ASSUME NEW u \in Users, NEW t \in Tokens, NEW kind \in {"refresh", "logout"},
             StartTrip(u, kind, t)
      PROVE  SessionInv' /\ EndedStays
  <2>1. tokens' = tokens
      BY <1>5 DEF StartTrip
  <2> QED
      BY <1>1, <1>5, <2>1, StartTripKeepsTokens, TokensKeepFlows DEF StartTrip, oauth
<1>6. ASSUME NEW u \in Users, TripFails(u)
      PROVE  SessionInv' /\ EndedStays
  <2>1. tokens' = tokens
      BY <1>6 DEF TripFails
  <2> QED
      BY <1>1, <1>6, <2>1, TripFailsKeepsTokens, TokensKeepFlows DEF TripFails, oauth
<1>7. ASSUME NEW u \in Users, CommitRefresh(u)
      PROVE  SessionInv' /\ EndedStays
    BY <1>1, <1>7, CommitRefreshKeepsTokens, TokensKeepFlows DEF CommitRefresh, oauth
<1>8. ASSUME NEW u \in Users, CommitLogout(u)
      PROVE  SessionInv' /\ EndedStays
  <2>1. {trips[u].token} \in SUBSET Tokens /\ Users \ {u} \in SUBSET Users
        /\ \A s \in {trips[u].token} : tokens[s].state # "none"
      BY <1>1, <1>8 DEF CommitLogout, TokenInv, TokenTypes, TripRecords, TokenOrNone, Carries
  <2>2. TokenInv' /\ EndedStays /\ \A s \in Tokens : tokens'[s].state = "none" => tokens[s].state = "none"
      BY <1>1, <1>8, <2>1, RevokingKeepsTokens DEF CommitLogout
  <2> QED
      BY <1>8, <2>2, TokensKeepFlows DEF CommitLogout, oauth
<1> QED
    BY <1>2, <1>3, <1>4, <1>5, <1>6, <1>7, <1>8

\* A flow is confirmed: its session is made, and waits for the code.
LEMMA ConfirmStep ==
    ASSUME SessionInv, NEW f \in Flows, Confirm(f)
    PROVE  SessionInv' /\ EndedStays
<1>1. PICK t \in Free : tokens' = Issued(tokens, t, t) /\ issued' = [issued EXCEPT ![f] = t]
    BY DEF Confirm
<1>2. t \in Tokens /\ tokens[t].state = "none" /\ t # NoToken
    BY UnusedFacts DEF Free
<1>3. TokenInv' /\ EndedStays /\ \A s \in Tokens : tokens'[s].state = "none" => tokens[s].state = "none"
    BY <1>1, LogInKeepsTokens DEF SessionInv, Confirm
<1>4. tokens'[t].state = "live"
    BY <1>1, <1>2 DEF Issued, SessionInv, TokenInv, TokenTypes
<1>5. flows[f] = "claimed" /\ confirming[f] = 1 /\ made[f] = 0
    BY DEF Confirm, SessionInv, FlowInv, FlowTypes, FlowStates, StageInv
<1>6. /\ flows' = [flows EXCEPT ![f] = "code"] /\ confirming' = [confirming EXCEPT ![f] = 0]
      /\ made' = [made EXCEPT ![f] = 1] /\ handed' = handed
    BY <1>5 DEF Confirm
<1>7. FlowTypes'
    BY <1>1, <1>2, <1>6 DEF SessionInv, FlowInv, FlowTypes, FlowStates, TokenOrNone
<1>8. \A g \in Flows : StageInv(g)'
    BY <1>6 DEF SessionInv, FlowInv, FlowTypes, StageInv
<1>9. \A g \in Flows : issued'[g] = IF g = f THEN t ELSE issued[g]
    BY <1>1 DEF SessionInv, FlowInv, FlowTypes
<1>10. \A g \in Flows : flows'[g] = IF g = f THEN "code" ELSE flows[g]
    BY <1>6 DEF SessionInv, FlowInv, FlowTypes
<1>11. \A g \in Flows : issued[g] # NoToken => issued[g] \in Tokens /\ issued[g] # t
    BY <1>2 DEF SessionInv, FlowInv, FlowTypes, WaitingInv, TokenOrNone
<1>12. WaitingInv'
    BY <1>2, <1>3, <1>4, <1>6, <1>9, <1>10, <1>11 DEF SessionInv, FlowInv, WaitingInv
<1> QED
    BY <1>3, <1>7, <1>8, <1>12 DEF SessionInv, FlowInv

\* The other steps of the provider: claims, answers, codes that are exchanged once, and
\* the restart of the process.
LEMMA FlowStep ==
    ASSUME SessionInv,
           \/ ServerRestarts
           \/ \E f \in Flows : \/ Authorize(f) \/ ClaimFlow(f) \/ Reinsert(f)
                               \/ ConfirmationBreaks(f) \/ ExchangeCode(f) \/ FlowExpires(f)
    PROVE  SessionInv' /\ EndedStays
<1> USE DEF FlowStates
<1>1. CASE ServerRestarts
  <2>1. /\ flows' \in [Flows -> FlowStates]
        /\ \A f \in Flows : flows'[f] = IF flows[f] = "none" THEN "none" ELSE "over"
        /\ confirming' = [f \in Flows |-> 0] /\ issued' = [f \in Flows |-> NoToken]
        /\ UNCHANGED <<tokens, trips, forked, outlived, handed, made>>
      BY <1>1 DEF ServerRestarts
  <2>2. FlowTypes'
      BY <2>1 DEF SessionInv, FlowInv, FlowTypes, TokenOrNone
  <2>3. \A f \in Flows : StageInv(f)'
      BY <2>1 DEF SessionInv, FlowInv, FlowTypes, StageInv
  <2>4. WaitingInv'
      BY <2>1 DEF SessionInv, FlowInv, WaitingInv
  <2> QED
      BY <2>1, <2>2, <2>3, <2>4, FlowsKeepTokens DEF FlowInv
<1>2. ASSUME NEW f \in Flows,
             Authorize(f) \/ ClaimFlow(f) \/ Reinsert(f) \/ ConfirmationBreaks(f)
      PROVE  SessionInv' /\ EndedStays
  <2>1. /\ flows[f] # "code" /\ issued[f] = NoToken
        /\ \/ flows[f] = "none" /\ flows'[f] = "pending" /\ confirming'[f] = 0
           \/ flows[f] = "pending" /\ flows'[f] = "claimed" /\ confirming'[f] = 1
           \/ flows[f] = "claimed" /\ flows'[f] \in {"pending", "over"} /\ confirming'[f] = 0
        /\ \A g \in Flows : g # f => flows'[g] = flows[g] /\ confirming'[g] = confirming[g]
        /\ flows' \in [Flows -> FlowStates] /\ confirming' \in [Flows -> 0..2]
        /\ UNCHANGED <<tokens, trips, forked, outlived, issued, handed, made>>
      BY <1>2 DEF Authorize, ClaimFlow, Claimed, Reinsert, ConfirmationBreaks,
                  SessionInv, FlowInv, FlowTypes, StageInv, WaitingInv
  <2>2. FlowTypes'
      BY <2>1 DEF SessionInv, FlowInv, FlowTypes
  <2>3. \A g \in Flows : StageInv(g)'
      BY <2>1 DEF SessionInv, FlowInv, FlowTypes, StageInv
  <2>4. WaitingInv'
      BY <2>1 DEF SessionInv, FlowInv, WaitingInv
  <2> QED
      BY <2>1, <2>2, <2>3, <2>4, FlowsKeepTokens DEF FlowInv
<1>3. ASSUME NEW f \in Flows, ExchangeCode(f)
      PROVE  SessionInv' /\ EndedStays
  <2> DEFINE t == issued[f]
  <2>1. t \in Tokens /\ t # NoToken /\ flows[f] = "code" /\ handed[t] = 0 /\ tokens[t].state # "none"
      BY <1>3 DEF ExchangeCode, SessionInv, FlowInv, FlowTypes, WaitingInv, TokenOrNone
  <2>2. /\ handed' = [handed EXCEPT ![t] = 1] /\ issued' = [issued EXCEPT ![f] = NoToken]
        /\ flows' = [flows EXCEPT ![f] = "over"]
        /\ UNCHANGED <<tokens, trips, forked, outlived, confirming, made>>
      BY <1>3, <2>1 DEF ExchangeCode, Popped
  <2>3. FlowTypes'
      BY <2>1, <2>2 DEF SessionInv, FlowInv, FlowTypes, TokenOrNone
  <2>4. \A g \in Flows : StageInv(g)'
      BY <2>1, <2>2 DEF SessionInv, FlowInv, FlowTypes, StageInv
  <2>5. \A g \in Flows : issued[g] = t => g = f
      BY <2>1 DEF SessionInv, FlowInv, WaitingInv
  <2>6. /\ \A g \in Flows : issued'[g] = IF g = f THEN NoToken ELSE issued[g]
        /\ \A g \in Flows : flows'[g] = IF g = f THEN "over" ELSE flows[g]
        /\ \A s \in Tokens : handed'[s] = IF s = t THEN 1 ELSE handed[s]
        /\ \A g \in Flows : issued[g] # NoToken => issued[g] \in Tokens
      BY <2>2 DEF SessionInv, FlowInv, FlowTypes, TokenOrNone
  <2> HIDE DEF t
  <2>7. WaitingInv'
      BY <2>1, <2>2, <2>5, <2>6 DEF SessionInv, FlowInv, WaitingInv
  <2> QED
      BY <2>2, <2>3, <2>4, <2>7, FlowsKeepTokens DEF FlowInv
<1>4. ASSUME NEW f \in Flows, FlowExpires(f)
      PROVE  SessionInv' /\ EndedStays
  <2>1. /\ flows[f] \in {"pending", "code"}
        /\ flows' = [flows EXCEPT ![f] = "over"] /\ issued' = [issued EXCEPT ![f] = NoToken]
        /\ UNCHANGED <<tokens, trips, forked, outlived, confirming, handed, made>>
      BY <1>4 DEF FlowExpires
  <2>2. FlowTypes'
      BY <2>1 DEF SessionInv, FlowInv, FlowTypes, TokenOrNone
  <2>3. \A g \in Flows : StageInv(g)'
      BY <2>1 DEF SessionInv, FlowInv, FlowTypes, StageInv
  <2>4. WaitingInv'
      BY <2>1 DEF SessionInv, FlowInv, FlowTypes, WaitingInv
  <2> QED
      BY <2>1, <2>2, <2>3, <2>4, FlowsKeepTokens DEF FlowInv
<1> QED
    BY <1>1, <1>2, <1>3, <1>4

\* Every step of the tokens and of the flows keeps the invariant, and what has ended.
LEMMA SessionStep ==
    SessionInv /\ [SessionNext]_sessionVars => SessionInv' /\ (EndedStays \/ UNCHANGED sessionVars)
<1> SUFFICES ASSUME SessionInv, [SessionNext]_sessionVars
             PROVE  SessionInv' /\ (EndedStays \/ UNCHANGED sessionVars)
    OBVIOUS
<1>1. CASE UNCHANGED sessionVars
  <2>1. UNCHANGED <<tokens, trips, forked, outlived, flows, confirming, issued, handed, made>>
      BY <1>1 DEF sessionVars
  <2>2. FlowInv'
      BY <2>1 DEF SessionInv, FlowInv, FlowTypes, WaitingInv, StageInv
  <2> QED
      BY <2>1, <2>2, FlowsKeepTokens
<1>2. CASE SessionNext
    BY <1>2, TokenRequestStep, ConfirmStep, FlowStep DEF SessionNext
<1> QED
    BY <1>1, <1>2

\* A session is one chain of refresh tokens and ends for good, a flow makes one session
\* and a code hands it out once, for all numbers of tokens, requests and flows, but for
\* the overlaps that the property names.
THEOREM SessionsAreAlwaysChains == SessionSpec => SessionsAreChains
<1>1. SessionInit => SessionInv
    BY SessionsInitially
<1>2. SessionInv /\ [SessionNext]_sessionVars => SessionInv'
    BY SessionStep
<1>3. SessionInv /\ [SessionNext]_sessionVars => [EndedStays]_sessionVars
    BY SessionStep
<1>4. SessionInv => SessionsDoNotFork
  <2> SUFFICES ASSUME SessionInv PROVE SessionsDoNotFork
      OBVIOUS
  <2>1. OneTokenPerFamily
      BY DEF SessionInv, TokenInv, LiveInv, OneTokenPerFamily, Family, Live
  <2>2. \A f \in Flows : made[f] <= 1
      BY DEF SessionInv, FlowInv, FlowTypes, FlowStates, StageInv
  <2>3. \A t \in Tokens : handed[t] <= 1
      BY DEF SessionInv, FlowInv, WaitingInv
  <2> QED
      BY <2>1, <2>2, <2>3 DEF SessionsDoNotFork, OneSessionPerFlow
<1>5. SessionSpec => []SessionInv
    BY <1>1, <1>2, PTL DEF SessionSpec
<1>6. SessionSpec => [][EndedStays]_sessionVars
    BY <1>3, <1>5, PTL DEF SessionSpec
<1>7. [][EndedStays]_sessionVars => EndedSessionsStayEnded
    BY DEF EndedSessionsStayEnded, EndedStays
<1> QED
    BY <1>4, <1>5, <1>6, <1>7, PTL DEF SessionsAreChains

\* The rows of the tokens and the memory of the provider keep their types.
THEOREM SessionTypes == SessionSpec => []SessionTypeOK
<1>1. SessionInit => SessionInv
    BY SessionsInitially
<1>2. SessionInv /\ [SessionNext]_sessionVars => SessionInv'
    BY SessionStep
<1>3. SessionInv => SessionTypeOK
    BY DEF SessionInv, TokenInv, TokenTypes, TokenRows, TokenStates, TokenOrNone, TripRecords,
           TripKinds, FlowInv, FlowTypes, FlowStates, SessionTypeOK
<1> QED
    BY <1>1, <1>2, <1>3, PTL DEF SessionSpec

-----------------------------------------------------------------------------
(* Incidents: one postmortem, and an approval that is final.               *)

PostmortemRows == [status : DraftStatus, cause : Causes]
AskKindOrNone == IncidentKinds \cup {"none"}
DraftOrNone == Drafts \cup {NoDraft}
CopiedStatus == IncidentStatus \cup Editable
AskRecords == [kind : AskKindOrNone, row : DraftOrNone, status : CopiedStatus,
               resolved : BOOLEAN, cause : Causes]

IncidentTypes ==
    /\ incident \in [status : IncidentStatus, resolved : BOOLEAN]
    /\ postmortems \in [Drafts -> PostmortemRows]
    /\ timeline \in 0..MaxNotes
    /\ ask \in [Responders -> AskRecords]
    /\ incOverlaps \subseteq Excused

\* Who is about to insert has seen that there is nothing, and is alone.
DraftingInv ==
    {"insert"} \notin incOverlaps =>
        /\ \A d, e \in Existing : d = e
        /\ \A r, q \in Responders : ask[r].kind = "insert" /\ ask[q].kind = "insert" => r = q
        /\ \A r \in Responders : ask[r].kind = "insert" => Existing = {}

\* An edit is of a row that is not approved yet, unless an approval is under way.
ReviewingInv ==
    /\ \A r \in Responders : ask[r].kind \in {"edit", "approve"} => ask[r].row \in Existing
    /\ {"edit", "approve"} \notin incOverlaps =>
        \A r \in Responders : ask[r].kind = "edit" =>
            /\ postmortems[ask[r].row].status \in Editable
            /\ \A q \in Responders : ask[q].kind # "approve"

IncidentInv == IncidentTypes /\ DraftingInv /\ ReviewingInv

\* What a step may never do to an approved postmortem.
ApprovedStays ==
    {"edit", "approve"} \notin incOverlaps =>
        \A d \in Drafts : postmortems[d].status = "approved" => postmortems'[d] = postmortems[d]

\* A request that does nothing, and a row that was not made.
LEMMA NoAskFacts ==
    /\ NoAsk \in AskRecords /\ NoAsk.kind = "none"
    /\ NoRow \in PostmortemRows /\ NoRow.status = "absent"
<1>1. NoCause \in Causes
    BY IncidentConstants DEF NoCause
<1> QED
    BY <1>1 DEF NoAsk, NoRow, AskRecords, AskKindOrNone, DraftOrNone, CopiedStatus, IncidentStatus,
                PostmortemRows, DraftStatus

\* The incident is open, and nothing has been written of it.
LEMMA IncidentInitially == IncidentInit => IncidentInv
<1> SUFFICES ASSUME IncidentInit PROVE IncidentInv
    OBVIOUS
<1>1. IncidentTypes
    BY NoAskFacts, IncidentConstants DEF IncidentInit, IncidentTypes, IncidentStatus
<1>2. DraftingInv /\ ReviewingInv
    BY NoAskFacts DEF IncidentInit, DraftingInv, ReviewingInv, Existing
<1> QED
    BY <1>1, <1>2 DEF IncidentInv

\* A request begins with its copy, and is noted where it may harm another.
LEMMA BeginAskStep ==
    ASSUME IncidentInv, NEW r \in Responders, NEW a \in AskRecords, BeginAsk(r, a),
           a.kind # "insert",
           a.kind \in {"edit", "approve"} => a.row \in Existing /\ postmortems[a.row].status \in Editable
    PROVE  IncidentInv' /\ ApprovedStays
<1>1. /\ ask' = [ask EXCEPT ![r] = a] /\ UNCHANGED <<incident, postmortems, timeline>>
      /\ incOverlaps' = incOverlaps \cup Races(a.kind, r)
      /\ \A q \in Responders : ask'[q] = IF q = r THEN a ELSE ask[q]
    BY DEF BeginAsk, IncidentInv, IncidentTypes
<1>2. IncidentTypes'
    BY <1>1 DEF IncidentInv, IncidentTypes, Races
<1>3. DraftingInv'
    BY <1>1 DEF IncidentInv, DraftingInv, Existing
<1>4. \A q \in Responders \ {r} : {a.kind, ask[q].kind} = {"edit", "approve"} =>
            {"edit", "approve"} \in incOverlaps'
    BY <1>1 DEF Races, Excused
<1>5. ReviewingInv'
  <2>1. \A q \in Responders : ask'[q].kind \in {"edit", "approve"} => ask'[q].row \in Existing'
      BY <1>1 DEF IncidentInv, ReviewingInv, Existing
  <2>2. ASSUME {"edit", "approve"} \notin incOverlaps', NEW q \in Responders, ask'[q].kind = "edit"
        PROVE  /\ postmortems'[ask'[q].row].status \in Editable
               /\ \A p \in Responders : ask'[p].kind # "approve"
    <3>1. {"edit", "approve"} \notin incOverlaps
        BY <1>1, <2>2
    <3>2. CASE q = r
      <4>1. a.kind = "edit"
          BY <1>1, <2>2, <3>2
      <4>2. ASSUME NEW p \in Responders, ask'[p].kind = "approve"
            PROVE  FALSE
        <5>1. p # r /\ ask[p].kind = "approve"
            BY <1>1, <4>1, <4>2
        <5>2. {a.kind, ask[p].kind} = {"edit", "approve"}
            BY <4>1, <5>1
        <5> QED
            BY <1>4, <2>2, <5>1, <5>2
      <4> QED
          BY <1>1, <3>2, <4>1, <4>2
    <3>3. CASE q # r
      <4>1. ask[q].kind = "edit" /\ ask'[q] = ask[q]
          BY <1>1, <2>2, <3>3
      <4>2. a.kind # "approve"
        <5> SUFFICES ASSUME a.kind = "approve" PROVE FALSE
            OBVIOUS
        <5>1. {a.kind, ask[q].kind} = {"edit", "approve"}
            BY <4>1
        <5> QED
            BY <1>4, <2>2, <3>3, <5>1
      <4> QED
          BY <1>1, <3>1, <4>1, <4>2 DEF IncidentInv, ReviewingInv
    <3> QED
        BY <3>2, <3>3
  <2> QED
      BY <2>1, <2>2 DEF ReviewingInv
<1>6. ApprovedStays
    BY <1>1 DEF ApprovedStays
<1> QED
    BY <1>2, <1>3, <1>5, <1>6 DEF IncidentInv

\* A request ends without having touched a postmortem.
LEMMA QuietEndStep ==
    ASSUME IncidentInv, NEW r \in Responders, EndAsk(r), UNCHANGED <<postmortems, timeline>>,
           incident' \in [status : IncidentStatus, resolved : BOOLEAN]
    PROVE  IncidentInv' /\ ApprovedStays
<1>1. /\ ask' = [ask EXCEPT ![r] = NoAsk] /\ incOverlaps' = incOverlaps
      /\ \A q \in Responders : ask'[q] = IF q = r THEN NoAsk ELSE ask[q]
    BY DEF EndAsk, IncidentInv, IncidentTypes
<1>2. IncidentTypes'
    BY <1>1, NoAskFacts DEF IncidentInv, IncidentTypes
<1>3. DraftingInv' /\ ReviewingInv' /\ ApprovedStays
    BY <1>1, NoAskFacts DEF IncidentInv, DraftingInv, ReviewingInv, Existing, ApprovedStays
<1> QED
    BY <1>2, <1>3 DEF IncidentInv

\* A request ends and has written a row that exists: an edit or an approval.
LEMMA WriteStep ==
    ASSUME IncidentInv, NEW r \in Responders, EndAsk(r), UNCHANGED <<incident, timeline>>,
           ask[r].kind \in {"edit", "approve"}, NEW row \in PostmortemRows, row.status # "absent",
           postmortems' = [postmortems EXCEPT ![ask[r].row] = row],
           ask[r].kind = "edit" =>
              row.status \in Editable \/ row.status = postmortems[ask[r].row].status,
           ask[r].kind = "approve" => row = [postmortems[ask[r].row] EXCEPT !.status = "approved"]
    PROVE  IncidentInv' /\ ApprovedStays
<1> DEFINE d == ask[r].row
<1>1. d \in Existing /\ d \in Drafts
    BY DEF IncidentInv, ReviewingInv, Existing
<1>2. /\ ask' = [ask EXCEPT ![r] = NoAsk] /\ incOverlaps' = incOverlaps
      /\ \A q \in Responders : ask'[q] = IF q = r THEN NoAsk ELSE ask[q]
    BY DEF EndAsk, IncidentInv, IncidentTypes
<1>3. \A e \in Drafts : postmortems'[e] = IF e = d THEN row ELSE postmortems[e]
    BY DEF IncidentInv, IncidentTypes
<1> HIDE DEF d
<1>4. Existing' = Existing
    BY <1>1, <1>3 DEF Existing
<1>5. IncidentTypes'
    BY <1>2, NoAskFacts DEF IncidentInv, IncidentTypes
<1>6. DraftingInv'
    BY <1>2, <1>4, NoAskFacts DEF IncidentInv, DraftingInv
<1>7. ReviewingInv'
    BY <1>1, <1>2, <1>3, <1>4, NoAskFacts DEF IncidentInv, ReviewingInv, Existing, d
<1>8. ApprovedStays
  <2> SUFFICES ASSUME {"edit", "approve"} \notin incOverlaps, postmortems[d].status = "approved"
               PROVE  row = postmortems[d]
      BY <1>1, <1>3 DEF ApprovedStays
  <2>1. ask[r].kind = "approve"
      BY DEF IncidentInv, ReviewingInv, Editable, d
  <2>2. postmortems[d] \in PostmortemRows
      BY <1>1 DEF IncidentInv, IncidentTypes
  <2> QED
      BY <2>1, <2>2 DEF PostmortemRows, d
<1> QED
    BY <1>5, <1>6, <1>7, <1>8 DEF IncidentInv

\* The model has answered: the second look, and then the INSERT.
LEMMA DraftStep ==
    ASSUME IncidentInv, NEW r \in Responders, LookAgain(r) \/ CommitDraft(r)
    PROVE  IncidentInv' /\ ApprovedStays
<1>1. CASE LookAgain(r)
  <2> DEFINE a == [ask[r] EXCEPT !.kind = "insert"]
  <2>1. /\ Existing = {} /\ ask' = [ask EXCEPT ![r] = a]
        /\ incOverlaps' = incOverlaps \cup Races("insert", r)
        /\ UNCHANGED <<incident, postmortems, timeline>>
      BY <1>1 DEF LookAgain, CheckAgain
  <2>2. ask[r] \in AskRecords /\ "insert" \in AskKindOrNone
      BY DEF IncidentInv, IncidentTypes, AskKindOrNone, IncidentKinds
  <2>3. a \in AskRecords /\ a.kind = "insert"
      BY <2>2 DEF AskRecords
  <2> HIDE DEF a
  <2>4. \A q \in Responders : ask'[q] = IF q = r THEN a ELSE ask[q]
      BY <2>1 DEF IncidentInv, IncidentTypes
  <2>5. IncidentTypes'
      BY <2>1, <2>3 DEF IncidentInv, IncidentTypes, Races
  <2>6. \A q \in Responders \ {r} : ask[q].kind = "insert" => {"insert"} \in incOverlaps'
    <3> SUFFICES ASSUME NEW q \in Responders \ {r}, ask[q].kind = "insert"
                 PROVE  {"insert"} \in incOverlaps'
        OBVIOUS
    <3>1. {"insert", ask[q].kind} = {"insert"}
        OBVIOUS
    <3> QED
        BY <2>1, <3>1 DEF Races, Excused
  <2>7. DraftingInv'
      BY <2>1, <2>3, <2>4, <2>6 DEF IncidentInv, DraftingInv, Existing
  <2>8. ReviewingInv' /\ ApprovedStays
      BY <2>1, <2>3, <2>4 DEF IncidentInv, ReviewingInv, Existing, ApprovedStays
  <2> QED
      BY <2>5, <2>7, <2>8 DEF IncidentInv
<1>2. CASE CommitDraft(r)
  <2>1. PICK d \in Drafts \ Existing, cause \in Causes :
            postmortems' = [postmortems EXCEPT ![d] = [status |-> "draft", cause |-> cause]]
      BY <1>2 DEF CommitDraft
  <2> DEFINE row == [status |-> "draft", cause |-> cause]
  <2>2. row \in PostmortemRows /\ row.status = "draft"
      BY DEF PostmortemRows, DraftStatus
  <2>3. /\ ask[r].kind = "insert" /\ ask' = [ask EXCEPT ![r] = NoAsk] /\ incOverlaps' = incOverlaps
        /\ UNCHANGED <<incident, timeline>>
        /\ \A q \in Responders : ask'[q] = IF q = r THEN NoAsk ELSE ask[q]
      BY <1>2 DEF CommitDraft, EndAsk, IncidentInv, IncidentTypes
  <2>4. postmortems' = [postmortems EXCEPT ![d] = row]
      BY <2>1
  <2> HIDE DEF row
  <2>5. \A e \in Drafts : postmortems'[e] = IF e = d THEN row ELSE postmortems[e]
      BY <2>4 DEF IncidentInv, IncidentTypes
  <2>6. Existing' = Existing \cup {d} /\ postmortems[d].status = "absent"
      BY <2>2, <2>5 DEF Existing
  <2>7. IncidentTypes'
      BY <2>2, <2>3, <2>4, NoAskFacts DEF IncidentInv, IncidentTypes
  <2>8. DraftingInv'
      BY <2>3, <2>6, NoAskFacts DEF IncidentInv, DraftingInv
  <2>9. ReviewingInv'
      BY <2>1, <2>3, <2>5, <2>6, NoAskFacts DEF IncidentInv, ReviewingInv, Existing
  <2>10. ApprovedStays
      BY <2>5, <2>6 DEF ApprovedStays
  <2> QED
      BY <2>7, <2>8, <2>9, <2>10 DEF IncidentInv
<1> QED
    BY <1>1, <1>2

\* A request reads the incident, or a postmortem that may still be reviewed.
LEMMA StartAskStep ==
    ASSUME IncidentInv, NEW r \in Responders,
           \/ StartUpdateIncident(r) \/ StartDraft(r)
           \/ \E d \in Drafts : StartReview(r, "edit", d) \/ StartReview(r, "approve", d)
    PROVE  IncidentInv' /\ ApprovedStays
<1>1. ASSUME NEW kind \in {"update", "draft"}, BeginAsk(r, Copy(kind))
      PROVE  IncidentInv' /\ ApprovedStays
  <2>1. kind \in AskKindOrNone /\ incident.status \in CopiedStatus /\ incident.resolved \in BOOLEAN
      BY DEF AskKindOrNone, IncidentKinds, IncidentInv, IncidentTypes, CopiedStatus
  <2>2. Copy(kind) \in AskRecords /\ Copy(kind).kind = kind
      BY <2>1, NoAskFacts DEF Copy, AskRecords
  <2> QED
      BY <1>1, <2>2, BeginAskStep
<1>2. ASSUME NEW d \in Drafts, NEW kind \in {"edit", "approve"}, StartReview(r, kind, d)
      PROVE  IncidentInv' /\ ApprovedStays
  <2> DEFINE a == [NoAsk EXCEPT !.kind = kind, !.row = d, !.cause = postmortems[d].cause,
                                !.status = postmortems[d].status]
  <2>1. BeginAsk(r, a) /\ postmortems[d].status \in Editable
      BY <1>2 DEF StartReview, Reviewable
  <2>2. /\ kind \in AskKindOrNone /\ d \in DraftOrNone /\ postmortems[d].cause \in Causes
        /\ postmortems[d].status \in CopiedStatus /\ d \in Existing
      BY <2>1 DEF AskKindOrNone, IncidentKinds, DraftOrNone, CopiedStatus, Existing, Editable,
                  IncidentInv, IncidentTypes, PostmortemRows
  <2>3. a \in AskRecords /\ a.kind = kind /\ a.row = d
      BY <2>2, NoAskFacts DEF AskRecords
  <2> HIDE DEF a
  <2> QED
      BY <2>1, <2>2, <2>3, BeginAskStep
<1> QED
    BY <1>1, <1>2 DEF StartUpdateIncident, StartDraft

\* The commits of the people who edit and approve, and of those who edit the incident.
LEMMA CommitAskStep ==
    ASSUME IncidentInv, NEW r \in Responders,
           CommitUpdateIncident(r) \/ CommitEditPostmortem(r) \/ CommitApprove(r) \/ AskFails(r)
    PROVE  IncidentInv' /\ ApprovedStays
<1> DEFINE d == ask[r].row
<1>1. CASE AskFails(r)
    BY <1>1, QuietEndStep DEF AskFails, IncidentInv, IncidentTypes
<1>2. CASE CommitUpdateIncident(r)
  <2>1. incident' \in [status : IncidentStatus, resolved : BOOLEAN]
    <3>1. PICK status \in IncidentStatus :
             incident' = [status   |-> IF status # ask[r].status THEN status ELSE incident.status,
                          resolved |-> IF Stamp(status) # ask[r].resolved
                                       THEN Stamp(status) ELSE incident.resolved]
        BY <1>2 DEF CommitUpdateIncident
    <3> DEFINE newStatus == IF status # ask[r].status THEN status ELSE incident.status
    <3> DEFINE newResolved == IF Stamp(status) # ask[r].resolved
                              THEN Stamp(status) ELSE incident.resolved
    <3>2. newStatus \in IncidentStatus
        BY DEF IncidentInv, IncidentTypes
    <3>3. Stamp(status) \in BOOLEAN /\ incident.resolved \in BOOLEAN
        BY DEF Stamp, IncidentInv, IncidentTypes
    <3>4. newResolved \in BOOLEAN
        BY <3>3
    <3>5. incident' = [status |-> newStatus, resolved |-> newResolved]
        BY <3>1
    <3> HIDE DEF newStatus, newResolved
    <3> QED
        BY <3>2, <3>4, <3>5
  <2> QED
      BY <1>2, <2>1, QuietEndStep DEF CommitUpdateIncident
<1>3. CASE CommitEditPostmortem(r)
  <2>1. PICK cause \in Causes, status \in Editable :
           postmortems' = [postmortems EXCEPT
                ![d].status = IF status # ask[r].status THEN status ELSE @,
                ![d].cause = IF cause # ask[r].cause THEN cause ELSE @]
      BY <1>3 DEF CommitEditPostmortem
  <2>2. /\ ask[r].kind = "edit" /\ EndAsk(r) /\ UNCHANGED <<incident, timeline>>
        /\ d \in Existing /\ d \in Drafts
      BY <1>3 DEF CommitEditPostmortem, IncidentInv, ReviewingInv, Existing
  <2> DEFINE newStatus == IF status # ask[r].status THEN status ELSE postmortems[d].status
  <2> DEFINE newCause == IF cause # ask[r].cause THEN cause ELSE postmortems[d].cause
  <2> DEFINE row == [postmortems[d] EXCEPT !.status = newStatus, !.cause = newCause]
  <2>3. postmortems[d] \in PostmortemRows /\ postmortems[d].status # "absent"
      BY <2>2 DEF IncidentInv, IncidentTypes, Existing
  <2>4. /\ newStatus \in DraftStatus /\ newCause \in Causes /\ newStatus # "absent"
        /\ newStatus \in Editable \/ newStatus = postmortems[d].status
      BY <2>3 DEF PostmortemRows, DraftStatus, Editable
  <2>5. postmortems' = [postmortems EXCEPT ![d] = row]
      BY <2>1, <2>2, <2>3 DEF IncidentInv, IncidentTypes, PostmortemRows
  <2> HIDE DEF newStatus, newCause
  <2>6. row \in PostmortemRows /\ row.status = newStatus
      BY <2>3, <2>4 DEF PostmortemRows
  <2> HIDE DEF row
  <2> QED
      BY <2>2, <2>4, <2>5, <2>6, WriteStep
<1>4. CASE CommitApprove(r)
  <2>1. /\ ask[r].kind = "approve" /\ EndAsk(r) /\ UNCHANGED <<incident, timeline>>
        /\ postmortems' = [postmortems EXCEPT ![d].status = "approved"]
        /\ d \in Existing /\ d \in Drafts
      BY <1>4 DEF CommitApprove, IncidentInv, ReviewingInv, Existing
  <2> DEFINE row == [postmortems[d] EXCEPT !.status = "approved"]
  <2>2. postmortems[d] \in PostmortemRows /\ "approved" \in DraftStatus
      BY <2>1 DEF IncidentInv, IncidentTypes, DraftStatus
  <2>3. row \in PostmortemRows /\ row.status = "approved"
      BY <2>2 DEF PostmortemRows
  <2>4. postmortems' = [postmortems EXCEPT ![d] = row]
      BY <2>1
  <2> QED
      BY <2>1, <2>3, <2>4, WriteStep
<1> QED
    BY <1>1, <1>2, <1>3, <1>4

\* Every step of the requests on an incident keeps the invariant, and what is approved.
LEMMA IncidentStep ==
    IncidentInv /\ [IncidentNext]_incidentVars =>
        IncidentInv' /\ (ApprovedStays \/ UNCHANGED incidentVars)
<1> SUFFICES ASSUME IncidentInv, [IncidentNext]_incidentVars
             PROVE  IncidentInv' /\ (ApprovedStays \/ UNCHANGED incidentVars)
    OBVIOUS
<1>1. CASE UNCHANGED incidentVars
    BY <1>1 DEF incidentVars, IncidentInv, IncidentTypes, DraftingInv, ReviewingInv, Existing
<1>2. CASE AddTimelineEntry
  <2>1. timeline' \in 0..MaxNotes
      BY <1>2, IncidentConstants DEF AddTimelineEntry, IncidentInv, IncidentTypes
  <2> QED
      BY <1>2, <2>1 DEF AddTimelineEntry, IncidentInv, IncidentTypes, DraftingInv, ReviewingInv,
                        Existing, ApprovedStays
<1>3. CASE IncidentNext /\ ~AddTimelineEntry
    BY <1>3, StartAskStep, DraftStep, CommitAskStep DEF IncidentNext
<1> QED
    BY <1>1, <1>2, <1>3

\* An incident has one postmortem and its approval is final, whatever requests overlap,
\* but for the two overlaps that the property names (create_postmortem, update_postmortem).
THEOREM PostmortemsAreAlwaysSettled == IncidentSpec => PostmortemsAreSettled
<1>1. IncidentInit => IncidentInv
    BY IncidentInitially
<1>2. IncidentInv /\ [IncidentNext]_incidentVars => IncidentInv'
    BY IncidentStep
<1>3. IncidentInv /\ [IncidentNext]_incidentVars => [ApprovedStays]_incidentVars
    BY IncidentStep
<1>4. IncidentInv => OnePostmortem
  <2> SUFFICES ASSUME IncidentInv, {"insert"} \notin incOverlaps PROVE Cardinality(Existing) <= 1
      BY DEF OnePostmortem
  <2>1. CASE Existing = {}
      BY <2>1, FS_EmptySet
  <2>2. CASE Existing # {}
    <3>1. PICK d \in Existing : Existing = {d}
        BY <2>2 DEF IncidentInv, DraftingInv
    <3> QED
        BY <3>1, FS_Singleton
  <2> QED
      BY <2>1, <2>2
<1>5. IncidentSpec => []IncidentInv
    BY <1>1, <1>2, PTL DEF IncidentSpec
<1>6. IncidentSpec => [][ApprovedStays]_incidentVars
    BY <1>3, <1>5, PTL DEF IncidentSpec
<1>7. [][ApprovedStays]_incidentVars => ApprovalIsFinal
    BY DEF ApprovalIsFinal, ApprovedStays
<1> QED
    BY <1>4, <1>5, <1>6, <1>7, PTL DEF PostmortemsAreSettled

\* The rows of an incident and the copies of its requests keep their types.
THEOREM IncidentTypesHold == IncidentSpec => []IncidentTypeOK
<1>1. IncidentInit => IncidentInv
    BY IncidentInitially
<1>2. IncidentInv /\ [IncidentNext]_incidentVars => IncidentInv'
    BY IncidentStep
<1>3. IncidentInv => IncidentTypeOK
    BY DEF IncidentInv, IncidentTypes, IncidentTypeOK, PostmortemRows, AskRecords, AskKindOrNone,
           DraftOrNone, CopiedStatus
<1> QED
    BY <1>1, <1>2, <1>3, PTL DEF IncidentSpec

-----------------------------------------------------------------------------
(***************************************************************************)
(* Memory: notes and their chains, under requests that read before they    *)
(* write, together with the deletion of a person's data (Erasure).         *)
(***************************************************************************)

\* Requests on one note that can harm each other have met.
NotesMet ==
    \A s, t \in Sessions :
        s # t /\ work[s].on \in Memories /\ work[t].on = work[s].on
            => <<work[s].on, {work[s].kind, work[t].kind}>> \in memOverlaps
               \/ <<work[s].on, {work[s].kind, work[t].kind}>> \notin MemoryRaces

\* A request is about a note that was there when it began.
WorkInv ==
    \A s \in Sessions :
        /\ work[s].kind = "idle" <=> work[s] = Idle
        /\ work[s].kind # "idle" => work[s].who \in Persons
        /\ work[s].kind \in {"edit", "delete"} => work[s].on \in Memories
        /\ work[s].on \in Memories => memories[work[s].on].status # "absent"
        /\ work[s].kind = "edit" /\ memories[work[s].on].status = "deleted"
              => <<work[s].on, {"edit", "delete"}>> \in memOverlaps

\* Whoever is about to supersede a note that has a successor overlapped with
\* the one who made it.
SuccessionInv ==
    /\ \A m \in Memories : memories[m].supersedes \in Memories
          => memories[memories[m].supersedes].status \notin {"absent", "active"}
    /\ \A s \in Sessions, m \in Memories :
          work[s].kind = "create" /\ work[s].on \in Memories
          /\ memories[m].supersedes = work[s].on
             => <<work[s].on, {"create"}>> \in memOverlaps
    /\ \A m, n \in Memories :
          memories[m].supersedes \in Memories /\ memories[n].supersedes = memories[m].supersedes
             => m = n \/ <<memories[m].supersedes, {"create"}>> \in memOverlaps

MemoryInv == MemoryTypeOK /\ NotesMet /\ WorkInv /\ SuccessionInv /\ DeletedIsEmpty

LEMMA RacesAre ==
    ASSUME NEW m \in Memories
    PROVE  <<m, {"create"}>> \in MemoryRaces /\ <<m, {"edit", "delete"}>> \in MemoryRaces
BY DEF MemoryRaces

LEMMA MemoryImplies == MemoryInv => RecallIsSound
<1> SUFFICES ASSUME MemoryInv, NEW old \in Memories,
                    <<old, {"create"}>> \notin memOverlaps
             PROVE  Cardinality({m \in Memories : memories[m].supersedes = old}) <= 1
  BY DEF MemoryInv, RecallIsSound, OneSuccessor
<1> DEFINE heirs == {m \in Memories : memories[m].supersedes = old}
<1>1. \A m, n \in heirs : m = n
  BY DEF MemoryInv, SuccessionInv
<1>2. CASE heirs = {}
  <2>1. Cardinality(heirs) = 0
    BY <1>2, FS_EmptySet
  <2> QED
    BY <2>1
<1>3. CASE heirs # {}
  <2>1. PICK m \in heirs : TRUE
    BY <1>3
  <2>2. heirs = {m}
    BY <1>1, <2>1
  <2> HIDE DEF heirs
  <2>3. Cardinality(heirs) = 1
    BY <2>2, FS_Singleton
  <2> USE DEF heirs
  <2> QED
    BY <2>3
<1> QED
  BY <1>2, <1>3

LEMMA MemoryBegins == MemoryInit => MemoryInv
<1> SUFFICES ASSUME MemoryInit PROVE MemoryInv
  OBVIOUS
<1> USE MemoryConstants
<1>1. /\ Unmade \in MemoryRow /\ Unmade.status = "absent" /\ Unmade.supersedes = NoMemory
  BY DEF Unmade, MemoryRow, MemoryStatus
<1>2. Idle.kind = "idle" /\ Idle.on = NoMemory
      /\ Idle \in [kind : MemoryKinds \cup {"idle"}, who : Persons \cup {Nobody},
                   on : Memories \cup {NoMemory}]
  BY DEF Idle
<1>3. MemoryTypeOK
  BY <1>1, <1>2 DEF MemoryInit, MemoryTypeOK
<1>4. NotesMet /\ WorkInv
  BY <1>2 DEF MemoryInit, NotesMet, WorkInv
<1>5. SuccessionInv /\ DeletedIsEmpty
  BY <1>1, <1>2 DEF MemoryInit, SuccessionInv, DeletedIsEmpty
<1> QED
  BY <1>3, <1>4, <1>5 DEF MemoryInv

\* A request begins: Begin records whom it meets on its note.
LEMMA BeginNote ==
    ASSUME MemoryInv, NEW s \in Sessions, NEW p \in Persons, NEW kind \in MemoryKinds,
           NEW m \in Memories \cup {NoMemory}, Begin(s, p, kind, m),
           m = NoMemory => kind = "create",
           m # NoMemory => memories[m].status = "active"
    PROVE  MemoryInv'
<1> USE MemoryConstants
<1> DEFINE begun == [kind |-> kind, who |-> p, on |-> m]
<1>1. /\ begun \in [kind : MemoryKinds \cup {"idle"}, who : Persons \cup {Nobody},
                    on : Memories \cup {NoMemory}]
      /\ begun.kind = kind /\ begun.on = m /\ begun.who = p
  OBVIOUS
<1>2. /\ work'[s] = begun
      /\ \A t \in Sessions \ {s} : work'[t] = work[t]
      /\ work' \in [Sessions -> [kind : MemoryKinds \cup {"idle"}, who : Persons \cup {Nobody},
                                 on : Memories \cup {NoMemory}]]
  BY <1>1 DEF Begin, MemoryInv, MemoryTypeOK
<1>3. /\ memories' = memories /\ active' = active
      /\ work[s] = Idle
      /\ memOverlaps' = memOverlaps \cup
            ({<<m, {kind, work[t].kind}>> : t \in {u \in Sessions : work[u].on = m}}
                 \cap MemoryRaces)
  BY DEF Begin
<1>4. memOverlaps \subseteq memOverlaps' /\ memOverlaps' \subseteq MemoryRaces
  BY <1>3 DEF MemoryInv, MemoryTypeOK
<1> HIDE DEF begun
<1>5. MemoryTypeOK'
  BY <1>2, <1>3, <1>4 DEF MemoryInv, MemoryTypeOK
<1>6. NotesMet'
  <2>1. ASSUME NEW t \in Sessions \ {s}, work[t].on = m
        PROVE  <<m, {kind, work[t].kind}>> \in memOverlaps'
               \/ <<m, {kind, work[t].kind}>> \notin MemoryRaces
    BY <1>3, <2>1
  <2>2. \A t \in Sessions \ {s} : {kind, work[t].kind} = {work[t].kind, kind}
    OBVIOUS
  <2>3. ASSUME NEW t \in Sessions \ {s}, NEW u \in Sessions \ {s}, t # u,
               work[t].on \in Memories, work[u].on = work[t].on
        PROVE  <<work[t].on, {work[t].kind, work[u].kind}>> \in memOverlaps'
               \/ <<work[t].on, {work[t].kind, work[u].kind}>> \notin MemoryRaces
    BY <1>4, <2>3 DEF MemoryInv, NotesMet
  <2> SUFFICES ASSUME NEW t \in Sessions, NEW u \in Sessions, t # u,
                      work'[t].on \in Memories, work'[u].on = work'[t].on
               PROVE  <<work'[t].on, {work'[t].kind, work'[u].kind}>> \in memOverlaps'
                      \/ <<work'[t].on, {work'[t].kind, work'[u].kind}>> \notin MemoryRaces
    BY DEF NotesMet
  <2>4. CASE t = s
    BY <1>1, <1>2, <2>1, <2>4
  <2>5. CASE u = s
    BY <1>1, <1>2, <2>1, <2>2, <2>5
  <2>6. CASE t # s /\ u # s
    BY <1>2, <2>3, <2>6
  <2> QED
    BY <2>4, <2>5, <2>6
<1>7. WorkInv'
  <2>1. begun # Idle /\ kind # "idle"
    BY <1>1 DEF Idle, MemoryKinds
  <2>2. kind # "create" => m \in Memories
    OBVIOUS
  <2>3. m \in Memories => memories[m].status = "active"
    OBVIOUS
  <2>4. ASSUME NEW t \in Sessions \ {s}
        PROVE  /\ work[t].kind = "idle" <=> work[t] = Idle
               /\ work[t].kind # "idle" => work[t].who \in Persons
               /\ work[t].kind \in {"edit", "delete"} => work[t].on \in Memories
               /\ work[t].on \in Memories => memories[work[t].on].status # "absent"
               /\ work[t].kind = "edit" /\ memories[work[t].on].status = "deleted"
                     => <<work[t].on, {"edit", "delete"}>> \in memOverlaps'
    BY <1>4 DEF MemoryInv, WorkInv
  <2>5. /\ begun.kind = "idle" <=> begun = Idle
        /\ begun.who \in Persons
        /\ begun.kind \in {"edit", "delete"} => begun.on \in Memories
        /\ begun.on \in Memories => memories[begun.on].status # "absent"
        /\ begun.kind = "edit" /\ memories[begun.on].status = "deleted"
              => <<begun.on, {"edit", "delete"}>> \in memOverlaps'
    BY <1>1, <2>1, <2>2, <2>3
  <2>6. work'[s] = begun /\ \A t \in Sessions \ {s} : work'[t] = work[t]
    BY <1>2
  <2> HIDE DEF begun
  <2> QED
    BY <1>3, <2>4, <2>5, <2>6 DEF WorkInv
<1>8. SuccessionInv'
  <2>1. ASSUME NEW n \in Memories, memories[n].supersedes = m, m \in Memories
        PROVE  FALSE
    BY <2>1 DEF MemoryInv, SuccessionInv
  <2>2. ASSUME NEW t \in Sessions, NEW n \in Memories,
               work'[t].kind = "create", work'[t].on \in Memories,
               memories[n].supersedes = work'[t].on
        PROVE  <<work'[t].on, {"create"}>> \in memOverlaps'
    <3>1. t # s
      BY <1>1, <1>2, <2>1, <2>2
    <3> QED
      BY <1>2, <1>4, <2>2, <3>1 DEF MemoryInv, SuccessionInv
  <2> QED
    BY <1>3, <1>4, <2>2 DEF MemoryInv, SuccessionInv
<1>9. DeletedIsEmpty'
  BY <1>3, <1>4 DEF MemoryInv, DeletedIsEmpty
<1> QED
  BY <1>5, <1>6, <1>7, <1>8, <1>9 DEF MemoryInv

\* A request is over: the others do not see it.
LEMMA WorkEnds ==
    ASSUME MemoryInv, NEW s \in Sessions, work' = [work EXCEPT ![s] = Idle],
           memOverlaps' = memOverlaps
    PROVE  /\ work'[s].kind = "idle" /\ work'[s] = Idle /\ work'[s].on \notin Memories
           /\ \A t \in Sessions \ {s} : work'[t] = work[t]
           /\ work' \in [Sessions -> [kind : MemoryKinds \cup {"idle"}, who : Persons \cup {Nobody},
                                      on : Memories \cup {NoMemory}]]
           /\ NotesMet'
<1>1. /\ Idle.kind = "idle" /\ Idle.on = NoMemory /\ NoMemory \notin Memories
      /\ Idle \in [kind : MemoryKinds \cup {"idle"}, who : Persons \cup {Nobody},
                   on : Memories \cup {NoMemory}]
  BY MemoryConstants DEF Idle
<1>2. /\ work'[s] = Idle
      /\ \A t \in Sessions \ {s} : work'[t] = work[t]
      /\ work' \in [Sessions -> [kind : MemoryKinds \cup {"idle"}, who : Persons \cup {Nobody},
                                 on : Memories \cup {NoMemory}]]
  BY <1>1 DEF MemoryInv, MemoryTypeOK
<1>3. NotesMet'
  BY <1>1, <1>2 DEF MemoryInv, NotesMet
<1> QED
  BY <1>1, <1>2, <1>3

LEMMA FailedRequestKeeps ==
    ASSUME MemoryInv, NEW s \in Sessions, MemoryRequestFails(s)
    PROVE  MemoryInv'
<1>1. /\ work'[s].kind = "idle" /\ work'[s] = Idle /\ work'[s].on \notin Memories
      /\ \A t \in Sessions \ {s} : work'[t] = work[t]
      /\ work' \in [Sessions -> [kind : MemoryKinds \cup {"idle"}, who : Persons \cup {Nobody},
                                 on : Memories \cup {NoMemory}]]
      /\ NotesMet'
  BY WorkEnds DEF MemoryRequestFails
<1>2. UNCHANGED <<memories, active, memOverlaps>>
  BY DEF MemoryRequestFails
<1>3. MemoryTypeOK'
  BY <1>1, <1>2 DEF MemoryInv, MemoryTypeOK
<1>4. WorkInv'
  BY <1>1, <1>2 DEF MemoryInv, WorkInv
<1>5. SuccessionInv'
  BY <1>1, <1>2 DEF MemoryInv, SuccessionInv
<1>6. DeletedIsEmpty'
  BY <1>2 DEF MemoryInv, DeletedIsEmpty
<1> QED
  BY <1>1, <1>3, <1>4, <1>5, <1>6 DEF MemoryInv

\* create_memory: the new note is the only one to supersede the old one, unless
\* another request on the old one had overlapped.
LEMMA CreateKeeps ==
    ASSUME MemoryInv, NEW s \in Sessions, CommitCreate(s)
    PROVE  MemoryInv'
<1> DEFINE old == work[s].on
<1>1. PICK m \in Memories, note \in Notes, owner \in {work[s].who, Shared} :
        /\ work[s].kind = "create"
        /\ memories[m].status = "absent"
        /\ MayOwn(work[s].who, owner)
        /\ memories' = [n \in Memories |->
                CASE n = m   -> Active(owner, note, old)
                  [] n = old -> MarkSuperseded(memories[n])
                  [] OTHER   -> memories[n]]
        /\ work' = [work EXCEPT ![s] = Idle]
        /\ UNCHANGED <<active, memOverlaps>>
  BY DEF CommitCreate
<1>2. /\ work'[s].kind = "idle" /\ work'[s] = Idle /\ work'[s].on \notin Memories
      /\ \A t \in Sessions \ {s} : work'[t] = work[t]
      /\ work' \in [Sessions -> [kind : MemoryKinds \cup {"idle"}, who : Persons \cup {Nobody},
                                 on : Memories \cup {NoMemory}]]
      /\ NotesMet'
  BY <1>1, WorkEnds
<1>3. /\ memories \in [Memories -> MemoryRow]
      /\ work[s].who \in Persons \cup {Nobody} /\ old \in Memories \cup {NoMemory}
  BY DEF MemoryInv, MemoryTypeOK
<1>4. owner \in Persons \cup {Shared}
  BY <1>1 DEF MemoryInv, WorkInv
<1>5. m # old /\ (old \in Memories => memories[old].status # "absent")
  BY <1>1 DEF MemoryInv, WorkInv
<1>6. /\ Active(owner, note, old) \in MemoryRow
      /\ Active(owner, note, old).status = "active"
      /\ Active(owner, note, old).supersedes = old
  BY <1>3, <1>4 DEF Active, MemoryRow, MemoryStatus
<1>7. \A n \in Memories :
        LET row == MarkSuperseded(memories[n]) IN
        /\ row \in MemoryRow /\ row.supersedes = memories[n].supersedes
        /\ row.content = memories[n].content /\ row.vector = memories[n].vector
        /\ memories[n].status = "active" => row.status = "superseded"
        /\ memories[n].status # "active" => row.status = memories[n].status
  BY <1>3 DEF MarkSuperseded, MemoryRow, MemoryStatus
<1> HIDE DEF old
<1>8. memories'[m] = Active(owner, note, old)
  BY <1>1, <1>5
<1>9. \A n \in Memories \ {m} :
        /\ memories'[n] \in MemoryRow /\ memories'[n].supersedes = memories[n].supersedes
        /\ memories'[n].content = memories[n].content /\ memories'[n].vector = memories[n].vector
        /\ memories'[n].status \in {"absent", "active", "deleted", "erased"}
              => memories'[n].status = memories[n].status
        /\ memories'[n].status = "absent" <=> memories[n].status = "absent"
        /\ memories[n].status # "active" => memories'[n].status # "active"
        /\ n = old => memories'[n].status # "active"
  <2> TAKE n \in Memories \ {m}
  <2>1. memories[n] \in MemoryRow
    BY <1>3
  <2>2. CASE n = old
    <3>1. memories'[n] = MarkSuperseded(memories[n])
      BY <1>1, <2>2
    <3> QED
      BY <1>7, <2>1, <2>2, <3>1
  <2>3. CASE n # old
    <3>1. memories'[n] = memories[n]
      BY <1>1, <2>3
    <3> QED
      BY <2>1, <2>3, <3>1
  <2> QED
    BY <2>2, <2>3
<1>10. UNCHANGED <<active, memOverlaps>>
  BY <1>1
<1>11. MemoryTypeOK'
  <2>1. memories' \in [Memories -> MemoryRow]
    <3>1. \A n \in Memories : memories'[n] \in MemoryRow
      BY <1>6, <1>8, <1>9
    <3>2. memories' = [n \in Memories |-> memories'[n]]
      BY <1>1
    <3> QED
      BY <3>1, <3>2
  <2> QED
    BY <1>2, <1>10, <2>1 DEF MemoryInv, MemoryTypeOK
<1>12. WorkInv'
  <2>1. ASSUME NEW t \in Sessions \ {s}, work[t].on \in Memories
        PROVE  work[t].on \in Memories \ {m}
    BY <1>1, <2>1 DEF MemoryInv, WorkInv
  <2>2. ASSUME NEW t \in Sessions \ {s}
        PROVE  /\ work[t].kind = "idle" <=> work[t] = Idle
               /\ work[t].kind # "idle" => work[t].who \in Persons
               /\ work[t].kind \in {"edit", "delete"} => work[t].on \in Memories
               /\ work[t].on \in Memories => memories'[work[t].on].status # "absent"
               /\ work[t].kind = "edit" /\ memories'[work[t].on].status = "deleted"
                     => <<work[t].on, {"edit", "delete"}>> \in memOverlaps
    BY <1>9, <2>1 DEF MemoryInv, WorkInv
  <2> QED
    BY <1>2, <1>10, <2>2 DEF WorkInv
<1>13. SuccessionInv'
  <2>1. ASSUME NEW n \in Memories, memories'[n].supersedes \in Memories
        PROVE  memories'[memories'[n].supersedes].status \notin {"absent", "active"}
    <3>1. CASE n = m
      BY <1>5, <1>6, <1>8, <1>9, <2>1, <3>1
    <3>2. CASE n # m
      <4>1. /\ memories'[n].supersedes = memories[n].supersedes
            /\ memories[memories[n].supersedes].status \notin {"absent", "active"}
        BY <1>9, <2>1, <3>2 DEF MemoryInv, SuccessionInv
      <4>2. memories[n].supersedes \in Memories \ {m}
        BY <1>1, <2>1, <4>1
      <4> QED
        BY <1>9, <4>1, <4>2
    <3> QED
      BY <3>1, <3>2
  <2>2. ASSUME NEW t \in Sessions \ {s}, NEW n \in Memories,
               work[t].kind = "create", work[t].on \in Memories,
               memories'[n].supersedes = work[t].on
        PROVE  <<work[t].on, {"create"}>> \in memOverlaps
    <3>1. CASE n = m
      <4>1. work[t].on = old
        BY <1>6, <1>8, <2>2, <3>1
      <4>2. <<old, {"create", "create"}>> \in memOverlaps
            \/ <<old, {"create", "create"}>> \notin MemoryRaces
        BY <1>1, <2>2, <4>1 DEF MemoryInv, NotesMet, old
      <4>3. {"create", "create"} = {"create"}
        OBVIOUS
      <4> QED
        BY <2>2, <4>1, <4>2, <4>3, RacesAre
    <3>2. CASE n # m
      BY <1>9, <2>2, <3>2 DEF MemoryInv, SuccessionInv
    <3> QED
      BY <3>1, <3>2
  <2>3. ASSUME NEW n \in Memories \ {m}, old \in Memories, memories[n].supersedes = old
        PROVE  <<old, {"create"}>> \in memOverlaps
    BY <1>1, <2>3 DEF MemoryInv, SuccessionInv, old
  <2>4. ASSUME NEW n \in Memories, NEW k \in Memories,
               memories'[n].supersedes \in Memories,
               memories'[k].supersedes = memories'[n].supersedes
        PROVE  n = k \/ <<memories'[n].supersedes, {"create"}>> \in memOverlaps
    <3>1. CASE n # m /\ k # m
      BY <1>9, <2>4, <3>1 DEF MemoryInv, SuccessionInv
    <3>2. CASE n = m /\ k # m
      BY <1>6, <1>8, <1>9, <2>3, <2>4, <3>2
    <3>3. CASE n # m /\ k = m
      BY <1>6, <1>8, <1>9, <2>3, <2>4, <3>3
    <3> QED
      BY <3>1, <3>2, <3>3
  <2>5. \A t \in Sessions, n \in Memories :
           work'[t].kind = "create" /\ work'[t].on \in Memories
           /\ memories'[n].supersedes = work'[t].on
              => <<work'[t].on, {"create"}>> \in memOverlaps
    BY <1>2, <2>2
  <2> QED
    BY <1>10, <2>1, <2>4, <2>5 DEF SuccessionInv
<1>14. DeletedIsEmpty'
  <2>1. memories'[m].status # "deleted"
    BY <1>6, <1>8
  <2> QED
    BY <1>9, <1>10, <2>1 DEF MemoryInv, DeletedIsEmpty
<1> QED
  BY <1>2, <1>11, <1>12, <1>13, <1>14 DEF MemoryInv

\* A statement on one note that leaves its place in a chain: the note is rewritten
\* by an edit, or emptied by a deletion.
LEMMA NoteChanges ==
    ASSUME MemoryInv, NEW s \in Sessions, NEW row \in MemoryRow,
           NEW m \in Memories, m = work[s].on,
           memories' = [memories EXCEPT ![m] = row],
           work' = [work EXCEPT ![s] = Idle], UNCHANGED <<active, memOverlaps>>,
           row.supersedes = memories[m].supersedes,
           \/ row.status = memories[m].status
           \/ row.status = "deleted" /\ work[s].kind = "delete",
           row.status = "deleted" => \/ row.content = Blank /\ row.vector = Blank
                                     \/ <<m, {"edit", "delete"}>> \in memOverlaps
    PROVE  MemoryInv'
<1>1. /\ work'[s].kind = "idle" /\ work'[s] = Idle /\ work'[s].on \notin Memories
      /\ \A t \in Sessions \ {s} : work'[t] = work[t]
      /\ work' \in [Sessions -> [kind : MemoryKinds \cup {"idle"}, who : Persons \cup {Nobody},
                                 on : Memories \cup {NoMemory}]]
      /\ NotesMet'
  BY WorkEnds
<1>2. /\ memories' \in [Memories -> MemoryRow] /\ memories'[m] = row
      /\ \A n \in Memories \ {m} : memories'[n] = memories[n]
  BY DEF MemoryInv, MemoryTypeOK
<1>3. MemoryTypeOK'
  BY <1>1, <1>2 DEF MemoryInv, MemoryTypeOK
<1>4. memories[m].status # "absent"
  BY DEF MemoryInv, WorkInv
<1>5. WorkInv'
  <2> SUFFICES ASSUME NEW t \in Sessions \ {s}, work[t].on = m,
                      work[t].kind = "edit", row.status = "deleted"
               PROVE  <<m, {"edit", "delete"}>> \in memOverlaps
    <3>1. ASSUME NEW t \in Sessions \ {s}
          PROVE  /\ work[t].kind = "idle" <=> work[t] = Idle
                 /\ work[t].kind # "idle" => work[t].who \in Persons
                 /\ work[t].kind \in {"edit", "delete"} => work[t].on \in Memories
                 /\ work[t].on \in Memories => memories[work[t].on].status # "absent"
                 /\ work[t].kind = "edit" /\ memories[work[t].on].status = "deleted"
                      => <<work[t].on, {"edit", "delete"}>> \in memOverlaps
      BY DEF MemoryInv, WorkInv
    <3>2. row.status # "absent" /\ memOverlaps' = memOverlaps
      BY <1>4
    <3>3. \A n \in Memories : n = m \/ memories'[n] = memories[n]
      BY <1>2
    <3>4. memories'[m] = row
      BY <1>2
    <3>5. ASSUME NEW t \in Sessions \ {s},
                 work[t].kind = "edit" /\ memories'[work[t].on].status = "deleted"
          PROVE  \/ <<work[t].on, {"edit", "delete"}>> \in memOverlaps
                 \/ work[t].on = m /\ row.status = "deleted"
      BY <3>1, <3>3, <3>4, <3>5
    <3>6. ASSUME NEW t \in Sessions \ {s}, work[t].on \in Memories
          PROVE  memories'[work[t].on].status # "absent"
      BY <3>1, <3>2, <3>3, <3>4, <3>6
    <3>7. ASSUME NEW t \in Sessions \ {s},
                 work[t].kind = "edit" /\ memories'[work[t].on].status = "deleted"
          PROVE  <<work[t].on, {"edit", "delete"}>> \in memOverlaps
      BY <3>5, <3>7
    <3> QED
      BY <1>1, <3>1, <3>2, <3>6, <3>7 DEF WorkInv
  <2>1. CASE memories[m].status = "deleted"
    BY <2>1 DEF MemoryInv, WorkInv
  <2>2. CASE work[s].kind = "delete"
    <3>1. <<m, {work[t].kind, work[s].kind}>> \in memOverlaps
          \/ <<m, {work[t].kind, work[s].kind}>> \notin MemoryRaces
      BY DEF MemoryInv, NotesMet
    <3> QED
      BY <2>2, <3>1, RacesAre
  <2> QED
    BY <2>1, <2>2
<1>6. SuccessionInv'
  <2>1. \A n \in Memories : memories'[n].supersedes = memories[n].supersedes
    BY <1>2
  <2>2. \A n \in Memories : memories[n].status \notin {"absent", "active"}
           => memories'[n].status \notin {"absent", "active"}
    BY <1>2
  <2>3. \A n \in Memories : memories'[n].supersedes \in Memories
           => memories'[memories'[n].supersedes].status \notin {"absent", "active"}
    BY <2>1, <2>2 DEF MemoryInv, SuccessionInv
  <2>4. \A t \in Sessions, n \in Memories :
           work'[t].kind = "create" /\ work'[t].on \in Memories
           /\ memories'[n].supersedes = work'[t].on
              => <<work'[t].on, {"create"}>> \in memOverlaps
    BY <1>1, <2>1 DEF MemoryInv, SuccessionInv
  <2>5. \A n, k \in Memories :
           memories'[n].supersedes \in Memories
           /\ memories'[k].supersedes = memories'[n].supersedes
              => n = k \/ <<memories'[n].supersedes, {"create"}>> \in memOverlaps
    BY <2>1 DEF MemoryInv, SuccessionInv
  <2> QED
    BY <2>3, <2>4, <2>5 DEF SuccessionInv
<1>7. DeletedIsEmpty'
  BY <1>2 DEF MemoryInv, DeletedIsEmpty
<1> QED
  BY <1>1, <1>3, <1>5, <1>6, <1>7 DEF MemoryInv

LEMMA EditKeeps ==
    ASSUME MemoryInv, NEW s \in Sessions, CommitEdit(s)
    PROVE  MemoryInv'
<1> DEFINE m == work[s].on
<1>1. PICK note \in Notes :
        /\ work[s].kind = "edit"
        /\ memories' = [memories EXCEPT ![m] = Rewritten(@, note)]
        /\ work' = [work EXCEPT ![s] = Idle]
        /\ UNCHANGED <<active, memOverlaps>>
  BY DEF CommitEdit
<1>2. m \in Memories
  BY <1>1 DEF MemoryInv, WorkInv
<1>3. memories[m] \in MemoryRow /\ memories \in [Memories -> MemoryRow]
  BY <1>2 DEF MemoryInv, MemoryTypeOK
<1> DEFINE row == Rewritten(memories[m], note)
<1>4. /\ row \in MemoryRow /\ row.supersedes = memories[m].supersedes
      /\ row.status = memories[m].status
  BY <1>3 DEF Rewritten, MemoryRow
<1>5. memories' = [memories EXCEPT ![m] = row]
  BY <1>1, <1>2, <1>3
<1>6. row.status = "deleted" => <<m, {"edit", "delete"}>> \in memOverlaps
  BY <1>1, <1>2, <1>4 DEF MemoryInv, WorkInv
<1> HIDE DEF row
<1> QED
  BY <1>1, <1>2, <1>4, <1>5, <1>6, NoteChanges

LEMMA DeleteKeeps ==
    ASSUME MemoryInv, NEW s \in Sessions, CommitDelete(s)
    PROVE  MemoryInv'
<1> DEFINE m == work[s].on
<1>1. /\ work[s].kind = "delete"
      /\ memories' = IF memories[m].status \in {"active", "superseded"}
                     THEN [memories EXCEPT ![m] = Tombstone(@)] ELSE memories
      /\ work' = [work EXCEPT ![s] = Idle]
      /\ UNCHANGED <<active, memOverlaps>>
  BY DEF CommitDelete
<1>2. m \in Memories
  BY <1>1 DEF MemoryInv, WorkInv
<1>3. memories[m] \in MemoryRow /\ memories \in [Memories -> MemoryRow]
  BY <1>2 DEF MemoryInv, MemoryTypeOK
<1>4. CASE memories[m].status \in {"active", "superseded"}
  <2> DEFINE row == Tombstone(memories[m])
  <2>1. /\ row \in MemoryRow /\ row.supersedes = memories[m].supersedes
        /\ row.status = "deleted" /\ row.content = Blank /\ row.vector = Blank
    BY <1>3 DEF Tombstone, MemoryRow, MemoryStatus
  <2>2. memories' = [memories EXCEPT ![m] = row]
    BY <1>1, <1>2, <1>3, <1>4
  <2> HIDE DEF row
  <2> QED
    BY <1>1, <1>2, <2>1, <2>2, NoteChanges
<1>5. CASE memories[m].status \notin {"active", "superseded"}
  <2> DEFINE row == memories[m]
  <2>1. memories' = [memories EXCEPT ![m] = row]
    BY <1>1, <1>2, <1>3, <1>5
  <2>2. row.status = "deleted" => \/ row.content = Blank /\ row.vector = Blank
                                  \/ <<m, {"edit", "delete"}>> \in memOverlaps
    BY <1>2 DEF MemoryInv, DeletedIsEmpty
  <2> QED
    BY <1>1, <1>2, <1>3, <2>1, <2>2, NoteChanges
<1> QED
  BY <1>4, <1>5

LEMMA MemoryRequestKeeps == MemoryInv /\ MemoryRequest => MemoryInv'
<1> SUFFICES ASSUME MemoryInv, MemoryRequest PROVE MemoryInv'
  OBVIOUS
<1>1. ASSUME NEW s \in Sessions, NEW p \in Persons, StartCreate(s, p)
      PROVE  MemoryInv'
  <2>1. PICK old \in Memories \cup {NoMemory} :
          (old # NoMemory => Visible(p, old)) /\ Begin(s, p, "create", old)
    BY <1>1 DEF StartCreate
  <2>2. "create" \in MemoryKinds /\ (old # NoMemory => memories[old].status = "active")
    BY <2>1 DEF MemoryKinds, Visible, Readable
  <2> QED
    BY <2>1, <2>2, BeginNote
<1>2. ASSUME NEW s \in Sessions, NEW p \in Persons, NEW m \in Memories,
             StartEdit(s, p, m) \/ StartDelete(s, p, m)
      PROVE  MemoryInv'
  <2>1. m # NoMemory /\ "edit" \in MemoryKinds /\ "delete" \in MemoryKinds
    BY MemoryConstants DEF MemoryKinds
  <2>2. PICK kind \in MemoryKinds : Visible(p, m) /\ Begin(s, p, kind, m)
    BY <1>2, <2>1 DEF StartEdit, StartDelete
  <2>3. memories[m].status = "active"
    BY <2>2 DEF Visible, Readable
  <2> QED
    BY <2>1, <2>2, <2>3, BeginNote
<1> QED
  BY <1>1, <1>2, CreateKeeps, EditKeeps, DeleteKeeps, FailedRequestKeeps DEF MemoryRequest

\* hard_delete_user_scoped: rows go and the references to them, and no chain forks.
LEMMA SweepKeeps ==
    ASSUME MemoryInv, NEW gone \in SUBSET Memories, memories' = WithoutRows(gone),
           active' \in [Persons -> BOOLEAN], UNCHANGED <<work, memOverlaps>>
    PROVE  MemoryInv'
<1>1. /\ Erased \in MemoryRow /\ Erased.status = "erased" /\ Erased.supersedes = NoMemory
      /\ Erased.content = Blank /\ Erased.vector = Blank /\ Erased.owner = Shared
      /\ NoMemory \notin Memories
  BY MemoryConstants DEF Erased, Unmade, MemoryRow, MemoryStatus
<1>2. \A n \in Memories : memories[n] \in MemoryRow
  BY DEF MemoryInv, MemoryTypeOK
<1>3. \A n \in Memories :
        LET row == [memories[n] EXCEPT !.supersedes = NoMemory] IN
        /\ row \in MemoryRow /\ row.supersedes = NoMemory /\ row.status = memories[n].status
        /\ row.content = memories[n].content /\ row.vector = memories[n].vector
  BY <1>2 DEF MemoryRow
<1>4. \A n \in Memories :
        \/ n \in gone /\ memories'[n] = Erased
        \/ /\ memories'[n] \in MemoryRow /\ memories'[n].status = memories[n].status
           /\ memories'[n].content = memories[n].content
           /\ memories'[n].vector = memories[n].vector
           /\ \/ memories'[n].supersedes = NoMemory
              \/ memories'[n].supersedes = memories[n].supersedes
  BY <1>2, <1>3 DEF WithoutRows
<1>5. MemoryTypeOK'
  <2>1. memories' \in [Memories -> MemoryRow]
    <3>1. \A n \in Memories : memories'[n] \in MemoryRow
      BY <1>1, <1>4
    <3>2. memories' = [n \in Memories |-> memories'[n]]
      BY DEF WithoutRows
    <3> QED
      BY <3>1, <3>2
  <2> QED
    BY <2>1 DEF MemoryInv, MemoryTypeOK
<1>6. NotesMet'
  BY DEF MemoryInv, NotesMet
<1>7. \A n \in Memories :
        /\ memories'[n].status \in {"deleted", "absent", "active"}
              => memories'[n].status = memories[n].status
        /\ memories[n].status # "absent" => memories'[n].status # "absent"
        /\ memories[n].status # "active" => memories'[n].status # "active"
        /\ memories'[n].supersedes \in Memories => memories'[n].supersedes = memories[n].supersedes
  BY <1>1, <1>4
<1>8. WorkInv'
  BY <1>7 DEF MemoryInv, WorkInv
<1>9. SuccessionInv'
  BY <1>7 DEF MemoryInv, SuccessionInv
<1>10. DeletedIsEmpty'
  BY <1>1, <1>4 DEF MemoryInv, DeletedIsEmpty
<1> QED
  BY <1>5, <1>6, <1>8, <1>9, <1>10 DEF MemoryInv

-----------------------------------------------------------------------------
(* The deletion of a person's data: every step that is behind it was done, *)
(* failed, or was undone by a request that is recorded since.              *)

StepNames == Tables \cup {"agent_memories", "invitations", "users"}
EraseRecords ==
    [step : 0..(Len(Steps) + 1), address : BOOLEAN,
     swept : SUBSET (Tables \cup {"invitations", "users"}),
     gone : SUBSET Memories, failed : SUBSET StepNames]

ErasureTypes ==
    /\ rowsOf \in [Subject -> SUBSET Tables]
    /\ invited \in [Subject -> BOOLEAN]
    /\ email \in BOOLEAN
    /\ erasure \in [Subject -> EraseRecords]
    /\ result \in [Subject -> {"none", "partially_completed", "completed"}]
    /\ visits \in SUBSET (Subject \X Tables)
    /\ since \in [Subject -> SUBSET (Tables \cup {"agent_memories", "invitations"})]

Handled(p, t) ==
    \/ t \in erasure[p].failed
    \/ t \in erasure[p].swept
    \/ t \in since[p]
    \/ t = "invitations"
    \/ t = "agent_memories" /\ Private(p) \subseteq erasure[p].gone

StepsInv ==
    \A p \in Subject :
        /\ erasure[p].step > 0 => result[p] = "none"
        /\ \A i \in 1..Len(Steps) : i < erasure[p].step => Handled(p, Steps[i])

ErasureInv == MemoryInv /\ ErasureTypes /\ StepsInv /\ CompletedLeavesNothing

\* What a concatenation of two sequences is, element by element.
LEMMA Concatenated ==
    ASSUME NEW S, NEW s \in Seq(S), NEW t \in Seq(S)
    PROVE  /\ Len(s \o t) = Len(s) + Len(t)
           /\ \A i \in 1..(Len(s) + Len(t)) :
                (s \o t)[i] = IF i <= Len(s) THEN s[i] ELSE t[i - Len(s)]
BY ConcatProperties

LEMMA StepsAre ==
    /\ Len(Steps) \in Nat
    /\ \A i \in 1..Len(Steps) : Steps[i] \in StepNames
    /\ \A t \in StepNames : \E i \in 1..Len(Steps) : Steps[i] = t
<1> DEFINE last == <<"agent_memories", "invitations", "users">>
           n == Len(TableSteps)
<1>1. /\ TableSteps \in Seq(StepNames) /\ n \in Nat
      /\ \A i \in 1..n : TableSteps[i] \in Tables
      /\ \A t \in Tables : \E i \in 1..n : TableSteps[i] = t
  BY TablesAreNamed DEF Tables, StepNames
<1>2. last \in Seq(StepNames) /\ Len(last) = 3
      /\ last[1] = "agent_memories" /\ last[2] = "invitations" /\ last[3] = "users"
  BY DEF StepNames
<1>3. Steps = TableSteps \o last
  BY DEF Steps
<1> HIDE DEF last
<1>4. /\ Len(Steps) = n + 3
      /\ \A i \in 1..n : Steps[i] = TableSteps[i]
      /\ \A i \in 1..3 : Steps[n + i] = last[i]
  <2>1. /\ Len(TableSteps \o last) = n + 3
        /\ \A i \in 1..(n + 3) : (TableSteps \o last)[i] =
                IF i <= n THEN TableSteps[i] ELSE last[i - n]
    <3> HIDE DEF n
    <3>1. TableSteps \in Seq(StepNames) /\ last \in Seq(StepNames)
      BY <1>1, <1>2
    <3>2. /\ Len(TableSteps \o last) = Len(TableSteps) + Len(last)
          /\ \A i \in 1..(Len(TableSteps) + Len(last)) : (TableSteps \o last)[i] =
                IF i <= Len(TableSteps) THEN TableSteps[i] ELSE last[i - Len(TableSteps)]
      BY <3>1, Concatenated
    <3>3. Len(last) = 3 /\ n = Len(TableSteps)
      BY <1>2 DEF n
    <3> QED
      BY <3>2, <3>3
  <2>2. \A i \in 1..n : i \in 1..(n + 3) /\ i <= n
    BY <1>1
  <2>3. \A i \in 1..3 : n + i \in 1..(n + 3) /\ ~(n + i <= n) /\ (n + i) - n = i
    BY <1>1
  <2> HIDE DEF n
  <2> QED
    BY <1>3, <2>1, <2>2, <2>3
<1> HIDE DEF n
<1>5. Steps[n + 1] = "agent_memories" /\ Steps[n + 2] = "invitations" /\ Steps[n + 3] = "users"
  BY <1>2, <1>4
<1>6. \A i \in 1..Len(Steps) : i \in 1..n \/ i = n + 1 \/ i = n + 2 \/ i = n + 3
  BY <1>1, <1>4
<1>7. \A i \in 1..Len(Steps) : Steps[i] \in StepNames
  BY <1>1, <1>4, <1>5, <1>6 DEF StepNames
<1>8. /\ n + 1 \in 1..Len(Steps) /\ n + 2 \in 1..Len(Steps) /\ n + 3 \in 1..Len(Steps)
      /\ \A i \in 1..n : i \in 1..Len(Steps)
  BY <1>1, <1>4
<1>9. \A t \in StepNames : \E i \in 1..Len(Steps) : Steps[i] = t
  BY <1>1, <1>4, <1>5, <1>8 DEF StepNames
<1> QED
  BY <1>1, <1>4, <1>7, <1>9

\* A request on memory adds private rows, and changes no owner.
LEMMA RequestsKeepOwners ==
    ASSUME MemoryInv, MemoryRequest
    PROVE  /\ active' = active
           /\ \A m \in Memories : memories[m].status # "absent"
                => memories'[m].owner = memories[m].owner
<1>1. \A m \in Memories : memories[m] \in MemoryRow
  BY DEF MemoryInv, MemoryTypeOK
<1>2. ASSUME NEW s \in Sessions, NEW p \in Persons, NEW kind, NEW m, Begin(s, p, kind, m)
      PROVE  active' = active /\ memories' = memories
  BY <1>2 DEF Begin
<1>3. ASSUME NEW s \in Sessions, MemoryRequestFails(s)
      PROVE  active' = active /\ memories' = memories
  BY <1>3 DEF MemoryRequestFails
<1>4. ASSUME NEW s \in Sessions, CommitCreate(s)
      PROVE  /\ active' = active
             /\ \A m \in Memories : memories[m].status # "absent"
                  => memories'[m].owner = memories[m].owner
  <2>1. PICK m \in Memories, note \in Notes, owner \in {work[s].who, Shared} :
          /\ memories[m].status = "absent"
          /\ memories' = [n \in Memories |->
                CASE n = m          -> Active(owner, note, work[s].on)
                  [] n = work[s].on -> MarkSuperseded(memories[n])
                  [] OTHER          -> memories[n]]
          /\ active' = active
    BY <1>4 DEF CommitCreate
  <2>2. \A n \in Memories : MarkSuperseded(memories[n]).owner = memories[n].owner
    BY <1>1 DEF MarkSuperseded, MemoryRow
  <2>3. ASSUME NEW n \in Memories, n # m
        PROVE  memories'[n].owner = memories[n].owner
    <3>1. CASE n = work[s].on
      BY <2>1, <2>2, <2>3, <3>1
    <3>2. CASE n # work[s].on
      BY <2>1, <2>3, <3>2
    <3> QED
      BY <3>1, <3>2
  <2> QED
    BY <2>1, <2>3
<1>5. ASSUME NEW s \in Sessions, CommitEdit(s)
      PROVE  active' = active /\ \A m \in Memories : memories'[m].owner = memories[m].owner
  BY <1>1, <1>5 DEF CommitEdit, Rewritten, MemoryRow, MemoryInv, MemoryTypeOK
<1>6. ASSUME NEW s \in Sessions, CommitDelete(s)
      PROVE  active' = active /\ \A m \in Memories : memories'[m].owner = memories[m].owner
  BY <1>1, <1>6 DEF CommitDelete, Tombstone, MemoryRow, MemoryInv, MemoryTypeOK
<1> QED
  BY <1>2, <1>3, <1>4, <1>5, <1>6 DEF MemoryRequest, StartCreate, StartEdit, StartDelete

LEMMA ErasureBegins == ErasureInit => ErasureInv
<1> SUFFICES ASSUME ErasureInit PROVE ErasureInv
  OBVIOUS
<1>1. MemoryInv
  BY MemoryBegins DEF ErasureInit
<1>2. NotStarted \in EraseRecords /\ NotStarted.step = 0
  BY StepsAre DEF NotStarted, EraseRecords
<1>3. ErasureTypes
  BY <1>2 DEF ErasureInit, ErasureTypes
<1>4. StepsInv /\ CompletedLeavesNothing
  BY <1>2 DEF ErasureInit, StepsInv, CompletedLeavesNothing
<1> QED
  BY <1>1, <1>3, <1>4 DEF ErasureInv

\* What is handled stays so for a deletion that is not advanced, when rows that are
\* added are recorded.
LEMMA StaysHandled ==
    ASSUME ErasureInv,
           NEW p \in Subject, NEW t \in StepNames, Handled(p, t),
           erasure'[p].failed = erasure[p].failed, erasure'[p].gone = erasure[p].gone,
           since[p] \subseteq since'[p],
           erasure[p].swept \subseteq erasure'[p].swept \cup since'[p] \cup {"invitations"},
           Private(p)' \subseteq Private(p) \/ "agent_memories" \in since'[p]
    PROVE  Handled(p, t)'
BY DEF Handled

\* And so does what a completed deletion has left.
LEMMA StaysComplete ==
    ASSUME ErasureInv, NEW p \in Subject, result'[p] = "completed", result[p] = "completed",
           since[p] \subseteq since'[p],
           rowsOf'[p] \subseteq rowsOf[p] \cup since'[p],
           Private(p)' \subseteq Private(p) \/ "agent_memories" \in since'[p],
           email' => email, \A q \in Subject : active'[q] => active[q]
    PROVE  /\ Leftovers(p)' \subseteq since'[p] \cup {"invitations"}
           /\ ~email' /\ \A q \in Subject : ~active'[q]
<1>1. /\ Leftovers(p) \subseteq since[p] \cup {"invitations"}
      /\ ~email /\ \A q \in Subject : ~active[q]
  BY DEF ErasureInv, CompletedLeavesNothing
<1>2. rowsOf[p] \subseteq since[p] \cup {"invitations"}
      /\ (Private(p) = {} \/ "agent_memories" \in since[p])
  BY <1>1 DEF Leftovers
<1>3. Private(p)' = {} \/ "agent_memories" \in since'[p]
  BY <1>2
<1>4. Leftovers(p)' \subseteq since'[p] \cup {"invitations"}
  BY <1>2, <1>3 DEF Leftovers
<1> QED
  BY <1>1, <1>4

\* A step of anybody that records what it adds, and advances no deletion.
LEMMA OthersKeep ==
    ASSUME ErasureInv, MemoryInv', ErasureTypes',
           \A p \in Subject :
              /\ erasure'[p].failed = erasure[p].failed /\ erasure'[p].gone = erasure[p].gone
              /\ erasure'[p].step = erasure[p].step /\ result'[p] = result[p]
              /\ since[p] \subseteq since'[p]
              /\ erasure[p].swept \subseteq erasure'[p].swept \cup since'[p] \cup {"invitations"}
              /\ rowsOf'[p] \subseteq rowsOf[p] \cup since'[p]
              /\ Private(p)' \subseteq Private(p) \/ "agent_memories" \in since'[p],
           email' = email, active' = active
    PROVE  ErasureInv'
<1>1. ASSUME NEW p \in Subject, NEW t \in StepNames, Handled(p, t)
      PROVE  Handled(p, t)'
  BY <1>1, StaysHandled
<1>2. StepsInv'
  BY <1>1, StepsAre DEF ErasureInv, StepsInv
<1>3. CompletedLeavesNothing'
  <2> SUFFICES ASSUME NEW p \in Subject, result'[p] = "completed"
               PROVE  /\ Leftovers(p)' \subseteq since'[p] \cup {"invitations"}
                      /\ ~email' /\ \A q \in Subject : ~active'[q]
    BY DEF CompletedLeavesNothing
  <2> QED
    BY StaysComplete
<1> QED
  BY <1>2, <1>3 DEF ErasureInv

LEMMA MemoryStepKeeps == ErasureInv /\ MemoryStep => ErasureInv'
<1> SUFFICES ASSUME ErasureInv, MemoryStep PROVE ErasureInv'
  OBVIOUS
<1>1. MemoryInv'
  BY MemoryRequestKeeps DEF ErasureInv, MemoryStep
<1>2. /\ active' = active
      /\ \A m \in Memories : memories[m].status # "absent"
           => memories'[m].owner = memories[m].owner
  BY RequestsKeepOwners DEF ErasureInv, MemoryStep
<1>3. UNCHANGED <<rowsOf, invited, email, erasure, result, visits>>
  BY DEF MemoryStep
<1>4. \A p \in Subject :
        since'[p] = IF \E m \in Memories : memories[m].status = "absent" /\ memories'[m].owner = p
                    THEN since[p] \cup {"agent_memories"} ELSE since[p]
  BY DEF MemoryStep
<1>5. ASSUME NEW p \in Subject
      PROVE  Private(p)' \subseteq Private(p) \/ "agent_memories" \in since'[p]
  BY <1>2, <1>4 DEF Private
<1>6. ErasureTypes'
  <2>1. since' \in [Subject -> SUBSET (Tables \cup {"agent_memories", "invitations"})]
    BY DEF ErasureInv, ErasureTypes, MemoryStep
  <2> QED
    BY <1>3, <2>1 DEF ErasureInv, ErasureTypes
<1>7. \A p \in Subject : since[p] \subseteq since'[p]
  BY <1>4
<1> QED
  BY <1>1, <1>2, <1>3, <1>5, <1>6, <1>7, OthersKeep

LEMMA VisitsKeep ==
    ASSUME ErasureInv, NEW p \in Subject, NEW table \in Tables,
           BeginVisit(p, table) \/ EndVisit(p, table)
    PROVE  ErasureInv'
<1>1. UNCHANGED memoryVars
  BY DEF BeginVisit, EndVisit
<1>2. MemoryInv'
  BY <1>1 DEF ErasureInv, MemoryInv, memoryVars, MemoryTypeOK, NotesMet, WorkInv, SuccessionInv,
              DeletedIsEmpty
<1>3. \A q \in Subject : Private(q)' = Private(q)
  BY <1>1 DEF Private, memoryVars
<1>4. active' = active
  BY <1>1 DEF memoryVars
<1>5. CASE BeginVisit(p, table)
  <2>1. UNCHANGED <<rowsOf, invited, email, erasure, result, since>>
    BY <1>5 DEF BeginVisit
  <2>2. ErasureTypes'
    BY <1>5, <2>1 DEF BeginVisit, ErasureInv, ErasureTypes
  <2> QED
    BY <1>2, <1>3, <1>4, <2>1, <2>2, OthersKeep
<1>6. CASE EndVisit(p, table)
  <2>1. erasure[p] \in EraseRecords /\ erasure \in [Subject -> EraseRecords]
    BY DEF ErasureInv, ErasureTypes
  <2> DEFINE new == [erasure[p] EXCEPT !.swept = @ \ {table}]
  <2>2. /\ new \in EraseRecords /\ new.step = erasure[p].step /\ new.failed = erasure[p].failed
        /\ new.gone = erasure[p].gone /\ new.swept = erasure[p].swept \ {table}
    BY <2>1 DEF EraseRecords
  <2>3. erasure' = [erasure EXCEPT ![p] = new]
    BY <1>6, <2>1 DEF EndVisit
  <2> HIDE DEF new
  <2>4. /\ erasure' \in [Subject -> EraseRecords] /\ erasure'[p] = new
        /\ \A q \in Subject \ {p} : erasure'[q] = erasure[q]
    BY <2>1, <2>2, <2>3
  <2>5. /\ rowsOf' \in [Subject -> SUBSET Tables] /\ rowsOf'[p] = rowsOf[p] \cup {table}
        /\ \A q \in Subject \ {p} : rowsOf'[q] = rowsOf[q]
    BY <1>6 DEF EndVisit, ErasureInv, ErasureTypes
  <2>6. /\ since' \in [Subject -> SUBSET (Tables \cup {"agent_memories", "invitations"})]
        /\ since'[p] = since[p] \cup {table}
        /\ \A q \in Subject \ {p} : since'[q] = since[q]
    BY <1>6 DEF EndVisit, ErasureInv, ErasureTypes
  <2>7. visits' \in SUBSET (Subject \X Tables) /\ UNCHANGED <<invited, email, result>>
    BY <1>6 DEF EndVisit, ErasureInv, ErasureTypes
  <2>8. ErasureTypes'
    BY <2>4, <2>5, <2>6, <2>7 DEF ErasureInv, ErasureTypes
  <2> QED
    BY <1>2, <1>3, <1>4, <2>2, <2>4, <2>5, <2>6, <2>7, <2>8, OthersKeep
<1> QED
  BY <1>5, <1>6

LEMMA InviteKeeps ==
    ASSUME ErasureInv, NEW p \in Subject, Invite(p)
    PROVE  ErasureInv'
<1>1. UNCHANGED memoryVars
  BY DEF Invite
<1>2. MemoryInv'
  BY <1>1 DEF ErasureInv, MemoryInv, memoryVars, MemoryTypeOK, NotesMet, WorkInv, SuccessionInv,
              DeletedIsEmpty
<1>3. \A q \in Subject : Private(q)' = Private(q)
  BY <1>1 DEF Private, memoryVars
<1>4. active' = active
  BY <1>1 DEF memoryVars
<1>5. erasure[p] \in EraseRecords /\ erasure \in [Subject -> EraseRecords]
  BY DEF ErasureInv, ErasureTypes
<1> DEFINE new == [erasure[p] EXCEPT !.swept = @ \ {"invitations"}]
<1>6. /\ new \in EraseRecords /\ new.step = erasure[p].step /\ new.failed = erasure[p].failed
      /\ new.gone = erasure[p].gone /\ new.swept = erasure[p].swept \ {"invitations"}
  BY <1>5 DEF EraseRecords
<1>7. erasure' = [erasure EXCEPT ![p] = new]
  BY <1>5 DEF Invite
<1> HIDE DEF new
<1>8. /\ erasure' \in [Subject -> EraseRecords] /\ erasure'[p] = new
      /\ \A q \in Subject \ {p} : erasure'[q] = erasure[q]
  BY <1>5, <1>6, <1>7
<1>9. /\ since' \in [Subject -> SUBSET (Tables \cup {"agent_memories", "invitations"})]
      /\ \A q \in Subject : since[q] \subseteq since'[q]
  BY DEF Invite, ErasureInv, ErasureTypes
<1>10. UNCHANGED <<rowsOf, email, result, visits>> /\ invited' \in [Subject -> BOOLEAN]
  BY DEF Invite, ErasureInv, ErasureTypes
<1>11. ErasureTypes'
  BY <1>8, <1>9, <1>10 DEF ErasureInv, ErasureTypes
<1> QED
  BY <1>2, <1>3, <1>4, <1>6, <1>8, <1>9, <1>10, <1>11, OthersKeep

\* A step of one deletion before its commit: nothing is seen by others.
LEMMA DeletionGoesOn ==
    ASSUME ErasureInv, NEW p \in Subject, NEW new \in EraseRecords,
           erasure' = [erasure EXCEPT ![p] = new],
           UNCHANGED <<memoryVars, rowsOf, invited, email, visits>>,
           since' \in [Subject -> SUBSET (Tables \cup {"agent_memories", "invitations"})],
           result' \in [Subject -> {"none", "partially_completed", "completed"}],
           \A q \in Subject \ {p} : since'[q] = since[q] /\ result'[q] = result[q],
           result'[p] = "none" \/ (result'[p] = result[p] /\ since' = since /\ new.step = 0),
           \A i \in 1..Len(Steps) : i < new.step => Handled(p, Steps[i])'
    PROVE  ErasureInv'
<1>1. MemoryInv'
  BY DEF ErasureInv, MemoryInv, memoryVars, MemoryTypeOK, NotesMet, WorkInv, SuccessionInv,
         DeletedIsEmpty
<1>2. \A q \in Subject : Private(q)' = Private(q)
  BY DEF Private, memoryVars
<1>3. active' = active
  BY DEF memoryVars
<1>4. /\ erasure' \in [Subject -> EraseRecords] /\ erasure'[p] = new
      /\ \A q \in Subject \ {p} : erasure'[q] = erasure[q]
  BY DEF ErasureInv, ErasureTypes
<1>5. ErasureTypes'
  BY <1>4 DEF ErasureInv, ErasureTypes
<1>6. StepsInv'
  <2>1. ASSUME NEW q \in Subject \ {p}, NEW t \in StepNames, Handled(q, t)
        PROVE  Handled(q, t)'
    BY <1>2, <1>4, <2>1 DEF Handled
  <2>2. \A q \in Subject \ {p} : \A i \in 1..Len(Steps) :
           i < erasure'[q].step => Handled(q, Steps[i])'
    BY <1>4, <2>1, StepsAre DEF ErasureInv, StepsInv
  <2>3. new.step \in Nat
    BY StepsAre DEF EraseRecords
  <2>4. \A q \in Subject : erasure'[q].step > 0 => result'[q] = "none"
    BY <1>4, <2>3 DEF ErasureInv, StepsInv
  <2> QED
    BY <1>4, <2>2, <2>4 DEF StepsInv
<1>7. CompletedLeavesNothing'
  <2> SUFFICES ASSUME NEW q \in Subject, result'[q] = "completed"
               PROVE  /\ Leftovers(q)' \subseteq since'[q] \cup {"invitations"}
                      /\ ~email' /\ \A r \in Subject : ~active'[r]
    BY DEF CompletedLeavesNothing
  <2>1. result[q] = "completed" /\ since'[q] = since[q]
    OBVIOUS
  <2> QED
    BY <1>2, <1>3, <2>1, StaysComplete
<1> QED
  BY <1>1, <1>5, <1>6, <1>7 DEF ErasureInv

LEMMA StartErasureKeeps ==
    ASSUME ErasureInv, NEW p \in Subject, StartErasure(p)
    PROVE  ErasureInv'
<1> DEFINE address == email
           new == [NotStarted EXCEPT !.step = 1, !.address = address]
<1>1. address \in BOOLEAN
  BY DEF ErasureInv, ErasureTypes
<1>2. new \in EraseRecords /\ new.step = 1
  <2>1. NotStarted \in EraseRecords
    BY StepsAre DEF NotStarted, EraseRecords
  <2>2. 1 \in 0..(Len(Steps) + 1)
    BY StepsAre
  <2> HIDE DEF address
  <2> QED
    BY <1>1, <2>1, <2>2 DEF EraseRecords
<1>3. erasure' = [erasure EXCEPT ![p] = new]
  BY DEF StartErasure
<1>4. \A i \in 1..Len(Steps) : ~(i < 1)
  BY StepsAre
<1>5. /\ result' \in [Subject -> {"none", "partially_completed", "completed"}]
      /\ result'[p] = "none" /\ \A q \in Subject \ {p} : result'[q] = result[q]
  BY DEF StartErasure, ErasureInv, ErasureTypes
<1>6. UNCHANGED <<memoryVars, rowsOf, invited, email, visits, since>>
  BY DEF StartErasure
<1>7. since' \in [Subject -> SUBSET (Tables \cup {"agent_memories", "invitations"})]
  BY <1>6 DEF ErasureInv, ErasureTypes
<1> HIDE DEF new
<1> QED
  BY <1>2, <1>3, <1>4, <1>5, <1>6, <1>7, DeletionGoesOn

LEMMA ErasureAbortsKeeps ==
    ASSUME ErasureInv, NEW p \in Subject, ErasureAborts(p)
    PROVE  ErasureInv'
<1>1. NotStarted \in EraseRecords /\ NotStarted.step = 0
  BY StepsAre DEF NotStarted, EraseRecords
<1>2. /\ erasure' = [erasure EXCEPT ![p] = NotStarted]
      /\ UNCHANGED <<memoryVars, rowsOf, invited, email, result, visits, since>>
  BY DEF ErasureAborts
<1>3. \A i \in 1..Len(Steps) : ~(i < 0)
  BY StepsAre
<1>4. /\ since' \in [Subject -> SUBSET (Tables \cup {"agent_memories", "invitations"})]
      /\ result' \in [Subject -> {"none", "partially_completed", "completed"}]
  BY <1>2 DEF ErasureInv, ErasureTypes
<1> QED
  BY <1>1, <1>2, <1>3, <1>4, DeletionGoesOn

LEMMA StepSucceedsKeeps ==
    ASSUME ErasureInv, NEW p \in Subject, StepSucceeds(p)
    PROVE  ErasureInv'
<1> DEFINE at == erasure[p].step
           step == Steps[at]
           new == Sweep(p, step)
<1>1. /\ erasure[p] \in EraseRecords /\ at \in 1..Len(Steps) /\ step \in StepNames
      /\ Len(Steps) \in Nat
  BY StepsAre DEF ErasureInv, ErasureTypes, StepSucceeds, Running
<1>2. /\ erasure' = [erasure EXCEPT ![p] = new]
      /\ since' = [since EXCEPT ![p] = @ \ {step}]
      /\ UNCHANGED <<memoryVars, rowsOf, invited, email, result, visits>>
  BY DEF StepSucceeds
<1>3. Private(p) \in SUBSET Memories
  BY DEF Private
<1>4. /\ new \in EraseRecords /\ new.step = at + 1 /\ new.failed = erasure[p].failed
      /\ erasure[p].swept \subseteq new.swept
      /\ step = "agent_memories" => new.gone = Private(p)
      /\ step # "agent_memories" => new.gone = erasure[p].gone
      /\ step \in {"agent_memories", "invitations"} \/ step \in new.swept
  <2>0. at + 1 \in 0..(Len(Steps) + 1)
    BY <1>1
  <2>1. CASE step = "agent_memories"
    <3>1. new = [erasure[p] EXCEPT !.step = @ + 1, !.gone = Private(p)]
      BY <2>1 DEF Sweep
    <3> HIDE DEF new, step
    <3> QED
      BY <1>1, <1>3, <2>0, <2>1, <3>1 DEF EraseRecords
  <2>2. CASE step = "invitations" /\ ~erasure[p].address
    <3>1. new = [erasure[p] EXCEPT !.step = @ + 1]
      BY <2>2 DEF Sweep
    <3> HIDE DEF new, step
    <3> QED
      BY <1>1, <2>0, <2>2, <3>1 DEF EraseRecords
  <2>3. CASE step # "agent_memories" /\ ~(step = "invitations" /\ ~erasure[p].address)
    <3>1. new = [erasure[p] EXCEPT !.step = @ + 1, !.swept = @ \cup {step}]
      BY <2>3 DEF Sweep
    <3>2. step \in Tables \cup {"invitations", "users"}
      BY <1>1, <2>3 DEF StepNames
    <3> HIDE DEF new, step
    <3> QED
      BY <1>1, <2>0, <2>3, <3>1, <3>2 DEF EraseRecords
  <2> QED
    BY <2>1, <2>2, <2>3
<1>5. /\ since' \in [Subject -> SUBSET (Tables \cup {"agent_memories", "invitations"})]
      /\ since'[p] = since[p] \ {step}
      /\ \A q \in Subject \ {p} : since'[q] = since[q]
  BY <1>2 DEF ErasureInv, ErasureTypes
<1>6. erasure'[p] = new
  BY <1>2 DEF ErasureInv, ErasureTypes
<1>7. Private(p)' = Private(p)
  BY <1>2 DEF Private, memoryVars
<1>8. \A t : t = step => Handled(p, t)'
  <2> HIDE DEF new, step
  <2> QED
    BY <1>4, <1>6, <1>7 DEF Handled
<1>9. ASSUME NEW t \in StepNames, t # step, Handled(p, t)
      PROVE  Handled(p, t)'
  BY <1>4, <1>5, <1>6, <1>7, <1>9 DEF Handled
<1>10. ASSUME NEW i \in 1..Len(Steps), i < new.step
       PROVE  Handled(p, Steps[i])'
  <2>0. Steps' = Steps
    BY DEF Steps
  <2>1. CASE i = at
    <3>1. Steps[i] = step
      BY <2>1
    <3> HIDE DEF step
    <3> QED
      BY <1>8, <3>1
  <2>2. CASE i # at
    <3>1. i < at
      BY <1>1, <1>4, <1>10, <2>2
    <3>2. Handled(p, Steps[i]) /\ Steps[i] \in StepNames
      BY <3>1, StepsAre DEF ErasureInv, StepsInv
    <3> HIDE DEF step
    <3> QED
      BY <1>8, <1>9, <3>2
  <2> QED
    BY <2>1, <2>2
<1>11. result[p] = "none"
  BY <1>1 DEF ErasureInv, StepsInv
<1>12. result' \in [Subject -> {"none", "partially_completed", "completed"}]
  BY <1>2 DEF ErasureInv, ErasureTypes
<1> HIDE DEF new, step
<1> QED
  BY <1>2, <1>4, <1>5, <1>10, <1>11, <1>12, DeletionGoesOn

LEMMA StepFailsKeeps ==
    ASSUME ErasureInv, NEW p \in Subject, StepFails(p)
    PROVE  ErasureInv'
<1> DEFINE at == erasure[p].step
           step == Steps[at]
           new == [erasure[p] EXCEPT !.step = @ + 1, !.failed = @ \cup {step}]
<1>1. /\ erasure[p] \in EraseRecords /\ at \in 1..Len(Steps) /\ step \in StepNames
      /\ Len(Steps) \in Nat
  BY StepsAre DEF ErasureInv, ErasureTypes, StepFails, Running
<1>2. /\ erasure' = [erasure EXCEPT ![p] = new]
      /\ UNCHANGED <<memoryVars, rowsOf, invited, email, result, visits, since>>
  BY DEF StepFails
<1>3. at + 1 \in 0..(Len(Steps) + 1)
  BY <1>1
<1>4. /\ new \in EraseRecords /\ new.step = at + 1 /\ new.failed = erasure[p].failed \cup {step}
      /\ new.swept = erasure[p].swept /\ new.gone = erasure[p].gone
  <2> HIDE DEF step
  <2> QED
    BY <1>1, <1>3 DEF EraseRecords
<1>5. erasure'[p] = new
  BY <1>2 DEF ErasureInv, ErasureTypes
<1>6. Private(p)' = Private(p)
  BY <1>2 DEF Private, memoryVars
<1>7. ASSUME NEW t \in StepNames, t = step \/ Handled(p, t)
      PROVE  Handled(p, t)'
  BY <1>2, <1>4, <1>5, <1>6, <1>7 DEF Handled
<1>8. ASSUME NEW i \in 1..Len(Steps), i < new.step
      PROVE  Handled(p, Steps[i])'
  <2>1. CASE i = at
    BY <1>1, <1>7, <2>1
  <2>2. CASE i # at
    <3>1. i < at
      BY <1>1, <1>4, <1>8, <2>2
    <3>2. Handled(p, Steps[i]) /\ Steps[i] \in StepNames
      BY <3>1, StepsAre DEF ErasureInv, StepsInv
    <3> QED
      BY <1>7, <3>2
  <2> QED
    BY <2>1, <2>2
<1>9. result[p] = "none"
  BY <1>1 DEF ErasureInv, StepsInv
<1>10. /\ since' \in [Subject -> SUBSET (Tables \cup {"agent_memories", "invitations"})]
       /\ result' \in [Subject -> {"none", "partially_completed", "completed"}]
  BY <1>2 DEF ErasureInv, ErasureTypes
<1> HIDE DEF new, step
<1> QED
  BY <1>2, <1>4, <1>8, <1>9, <1>10, DeletionGoesOn

LEMMA FinishKeeps ==
    ASSUME ErasureInv, NEW p \in Subject, FinishErasure(p)
    PROVE  ErasureInv'
<1> DEFINE done == erasure[p].swept
           gone == erasure[p].gone
           failed == erasure[p].failed
<1>1. /\ erasure[p] \in EraseRecords /\ erasure[p].step = Len(Steps) + 1
      /\ Subject \subseteq Persons
  BY SubjectIsSomebody DEF ErasureInv, ErasureTypes, FinishErasure
<1>2. /\ gone \in SUBSET Memories /\ done \in SUBSET (Tables \cup {"invitations", "users"})
  BY <1>1 DEF EraseRecords
<1>3. NotStarted \in EraseRecords /\ NotStarted.step = 0
  BY StepsAre DEF NotStarted, EraseRecords
<1>4. /\ erasure' \in [Subject -> EraseRecords] /\ erasure'[p] = NotStarted
      /\ \A q \in Subject \ {p} : erasure'[q] = erasure[q]
  BY <1>3 DEF FinishErasure, ErasureInv, ErasureTypes
<1>5. /\ rowsOf' \in [Subject -> SUBSET Tables] /\ rowsOf'[p] = rowsOf[p] \ done
      /\ \A q \in Subject \ {p} : rowsOf'[q] = rowsOf[q]
  BY DEF FinishErasure, ErasureInv, ErasureTypes
<1>6. /\ email' \in BOOLEAN /\ (email' => email) /\ ("users" \in done => ~email')
  BY DEF FinishErasure, ErasureInv, ErasureTypes
<1>7. /\ active' \in [Persons -> BOOLEAN]
      /\ \A q \in Subject : active'[q] => active[q]
      /\ "users" \in done => \A q \in Subject : ~active'[q]
  <2>1. active \in [Persons -> BOOLEAN]
    BY DEF ErasureInv, MemoryInv, MemoryTypeOK
  <2>2. active' = IF "users" \in done
                  THEN [q \in Persons |-> q \notin Subject /\ active[q]] ELSE active
    BY DEF FinishErasure
  <2>3. CASE "users" \in done
    <3>1. active' = [q \in Persons |-> q \notin Subject /\ active[q]]
      BY <2>2, <2>3
    <3>2. \A q \in Persons : (q \notin Subject /\ active[q]) \in BOOLEAN
      OBVIOUS
    <3>3. active' \in [Persons -> BOOLEAN]
      BY Zenon, <3>1, <3>2
    <3>4. \A q \in Subject : ~active'[q]
      BY <1>1, <3>1
    <3> QED
      BY <3>3, <3>4
  <2>4. CASE "users" \notin done
    BY <2>1, <2>2, <2>4
  <2> QED
    BY <2>3, <2>4
<1>8. /\ invited' \in [Subject -> BOOLEAN]
  BY DEF FinishErasure, ErasureInv, ErasureTypes
<1>9. /\ result' \in [Subject -> {"none", "partially_completed", "completed"}]
      /\ result'[p] = "completed" => failed = {}
      /\ \A q \in Subject \ {p} : result'[q] = result[q]
  BY DEF FinishErasure, ErasureInv, ErasureTypes, DerivedStatus
<1>10. memories' = WithoutRows(gone) /\ UNCHANGED <<work, memOverlaps, visits, since>>
  BY DEF FinishErasure
<1>11. MemoryInv'
  BY <1>2, <1>7, <1>10, SweepKeeps DEF ErasureInv
<1>12. ErasureTypes'
  BY <1>4, <1>5, <1>6, <1>8, <1>9, <1>10 DEF ErasureInv, ErasureTypes
<1>13. /\ \A m \in Memories : memories[m] \in MemoryRow
       /\ Erased.owner = Shared /\ Shared \notin Persons
  BY MemoryConstants DEF ErasureInv, MemoryInv, MemoryTypeOK, Erased, Unmade
<1>14. \A m \in Memories :
         \/ m \in gone /\ memories'[m].owner = Shared
         \/ m \notin gone /\ memories'[m].owner = memories[m].owner
            /\ memories'[m].status = memories[m].status
  BY <1>10, <1>13 DEF WithoutRows, MemoryRow
<1>15. \A q \in Subject : Private(q)' \subseteq Private(q) \ gone
  BY <1>1, <1>13, <1>14 DEF Private
<1>16. StepsInv'
  <2>1. ASSUME NEW q \in Subject \ {p}, NEW t \in StepNames, Handled(q, t)
        PROVE  Handled(q, t)'
    BY <1>4, <1>10, <1>15, <2>1 DEF Handled
  <2>2. \A q \in Subject \ {p} : \A i \in 1..Len(Steps) :
           i < erasure'[q].step => Handled(q, Steps[i])'
    BY <1>4, <2>1, StepsAre DEF ErasureInv, StepsInv
  <2>3. \A q \in Subject \ {p} : erasure'[q].step > 0 => result'[q] = "none"
    BY <1>4, <1>9 DEF ErasureInv, StepsInv
  <2>4. ~(erasure'[p].step > 0) /\ \A i \in 1..Len(Steps) : ~(i < erasure'[p].step)
    BY <1>3, <1>4, StepsAre
  <2> QED
    BY <2>2, <2>3, <2>4 DEF StepsInv
<1>17. CompletedLeavesNothing'
  <2>1. ASSUME NEW q \in Subject \ {p}, result'[q] = "completed"
        PROVE  /\ Leftovers(q)' \subseteq since'[q] \cup {"invitations"}
               /\ ~email' /\ \A r \in Subject : ~active'[r]
    <3>1. result[q] = "completed" /\ since'[q] = since[q] /\ rowsOf'[q] = rowsOf[q]
      BY <1>5, <1>9, <1>10, <2>1
    <3> QED
      BY <1>6, <1>7, <1>15, <2>1, <3>1, StaysComplete
  <2>2. ASSUME result'[p] = "completed"
        PROVE  /\ Leftovers(p)' \subseteq since'[p] \cup {"invitations"}
               /\ ~email' /\ \A r \in Subject : ~active'[r]
    <3>1. \A t \in StepNames : Handled(p, t)
      <4> TAKE t \in StepNames
      <4>1. PICK i \in 1..Len(Steps) : Steps[i] = t
        BY StepsAre
      <4>2. i < erasure[p].step
        BY <1>1, StepsAre
      <4> QED
        BY <4>1, <4>2 DEF ErasureInv, StepsInv
    <3>2. failed = {}
      BY <1>9, <2>2
    <3>3. since[p] \in SUBSET (Tables \cup {"agent_memories", "invitations"})
          /\ rowsOf[p] \in SUBSET Tables
      BY DEF ErasureInv, ErasureTypes
    <3>4. "users" \in done
      <4>1. "users" \in StepNames /\ "users" \notin since[p]
        BY <3>3, TablesAreNamed DEF StepNames
      <4> QED
        BY <3>1, <3>2, <4>1 DEF Handled
    <3>5. rowsOf'[p] \subseteq since[p]
      <4>1. \A t \in Tables : t \in StepNames /\ t # "invitations" /\ t # "agent_memories"
        BY TablesAreNamed DEF StepNames
      <4> QED
        BY <1>5, <3>1, <3>2, <3>3, <4>1 DEF Handled
    <3>6. Private(p)' = {} \/ "agent_memories" \in since[p]
      <4>1. "agent_memories" \in StepNames /\ "agent_memories" \notin done
        BY <1>2, TablesAreNamed DEF StepNames
      <4>2. "agent_memories" \in since[p] \/ Private(p) \subseteq gone
        BY <3>1, <3>2, <4>1 DEF Handled
      <4> QED
        BY <1>15, <4>2
    <3>7. Leftovers(p)' \subseteq since'[p] \cup {"invitations"}
      BY <1>10, <3>5, <3>6 DEF Leftovers
    <3> QED
      BY <1>6, <1>7, <3>4, <3>7
  <2> QED
    BY <2>1, <2>2 DEF CompletedLeavesNothing
<1> QED
  BY <1>11, <1>12, <1>16, <1>17 DEF ErasureInv

LEMMA ErasureStep == ErasureInv /\ [ErasureNext]_erasureVars => ErasureInv'
<1> SUFFICES ASSUME ErasureInv, [ErasureNext]_erasureVars PROVE ErasureInv'
  OBVIOUS
<1>1. CASE UNCHANGED erasureVars
  <2>1. UNCHANGED memoryVars /\ UNCHANGED privacyVars
    BY <1>1 DEF erasureVars
  <2>2. MemoryInv'
    BY <2>1 DEF ErasureInv, MemoryInv, memoryVars, MemoryTypeOK, NotesMet, WorkInv,
                SuccessionInv, DeletedIsEmpty
  <2>3. ErasureTypes'
    BY <2>1 DEF ErasureInv, ErasureTypes, privacyVars
  <2>4. \A q \in Subject : Private(q)' = Private(q)
    BY <2>1 DEF Private, memoryVars
  <2>5. active' = active
    BY <2>1 DEF memoryVars
  <2> QED
    BY <2>1, <2>2, <2>3, <2>4, <2>5, OthersKeep DEF privacyVars
<1>2. CASE ErasureNext
  BY <1>2, MemoryStepKeeps, VisitsKeep, InviteKeeps, StartErasureKeeps, StepSucceedsKeeps,
     StepFailsKeeps, ErasureAbortsKeeps, FinishKeeps DEF ErasureNext
<1> QED
  BY <1>1, <1>2

(***************************************************************************)
(* A deleted note has no text unless an edit overlapped its deletion, and  *)
(* a note has one successor at most unless two requests superseded it at   *)
(* one time (app/core/memory), also while a person's data is deleted.      *)
(***************************************************************************)
THEOREM RecallIsAlwaysSound == ErasureSpec => []RecallIsSound
<1>1. ErasureInv => RecallIsSound
  BY MemoryImplies DEF ErasureInv
<1> QED
  BY <1>1, ErasureBegins, ErasureStep, PTL DEF ErasureSpec

(***************************************************************************)
(* A deletion that reports "completed" leaves nothing that was there when  *)
(* its statement ran, and ends all access (app/core/privacy/service.py).   *)
(***************************************************************************)
THEOREM CompletedAlwaysLeavesNothing == ErasureSpec => []CompletedLeavesNothing
<1>1. ErasureInv => CompletedLeavesNothing
  BY DEF ErasureInv
<1> QED
  BY <1>1, ErasureBegins, ErasureStep, PTL DEF ErasureSpec

\* Types of notes, requests and deletions.
THEOREM ErasureTypesHold == ErasureSpec => []ErasureTypeOK
<1>1. ErasureInv => ErasureTypeOK
  BY DEF ErasureInv, MemoryInv, ErasureTypes, ErasureTypeOK, EraseRecords, StepNames
<1> QED
  BY <1>1, ErasureBegins, ErasureStep, PTL DEF ErasureSpec
=============================================================================
