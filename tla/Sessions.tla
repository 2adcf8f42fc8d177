------------------------------ MODULE Sessions ------------------------------
(***************************************************************************)
(* The sessions of one person in one organization: refresh tokens, which   *)
(* rotate within a family (app/core/auth), and the authorization of an MCP *)
(* client, which ends in such a session (app/mcp/oauth/provider.py).       *)
(*                                                                         *)
(* Tokens are rows.  A request on one is a transaction: it reads the row   *)
(* and writes with the commit; a request that raises writes nothing.  The  *)
(* flows, codes and issued sessions of the provider are in the memory of   *)
(* one process, which an await may hand to another request.                *)
(***************************************************************************)
EXTENDS Naturals, FiniteSets

CONSTANTS
    Tokens,     \* refresh tokens that can be issued
    NoToken,
    Flows,      \* authorization requests that can be made; each names its code
    Users       \* requests on tokens that may be under way at one time

ASSUME SessionConstants == NoToken \notin Tokens

VARIABLES
    tokens,     \* each token: [state, family]; a family is named by its first token
    trips,      \* what each request on a token is doing
    flows,      \* where each flow is
    confirming, \* how many requests have claimed each flow and not answered yet
    issued,     \* _issued_sessions: the token held for each code
    handed,     \* auxiliary: tokens handed to a client by a code, with how often
    made,       \* auxiliary: sessions made for each flow
    forked,     \* auxiliary: families in which two requests read the same token
    outlived    \* auxiliary: families that ended while a refresh was under way

sessionVars == <<tokens, trips, flows, confirming, issued, handed, made, forked, outlived>>

NoTrip  == [kind |-> "none", token |-> NoToken]
Unused  == [state |-> "none", family |-> NoToken]

SessionInit ==
    /\ tokens = [t \in Tokens |-> Unused]
    /\ trips = [u \in Users |-> NoTrip]
    /\ flows = [f \in Flows |-> "none"]
    /\ confirming = [f \in Flows |-> 0]
    /\ issued = [f \in Flows |-> NoToken]
    /\ handed = [t \in Tokens |-> 0]
    /\ made = [f \in Flows |-> 0]
    /\ forked = {}
    /\ outlived = {}

oauth == <<flows, confirming, issued, handed, made>>

-----------------------------------------------------------------------------
Live      == {t \in Tokens : tokens[t].state = "live"}
Free      == {t \in Tokens : tokens[t].state = "none"}
Family(t) == {s \in Tokens : tokens[s].family = tokens[t].family}

Revoked(table, gone) ==
    [t \in Tokens |-> IF t \in gone THEN [table[t] EXCEPT !.state = "revoked"] ELSE table[t]]

\* insert_refresh_token of _issue_session.
Issued(table, t, family) == [table EXCEPT ![t] = [state |-> "live", family |-> family]]

\* signup, login_with_password, select_organization, switch_organization,
\* complete_sso_login: a new family.
LogIn ==
    /\ \E t \in Free : tokens' = Issued(tokens, t, t)
    /\ UNCHANGED <<trips, forked, oauth, outlived>>

\* With a plausible mistake: revoked_at is not looked at.
Usable_Any(t) == tokens[t].state # "none"

\* What refresh and logout demand of the token they find.
Usable(t) == t \in Live

(***************************************************************************)
(* refresh and logout read the token.  One that is revoked or past its     *)
(* time ends the request: the revocation of its family, which refresh has  *)
(* just made, is rolled back with it, and logout has nothing to do.        *)
(***************************************************************************)
StartTrip(u, kind, t) ==
    /\ trips[u] = NoTrip
    /\ Usable(t)
    /\ trips' = [trips EXCEPT ![u] = [kind |-> kind, token |-> t]]
    /\ forked' = IF \E v \in Users : trips[v].token # NoToken /\ trips[v].token \in Family(t)
                 THEN forked \cup {tokens[t].family} ELSE forked
    /\ UNCHANGED <<tokens, oauth, outlived>>

TripFails(u) ==
    /\ trips[u] # NoTrip
    /\ trips' = [trips EXCEPT ![u] = NoTrip]
    /\ UNCHANGED <<tokens, forked, oauth, outlived>>

\* With a plausible mistake: the old token stays.
Rotated_KeepsOld(t, s) == Issued(tokens, s, tokens[t].family)

\* revoke_refresh_token of the old one, and its successor.
Rotated(t, s) == Issued(Revoked(tokens, {t}), s, tokens[t].family)

CommitRefresh(u) ==
    /\ trips[u].kind = "refresh"
    /\ \E s \in Free : tokens' = Rotated(trips[u].token, s)
    /\ trips' = [trips EXCEPT ![u] = NoTrip]
    /\ UNCHANGED <<forked, oauth, outlived>>

\* Families of which `table` leaves no token, while one of the others will refresh.
Outlived(others, table) ==
    {f \in Tokens :
        /\ \A t \in Tokens : table[t].family = f => table[t].state # "live"
        /\ \E v \in others : trips[v].kind = "refresh" /\ tokens[trips[v].token].family = f}

CommitLogout(u) ==
    /\ trips[u].kind = "logout"
    /\ tokens' = Revoked(tokens, {trips[u].token})
    /\ trips' = [trips EXCEPT ![u] = NoTrip]
    /\ outlived' = outlived \cup Outlived(Users \ {u}, tokens')
    /\ UNCHANGED <<forked, oauth>>

\* revoke_all_for_user: one UPDATE of what is live when it runs.
RevokeAll ==
    /\ Live # {}
    /\ tokens' = Revoked(tokens, Live)
    /\ outlived' = outlived \cup Outlived(Users, tokens')
    /\ UNCHANGED <<trips, forked, oauth>>

\* Time passes a token's expires_at; rows do not change, but it is of no use.
TokenExpires(t) ==
    /\ t \in Live
    /\ tokens' = Revoked(tokens, {t})
    /\ outlived' = outlived \cup Outlived(Users, tokens')
    /\ UNCHANGED <<trips, forked, oauth>>

-----------------------------------------------------------------------------
\* authorize: the client is sent to the confirmation page.
Authorize(f) ==
    /\ flows[f] = "none"
    /\ flows' = [flows EXCEPT ![f] = "pending"]
    /\ UNCHANGED <<tokens, trips, forked, confirming, issued, handed, made, outlived>>

\* With a plausible mistake: the flow is deleted only after the work is done.
Claimed_Later(f) == flows

\* `_pending_flows.pop` before the first await.
Claimed(f) == [flows EXCEPT ![f] = "claimed"]

\* _handle_confirmation_post: one request gets the flow, others an answer.
ClaimFlow(f) ==
    /\ flows[f] = "pending"
    /\ confirming[f] < 2
    /\ flows' = Claimed(f)
    /\ confirming' = [confirming EXCEPT ![f] = @ + 1]
    /\ UNCHANGED <<tokens, trips, forked, issued, handed, made, outlived>>

\* The token that was pasted is not good: the flow is put back.
Reinsert(f) ==
    /\ confirming[f] > 0
    /\ confirming' = [confirming EXCEPT ![f] = @ - 1]
    /\ flows' = [flows EXCEPT ![f] = "pending"]
    /\ UNCHANGED <<tokens, trips, forked, issued, handed, made, outlived>>

\* Anything but an EKIPError loses it.
ConfirmationBreaks(f) ==
    /\ confirming[f] > 0
    /\ confirming' = [confirming EXCEPT ![f] = @ - 1]
    /\ flows' = [flows EXCEPT ![f] = "over"]
    /\ UNCHANGED <<tokens, trips, forked, issued, handed, made, outlived>>

\* _issue_session commits; the code and the session are stored.
Confirm(f) ==
    /\ confirming[f] > 0
    /\ confirming' = [confirming EXCEPT ![f] = @ - 1]
    /\ \E t \in Free :
        /\ tokens' = Issued(tokens, t, t)
        /\ issued' = [issued EXCEPT ![f] = t]
    /\ flows' = [flows EXCEPT ![f] = "code"]
    /\ made' = [made EXCEPT ![f] = @ + 1]
    /\ UNCHANGED <<trips, forked, handed, outlived>>

\* With a plausible mistake: the session stays.
Popped_Not(f) == issued

\* `_issued_sessions.pop`
Popped(f) == [issued EXCEPT ![f] = NoToken]

\* exchange_authorization_code; a second one finds nothing and is refused.
ExchangeCode(f) ==
    /\ issued[f] # NoToken
    /\ handed' = [handed EXCEPT ![issued[f]] = IF @ < 2 THEN @ + 1 ELSE @]
    /\ issued' = Popped(f)
    /\ flows' = [flows EXCEPT ![f] = "over"]
    /\ UNCHANGED <<tokens, trips, forked, confirming, made, outlived>>

\* _pop_expired, or a code past its time: the session is dropped, not revoked.
FlowExpires(f) ==
    /\ flows[f] \in {"pending", "code"}
    /\ flows' = [flows EXCEPT ![f] = "over"]
    /\ issued' = [issued EXCEPT ![f] = NoToken]
    /\ UNCHANGED <<tokens, trips, forked, confirming, handed, made, outlived>>

\* The process restarts: what it had in memory is gone.
ServerRestarts ==
    /\ flows' = [f \in Flows |-> IF flows[f] = "none" THEN "none" ELSE "over"]
    /\ confirming' = [f \in Flows |-> 0]
    /\ issued' = [f \in Flows |-> NoToken]
    /\ UNCHANGED <<tokens, trips, forked, handed, made, outlived>>

SessionNext ==
    \/ LogIn
    \/ RevokeAll
    \/ ServerRestarts
    \/ \E t \in Tokens : TokenExpires(t)
    \/ \E u \in Users :
        \/ \E t \in Tokens, kind \in {"refresh", "logout"} : StartTrip(u, kind, t)
        \/ TripFails(u)
        \/ CommitRefresh(u)
        \/ CommitLogout(u)
    \/ \E f \in Flows :
        \/ Authorize(f)
        \/ ClaimFlow(f)
        \/ Reinsert(f)
        \/ ConfirmationBreaks(f)
        \/ Confirm(f)
        \/ ExchangeCode(f)
        \/ FlowExpires(f)

SessionSpec == SessionInit /\ [][SessionNext]_sessionVars

-----------------------------------------------------------------------------
SessionTypeOK ==
    /\ tokens \in [Tokens -> [state : {"none", "live", "revoked"}, family : Tokens \cup {NoToken}]]
    /\ trips \in [Users -> [kind : {"none", "refresh", "logout"}, token : Tokens \cup {NoToken}]]
    /\ flows \in [Flows -> {"none", "pending", "claimed", "code", "over"}]
    /\ confirming \in [Flows -> 0..2]
    /\ issued \in [Flows -> Tokens \cup {NoToken}]
    /\ handed \in [Tokens -> 0..2]
    /\ made \in [Flows -> Nat]
    /\ forked \subseteq Tokens /\ outlived \subseteq Tokens

(***************************************************************************)
(* A session that has ended, by logout, by "log out everywhere" or by its  *)
(* time, does not come back: only a refresh that had read its token before *)
(* may still add to the family.                                            *)
(***************************************************************************)
EndedSessionsStayEnded ==
    [][\A t \in Tokens :
        /\ tokens[t].state = "revoked"
        /\ Family(t) \cap Live = {}
        /\ tokens[t].family \notin outlived
        => \A s \in Tokens : tokens'[s].family = tokens[t].family => tokens'[s].state # "live"
      ]_sessionVars

(***************************************************************************)
(* Rotation keeps one token of a family in use, unless two requests read a *)
(* token of it at the same time: both find it live and both go on.  A flow *)
(* makes one session however often its form is submitted or put back, and  *)
(* a code hands out its session once: both are popped before the first     *)
(* await ("only one concurrent request can ever claim the flow").          *)
(***************************************************************************)
OneTokenPerFamily ==
    \A t \in Live : tokens[t].family \notin forked => Family(t) \cap Live = {t}

OneSessionPerFlow ==
    /\ \A f \in Flows : made[f] <= 1
    /\ \A t \in Tokens : handed[t] <= 1

SessionsDoNotFork == OneTokenPerFamily /\ OneSessionPerFlow

\* A session is one chain of tokens, and ends for good.
SessionsAreChains == []SessionsDoNotFork /\ EndedSessionsStayEnded
=============================================================================
