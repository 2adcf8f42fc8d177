-------------------------------- MODULE Browser --------------------------------
(***************************************************************************)
(* The session as the web pages see it (frontend/src: context/AuthContext, *)
(* TenantContext, tokenStore, api/client).  The access token is a variable *)
(* of each page, the refresh token lies in the storage that the pages of a *)
(* browser share.  Answers arrive in any order, some never, and what has   *)
(* been sent is not taken back when the user leaves or changes the         *)
(* organization; a page is reloaded at any time.                           *)
(***************************************************************************)
EXTENDS Naturals, Sequences, FiniteSets

CONSTANTS
    Pages,        \* open pages of one browser
    Persons,
    Firms,        \* organizations
    Members,      \* who belongs to what: a subset of Persons \X Firms
    LoginsTo,     \* the organizations they log in to: a subset of Members
    Nothing,
    MaxSessions,  \* bound on the token pairs that are issued
    MaxReloads,   \* bound on reloads
    MaxCrossings  \* bound on the ways a page is parted from its session at once

ASSUME BrowserConstants ==
    /\ LoginsTo \subseteq Members /\ Members \subseteq Persons \X Firms
    /\ Nothing \notin Persons \cup Firms
    /\ MaxSessions \in Nat /\ MaxReloads \in Nat /\ MaxCrossings \in Nat

VARIABLES
    server,   \* the token pairs issued, in order: for whom, and what has become of them
    storage,  \* the number of the refresh token that is stored, 0 for none
    pages,    \* [Pages -> what the page holds and shows]
    auth,     \* [Pages -> the call that is to change its session]
    sent,     \* [Pages -> its other calls under way]
    crossed,  \* auxiliary: [Pages -> what has come that parts what it shows]
    reloads

browserVars == <<server, storage, pages, auth, sent, crossed, reloads>>

SessionNumbers == 0..MaxSessions
Who(n) == server[n].scope        \* <<person, organization>>, the claims of token n
Pair(scope) == [scope |-> scope, refresh |-> "live", access |-> TRUE]

NoPage == [token |-> 0, user |-> Nothing, loading |-> FALSE, listed |-> Nothing,
           organization |-> Nothing, projects |-> Nothing, cache |-> Nothing]
NoAuth == [kind |-> "none", stage |-> "idle", uses |-> 0, scope |-> Nothing, gets |-> 0]
NothingSent == [listings |-> {}, projects |-> {}, queries |-> {}]

AuthKinds == {"none", "refresh", "login", "switch", "logout"}
AuthStages == {"idle", "sent", "answered", "failed", "me"}

BrowserInit ==
    /\ server = <<>> /\ storage = 0
    /\ pages = [p \in Pages |-> NoPage]
    /\ auth = [p \in Pages |-> NoAuth]
    /\ sent = [p \in Pages |-> NothingSent]
    /\ crossed = [p \in Pages |-> {}]
    /\ reloads = 0

-----------------------------------------------------------------------------
Authenticated(page) == page.user # Nothing
Valid(n) == n # 0 /\ server[n].access
Busy(p) == auth[p].kind # "none" \/ sent[p] # NothingSent

\* clearSession, and setUser(null): the organization, its projects and the cache of
\* the queries stay as they are.
SignedOut(page) == [page EXCEPT !.token = 0, !.user = Nothing]

\* The effects of TenantProvider, run when what they depend on has changed: the
\* organizations are listed when the page becomes authenticated, the projects
\* when the organization changes.
AfterEffects(p, new) ==
    LET old == pages[p]
        settles(page) == Authenticated(page) /\ ~page.loading
    IN
    /\ pages' = [pages EXCEPT ![p] =
         IF new.organization = Nothing THEN [new EXCEPT !.projects = Nothing] ELSE new]
    /\ sent' = [sent EXCEPT
         ![p].listings = IF settles(new) /\ ~settles(old) THEN @ \cup {new.token} ELSE @,
         ![p].projects = IF new.organization \notin {Nothing, old.organization}
                         THEN @ \cup {<<new.organization, new.token>>} ELSE @]

\* What parts the page from its session, named.
Crosses(p, how) ==
    /\ Cardinality(crossed[p] \cup how) <= MaxCrossings
    /\ crossed' = [crossed EXCEPT ![p] = @ \cup how]

\* An answer 401 to a request with a token: the session of the page and the stored
\* one are gone, whichever token the request carried.
Expired(p) ==
    /\ pages' = [pages EXCEPT ![p] = SignedOut(@)]
    /\ storage' = 0
    /\ UNCHANGED crossed

-----------------------------------------------------------------------------
\* A page is opened or loaded again: a stored token is refreshed first.
Load(p) ==
    /\ pages[p] # NoPage \/ storage # 0
    /\ reloads < MaxReloads /\ reloads' = reloads + 1
    /\ pages' = [pages EXCEPT ![p] = [NoPage EXCEPT !.loading = storage # 0]]
    /\ auth' = [auth EXCEPT ![p] =
         IF storage = 0 THEN NoAuth
         ELSE [NoAuth EXCEPT !.kind = "refresh", !.stage = "sent", !.uses = storage]]
    /\ sent' = [sent EXCEPT ![p] = NothingSent]
    /\ crossed' = [crossed EXCEPT ![p] = {}]
    /\ UNCHANGED <<server, storage>>

Begins(p, call) ==
    /\ auth[p].kind = "none" /\ ~pages[p].loading
    /\ auth' = [auth EXCEPT ![p] = call]
    /\ UNCHANGED <<server, storage, pages, sent, crossed, reloads>>

\* login, selectOrganization, signup and acceptInvitation.
Login(p, scope) ==
    /\ ~Authenticated(pages[p])
    /\ Begins(p, [NoAuth EXCEPT !.kind = "login", !.stage = "sent", !.scope = scope])

\* The switcher offers the organizations that were listed, but the one shown.
Switch(p, firm) ==
    LET page == pages[p] IN
    /\ Authenticated(page) /\ page.organization \notin {Nothing, firm}
    /\ <<page.listed, firm>> \in Members
    /\ Begins(p, [NoAuth EXCEPT !.kind = "switch", !.stage = "sent", !.uses = page.token,
                             !.scope = <<page.listed, firm>>])

\* logout takes the token that is stored: another page may have put it there.
Logout(p) ==
    /\ Authenticated(pages[p])
    /\ Begins(p, [NoAuth EXCEPT !.kind = "logout", !.stage = "sent", !.uses = storage])

\* A page asks for data with the token it holds; the key of the query does not name
\* the organization.
Query(p) ==
    /\ Authenticated(pages[p])
    /\ sent[p].queries = {}
    /\ sent' = [sent EXCEPT ![p].queries = {pages[p].token}]
    /\ UNCHANGED <<server, storage, pages, auth, crossed, reloads>>

-----------------------------------------------------------------------------
\* What the server grants: a refresh token is used once; a login and a switch give a
\* pair of their own and leave the others as they are.
Grants(call) ==
    LET n == call.uses IN
    CASE call.kind = "refresh" -> server[n].refresh = "live"
      [] call.kind = "switch"  -> Valid(n) /\ <<Who(n)[1], call.scope[2]>> \in Members
      [] OTHER -> call.kind = "login"

Handle(p) ==
    LET call == auth[p]
        n    == call.uses
        ends == IF n = 0 \/ call.kind = "switch" THEN server
                ELSE [server EXCEPT ![n].refresh = "used"]
    IN
    /\ call.stage = "sent"
    /\ \/ /\ Grants(call) /\ Len(server) < MaxSessions
          /\ server' = Append(ends, Pair(CASE call.kind = "refresh" -> Who(n)
                                           [] call.kind = "switch" -> <<Who(n)[1], call.scope[2]>>
                                           [] OTHER -> call.scope))
          /\ auth' = [auth EXCEPT ![p] = [call EXCEPT !.stage = "answered", !.gets = Len(server) + 1]]
       \/ /\ call.kind = "logout" /\ server' = ends
          /\ auth' = [auth EXCEPT ![p].stage = "answered"]
       \/ /\ UNCHANGED server
          /\ auth' = [auth EXCEPT ![p].stage = "failed"]
    /\ UNCHANGED <<storage, pages, sent, crossed, reloads>>

\* What was done is done, but its answer is lost.
Lose(p) ==
    /\ auth[p].stage = "answered" /\ auth[p].kind # "logout"
    /\ auth' = [auth EXCEPT ![p].stage = "failed"]
    /\ UNCHANGED <<server, storage, pages, sent, crossed, reloads>>

TokenExpires(n) ==
    /\ server[n].access
    /\ server' = [server EXCEPT ![n].access = FALSE]
    /\ UNCHANGED <<storage, pages, auth, sent, crossed, reloads>>

-----------------------------------------------------------------------------
Ends(p) == auth' = [auth EXCEPT ![p] = NoAuth]

\* applySession: the new pair replaces the old one, then the user is asked for.
SessionArrives(p) ==
    LET n == auth[p].gets IN
    /\ auth[p].stage = "answered" /\ auth[p].kind # "logout"
    /\ pages' = [pages EXCEPT ![p].token = n]
    /\ storage' = n
    /\ auth' = [auth EXCEPT ![p].stage = "me"]
    /\ UNCHANGED <<server, sent, crossed, reloads>>

\* No session came: a refresh that fails ends what there was; the other calls leave
\* the page as it was, but for a 401 to the token of a switch.
SessionFails(p) ==
    LET call == auth[p] IN
    /\ call.stage = "failed" /\ call.kind # "logout"
    /\ Ends(p)
    /\ \/ /\ call.kind = "refresh"
          /\ pages' = [pages EXCEPT ![p] = [SignedOut(@) EXCEPT !.loading = FALSE]]
          /\ storage' = 0 /\ UNCHANGED crossed
       \/ /\ call.kind = "switch" /\ ~Valid(call.uses)
          /\ Expired(p)
       \/ /\ call.kind # "refresh"
          /\ UNCHANGED <<pages, storage, crossed>>
    /\ UNCHANGED <<server, sent, reloads>>

\* With a plausible mistake: the organization is not looked up again.
Rederived_Not(p, page) == page.organization

\* switchOrganization: the organization that the page's token names, if it is listed.
Rederived(p, page) ==
    IF page.token # 0 /\ <<page.listed, Who(page.token)[2]>> \in Members
    THEN Who(page.token)[2] ELSE Nothing

\* The user is there; whoever switched sees another organization.
UserArrives(p) ==
    LET n    == auth[p].gets
        user == [pages[p] EXCEPT !.user = Who(n), !.loading = FALSE]
    IN
    /\ auth[p].stage = "me" /\ Valid(n)
    /\ Ends(p)
    /\ AfterEffects(p, IF auth[p].kind = "switch"
                       THEN [user EXCEPT !.organization = Rederived(p, user)] ELSE user)
    /\ Crosses(p, (IF pages[p].token # n THEN {"revived"} ELSE {})
                  \cup (IF pages[p].cache \notin {Nothing, Who(n)[2]} \/ sent[p].queries # {}
                        THEN {"cached"} ELSE {}))
    /\ UNCHANGED <<server, storage, reloads>>

\* The pair is there, the user is not: only a refresh takes the pair back.
UserFails(p) ==
    LET n == auth[p].gets IN
    /\ auth[p].stage = "me"
    /\ Ends(p)
    /\ \/ /\ auth[p].kind = "refresh"
          /\ pages' = [pages EXCEPT ![p] = [SignedOut(@) EXCEPT !.loading = FALSE]]
          /\ storage' = 0 /\ UNCHANGED crossed
       \/ /\ auth[p].kind # "refresh" /\ ~Valid(n)
          /\ Expired(p)
       \/ /\ auth[p].kind # "refresh"
          /\ Crosses(p, {"half"}) /\ UNCHANGED <<pages, storage>>
    /\ UNCHANGED <<server, sent, reloads>>

\* logout clears the page and the storage, whatever came of the call.
LogoutEnds(p) ==
    /\ auth[p].kind = "logout" /\ auth[p].stage \in {"answered", "failed"}
    /\ Ends(p)
    /\ pages' = [pages EXCEPT ![p] = SignedOut(@)]
    /\ storage' = 0
    /\ UNCHANGED <<server, sent, crossed, reloads>>

-----------------------------------------------------------------------------
\* listMyOrganizations: the one that the page's token names now, or else any.
ListingArrives(p, n) ==
    LET page == pages[p]
        person == Who(n)[1]
        firms == {f \in Firms : <<person, f>> \in Members}
        named == IF page.token = 0 THEN {} ELSE {Who(page.token)[2]} \cap firms
    IN
    /\ n \in sent[p].listings /\ Valid(n)
    /\ \E firm \in IF named = {} THEN firms ELSE named :
         LET new == [page EXCEPT !.listed = person, !.organization = firm] IN
         /\ pages' = [pages EXCEPT ![p] = new]
         /\ sent' = [sent EXCEPT ![p].listings = @ \ {n},
                                 ![p].projects = @ \cup {<<firm, page.token>>}]
    /\ Crosses(p, IF n # page.token THEN {"swapped"} ELSE {})
    /\ UNCHANGED <<server, storage, auth, reloads>>

\* getMyProjects of one organization: the last answer to arrive is shown.
ProjectsArrive(p, firm, n) ==
    /\ <<firm, n>> \in sent[p].projects /\ Valid(n) /\ Who(n)[2] = firm
    /\ sent' = [sent EXCEPT ![p].projects = @ \ {<<firm, n>>}]
    /\ pages' = [pages EXCEPT ![p].projects = firm]
    /\ Crosses(p, IF firm # pages[p].organization THEN {"outrun"} ELSE {})
    /\ UNCHANGED <<server, storage, auth, reloads>>

DataArrives(p, n) ==
    /\ n \in sent[p].queries /\ Valid(n)
    /\ sent' = [sent EXCEPT ![p].queries = {}]
    /\ pages' = [pages EXCEPT ![p].cache = Who(n)[2]]
    /\ UNCHANGED <<server, storage, auth, crossed, reloads>>

\* A call that is refused or lost: a 401 to one that carried a token ends the session.
CallFails(p) ==
    \E n \in SessionNumbers :
        /\ \/ /\ n \in sent[p].listings
              /\ sent' = [sent EXCEPT ![p].listings = @ \ {n}]
           \/ \E firm \in Firms :
                /\ <<firm, n>> \in sent[p].projects
                /\ sent' = [sent EXCEPT ![p].projects = @ \ {<<firm, n>>}]
           \/ /\ n \in sent[p].queries
              /\ sent' = [sent EXCEPT ![p].queries = {}]
        /\ IF n # 0 /\ ~Valid(n) THEN Expired(p)
           ELSE /\ Crosses(p, IF sent'[p].queries = sent[p].queries THEN {"half"} ELSE {})
                /\ UNCHANGED <<pages, storage>>
        /\ UNCHANGED <<server, auth, reloads>>

BrowserNext ==
    \/ \E p \in Pages :
         \/ Load(p) \/ Logout(p) \/ Query(p) \/ Handle(p) \/ Lose(p)
         \/ \E scope \in LoginsTo : Login(p, scope)
         \/ \E firm \in Firms : Switch(p, firm)
         \/ SessionArrives(p) \/ SessionFails(p) \/ UserArrives(p) \/ UserFails(p)
         \/ LogoutEnds(p) \/ CallFails(p)
         \/ \E n \in SessionNumbers :
              \/ ListingArrives(p, n) \/ DataArrives(p, n)
              \/ \E firm \in Firms : ProjectsArrive(p, firm, n)
    \/ \E n \in DOMAIN server : TokenExpires(n)

BrowserSpec == BrowserInit /\ [][BrowserNext]_browserVars
-----------------------------------------------------------------------------
BrowserTypeOK ==
    /\ Len(server) <= MaxSessions /\ storage \in SessionNumbers
    /\ \A p \in Pages :
         /\ pages[p].token \in SessionNumbers /\ pages[p].user \in Members \cup {Nothing}
         /\ pages[p].organization \in Firms \cup {Nothing}
         /\ pages[p].projects \in Firms \cup {Nothing}
         /\ auth[p].kind \in AuthKinds /\ auth[p].stage \in AuthStages
         /\ crossed[p] \subseteq {"half", "revived", "swapped", "outrun", "cached"}

(***************************************************************************)
(* What a page shows is of the session it holds, once nothing is under way *)
(* there: no user without a token, the user and the organization that the  *)
(* token names, the projects of that organization and no data of another.  *)
(* Every way to part them is one of those named: a call whose failure      *)
(* leaves a half, a user who arrives after the session has gone, a list or *)
(* projects that arrive after those of a later session, and a cache that a *)
(* switch or another user inherits.                                        *)
(***************************************************************************)
PageIsOfItsSession ==
    \A p \in Pages : ~Busy(p) =>
        LET page == pages[p] IN
        /\ ~page.loading
        /\ crossed[p] \cap {"half", "revived"} = {} =>
             page.user = IF page.token = 0 THEN Nothing ELSE Who(page.token)
        /\ Authenticated(page) /\ crossed[p] \cap {"half", "revived", "swapped"} = {} =>
             page.organization = page.user[2]
        /\ Authenticated(page) /\ crossed[p] \cap {"half", "revived", "swapped", "outrun"} = {} =>
             page.projects = page.organization
        /\ Authenticated(page) /\ crossed[p] \cap {"half", "revived", "cached"} = {} =>
             page.cache \in {Nothing, page.user[2]}
=============================================================================
