------------------------------- MODULE Accounts -------------------------------
(***************************************************************************)
(* The doors of the system (app/core/auth and app/core/users): an account  *)
(* and an organization are made together by a signup, an account joins by  *)
(* an invitation or by single sign-on, a person logs in and, belonging to  *)
(* several organizations, chooses one.  Each request is one transaction    *)
(* that reads rows, decides on what it read, and commits; what another     *)
(* one has inserted meanwhile meets the unique keys of the tables, and     *)
(* then nothing of the request remains.                                    *)
(*                                                                         *)
(* Rows are kept apart from addresses: an erasure takes the address out of *)
(* the row, and who comes with that address later gets a row of their own. *)
(* Invitations and access rules are those of module Tenancy; here one is   *)
(* there or not.                                                           *)
(***************************************************************************)
EXTENDS Naturals, FiniteSets

CONSTANTS
    Addresses,   \* email addresses that the model follows
    Accounts,    \* rows of users that may be made
    Slugs,       \* organizations that may be made
    Configured,  \* those that have a single sign-on configuration
    Visitors,    \* requests that may be under way at one time: numbers
    Nobody,
    MaxErasures  \* bound

ASSUME AccountConstants ==
    Nobody \notin Accounts \cup Addresses /\ Visitors \subseteq Nat /\ MaxErasures \in Nat

VARIABLES
    users,       \* [Accounts -> UserRow or absent]
    founded,     \* organizations, each with its General project
    members,     \* user_roles: <<account, organization, role>>
    identities,  \* external_identity_mappings: <<account, organization, address>>
    catalog,     \* the permissions, the admin role, and its grants are there
    selecting,   \* accounts that hold a selection token
    visits,      \* what each request is doing, with what it has read
    issued,      \* auxiliary: the request that the last step gave a session
    erasures     \* auxiliary: how many there have been

accountVars == <<users, founded, members, identities, catalog, selecting, visits, issued, erasures>>

Absent == [email |-> Nobody, password |-> FALSE, active |-> FALSE, made |-> FALSE]
VisitKinds == {"signup", "join", "sso", "login", "select", "switch"}

\* account: whose it is, Nobody when a row is to be made; seeded: it found the catalog;
\* has: what it found of its own, a role or a mapping; belongs: memberships as read.
\* Auxiliary: held, the organizations to which the account belonged at some time of the
\* visit; always, those in which it had a role all the time.
NoVisit == [kind |-> "none", phase |-> "idle", email |-> Nobody, org |-> Nobody,
            account |-> Nobody, seeded |-> FALSE, has |-> {}, belongs |-> {},
            held |-> {}, always |-> {}]

AccountInit ==
    /\ users = [a \in Accounts |-> Absent]
    /\ founded = {} /\ members = {} /\ identities = {} /\ catalog = FALSE
    /\ selecting = {} /\ erasures = 0
    /\ visits = [v \in Visitors |-> NoVisit]
    /\ issued = NoVisit

-----------------------------------------------------------------------------
\* get_by_email: the address is unique.
ByEmail(email) ==
    IF \E a \in Accounts : users[a].made /\ users[a].email = email
    THEN CHOOSE a \in Accounts : users[a].made /\ users[a].email = email
    ELSE Nobody

\* list_user_organization_ids.
Of(rows, a) == {r[2] : r \in {s \in rows : s[1] = a}}
MemberOf(a) == Of(members, a)

\* A role or a mapping lets an account in.
Belonging(a) == Of(members \cup identities, a)

\* What the visits have seen, after a step to the roles ms and the mappings is.
Watched(vs, ms, is) ==
    [v \in Visitors |->
        IF vs[v].phase = "idle" THEN vs[v]
        ELSE [vs[v] EXCEPT !.held = @ \cup Of(ms \cup is, vs[v].account),
                           !.always = @ \cap Of(ms, vs[v].account)]]

Visit(kind, email, org, account) ==
    [NoVisit EXCEPT !.kind = kind, !.phase = "read", !.email = email, !.org = org,
                    !.account = account, !.held = Belonging(account),
                    !.always = MemberOf(account)]

-----------------------------------------------------------------------------
(* The first reads of a request, which refuse it or let it go on.          *)

\* accept_invitation_with_password, with an invitation that is pending.
Invited(org) == org \in founded

\* Visitors are alike: the first one that is free.
Free(v) == visits[v].phase = "idle" /\ \A w \in Visitors : w < v => visits[w].phase # "idle"

May(kind, email, org) ==
    LET a == ByEmail(email) IN
    CASE kind = "signup" -> a = Nobody /\ org \notin founded
      [] kind = "join"   -> Invited(org)
      [] kind = "sso"    -> org \in founded \cap Configured   \* get_organization_sso_config
      [] kind = "login"  -> a # Nobody /\ users[a].password /\ users[a].active
      [] OTHER           -> FALSE

\* signup, accept_invitation_with_password, complete_sso_login, login_with_password.
Arrive(v, kind, email, org) ==
    /\ Free(v)
    /\ May(kind, email, org)
    /\ visits' = [visits EXCEPT ![v] = IF kind = "login"
                                        THEN Visit(kind, Nobody, Nobody, ByEmail(email))
                                        ELSE Visit(kind, email, org, Nobody)]
    /\ UNCHANGED <<users, founded, members, identities, catalog, selecting, erasures>>
    /\ issued' = NoVisit

\* select_organization with a selection token, switch_organization with an access token:
\* every account has been given one when it was made.
Return(v, kind, a, org) ==
    /\ Free(v)
    /\ \/ kind = "select" /\ a \in selecting
       \/ kind = "switch" /\ users[a].active
    /\ visits' = [visits EXCEPT ![v] = Visit(kind, Nobody, org, a)]
    /\ UNCHANGED <<users, founded, members, identities, catalog, selecting, erasures>>
    /\ issued' = NoVisit

-----------------------------------------------------------------------------
(* The second reads.  get_or_create_user looks for the address again;      *)
(* single sign-on, which has waited for the provider, looks for a mapping  *)
(* first, and is not refused by tenancy's decision.                        *)

Role(kind) == IF kind = "signup" THEN "admin" ELSE "member"

Look(v) ==
    LET r       == visits[v]
        mapping == {i \in identities : i[2] = r.org /\ i[3] = r.email}
        account == CASE r.kind \in {"login", "select", "switch"} -> r.account
                     [] r.kind = "sso" /\ mapping # {} -> (CHOOSE i \in mapping : TRUE)[1]
                     [] OTHER -> ByEmail(r.email)
    IN
    /\ r.phase = "read"
    /\ visits' = [visits EXCEPT ![v] =
            [r EXCEPT !.phase = "decided", !.account = account,
                      !.seeded = r.kind = "signup" /\ catalog,
                      !.has = {x \in {"role", "mapping"} :
                                 \/ x = "role" /\ r.kind \in {"join", "sso"}
                                            /\ <<account, r.org, "member">> \in members
                                 \/ x = "mapping" /\ r.kind = "sso" /\ mapping # {}},
                      !.belongs = MemberOf(account),
                      !.held = @ \cup Belonging(account),
                      !.always = IF r.account = account THEN @ ELSE MemberOf(account)]]
    /\ UNCHANGED <<users, founded, members, identities, catalog, selecting, erasures>>
    /\ issued' = NoVisit

\* Refused: the provider, tenancy's decision, an exception, a client that goes away.
Refused(v) ==
    /\ visits[v].phase \in {"read", "decided"}
    /\ visits' = [visits EXCEPT ![v] = NoVisit]
    /\ UNCHANGED <<users, founded, members, identities, catalog, selecting, erasures>>
    /\ issued' = NoVisit

-----------------------------------------------------------------------------
(* The commit of a request that makes rows.                                *)

Fresh == IF \E a \in Accounts : ~users[a].made
         THEN CHOOSE a \in Accounts : ~users[a].made ELSE Nobody

\* The rows that a request inserts, besides the account: those that it did not find.
NewRole(r)    == r.kind \in {"signup", "join"} \/ (r.kind = "sso" /\ "mapping" \notin r.has)
Inserts(r, x) == NewRole(r) /\ x \notin r.has /\ (x = "mapping" => r.kind = "sso")

\* A unique key is taken: the slug, the email, a permission's code or a role's name,
\* the role of an account, the identity of a provider.
Collides(r) ==
    \/ r.kind = "signup" /\ (r.org \in founded \/ (catalog /\ ~r.seeded))
    \/ NewRole(r) /\ r.account = Nobody /\ ByEmail(r.email) # Nobody
    \/ Inserts(r, "role") /\ <<r.account, r.org, Role(r.kind)>> \in members
    \/ Inserts(r, "mapping") /\ \E i \in identities : i[2] = r.org /\ i[3] = r.email

\* The row of the account: made, or given a password; a row that was erased meanwhile
\* stays without address, and inactive.
RowOf(r) ==
    IF r.account = Nobody
    THEN [email |-> r.email, password |-> r.kind # "sso", active |-> TRUE, made |-> TRUE]
    ELSE [users[r.account] EXCEPT !.password = @ \/ r.kind # "sso"]

\* ensure_admin_role, at every signup.
Seeded(r) == catalog \/ r.kind = "signup"

Provision(v) ==
    LET r == visits[v]
        a == IF r.account = Nobody THEN Fresh ELSE r.account
    IN
    /\ r.phase = "decided" /\ NewRole(r)
    /\ IF Collides(r)
       THEN /\ visits' = [visits EXCEPT ![v] = NoVisit]
            /\ issued' = NoVisit
            /\ UNCHANGED <<users, founded, members, identities, catalog>>
       ELSE /\ a # Nobody
            /\ users' = [users EXCEPT ![a] = RowOf(r)]
            /\ founded' = founded \cup {r.org}
            /\ members' = members \cup {<<a, r.org, Role(r.kind)>>}
            /\ identities' = identities \cup
                    {i \in {<<a, r.org, r.email>>} : Inserts(r, "mapping")}
            /\ catalog' = Seeded(r)
            /\ visits' = Watched([visits EXCEPT ![v] = NoVisit], members', identities')
            /\ issued' = [r EXCEPT !.account = a, !.held = @ \cup {r.org}]
    /\ UNCHANGED <<selecting, erasures>>

\* With a plausible mistake: a switch is taken as it comes.
Chosen_AsItComes(r) == IF r.kind = "switch" \/ r.org \in r.belongs THEN {r.org} ELSE {}

\* select_organization and switch_organization look for the membership again.
Chosen(r) == IF r.org \in r.belongs THEN {r.org} ELSE {}

\* Where a request that makes no account leads: nowhere, to one organization, or to
\* a choice.
Destination(r) == IF r.kind = "login" THEN r.belongs
                  ELSE IF r.kind = "sso" THEN {r.org} ELSE Chosen(r)

Enter(v) ==
    LET r  == visits[v]
        to == Destination(r)
    IN
    /\ r.phase = "decided" /\ ~NewRole(r)
    /\ selecting' = IF Cardinality(to) > 1 THEN selecting \cup {r.account} ELSE selecting
    /\ visits' = [visits EXCEPT ![v] = NoVisit]
    /\ issued' \in IF Cardinality(to) = 1 THEN {[r EXCEPT !.org = o] : o \in to}
                   ELSE {NoVisit}
    /\ UNCHANGED <<users, founded, members, identities, catalog, erasures>>

-----------------------------------------------------------------------------
\* An erasure (module Erasure), in one transaction: a step of it may fail.
ErasureOutcomes == {s \in SUBSET {"roles", "links", "record"} : Cardinality(s) >= 2}

Erased(a, o, steps) ==
    /\ erasures < MaxErasures /\ erasures' = erasures + 1
    /\ users[a].made /\ o \in Belonging(a)
    /\ members' = {m \in members : "roles" \in steps => ~(m[1] = a /\ m[2] = o)}
    /\ identities' = {i \in identities : "links" \in steps => ~(i[1] = a /\ i[2] = o)}
    /\ users' = [users EXCEPT ![a] = IF "record" \in steps
                                     THEN [Absent EXCEPT !.made = TRUE] ELSE @]
    /\ visits' = Watched(visits, members', identities')
    /\ issued' = NoVisit
    /\ UNCHANGED <<founded, catalog, selecting>>

\* Others, whose addresses the model leaves out: a signup, or create_organization by a
\* member of another organization.
Others(o) ==
    /\ o \notin founded
    /\ founded' = founded \cup {o}
    /\ catalog' \in {catalog, TRUE}
    /\ issued' = NoVisit
    /\ UNCHANGED <<users, members, identities, selecting, visits, erasures>>

\* Tokens expire.
SelectionExpires(a) ==
    /\ a \in selecting
    /\ selecting' = selecting \ {a}
    /\ UNCHANGED <<users, founded, members, identities, catalog, visits, erasures>>
    /\ issued' = NoVisit

\* The session is handed over.  Whatever follows is explored from there.
HandedOver ==
    /\ issued # NoVisit /\ issued' = NoVisit
    /\ UNCHANGED <<users, founded, members, identities, catalog, selecting, visits, erasures>>

AccountNext ==
    \/ HandedOver
    \/ /\ issued = NoVisit
       /\ \/ \E v \in Visitors :
              \/ \E email \in Addresses, org \in Slugs :
                   \E kind \in {"signup", "join", "sso", "login"} : Arrive(v, kind, email, org)
              \/ \E a \in Accounts, org \in Slugs, kind \in {"select", "switch"} :
                   Return(v, kind, a, org)
              \/ Look(v) \/ Refused(v) \/ Provision(v) \/ Enter(v)
          \/ \E o \in Slugs : Others(o)
          \/ \E a \in Accounts :
              \/ SelectionExpires(a)
              \/ \E o \in Slugs, steps \in ErasureOutcomes : Erased(a, o, steps)

AccountSpec == AccountInit /\ [][AccountNext]_accountVars

-----------------------------------------------------------------------------
AccountTypeOK ==
    /\ users \in [Accounts -> [email : Addresses \cup {Nobody}, password : BOOLEAN,
                               active : BOOLEAN, made : BOOLEAN]]
    /\ founded \subseteq Slugs /\ members \subseteq Accounts \X Slugs \X {"admin", "member"}
    /\ identities \subseteq Accounts \X Slugs \X Addresses /\ catalog \in BOOLEAN
    /\ selecting \subseteq Accounts /\ erasures \in 0..MaxErasures
    /\ \A v \in Visitors : visits[v].kind \in VisitKinds \cup {"none"}

(***************************************************************************)
(* Whoever comes in belongs there: a session is of an organization to      *)
(* which the account belonged while the request ran, though the selection  *)
(* or access token that it came with may be older than that; nobody who    *)
(* belonged to two organizations all the while is put into one of them     *)
(* without a choice (service.py:344-368); and no row is of an account or   *)
(* an organization that is not there, or of an admin without the catalog,  *)
(* though requests that make them overlap (tenancy/service.py:136-142).    *)
(***************************************************************************)
EntryIsEarned ==
    /\ issued # NoVisit => issued.org \in issued.held \cap founded
    /\ issued.kind = "login" => Cardinality(issued.always) <= 1
    /\ \A m \in members : users[m[1]].made /\ m[2] \in founded /\ (m[3] = "admin" => catalog)
    /\ \A i \in identities : users[i[1]].made /\ i[2] \in founded
=============================================================================
