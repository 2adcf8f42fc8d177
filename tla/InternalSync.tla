---------------------------- MODULE InternalSync ----------------------------
(***************************************************************************)
(* The two connectors whose source is this system's own database:          *)
(* "incidents" (app/ingestion/connectors/incidents.py) and "runbooks"      *)
(* (approved postmortems, app/ingestion/connectors/runbooks.py), walked by *)
(* the sync loop of app/ingestion/service.py while people go on working.   *)
(*                                                                         *)
(* Both page by OFFSET through a query that runs anew for every page:      *)
(*   incidents   ORDER BY last modified, WHERE last modified >= since      *)
(*   runbooks    ORDER BY created_at,    WHERE created_at    >= since      *)
(*               and only approved ones                                    *)
(* and `since` is the time at which the previous sync ENDED.  Only the     *)
(* order of these times matters, so there is no clock: `place` numbers the *)
(* records by their sort key and `fresh` holds those at or after `since`.  *)
(* Definitions named X_Y are mutants of X.                                 *)
(***************************************************************************)
EXTENDS Integers, Sequences, FiniteSets

CONSTANTS
    Records,     \* incidents, or postmortems
    PageSize,    \* _PAGE_SIZE
    Settings,    \* <<connector, quiet>>: which of the two connectors, and
                 \* whether people work only between complete syncs
    Outdated     \* stands for fetched content that has changed since

ASSUME InternalSyncConstants ==
    /\ IsFiniteSet(Records)
    /\ PageSize \in Nat \ {0}
    /\ Settings \subseteq {"incidents", "runbooks"} \X BOOLEAN
    /\ Outdated \notin Records

VARIABLES
    setting,  \* never changes
    place,    \* the place of every record by its sort key, smallest first; 0 for
              \* one that does not exist yet
    listed,   \* records whose status the query selects
    fresh,    \* records whose sort key is not before `since`
    stale,    \* listed records whose present content is not in the index
    touched,  \* records changed since this sync began (auxiliary)
    phase, offset, page, more,
    saved     \* offset in the stored checkpoint; 0 when there is none

source == <<place, listed, fresh, stale, touched>>
walk   == <<phase, offset, more, saved>>
syncVars == <<setting, source, walk, page>>

connector == setting[1]
quiet     == setting[2]

Existing == {i \in Records : place[i] # 0}

SyncTypeOK ==
    /\ setting \in Settings
    /\ place \in [Records -> 0..Cardinality(Existing)]
    /\ \A i, j \in Existing : place[i] = place[j] => i = j
    /\ listed \subseteq Existing
    /\ fresh \subseteq Existing
    /\ stale \subseteq listed
    /\ touched \subseteq Records
    /\ phase \in {"idle", "fetch", "items", "complete"}
    /\ offset \in Nat /\ saved \in Nat
    /\ page \in Seq(listed \cup {Outdated})
    /\ more \in BOOLEAN

SyncInit ==
    /\ setting \in Settings
    /\ place = [i \in Records |-> 0]
    /\ listed = {} /\ fresh = {} /\ stale = {} /\ touched = {}
    /\ phase = "idle" /\ offset = 0 /\ page = <<>> /\ more = FALSE
    /\ saved = 0

-----------------------------------------------------------------------------
(* What people do.                                                         *)

MayWork == quiet => phase = "idle" /\ saved = 0

\* The record has the latest sort key: it comes after all others.
MoveToEnd(i) ==
    [j \in Records |->
        IF j = i THEN Cardinality(Existing \cup {i})
        ELSE IF place[i] # 0 /\ place[j] > place[i] THEN place[j] - 1 ELSE place[j]]

\* New content of i: what a page holds of it is out of date from now on.
Change(i) ==
    /\ stale' = stale \cup {i}
    /\ touched' = touched \cup {i}
    /\ page' = [k \in DOMAIN page |-> IF page[k] = i THEN Outdated ELSE page[k]]
    /\ UNCHANGED <<setting, walk>>

CreateIncident(i) ==
    /\ connector = "incidents" /\ MayWork
    /\ i \notin Existing
    /\ place' = MoveToEnd(i)
    /\ listed' = listed \cup {i}
    /\ fresh' = fresh \cup {i}
    /\ Change(i)

\* The incident is edited or its postmortem is approved: GREATEST of the two
\* updated_at moves it to the end.
UpdateIncident(i) ==
    /\ connector = "incidents" /\ MayWork
    /\ i \in listed
    /\ place' = MoveToEnd(i)
    /\ fresh' = fresh \cup {i}
    /\ Change(i)
    /\ UNCHANGED listed

\* Postmortems are created as drafts, which the query does not select.
CreatePostmortem(i) ==
    /\ connector = "runbooks" /\ MayWork
    /\ i \notin Existing
    /\ place' = MoveToEnd(i)
    /\ fresh' = fresh \cup {i}
    /\ UNCHANGED <<setting, listed, stale, touched, walk, page>>

\* Approval sets status and updated_at; created_at stays what it was.
ApprovePostmortem(i) ==
    /\ connector = "runbooks" /\ MayWork
    /\ i \in Existing \ listed
    /\ listed' = listed \cup {i}
    /\ Change(i)
    /\ UNCHANGED <<place, fresh>>

-----------------------------------------------------------------------------
(* The sync.                                                               *)

\* A sync resumes at the stored offset, or begins a new walk.
StartSync ==
    /\ phase = "idle"
    /\ phase' = "fetch"
    /\ offset' = saved
    /\ touched' = IF saved = 0 THEN {} ELSE touched
    /\ UNCHANGED <<setting, place, listed, fresh, stale, page, more, saved>>

\* What the query selects, and how many of these come before i.
Selected == fresh \cap listed
Rank(i)  == Cardinality({j \in Selected : place[j] < place[i]})

\* ... OFFSET k LIMIT _PAGE_SIZE: the records of the next ranks, up to the last of the
\* page or of the listing.
Nth(k) == CHOOSE i \in Selected : Rank(i) = k
LastOf(k) == IF k + PageSize < Cardinality(Selected) THEN k + PageSize
                                                     ELSE Cardinality(Selected)

PageAt_OffByOne(k) == [n \in 1..(LastOf(k) - k - 1) |-> Nth(k + n)]

PageAt(k) == [n \in 1..(LastOf(k) - k) |-> Nth(k + n - 1)]

\* A full page announces another one.
HasMore_Always(items) == TRUE
HasMore_Never(items) == FALSE

HasMore(items) == Len(items) = PageSize

\* _validate_fetch_result refuses a next cursor that has been seen before:
\* offsets only grow, so this is an empty page that announces another one.
FetchRecords ==
    /\ phase = "fetch"
    /\ LET items == PageAt(offset) IN
        IF HasMore(items) /\ items = <<>>
        THEN phase' = "idle" /\ UNCHANGED <<offset, page, more>>
        ELSE /\ page' = items
             /\ more' = HasMore(items)
             /\ offset' = offset + Len(items)
             /\ phase' = "items"
    /\ UNCHANGED <<setting, source, saved>>

\* Makes the fetched content of the next item durable.
IngestItem ==
    /\ phase = "items"
    /\ page # <<>>
    /\ page' = Tail(page)
    /\ stale' = stale \ {Head(page)}
    /\ UNCHANGED <<setting, place, listed, fresh, touched, phase, offset, more,
                   saved>>

\* The page is durable: save the next offset, or go on to the end.
EndPage ==
    /\ phase = "items"
    /\ page = <<>>
    /\ IF more THEN phase' = "fetch" /\ saved' = offset
               ELSE phase' = "complete" /\ UNCHANGED saved
    /\ UNCHANGED <<setting, source, offset, page, more>>

\* last_synced_at = now: every record so far is before the next `since`.
CompleteSync ==
    /\ phase = "complete"
    /\ phase' = "idle"
    /\ fresh' = {}
    /\ saved' = 0
    /\ UNCHANGED <<setting, place, listed, stale, touched, offset, page, more>>

\* Any failure, cancellation or crash; the checkpoint stays.
FailSync ==
    /\ phase # "idle"
    /\ phase' = "idle"
    /\ page' = <<>>
    /\ UNCHANGED <<setting, source, offset, more, saved>>

SyncStep == StartSync \/ FetchRecords \/ IngestItem \/ EndPage \/ CompleteSync

SyncNext ==
    \/ \E i \in Records : \/ CreateIncident(i) \/ UpdateIncident(i)
                        \/ CreatePostmortem(i) \/ ApprovePostmortem(i)
    \/ SyncStep
    \/ FailSync

SyncSpec == SyncInit /\ [][SyncNext]_syncVars

\* Syncs keep being scheduled, and in the end only the sync itself (a refused
\* page) interrupts a sync; the people never need to stop.
SyncFairness == WF_syncVars(SyncStep) /\ <>[][FailSync => SyncStep]_syncVars

SyncFairSpec == SyncSpec /\ SyncFairness

-----------------------------------------------------------------------------
(* Properties.                                                             *)

\* Nothing is lost for good: what the index does not show as it is now will
\* be selected by a sync to come (or is still to be selected by this one).
NothingLost == stale \subseteq fresh

\* list_incidents_for_ingestion selects on the last modification and not on
\* the creation to ensure it; it does as long as syncs are left in peace.
QuietIncidentsAreKept == connector = "incidents" /\ quiet => NothingLost

\* A walk of fetch_batch, interrupted and resumed or not, skips nothing: at
\* its end every record it had to select is indexed as it is, unless it was
\* changed meanwhile.
NothingSkipped == phase = "complete" => stale \cap fresh \subseteq touched

\* A postmortem keeps its place in the listing of "runbooks": an approval
\* pushes others to later pages, never to earlier ones.
RunbooksAreNotSkipped == connector = "runbooks" => NothingSkipped

\* What the walks of the two listings owe their readers.
ListingsAreWalkedWhole == QuietIncidentsAreKept /\ RunbooksAreNotSkipped

\* _execute_ingestion_job keeps reaching the end of the listing although
\* people go on changing the records without end.
SyncsComplete == []<>(phase = "complete")
=============================================================================
