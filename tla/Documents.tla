------------------------------ MODULE Documents ------------------------------
(***************************************************************************)
(* The version history that ingestion keeps of every item of a source:     *)
(* _process_one_item of app/ingestion/service.py and the documents table.  *)
(*                                                                         *)
(* A sync fetches a page, which freezes what the source showed at that     *)
(* moment, and processes its items in order.  For each it reads the latest *)
(* version; if the content differs it inserts the next version with its    *)
(* metadata and chunks in one transaction.  The unique constraint on       *)
(* (organization, source, external_id, content_hash) can reject it.  A     *)
(* failed item ends the sync, and the next attempt replays the page.       *)
(*                                                                         *)
(* The connector lock is per connector: two connectors of the same source  *)
(* in one organization write the same items, so Syncs may have several     *)
(* members.  `shown` is an auxiliary variable: what the source has shown   *)
(* for each item, oldest first.  Definitions named X_Y are mutants of X.   *)
(***************************************************************************)
EXTENDS Naturals, Sequences, FiniteSets

CONSTANTS
    Syncs,      \* connectors of one source that may run side by side
    NumItems,   \* items of the page
    Contents,   \* content hashes
    MaxEdits,   \* bound on the edits made at the source
    Reverting   \* items whose content may return to an earlier one

ASSUME DocumentsConstants ==
    /\ NumItems \in Nat \ {0}
    /\ MaxEdits \in Nat
    /\ Reverting \subseteq 1..NumItems

VARIABLES
    shown,      \* shown[i]: the contents the source has shown for i
    docs,       \* the documents table
    pc, batch, next, base

vars == <<shown, docs, pc, batch, next, base>>
sync == <<pc, batch, next, base>>

Items    == 1..NumItems
Document == [item : Items, content : Contents, version : Nat \ {0}]

\* base[s] when the item has never been ingested.
Nothing == [version |-> 0]

Stages == {"idle", "read", "write"}

RangeOf(seq) == {seq[k] : k \in DOMAIN seq}
SourceContent(i) == shown[i][Len(shown[i])]
VersionsOf(i) == {d \in docs : d.item = i}

\* get_latest_document: ORDER BY version DESC LIMIT 1 (any row of a tie).
Latest_Oldest(i) == {d \in VersionsOf(i) : \A e \in VersionsOf(i) : d.version <= e.version}

Latest(i) == {d \in VersionsOf(i) : \A e \in VersionsOf(i) : e.version <= d.version}

TypeOK ==
    /\ shown \in [Items -> Seq(Contents)]
    /\ docs \subseteq Document
    /\ pc \in [Syncs -> Stages]
    /\ batch \in [Syncs -> [Items -> Contents]]
    /\ next \in [Syncs -> Items]
    /\ base \in [Syncs -> Document \cup {Nothing}]

Init ==
    /\ shown \in [Items -> {<<c>> : c \in Contents}]
    /\ docs = {}
    /\ pc = [s \in Syncs |-> "idle"]
    /\ batch = [s \in Syncs |-> [i \in Items |-> SourceContent(i)]]
    /\ next = [s \in Syncs |-> 1]
    /\ base = [s \in Syncs |-> Nothing]

-----------------------------------------------------------------------------
\* Somebody edits the item at the provider.
EditItem(i, c) ==
    /\ SourceContent(i) # c
    /\ i \in Reverting \/ c \notin RangeOf(shown[i])
    /\ Len(shown[i]) <= MaxEdits
    /\ shown' = [shown EXCEPT ![i] = Append(@, c)]
    /\ UNCHANGED <<docs, sync>>

FetchPage(s) ==
    /\ pc[s] = "idle"
    /\ batch' = [batch EXCEPT ![s] = [i \in Items |-> SourceContent(i)]]
    /\ next' = [next EXCEPT ![s] = 1]
    /\ pc' = [pc EXCEPT ![s] = "read"]
    /\ UNCHANGED <<shown, docs, base>>

\* The next item of the page, or the end of it.
Advance(s) ==
    IF next[s] < NumItems
    THEN /\ next' = [next EXCEPT ![s] = @ + 1]
         /\ pc' = [pc EXCEPT ![s] = "read"]
    ELSE /\ pc' = [pc EXCEPT ![s] = "idle"]
         /\ UNCHANGED next

\* What get_latest_document may return.
LatestOrNothing_Leftover(s) ==
    IF VersionsOf(next[s]) = {} THEN {base[s]} ELSE Latest(next[s])

LatestOrNothing(s) ==
    IF VersionsOf(next[s]) = {} THEN {Nothing} ELSE Latest(next[s])

\* An item whose latest version has this content is skipped.
GetLatestDocument(s) ==
    /\ pc[s] = "read"
    /\ \E d \in LatestOrNothing(s) :
         /\ base' = [base EXCEPT ![s] = d]
         /\ IF d # Nothing /\ d.content = batch[s][next[s]]
            THEN Advance(s)
            ELSE pc' = [pc EXCEPT ![s] = "write"] /\ UNCHANGED next
    /\ UNCHANGED <<shown, docs, batch>>

\* uq_documents_org_source_external_hash
Taken(s) ==
    \E d \in VersionsOf(next[s]) : d.content = batch[s][next[s]]

NextVersion_Base(s) == base[s].version

NextVersion(s) == base[s].version + 1

\* insert_document, insert_document_metadata, the chunks, COMMIT.
InsertDocument(s) ==
    /\ pc[s] = "write"
    /\ ~Taken(s)
    /\ docs' = docs \cup {[item    |-> next[s],
                           content |-> batch[s][next[s]],
                           version |-> NextVersion(s)]}
    /\ Advance(s)
    /\ UNCHANGED <<shown, batch, base>>

\* Some version, not the latest one read, has this content: IntegrityError
\* is not retryable, the sync fails in stage "process_item".
DuplicateRejected(s) ==
    /\ pc[s] = "write"
    /\ Taken(s)
    /\ pc' = [pc EXCEPT ![s] = "idle"]
    /\ UNCHANGED <<shown, docs, batch, next, base>>

\* Anything else fails or the worker dies: the open transaction is lost.
SyncFails(s) ==
    /\ pc[s] # "idle"
    /\ pc' = [pc EXCEPT ![s] = "idle"]
    /\ UNCHANGED <<shown, docs, batch, next, base>>

Next ==
    \/ \E i \in Items, c \in Contents : EditItem(i, c)
    \/ \E s \in Syncs :
         \/ FetchPage(s) \/ GetLatestDocument(s) \/ InsertDocument(s)
         \/ DuplicateRejected(s) \/ SyncFails(s)

Spec == Init /\ [][Next]_vars

\* Syncs keep being scheduled, and an item that is tried again and again is
\* not hit by a passing failure every time.
Fairness ==
    \A s \in Syncs :
        /\ WF_vars(FetchPage(s)) /\ WF_vars(DuplicateRejected(s))
        /\ \A i \in Items :
             /\ SF_vars(next[s] = i /\ GetLatestDocument(s))
             /\ SF_vars(next[s] = i /\ InsertDocument(s))

FairSpec == Spec /\ Fairness

-----------------------------------------------------------------------------
(* Properties.                                                             *)

\* Every version but the first has a predecessor, however syncs interleave.
VersionsHaveNoGaps ==
    \A d \in docs : \A v \in 1..d.version :
        \E e \in VersionsOf(d.item) : e.version = v

\* "The current version" is one row, as get_latest_document has it, as long as
\* the source has one connector: no two rows of an item share a version.
OneCurrentVersion ==
    \A d, e \in docs : d.item = e.item /\ d.version = e.version => d = e

FirstShown(i, c) == CHOOSE k \in DOMAIN shown[i] :
                        /\ shown[i][k] = c
                        /\ \A m \in DOMAIN shown[i] : shown[i][m] = c => k <= m

\* The versions of an item are in the order in which the source showed their
\* contents, although _process_one_item works on an old page.
Chronology ==
    \A d, e \in docs :
        /\ d.item = e.item /\ d.item \notin Reverting
        /\ FirstShown(d.item, d.content) < FirstShown(d.item, e.content)
        => d.version < e.version

CatchesUp(i) ==
    <>[](/\ VersionsOf(i) # {}
         /\ \A d \in Latest(i) : d.content = SourceContent(i))

\* When the source comes to rest, what it shows becomes the current version.
EventuallyCurrent == \A i \in Items : CatchesUp(i)

\* The same for the items that are processed before any that may return to
\* an earlier content: an item that cannot be stored stops only what follows.
EarlierItemsCatchUp ==
    \A i \in Items : (\A r \in Reverting : i < r) => CatchesUp(i)
=============================================================================
