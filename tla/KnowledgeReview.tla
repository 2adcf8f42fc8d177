--------------------------- MODULE KnowledgeReview ---------------------------
(***************************************************************************)
(* The review of one proposed document (app/core/knowledge): propose,      *)
(* edit, publish, reject, and the chunk that publishing puts into the      *)
(* retrieval index.                                                        *)
(*                                                                         *)
(* A request is one transaction.  It reads the row, decides on that copy   *)
(* and then writes; no row is locked before its first UPDATE.  From that   *)
(* UPDATE to the COMMIT it holds the row's lock, and nothing else writes   *)
(* the content or the chunk of a document: whoever else wants to write     *)
(* waits, whoever reads sees the state before it.  UPDATE and COMMIT are   *)
(* therefore one action, and reading is another.                           *)
(***************************************************************************)
EXTENDS Integers

CONSTANTS
    Requests,   \* requests that may be under way at one time
    Texts,      \* non-empty contents of a document
    NoText,     \* the empty content, and the chunk that is not there
    Unset,      \* a field absent from an edit; a content not read yet
    MaxEdits    \* bound: edits that commit

ASSUME MaxEditsIsNatural == MaxEdits \in Nat
ASSUME TextsAreTexts == NoText \notin Texts /\ Unset \notin Texts \cup {NoText}

VARIABLES
    status,     \* documents.status, or "absent" before the proposal
    deleted,    \* documents.deleted_at is set
    version,    \* documents.version
    content,    \* the document_metadata row with key "content"
    chunk,      \* the row in documentation_chunks, or NoText
    asks,       \* what each request is for, "nothing" when it has ended
    readVersion,  \* the version in the request's copy of the row
    text,       \* publish: the content it read; edit: the content it was sent
    edits,      \* auxiliary: how many edits have committed
    overlaps    \* auxiliary: the kinds of requests that have been under way
                \* at the same time, as sets of one or two kinds

row  == <<status, deleted, version, content, chunk>>
vars == <<status, deleted, version, content, chunk,
          asks, readVersion, text, edits, overlaps>>

Kinds    == {"publish", "edit", "reject"}
Contents == Texts \cup {NoText}

\* What overlaps may hold.
KindPairs == {{k, other} : k \in Kinds, other \in Kinds}

Init ==
    /\ status = "absent"
    /\ deleted = FALSE
    /\ version = 0
    /\ content = NoText
    /\ chunk = NoText
    /\ asks = [r \in Requests |-> "nothing"]
    /\ readVersion = [r \in Requests |-> 0]
    /\ text = [r \in Requests |-> Unset]
    /\ edits = 0
    /\ overlaps = {}

-----------------------------------------------------------------------------
\* With a plausible mistake: deleted rows are found.
Owned_Deleted == status # "absent"

\* _get_owned_document finds the row.
Owned == status # "absent" /\ ~deleted

\* With a plausible mistake: a published row passes as well.
Pending_AnyStatus == status \in {"proposed", "published"}

\* What each of the three review requests demands of its copy of the row.
Pending == status = "proposed"

UnderWay == {asks[s] : s \in {q \in Requests : asks[q] # "nothing"}}

(***************************************************************************)
(* A request reads the row and passes the checks.  One that does not pass  *)
(* them changes nothing and is not modelled.                               *)
(***************************************************************************)
Start(r, kind) ==
    /\ asks[r] = "nothing"
    /\ Owned
    /\ Pending
    /\ asks' = [asks EXCEPT ![r] = kind]
    /\ readVersion' = [readVersion EXCEPT ![r] = version]
    /\ overlaps' = overlaps \cup {{kind, other} : other \in UnderWay}
    /\ UNCHANGED <<row, edits>>

\* The request ends; its copies go with its session.
Ends(r) ==
    /\ asks' = [asks EXCEPT ![r] = "nothing"]
    /\ readVersion' = [readVersion EXCEPT ![r] = 0]
    /\ text' = [text EXCEPT ![r] = Unset]

\* propose_document: the row and its content, in one transaction.
ProposeDocument ==
    /\ status = "absent"
    /\ status' = "proposed"
    /\ version' = 1
    /\ content' \in Contents
    /\ UNCHANGED <<deleted, chunk, asks, readVersion, text, edits, overlaps>>

\* publish_document up to its status check.
StartPublish(r) ==
    /\ Start(r, "publish")
    /\ UNCHANGED text

\* publish_document: get_metadata_value, a second statement.
ReadContent(r) ==
    /\ asks[r] = "publish"
    /\ text[r] = Unset
    /\ text' = [text EXCEPT ![r] = content]
    /\ UNCHANGED <<row, asks, readVersion, edits, overlaps>>

\* `if content:` an empty content makes no chunk.
Embedded(t) == IF t = NoText THEN chunk ELSE t

(***************************************************************************)
(* publish_document from update_document_status to the commit.  The UPDATE *)
(* names the row by its id and writes the status alone, so it finds the    *)
(* row whatever happened to it since it was read.                          *)
(***************************************************************************)
CommitPublish(r) ==
    /\ asks[r] = "publish"
    /\ text[r] # Unset
    /\ status' = "published"
    /\ chunk' = Embedded(text[r])
    /\ Ends(r)
    /\ UNCHANGED <<deleted, version, content, edits, overlaps>>

\* update_document up to its status check, with the fields it was sent: a
\* content, or a title alone.
StartEdit(r) ==
    /\ Start(r, "edit")
    /\ \E t \in Contents \cup {Unset} : text' = [text EXCEPT ![r] = t]

\* With a plausible mistake: only a new title counts.
Bumped_TitleOnly(r) ==
    IF text[r] = Unset THEN readVersion[r] + 1 ELSE readVersion[r]

\* With a plausible mistake: title and content are each counted.
Bumped_Twice(r) == readVersion[r] + 2

\* `row.version += 1` on the copy, in both branches.
Bumped(r) == readVersion[r] + 1

\* update_document from its UPDATE to the commit.
CommitEdit(r) ==
    /\ asks[r] = "edit"
    /\ edits < MaxEdits
    /\ version' = Bumped(r)
    /\ content' = IF text[r] = Unset THEN content ELSE text[r]
    /\ edits' = edits + 1
    /\ Ends(r)
    /\ UNCHANGED <<status, deleted, chunk, overlaps>>

\* reject_document up to its status check.
StartReject(r) ==
    /\ Start(r, "reject")
    /\ UNCHANGED text

\* reject_document from soft_delete_document to the commit, with
\* _purge_document_chunks.
CommitReject(r) ==
    /\ asks[r] = "reject"
    /\ deleted' = TRUE
    /\ chunk' = NoText
    /\ Ends(r)
    /\ UNCHANGED <<status, version, content, edits, overlaps>>

\* Any failure (the embedding service, the database, the client) rolls all
\* of a request back.
RequestFails(r) ==
    /\ asks[r] # "nothing"
    /\ Ends(r)
    /\ UNCHANGED <<row, edits, overlaps>>

Next ==
    \/ ProposeDocument
    \/ \E r \in Requests :
          \/ StartPublish(r)
          \/ ReadContent(r)
          \/ CommitPublish(r)
          \/ StartEdit(r)
          \/ CommitEdit(r)
          \/ StartReject(r)
          \/ CommitReject(r)
          \/ RequestFails(r)

Spec == Init /\ [][Next]_vars

-----------------------------------------------------------------------------
(***************************************************************************)
(* Types.  The bound on the version says that overlapping edits may lose   *)
(* counts but never invent one, and nothing is under way on a document     *)
(* that was not proposed.                                                  *)
(***************************************************************************)
TypeOK ==
    /\ status \in {"absent", "proposed", "published"}
    /\ deleted \in BOOLEAN
    /\ version \in 0..(MaxEdits + 1)
    /\ content \in Contents
    /\ chunk \in Contents
    /\ asks \in [Requests -> Kinds \cup {"nothing"}]
    /\ readVersion \in [Requests -> 0..(MaxEdits + 1)]
    /\ text \in [Requests -> Contents \cup {Unset}]
    /\ edits \in 0..MaxEdits
    /\ overlaps \subseteq KindPairs
    /\ status = "absent" => ~deleted /\ UnderWay = {}

(***************************************************************************)
(* What is searched is what was published: a published document is indexed *)
(* with its content, a proposed one not at all.  Only an edit that was     *)
(* under way together with a publication can part the two; decisions that  *)
(* compete, edits that compete and failures cannot.                        *)
(***************************************************************************)
PublishedIsSearched ==
    ~deleted =>
        /\ status # "published" => chunk = NoText
        /\ status = "published" /\ {"publish", "edit"} \notin overlaps
              => chunk = content

(***************************************************************************)
(* A rejected document leaves no chunk behind and is not published as      *)
(* well, unless a publication and a rejection were decided at the same     *)
(* time: the publication's UPDATE finds the deleted row too.               *)
(***************************************************************************)
RejectedIsPurged ==
    deleted /\ {"publish", "reject"} \notin overlaps
        => status = "proposed" /\ chunk = NoText

\* Search follows the review: it shows what was published, and nothing of
\* what was rejected.
SearchFollowsReview == PublishedIsSearched /\ RejectedIsPurged

(***************************************************************************)
(* The version counts the edits.  Only edits that overlap lose a count:    *)
(* the bump is computed from the copy.                                     *)
(***************************************************************************)
VersionCountsEdits ==
    status # "absent" /\ {"edit"} \notin overlaps => version = edits + 1

=============================================================================
