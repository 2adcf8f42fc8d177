-------------------------------- MODULE Memory --------------------------------
(***************************************************************************)
(* Agent memory (app/core/memory): short notes that a person keeps for     *)
(* himself or shares with a project, recalled by similarity.               *)
(*                                                                         *)
(* A request is one transaction: it reads the note it is about, waits for  *)
(* the embedding model, and writes.  Nothing is locked before the write,   *)
(* so that reading and writing are two actions; the write is one statement *)
(* on one row and the commit follows it.                                   *)
(***************************************************************************)
EXTENDS Naturals, FiniteSets

CONSTANTS
    Memories,   \* rows that can be made
    Persons,    \* a person in an organization: an Identity of kind user
    Shared,     \* the owner of what is shared with the project
    Members,    \* the persons with a membership in the project
    Notes,      \* contents, each with the vector it embeds to
    Blank,      \* no content, and the zero vector
    NoMemory,   \* no row
    Nobody,     \* no person
    Sessions    \* requests that may be under way at one time

ASSUME MemoryConstants ==
    /\ Members \subseteq Persons
    /\ Shared \notin Persons
    /\ Nobody \notin Persons
    /\ Blank \notin Notes
    /\ NoMemory \notin Memories

VARIABLES
    memories,      \* agent_memories
    active,        \* users.is_active of each person
    work,          \* what each request is doing
    memOverlaps    \* auxiliary: the rows on which two requests of certain kinds were
                   \* under way at the same time

memoryVars == <<memories, active, work, memOverlaps>>

MemoryStatus == {"absent", "active", "superseded", "deleted", "erased"}
Idle    == [kind |-> "idle", who |-> Nobody, on |-> NoMemory]
Unmade  == [status |-> "absent", owner |-> Shared, content |-> Blank,
            vector |-> Blank, supersedes |-> NoMemory]
Erased  == [Unmade EXCEPT !.status = "erased"]

MemoryKinds == {"create", "edit", "delete"}

\* The overlaps that the properties below excuse.
MemoryRaces == Memories \X {{"create"}, {"edit", "delete"}}

MemoryRow == [status : MemoryStatus, owner : Persons \cup {Shared},
              content : Notes \cup {Blank}, vector : Notes \cup {Blank},
              supersedes : Memories \cup {NoMemory}]

MemoryInit ==
    /\ memories = [m \in Memories |-> Unmade]
    /\ active = [p \in Persons |-> TRUE]
    /\ work = [s \in Sessions |-> Idle]
    /\ memOverlaps = {}

-----------------------------------------------------------------------------
\* With a plausible mistake: only tombstones are left out.
Readable_NotDeleted(m) == memories[m].status \in {"active", "superseded"}

Readable(m) == memories[m].status = "active"

\* _visibility_clause: active, and one's own or one's project's.
Visible(p, m) ==
    /\ Readable(m)
    /\ \/ memories[m].owner = p
       \/ memories[m].owner = Shared /\ p \in Members

\* The scope a new note may have: private, or shared by a member.
MayOwn(p, owner) == owner = p \/ (owner = Shared /\ p \in Members)

\* What the statements of the repository make of a row.
Active(owner, note, old) ==
    [status |-> "active", owner |-> owner, content |-> note,
     vector |-> note, supersedes |-> old]

\* With a plausible mistake: the text and the vector stay.
Tombstone_KeepsText(row) == [row EXCEPT !.status = "deleted"]

Tombstone(row) == [row EXCEPT !.status = "deleted", !.content = Blank, !.vector = Blank]

\* mark_superseded: UPDATE ... WHERE status = 'active'.
MarkSuperseded(row) ==
    IF row.status = "active" THEN [row EXCEPT !.status = "superseded"] ELSE row

\* update_content: whatever the row has become, unless it is gone.
Rewritten(row, note) == [row EXCEPT !.content = note, !.vector = note]

-----------------------------------------------------------------------------
(***************************************************************************)
(* A request begins: resolve_identity finds the person active, and the     *)
(* note that the request is about is visible.                              *)
(***************************************************************************)
Begin(s, p, kind, m) ==
    /\ work[s] = Idle
    /\ active[p]
    /\ work' = [work EXCEPT ![s] = [kind |-> kind, who |-> p, on |-> m]]
    /\ memOverlaps' = memOverlaps \cup
            ({<<m, {kind, work[t].kind}>> : t \in {u \in Sessions : work[u].on = m}} \cap MemoryRaces)
    /\ UNCHANGED <<memories, active>>

\* create_memory up to embed_query; the note to be superseded, if any, is visible.
StartCreate(s, p) ==
    \E old \in Memories \cup {NoMemory} :
        /\ old # NoMemory => Visible(p, old)
        /\ Begin(s, p, "create", old)

StartEdit(s, p, m) == Visible(p, m) /\ Begin(s, p, "edit", m)

StartDelete(s, p, m) == Visible(p, m) /\ Begin(s, p, "delete", m)

\* The request raises, or its client goes away; everything is rolled back.
MemoryRequestFails(s) ==
    /\ work[s] # Idle
    /\ work' = [work EXCEPT ![s] = Idle]
    /\ UNCHANGED <<memories, active, memOverlaps>>

(***************************************************************************)
(* create_memory: insert, mark_superseded.  The foreign key of the new row *)
(* refuses one that supersedes a row which is gone.                        *)
(***************************************************************************)
CommitCreate(s) ==
    \E m \in Memories, note \in Notes, owner \in {work[s].who, Shared} :
        LET old == work[s].on IN
        /\ work[s].kind = "create"
        /\ memories[m].status = "absent"
        /\ MayOwn(work[s].who, owner)
        /\ old # NoMemory => memories[old].status # "erased"
        /\ memories' = [n \in Memories |->
                CASE n = m   -> Active(owner, note, old)
                  [] n = old -> MarkSuperseded(memories[n])
                  [] OTHER   -> memories[n]]
        /\ work' = [work EXCEPT ![s] = Idle]
        /\ UNCHANGED <<active, memOverlaps>>

\* update_memory after embed_query.  A row that is gone raises: MemoryRequestFails.
CommitEdit(s) ==
    \E note \in Notes :
        /\ work[s].kind = "edit"
        /\ memories[work[s].on].status # "erased"
        /\ memories' = [memories EXCEPT ![work[s].on] = Rewritten(@, note)]
        /\ work' = [work EXCEPT ![s] = Idle]
        /\ UNCHANGED <<active, memOverlaps>>

\* delete_memory after get_visible; soft_delete finds any row but a tombstone.
CommitDelete(s) ==
    /\ work[s].kind = "delete"
    /\ memories' = IF memories[work[s].on].status \in {"active", "superseded"}
                   THEN [memories EXCEPT ![work[s].on] = Tombstone(@)]
                   ELSE memories
    /\ work' = [work EXCEPT ![s] = Idle]
    /\ UNCHANGED <<active, memOverlaps>>

(***************************************************************************)
(* hard_delete_user_scoped: the person's private rows go, and references   *)
(* to them are set to NULL by the foreign key.                             *)
(***************************************************************************)
Private(p) == {m \in Memories : memories[m].owner = p /\ memories[m].status # "absent"}

WithoutRows(gone) ==
    [m \in Memories |->
        IF m \in gone THEN Erased
        ELSE IF memories[m].supersedes \in gone
             THEN [memories[m] EXCEPT !.supersedes = NoMemory]
             ELSE memories[m]]

MemoryRequest ==
    \E s \in Sessions :
        \/ \E p \in Persons : StartCreate(s, p)
        \/ \E p \in Persons, m \in Memories : StartEdit(s, p, m) \/ StartDelete(s, p, m)
        \/ CommitCreate(s)
        \/ CommitEdit(s)
        \/ CommitDelete(s)
        \/ MemoryRequestFails(s)

-----------------------------------------------------------------------------
MemoryTypeOK ==
    /\ memories \in [Memories -> MemoryRow]
    /\ active \in [Persons -> BOOLEAN]
    /\ work \in [Sessions -> [kind : MemoryKinds \cup {"idle"}, who : Persons \cup {Nobody},
                              on : Memories \cup {NoMemory}]]
    /\ memOverlaps \subseteq MemoryRaces

(***************************************************************************)
(* "The row's content and embedding are cleared at that point, so nothing  *)
(* recallable survives it" (memory_models.py): but for an edit that was    *)
(* under way together with the deletion.  And a note has one successor at  *)
(* most, unless two requests superseded it at the same time: recall would  *)
(* put both into one prompt.                                               *)
(***************************************************************************)
DeletedIsEmpty ==
    \A m \in Memories :
        memories[m].status = "deleted" /\ <<m, {"edit", "delete"}>> \notin memOverlaps
            => memories[m].content = Blank /\ memories[m].vector = Blank

OneSuccessor ==
    \A old \in Memories :
        \/ <<old, {"create"}>> \in memOverlaps
        \/ Cardinality({m \in Memories : memories[m].supersedes = old}) <= 1

RecallIsSound == DeletedIsEmpty /\ OneSuccessor
=============================================================================
