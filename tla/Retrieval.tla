------------------------------- MODULE Retrieval -------------------------------
(***************************************************************************)
(* Search (app/retrieval, and what app/agents makes of it).  A search is   *)
(* several SQL statements, one for the vectors and one for the words of    *)
(* each collection or of all of them, fused by reciprocal rank; each       *)
(* statement sees what is committed when it runs, while documents go on    *)
(* being ingested and rejected.  What is found is reranked and cut to the  *)
(* room of a prompt, or turned into evidence, source by source.            *)
(*                                                                         *)
(* Content and similarity are abstracted: a list holds the matching chunks *)
(* it happens to find, in any order, each once.  A document has one chunk. *)
(***************************************************************************)
EXTENDS Integers, Sequences, FiniteSets, SequencesExt, FiniteSetsExt, Selections

CONSTANTS
    Chunks,
    Info,        \* [Chunks -> ChunkInfo]
    Incidents,   \* incidents that may have a postmortem
    NoIncident,
    TopK,        \* chunks asked of a search
    Narrow,      \* chunks kept by reranking
    Room,        \* tokens that fit in a prompt
    MaxEvidence, \* _EVIDENCE_CAP
    MaxChanges   \* bound on documents that appear or disappear during a search

Collections == {"documentation", "code", "conversations"}   \* searched by default
ChunkInfo   == [collection : Collections \cup {"incidents"},
                access   : {"open", "granted", "denied"},
                    \* to anybody of the organization, with a permission that the
                    \* reader has, or not to the reader (another organization too)
                repo     : BOOLEAN,   \* of a repository (metadata "repo")
                incident : Incidents \cup {NoIncident},   \* whose postmortem it is
                tokens   : Nat]

\* The identifiers of chunks and of incidents differ.
ASSUME RetrievalConstants ==
    /\ IsFiniteSet(Chunks) /\ Info \in [Chunks -> ChunkInfo]
    /\ IsFiniteSet(Incidents) /\ Incidents \cap Chunks = {} /\ NoIncident \notin Incidents
    /\ TopK \in Nat /\ Narrow \in Nat /\ Room \in Nat
    /\ MaxEvidence \in Nat /\ MaxChanges \in Nat

VARIABLES
    store,    \* chunks of documents that are there and not deleted
    written,  \* postmortems
    search,   \* the search under way
    present,  \* auxiliary: chunks that were in the store during the search
    changes   \* auxiliary: how often the store has changed since it began

retrievalVars == <<store, written, search, present, changes>>

SearchKinds == {"question", "incidents", "changes", "evidence"}

NoSearch == [kind |-> "question", stage |-> "new", lists |-> <<>>, fused |-> <<>>,
             found |-> <<>>, evidence |-> <<>>]

RetrievalInit ==
    /\ \E c \in Chunks : store \in {Chunks, Chunks \ {c}}
    /\ written \in SUBSET Incidents
    /\ search = NoSearch
    /\ present = {}
    /\ changes = 0

-----------------------------------------------------------------------------
(* reciprocal_rank_fusion, of the two lists that its callers have.         *)

Damping == 60

\* A multiple of what the first ranks divide by, so that what they count is exact; of
\* the others it is rounded down.
Scale == (Damping + 1) * (Damping + 2) * (Damping + 3) * (Damping + 4)

Rank(list, c) == CHOOSE k \in DOMAIN list : list[k] = c

Share(list, c) == IF c \in ToSet(list) THEN Scale \div (Damping + Rank(list, c)) ELSE 0

\* With a plausible mistake: the best list counts, instead of both.
Weight_Best(a, b, c) == IF Share(a, c) > Share(b, c) THEN Share(a, c) ELSE Share(b, c)

Weight(a, b, c) == Share(a, c) + Share(b, c)

\* Each chunk once, where it was met first.
Distinct(s) == Kept(s, {i \in DOMAIN s : \A j \in DOMAIN s : j < i => s[j] # s[i]})

\* Python's sort is stable, also in reverse.
Sorted(s) ==
    LET before(i, j) == s[i].score > s[j].score \/ (s[i].score = s[j].score /\ i < j)
        place(j) == Cardinality({i \in DOMAIN s : before(i, j)}) + 1
    IN [k \in DOMAIN s |-> s[CHOOSE j \in DOMAIN s : place(j) = k]]

\* (TLC evaluates the elements of a subsequence once.)
Fuse(a, b) ==
    LET met    == Distinct(a \o b)
        scored == [k \in DOMAIN met |-> [chunk |-> met[k], score |-> Weight(a, b, met[k])]]
    IN First(Sorted(SubSeq(scored, 1, Len(scored))), TopK)

ChunksOf(s) == [k \in DOMAIN s |-> s[k].chunk]

-----------------------------------------------------------------------------
(* PgVectorStore: one statement.                                           *)

\* SearchFilters: only questions and investigations pass the permissions of their
\* reader.
Allowed(kind, c) ==
    \/ Info[c].access = "open"
    \/ Info[c].access = "granted" /\ kind \in {"question", "evidence"}

Matching(kind, collections) ==
    {c \in store : Info[c].collection \in collections /\ Allowed(kind, c)}

\* ORDER BY ... LIMIT top_k; the index of the vectors may miss some.
ListsOf(S) == UNION {SetToSeqs(T) : T \in {U \in SUBSET S : Cardinality(U) <= TopK}}

-----------------------------------------------------------------------------
\* The statements of each kind of search, as sets of collections: of each the
\* vectors, then the words.  Sources of evidence are searches one after another.
Searches(kind) ==
    CASE kind = "question"  -> << <<Collections>> >>
      [] kind = "incidents" -> << <<{"incidents"}>> >>
      [] kind = "changes"   -> << <<{"documentation"}, {"code"}>> >>
      [] kind = "evidence"  -> << <<{"code"}, {"documentation"}>>,     \* _gather_code_evidence
                                  <<{"documentation"}>>,               \* _gather_knowledge_evidence
                                  <<{"conversations"}>> >>             \* _gather_slack_evidence

\* A search that has come to its n-th source.
Source(n) == <<"first", "second", "third">>[n]
Stages == {"new", "first", "second", "third", "postmortems", "live", "rerank", "done"}

Running == {n \in 1..3 : search.stage = Source(n)}
Statements(n) == Searches(search.kind)[n]

\* The lists come in pairs, each pair is fused.
Pairs == [k \in 1..Len(search.lists) \div 2 |->
            Fuse(search.lists[2 * k - 1], search.lists[2 * k])]

BeginSearch(kind) ==
    /\ search.stage = "new"
    /\ search' = [search EXCEPT !.kind = kind, !.stage = Source(1)]
    /\ present' = store
    /\ UNCHANGED <<store, written, changes>>

Statement(n) ==
    /\ n \in Running
    /\ Len(search.lists) < 2 * Len(Statements(n))
    /\ \E list \in ListsOf(Matching(search.kind, Statements(n)[Len(search.lists) \div 2 + 1])) :
        search' = [search EXCEPT !.lists = Append(@, list)]
    /\ UNCHANGED <<store, written, present, changes>>

\* call_with_retry: from the first statement of the source.
Again(n) ==
    /\ n \in Running
    /\ search.kind \in {"question", "evidence"}
    /\ search' = [search EXCEPT !.lists = <<>>]
    /\ UNCHANGED <<store, written, present, changes>>

-----------------------------------------------------------------------------
(* A source of evidence is left out when there is enough; the last ones    *)
(* are the postmortems, and live lookups.  What is handed on in the end is *)
(* cut to _EVIDENCE_CAP, here as soon as it is more: there is no source    *)
(* after it.                                                               *)

\* By priority.
SourceNames == <<"github", "runbook", "slack", "postmortem", "live">>

\* With a plausible mistake: a search stands at the name of its source.
NextSource_Named(n, evidence) ==
    IF Len(evidence) >= MaxEvidence THEN "done" ELSE SourceNames[n + 1]

NextSource(n, evidence) ==
    IF Len(evidence) >= MaxEvidence THEN "done"
    ELSE IF n < 3 THEN Source(n + 1) ELSE "postmortems"

Items(source, s) == [k \in DOMAIN s |-> [source |-> source, what |-> s[k]]]

\* With a plausible mistake: knowledge is all of the documentation.
Mine_All(n, c) == n = 1 => Info[c].collection = "code" \/ Info[c].repo

\* Documentation of repositories is evidence of the first source, the rest of the second.
Mine(n, c) ==
    /\ n = 1 => Info[c].collection = "code" \/ Info[c].repo
    /\ n = 2 => ~Info[c].repo

Gathered(n) ==
    LET all  == IF n = 1 THEN Pairs[1] \o Pairs[2] ELSE Pairs[1]
        mine == Kept(all, {k \in DOMAIN all : Mine(n, all[k].chunk)})
    IN Items(SourceNames[n], ChunksOf(First(IF n = 1 THEN Sorted(mine) ELSE mine, TopK)))

FusedAll == IF search.kind = "changes" THEN Fuse(ChunksOf(Pairs[1]), ChunksOf(Pairs[2]))
            ELSE Pairs[1]

\* _passes_recency_filter: of recent changes, after they have been counted.
Recency(s) == IF search.kind = "changes" THEN SUBSET ToSet(s) ELSE {ToSet(s)}

Complete(n) ==
    /\ n \in Running
    /\ Len(search.lists) = 2 * Len(Statements(n))
    /\ IF search.kind = "evidence"
       THEN LET evidence == search.evidence \o Gathered(n) IN
            search' = [search EXCEPT !.evidence = First(evidence, MaxEvidence),
                                     !.lists = <<>>, !.stage = NextSource(n, evidence)]
       ELSE LET fused == FusedAll
                all   == ChunksOf(fused)
            IN \E recent \in Recency(all) :
               search' = [search EXCEPT !.fused = fused,
                            !.found = Kept(all, {k \in DOMAIN all : all[k] \in recent}),
                            !.stage = IF search.kind = "question" THEN "rerank" ELSE "done"]
    /\ UNCHANGED <<store, written, present, changes>>

\* A question goes on without chunks, evidence without the source, and the
\* other searches fail.
SearchFails(n) ==
    /\ n \in Running
    /\ search' = [search EXCEPT !.lists = <<>>,
                    !.stage = IF search.kind = "evidence" THEN NextSource(n, search.evidence)
                              ELSE "done"]
    /\ UNCHANGED <<store, written, present, changes>>

-----------------------------------------------------------------------------
\* rerank gives any order, and the fused one when the model cannot run.
Reranked(s) == {First(t, Narrow) : t \in SetToSeqs(ToSet(s))}

\* assemble_context keeps the first, and goes on while there is room.
Tokens(s) == FoldLeft(LAMBDA sum, c : sum + Max({1, Info[c].tokens}), 0, s)
Assembled(s) ==
    First(s, Max({1} \cup {k \in DOMAIN s : Tokens(First(s, k)) <= Room}))

Rerank ==
    /\ search.stage = "rerank"
    /\ IF search.found = <<>> THEN search' = [search EXCEPT !.stage = "done"]
       ELSE \E s \in Reranked(search.found) \cup {First(search.found, Narrow)} :
                search' = [search EXCEPT !.found = Assembled(s), !.stage = "done"]
    /\ UNCHANGED <<store, written, present, changes>>

\* _is_duplicate_of_runbook_evidence: by the incident in the metadata of a chunk, or
\* by the text of the postmortem.
Told == {Info[search.evidence[k].what].incident :
            k \in {j \in DOMAIN search.evidence : search.evidence[j].source = "runbook"}}

GatherPostmortems ==
    /\ search.stage = "postmortems"
    /\ \E list \in ListsOf(written \ Told) :
        search' = [search EXCEPT !.evidence = @ \o Items("postmortem", list), !.stage = "live"]
    /\ UNCHANGED <<store, written, present, changes>>

\* _gather_live_evidence, when it is worth it: whatever the connectors give at once.
GatherLive ==
    /\ search.stage = "live"
    /\ \E n \in 0..MaxEvidence :
        search' = [search EXCEPT !.stage = "done",
                    !.evidence = First(@ \o Items("live", [k \in 1..n |-> k]), MaxEvidence)]
    /\ UNCHANGED <<store, written, present, changes>>

-----------------------------------------------------------------------------
Changed == search.stage \notin {"new", "done"} /\ changes < MaxChanges /\ changes' = changes + 1

\* An ingested document (upsert), a rejected one, a new postmortem.
Upsert(c) ==
    /\ Changed
    /\ c \notin store
    /\ store' = store \cup {c}
    /\ present' = present \cup {c}
    /\ UNCHANGED <<written, search>>

Delete(c) ==
    /\ Changed
    /\ c \in store
    /\ store' = store \ {c}
    /\ UNCHANGED <<written, search, present>>

Write(i) ==
    /\ Changed
    /\ i \notin written
    /\ written' = written \cup {i}
    /\ UNCHANGED <<store, search, present>>

RetrievalNext ==
    \/ \E kind \in SearchKinds : BeginSearch(kind)
    \/ \E n \in Running : Statement(n) \/ Again(n) \/ Complete(n) \/ SearchFails(n)
    \/ Rerank \/ GatherPostmortems \/ GatherLive
    \/ \E c \in Chunks : Upsert(c) \/ Delete(c)
    \/ \E i \in Incidents : Write(i)

RetrievalSpec == RetrievalInit /\ [][RetrievalNext]_retrievalVars

-----------------------------------------------------------------------------
RetrievalTypeOK ==
    /\ store \subseteq Chunks /\ present \subseteq Chunks /\ written \subseteq Incidents
    /\ search.kind \in SearchKinds /\ search.stage \in Stages
    /\ search.lists \in Seq(Seq(Chunks)) /\ search.found \in Seq(Chunks)
    /\ changes \in 0..MaxChanges

(***************************************************************************)
(* What a search returns it may return: chunks of a document that was not  *)
(* deleted when the search began or came while it ran, which its reader    *)
(* may read, each once, no more than were asked for; and a chunk that both *)
(* the vectors and the words found stands before every chunk that only one *)
(* of them found (fusion.py:24-28), as long as no more are asked for than  *)
(* the ranks of which any two count more than the first.  A prompt has     *)
(* room for it all, or holds one chunk.                                    *)
(***************************************************************************)
ResultsAreEarned ==
    LET both(c) == \A k \in DOMAIN search.lists : c \in ToSet(search.lists[k])
        hits    == search.fused
    IN
    /\ \A c \in ToSet(search.found) : c \in present /\ Allowed(search.kind, c)
    /\ IsInjective(search.found) /\ Len(search.found) <= TopK
    /\ search.kind # "changes" /\ TopK <= Damping + 1 =>
         \A i, j \in DOMAIN hits : both(hits[i].chunk) /\ ~both(hits[j].chunk) => i < j
    /\ search.kind = "question" /\ search.stage = "done" =>
         /\ Len(search.found) > 1 => Tokens(search.found) <= Room
         /\ search.fused # <<>> /\ Narrow > 0 => search.found # <<>>

(***************************************************************************)
(* An investigation weighs each piece once: no chunk is evidence of two    *)
(* sources, though two of them read the same collection, at two times; a   *)
(* postmortem that is there as a runbook is not there again; and what a    *)
(* source of higher priority found is not pushed out by the others.        *)
(***************************************************************************)
EvidenceIsDistinct ==
    LET places == DOMAIN search.evidence
        priority(k) == Rank(SourceNames, search.evidence[k].source)
    IN
    /\ search.stage = "done" => Len(search.evidence) <= MaxEvidence
    /\ \A j, k \in places : j < k =>
         /\ priority(j) <= priority(k)
         /\ "live" \notin {search.evidence[j].source, search.evidence[k].source} =>
                search.evidence[j].what # search.evidence[k].what
         /\ search.evidence[j].source = "runbook" /\ search.evidence[k].source = "postmortem" =>
                Info[search.evidence[j].what].incident # search.evidence[k].what
    /\ \A k \in places : search.evidence[k].source \in {"github", "runbook", "slack"} =>
         search.evidence[k].what \in present /\ Allowed("evidence", search.evidence[k].what)

\* What search hands on, as results or as evidence, it may, once and in order.
SearchIsSound == ResultsAreEarned /\ EvidenceIsDistinct
=============================================================================
