--------------------------------- MODULE Gaps ---------------------------------
(***************************************************************************)
(* The Knowledge Gap Agent (app/agents/knowledge_gap): every day a job per *)
(* organization groups the questions that were answered with little        *)
(* confidence, and reports the groups that are large enough.               *)
(*                                                                         *)
(* A run is one transaction.  It reads the questions, waits for the        *)
(* embedding of their texts, reads the open reports, waits for the model   *)
(* that names each group, and commits.  Vectors are abstracted to topics:  *)
(* questions of one topic are alike, those of two topics are not, for the  *)
(* groups and for the higher bar of a merge.                               *)
(***************************************************************************)
EXTENDS Naturals, FiniteSets, Functions

CONSTANTS
    Questions,   \* answer_question executions
    Topics,
    TopicOf,     \* [Questions -> Topics]
    Reports,     \* rows of knowledge_gap_reports that can be made, in their order
    NoTopic,     \* of a row that has not been made
    Runs,        \* workers that may run the job of the organization, all alike: numbers
    MinCluster   \* knowledge_gap_min_cluster_size

ASSUME GapConstants ==
    /\ Reports \subseteq Nat
    /\ TopicOf \in [Questions -> Topics]
    /\ NoTopic \notin Topics
    /\ MinCluster \in Nat \ {0, 1}

VARIABLES
    asked,     \* committed executions of low confidence within the look-back
    reports,   \* knowledge_gap_reports
    runs,      \* what each worker has read
    together,  \* auxiliary: topics that two runs under way at one time had read
    given      \* auxiliary: all the questions that a report was ever given

gapVars == <<asked, reports, runs, together, given>>

NoReport == [status |-> "absent", topic |-> NoTopic, ids |-> {}]
NoRun    == [phase |-> "idle", seen |-> {}, open |-> {}, ids |-> [r \in Reports |-> {}]]

GapInit ==
    /\ asked = {}
    /\ reports = [r \in Reports |-> NoReport]
    /\ runs = [w \in Runs |-> NoRun]
    /\ together = {}
    /\ given = [r \in Reports |-> {}]

-----------------------------------------------------------------------------
\* list_open_gap_reports.
OpenReports == {r \in Reports : reports[r].status = "open"}

\* cluster_by_similarity: the questions of a topic among those that were read.
Cluster(seen, t) == {q \in seen : TopicOf[q] = t}

\* Clusters below the minimum are one-off questions.
Repeated(seen) == {t \in Topics : Cardinality(Cluster(seen, t)) >= MinCluster}

\* With a plausible mistake: nothing is near enough to be merged with.
Mergeable_Never(w, t) == {}

\* _find_mergeable_report, among the reports as they were read.
Mergeable(w, t) == {r \in runs[w].open : reports[r].topic = t}

\* Another run has read these topics and has not ended.
ReadElsewhere(w) == UNION {Repeated(runs[v].seen) : v \in {u \in Runs \ {w} : runs[u].phase # "idle"}}

-----------------------------------------------------------------------------
\* An answer of low confidence is committed; after the look-back it is too old.
AnswerPoorly(q) ==
    /\ q \notin asked
    /\ asked' = asked \cup {q}
    /\ UNCHANGED <<reports, runs, together, given>>

Forget(q) ==
    /\ q \in asked
    /\ asked' = asked \ {q}
    /\ UNCHANGED <<reports, runs, together, given>>

\* list_low_confidence_executions; too few of them end the run at once.
StartRun(w) ==
    /\ runs[w].phase = "idle" /\ \A v \in Runs : v < w => runs[v].phase # "idle"
    /\ Cardinality(asked) >= MinCluster
    /\ runs' = [runs EXCEPT ![w] = [NoRun EXCEPT !.phase = "embedding", !.seen = asked]]
    /\ together' = together \cup (Repeated(asked) \cap ReadElsewhere(w))
    /\ UNCHANGED <<asked, reports, given>>

ReadReports(w) ==
    /\ runs[w].phase = "embedding"
    /\ runs' = [runs EXCEPT ![w].phase = "naming", ![w].open = OpenReports,
                            ![w].ids = [r \in Reports |->
                                              IF r \in OpenReports THEN reports[r].ids ELSE {}]]
    /\ UNCHANGED <<asked, reports, together, given>>

(***************************************************************************)
(* Every repeated topic is merged into a report that was open when it was  *)
(* read, or inserted.  A merge writes the union with the copy, whatever    *)
(* the row has become, and nothing when the copy holds it all.             *)
(***************************************************************************)
Merged(w, r) ==
    LET ids == runs[w].ids[r] \cup Cluster(runs[w].seen, reports[r].topic)
    IN IF ids = runs[w].ids[r] THEN reports[r] ELSE [reports[r] EXCEPT !.ids = ids]

Inserted(w, t) == [status |-> "open", topic |-> t, ids |-> Cluster(runs[w].seen, t)]

CommitRun(w) ==
    LET topics == Repeated(runs[w].seen)
        old    == {t \in topics : Mergeable(w, t) # {}}
        absent == {r \in Reports : reports[r].status = "absent"}
        \* new rows come in their order, without a gap
        InOrder(f) == \A r, s \in absent : s < r /\ r \in Range(f) => s \in Range(f)
    IN
    /\ runs[w].phase = "naming"
    /\ \E into \in {f \in [topics -> Reports] :
                        /\ IsInjective(f) /\ InOrder(f)
                        /\ \A t \in topics :
                             f[t] \in IF t \in old THEN Mergeable(w, t) ELSE absent} :
        LET topicOf(r) == CHOOSE t \in topics : into[t] = r
            now == [r \in Reports |->
                        IF r \notin {into[t] : t \in topics} THEN reports[r]
                        ELSE IF topicOf(r) \in old THEN Merged(w, r)
                        ELSE Inserted(w, topicOf(r))]
        IN /\ reports' = now
           /\ given' = [r \in Reports |-> given[r] \cup now[r].ids]
    /\ runs' = [runs EXCEPT ![w] = NoRun]
    /\ UNCHANGED <<asked, together>>

\* The embedding, the model or the database fails, or the day's budget is spent:
\* the transaction is rolled back, and arq tries the job again.
RunFails(w) ==
    /\ runs[w].phase # "idle"
    /\ runs' = [runs EXCEPT ![w] = NoRun]
    /\ UNCHANGED <<asked, reports, together, given>>

\* dismiss_gap_report.
Dismiss(r) ==
    /\ reports[r].status # "absent"
    /\ reports' = [reports EXCEPT ![r].status = "dismissed"]
    /\ UNCHANGED <<asked, runs, together, given>>

GapNext ==
    \/ \E q \in Questions : AnswerPoorly(q) \/ Forget(q)
    \/ \E w \in Runs : StartRun(w) \/ ReadReports(w) \/ CommitRun(w) \/ RunFails(w)
    \/ \E r \in Reports : Dismiss(r)

GapSpec == GapInit /\ [][GapNext]_gapVars

-----------------------------------------------------------------------------
GapTypeOK ==
    /\ asked \subseteq Questions
    /\ reports \in [Reports -> [status : {"absent", "open", "dismissed"},
                                topic : Topics \cup {NoTopic}, ids : SUBSET Questions]]
    /\ runs \in [Runs -> [phase : {"idle", "embedding", "naming"}, seen : SUBSET Questions,
                          open : SUBSET Reports, ids : [Reports -> SUBSET Questions]]]
    /\ together \subseteq Topics
    /\ given \in [Reports -> SUBSET Questions]

(***************************************************************************)
(* A gap is reported once: however often the job runs and a person closes  *)
(* reports, a topic has one open report at most, and a report keeps every  *)
(* question that it was ever given, but for topics that two runs had read  *)
(* at one time (pipeline.py: "Idempotency across scheduled runs").         *)
(***************************************************************************)
GapsAreReportedOnce ==
    \A r \in Reports :
        \/ reports[r].status = "absent"
        \/ reports[r].topic \in together
        \/ /\ reports[r].ids = given[r]
           /\ reports[r].status = "open" =>
                \A s \in OpenReports \ {r} : reports[s].topic # reports[r].topic
=============================================================================
