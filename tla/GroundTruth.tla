------------------------------ MODULE GroundTruth ------------------------------
(***************************************************************************)
(* What the benchmark of answers takes for true (app/evaluation/semantic,  *)
(* scripts/annotate_semantic_cases.py, run_semantic_evaluation.py).        *)
(* Reviewers say of a case's fixed answer what it does, one command each,  *)
(* in a file that every command reads, extends and writes back; whoever    *)
(* resolves a disagreement adds to it too.  A run of the benchmark judges  *)
(* the answers by a model and measures the model against the people.  The  *)
(* text of a case changes with the repository, which makes what was said   *)
(* of the earlier text stale.                                              *)
(***************************************************************************)
EXTENDS Integers, Sequences, FiniteSets

CONSTANTS
    Corpus,        \* the cases with a fixed answer
    Expected,      \* [Corpus -> what the evidence justifies]
    Declining,     \* cases whose answer is a known refusal
    Reviewers,     \* people, as reviewers and as resolvers
    Opinions,      \* modes that people find an answer to have
    Commands,      \* commands that may be under way together
    Trials,        \* cases of the comparison with and without critique
    Floor,         \* minimum_sample_size
    MaxEdits,      \* bound on changes of one case's text, none of them back to an earlier one
    MaxCommands    \* bound on commands

ExpectedModes == {"answer", "qualified_answer", "no_answer", "unlabeled"}
Modes == {"substantive_answer", "qualified_answer", "no_answer"}

ASSUME GroundTruthConstants ==
    /\ IsFiniteSet(Corpus) /\ Expected \in [Corpus -> ExpectedModes] /\ Declining \subseteq Corpus
    /\ Opinions \subseteq Modes
    /\ Floor \in Nat \ {0} /\ MaxEdits \in Nat /\ MaxCommands \in Nat

VARIABLES
    file,        \* annotations and resolutions, in the order they were written
    edition,     \* [Corpus -> the text it has]
    turn,
    command,     \* [Commands -> the command under way: what it adds, and the file it read]
    recorded,    \* what commands said they recorded, in order
    overlapped,  \* two commands have been under way together
    report       \* of a run that has just ended

truthVars == <<file, edition, turn, command, recorded, overlapped, report>>

EmptyFile == [annotations |-> <<>>, resolutions |-> <<>>]
NoCommand == [stage |-> "idle", kind |-> "none", entry |-> "none", copy |-> EmptyFile]
NoBenchmark == [judged |-> {}, compared |-> {}, reliability |-> "none", verdict |-> "none"]

GroundTruthInit ==
    /\ file = EmptyFile /\ edition = [c \in Corpus |-> 1] /\ turn = 0
    /\ command = [k \in Commands |-> NoCommand] /\ recorded = EmptyFile
    /\ overlapped = FALSE /\ report = NoBenchmark

-----------------------------------------------------------------------------
(* What a file says of a case, by the places of the entries in the file.   *)

AnnotationsOf(c, f) == {i \in DOMAIN f.annotations : f.annotations[i].case = c}
ResolutionsOf(c, f) == {i \in DOMAIN f.resolutions : f.resolutions[i].case = c}

Foremost(places) == CHOOSE i \in places : \A j \in places : i <= j
Hindmost(places) == CHOOSE i \in places : \A j \in places : j <= i

\* The independent pair: the first two in time.
Earlier(i, c, f) == {j \in AnnotationsOf(c, f) : f.annotations[j].at < f.annotations[i].at}
IndependentPair(c, f) ==
    {i \in AnnotationsOf(c, f) : \A j, k \in Earlier(i, c, f) : j = k}

Disagreed(c, f) ==
    \E i, j \in IndependentPair(c, f) : f.annotations[i].mode # f.annotations[j].mode

\* resolve_ground_truth: the mode that people say the answer has, the last resolution
\* where they differ, and none where they differ and nobody resolved it.
HumanMode(c, f) ==
    IF ~Disagreed(c, f) THEN f.annotations[CHOOSE i \in IndependentPair(c, f) : TRUE].mode
    ELSE IF ResolutionsOf(c, f) = {} THEN "none"
    ELSE f.resolutions[Hindmost(ResolutionsOf(c, f))].mode

\* classify_outcome_correctness: the same table for people and for the evaluator.
Correctness(expected, observed) ==
    CASE expected = "unlabeled" -> "none"
      [] expected = "answer" ->
            (CASE observed = "substantive_answer" -> "correct"
               [] observed = "qualified_answer" -> "partially_correct"
               [] OTHER -> "incorrect_refusal")
      [] expected = "qualified_answer" ->
            IF observed = "substantive_answer" THEN "overconfident" ELSE "correct"
      [] OTHER -> IF observed = "no_answer" THEN "correct" ELSE "critical_failure"

-----------------------------------------------------------------------------
(* Commands: annotate and resolve.                                         *)

Free(k) == command[k].stage = "idle"

\* The entry carries the text it is about.  Commands are told apart by what they do: any
\* free name serves.
Starts(k, kind, case, by, mode) ==
    /\ Free(k) /\ turn < MaxCommands
    /\ k = CHOOSE j \in Commands : Free(j)
    /\ turn' = turn + 1
    /\ command' = [command EXCEPT ![k] =
         [stage |-> "begun", kind |-> kind, copy |-> EmptyFile,
          entry |-> [case |-> case, by |-> by, mode |-> mode, of |-> edition[case], at |-> turn']]]
    /\ overlapped' = (overlapped \/ \E j \in Commands : ~Free(j))
    /\ UNCHANGED <<file, edition, recorded>>

\* _cmd_annotate.
Annotate(k) ==
    \E c \in Corpus, r \in Reviewers, m \in Opinions : Starts(k, "annotation", c, r, m)

\* _cmd_resolve: only a disagreement of the independent pair.
Resolve(k) ==
    \E c \in Corpus, r \in Reviewers, m \in Opinions :
        Disagreed(c, file) /\ Starts(k, "resolution", c, r, m)

Annotated(f, entry) ==
    \E i \in DOMAIN f.annotations :
        f.annotations[i].case = entry.case /\ f.annotations[i].by = entry.by

\* save_annotation, save_resolution: reads the file; the second annotation of a
\* reviewer is refused.
ReadFile(k) ==
    /\ command[k].stage = "begun"
    /\ command' = [command EXCEPT ![k] =
         IF command[k].kind = "annotation" /\ Annotated(file, command[k].entry) THEN NoCommand
         ELSE [command[k] EXCEPT !.copy = file, !.stage = "read"]]
    /\ UNCHANGED <<file, edition, turn, recorded, overlapped>>

Extended(f, d) ==
    IF d.kind = "annotation" THEN [f EXCEPT !.annotations = Append(@, d.entry)]
    ELSE [f EXCEPT !.resolutions = Append(@, d.entry)]

\* ... and writes what it read with the new entry.
WriteFile(k) ==
    /\ command[k].stage = "read"
    /\ file' = Extended(command[k].copy, command[k])
    /\ recorded' = Extended(recorded, command[k])
    /\ command' = [command EXCEPT ![k] = NoCommand]
    /\ UNCHANGED <<edition, turn, overlapped>>

\* A command is interrupted before it writes.
Interrupt(k) ==
    /\ ~Free(k)
    /\ command' = [command EXCEPT ![k] = NoCommand]
    /\ UNCHANGED <<file, edition, turn, recorded, overlapped>>

\* The question, the evidence or the answer of a case is changed.
EditCase(c) ==
    /\ edition[c] <= MaxEdits /\ \A d \in Corpus \ {c} : edition[d] = 1
    /\ edition' = [edition EXCEPT ![c] = @ + 1]
    /\ UNCHANGED <<file, turn, command, recorded, overlapped>>

-----------------------------------------------------------------------------
(* A run of the benchmark.                                                 *)

\* judge_answer_quality: a known refusal is one, other answers are read by the model;
\* or the case ends in an error.
Judgements(c) ==
    {"error"} \cup IF c \in Declining THEN {"no_answer"}
                   ELSE {"substantive_answer", "qualified_answer"}

Results == {results \in [Corpus -> Modes \cup {"error"}] : \A c \in Corpus : results[c] \in Judgements(c)}

\* _classify_outcome of investigation_ab: what the critique did to a draft.
TrialOutcome(reviewed, issues, verdict, revised, lowered) ==
    CASE ~reviewed -> "unavailable"
      [] verdict = "reject" -> IF issues THEN "correctly_rejected" ELSE "damaged"
      [] revised \/ lowered -> "improved"
      [] OTHER -> "no_measurable_change"

TrialOutcomes ==
    {TrialOutcome(rd, is, v, rv, lo) :
        rd, is, rv, lo \in BOOLEAN, v \in {"accept", "reject"}}

\* With a plausible mistake: the latest annotation decides whether the case is stale.
Current_Latest(c, results) ==
    results[c] # "error" /\ file.annotations[Hindmost(AnnotationsOf(c, file))].of = edition[c]

\* _build_human_ground_truth_report: the first annotation decides.
Current(c, results) ==
    results[c] # "error" /\ file.annotations[Foremost(AnnotationsOf(c, file))].of = edition[c]

\* validate_evaluator_against_ground_truth: the cases that are compared.
Compared(results) ==
    {c \in Corpus :
        /\ AnnotationsOf(c, file) # {} /\ Current(c, results)
        /\ HumanMode(c, file) # "none" /\ Expected[c] # "unlabeled"}

\* compute_inter_annotator_agreement counts the cases with two annotations, whatever
\* text they were about and whatever they said.
DoubleReviewed == {c \in Corpus : \E i, j \in AnnotationsOf(c, file) : i # j}

\* evaluator_reliability_eligibility.
Reliability(compared) ==
    LET seen == {Correctness(Expected[c], HumanMode(c, file)) : c \in compared} IN
    IF Cardinality(compared) < Floor THEN "insufficient_data"
    ELSE IF Cardinality(DoubleReviewed) < Floor THEN "insufficient_agreement"
    ELSE IF ~({"critical_failure", "incorrect_refusal"} \subseteq seen)
    THEN "insufficient_class_coverage" ELSE "provisional"

\* _decide_verdict, by the states of all the thresholds that were examined.
Verdict(results, trials, thresholds) ==
    LET errors == Cardinality({c \in Corpus : results[c] = "error"})
                  + Cardinality({t \in Trials : trials[t] = "error"})
        cases == Cardinality(Corpus) + Cardinality(Trials)
        outcomes == {Correctness(Expected[c], results[c]) : c \in {d \in Corpus : results[d] # "error"}}
    IN  IF cases = 0 \/ 2 * errors > cases THEN "insufficient_data"
        ELSE IF \/ \E t \in Trials : trials[t] = "damaged"
                \/ "critical_failure" \in outcomes THEN "regression_detected"
        ELSE IF thresholds = {"calibrated"} THEN "quality_target_met"
        ELSE "baseline_established"

\* Two of the thresholds are always reported with insufficient data.
ReportOf(results, trials, measured) ==
    LET compared == Compared(results)  reliability == Reliability(compared) IN
    [judged |-> {c \in Corpus : results[c] # "error"}, compared |-> compared,
     reliability |-> reliability,
     verdict |-> Verdict(results, trials, {measured, "insufficient_data", reliability})]

\* _run.  It changes no file, and a command under way has changed none yet: it is enough
\* to run it once, with none under way.
Benchmark ==
    /\ \A k \in Commands : Free(k)
    /\ \E results \in Results :
         report' \in {ReportOf(results, trials, measured) :
                         trials \in [Trials -> TrialOutcomes \cup {"error"}],
                         measured \in {"calibrated", "provisional", "insufficient_data"}}
    /\ UNCHANGED <<file, edition, turn, command, recorded, overlapped>>

\* The report is put away.  Whatever follows a run is explored from there.
PutAway ==
    /\ report # NoBenchmark /\ report' = NoBenchmark
    /\ UNCHANGED <<file, edition, turn, command, recorded, overlapped>>

GroundTruthNext ==
    \/ PutAway
    \/ /\ report = NoBenchmark
       /\ \/ Benchmark
          \/ /\ \/ \E k \in Commands :
                     Annotate(k) \/ Resolve(k) \/ ReadFile(k) \/ WriteFile(k) \/ Interrupt(k)
                \/ \E c \in Corpus : EditCase(c)
             /\ UNCHANGED report

GroundTruthSpec == GroundTruthInit /\ [][GroundTruthNext]_truthVars
-----------------------------------------------------------------------------
\* What people add, files of it, and commands that carry both.
Entries == [case: Corpus, by: Reviewers, mode: Opinions, of: 1..MaxEdits + 1, at: 1..MaxCommands]
Files == [annotations: Seq(Entries), resolutions: Seq(Entries)]

GroundTruthTypeOK ==
    /\ edition \in [Corpus -> 1..MaxEdits + 1] /\ turn \in 0..MaxCommands
    /\ file \in Files /\ recorded \in Files
    /\ \A k \in Commands :
         /\ command[k].stage \in {"idle", "begun", "read"} /\ command[k].copy \in Files
         /\ ~Free(k) => command[k].kind \in {"annotation", "resolution"} /\ command[k].entry \in Entries
    /\ overlapped \in BOOLEAN /\ report.compared \subseteq Corpus

(***************************************************************************)
(* What the evaluator is measured against is what people said of the very  *)
(* text that it judged ("never silently compare it against different       *)
(* evidence"); where the first two differ, somebody resolved it after      *)
(* both; and nothing that was recorded is lost ("append-only, never        *)
(* overwrite").  This is so while commands are run one after the other;    *)
(* that no reviewer has two voices in a case holds however they overlap.   *)
(* The evaluator passes for reliable only on cases of both dangerous       *)
(* kinds.  And a run that has judged a made-up answer where none was due   *)
(* never ends well, whatever the model thinks of that answer.              *)
(***************************************************************************)
OneVoiceEach ==
    \A i, j \in DOMAIN file.annotations :
        (/\ file.annotations[i].case = file.annotations[j].case
         /\ file.annotations[i].by = file.annotations[j].by) => i = j

HeardOnThisText ==
    \A c \in report.compared :
        /\ \A i \in AnnotationsOf(c, file) : file.annotations[i].of = edition[c]
        /\ \A r \in ResolutionsOf(c, file) : file.resolutions[r].of = edition[c]
        /\ Disagreed(c, file) =>
             \E r \in ResolutionsOf(c, file) : \A i \in IndependentPair(c, file) :
                 file.annotations[i].at < file.resolutions[r].at

\* The modes that somebody gave an answer.
ModesSaid(c) ==
    {file.annotations[i].mode : i \in AnnotationsOf(c, file)}
        \cup {file.resolutions[i].mode : i \in ResolutionsOf(c, file)}

ReliableOnBothKinds ==
    report.reliability = "provisional" =>
        /\ Cardinality(report.compared) >= Floor
        /\ \E c, d \in report.compared :
             /\ Expected[c] = "no_answer" /\ ModesSaid(c) \ {"no_answer"} # {}
             /\ Expected[d] = "answer" /\ "no_answer" \in ModesSaid(d)

FabricationShows ==
    report.verdict \in {"baseline_established", "quality_target_met"} =>
        \A c \in report.judged : Expected[c] = "no_answer" => c \in Declining

TruthIsEarned ==
    /\ OneVoiceEach
    /\ ~overlapped => file = recorded /\ HeardOnThisText
    /\ ReliableOnBothKinds
    /\ FabricationShows
=============================================================================
