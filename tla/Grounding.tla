------------------------------- MODULE Grounding -------------------------------
(***************************************************************************)
(* What a reply rests on (app/agents/confidence.py, answer, investigation/ *)
(* hypothesis.py, critique.py).  Asks follows the calls of a question, how *)
(* often and at what cost; here is what they carry: the signals that       *)
(* choose between an answer and an investigation, the sentences of an      *)
(* answer with their markers, and the hypotheses with the evidence they    *)
(* cite.  What a model writes is any text; whether a chunk supports a      *)
(* claim is a fact of the two.                                             *)
(***************************************************************************)
EXTENDS Integers, Sequences, SequencesExt, FiniteSets, Selections

CONSTANTS
    Passages,     \* chunks that retrieval may give
    DocumentOf,   \* [Passages -> documents]
    Claims,       \* what a sentence may say
    NoClaim,
    Support,      \* [Claims \X Passages -> the similarity: {"high", "middle", "low"}]
    Cosines,      \* similarities of a search, in hundredths
    Calibrated,   \* what _normalize_rerank_score gives, in thousandths
    NoMatch,
    Threshold,    \* confidence_threshold, in thousandths
    References,   \* evidence there may be
    Invented,     \* a reference that a model makes up
    Stated,       \* what a model says of its own confidence, in tenths
    MinItems,     \* settings of the critique: evidence there must be,
    Certain,      \* the confidence, in tenths, that needs
    MinCited,     \* so many citations
    MaxTries      \* call_with_retry

ASSUME GroundingConstants ==
    /\ IsFiniteSet(Passages) /\ DOMAIN DocumentOf = Passages
    /\ Support \in [Claims \X Passages -> {"high", "middle", "low"}]
    /\ Cosines \subseteq Int /\ Calibrated \subseteq 0..1000 /\ Stated \subseteq Int
    /\ NoClaim \notin Claims /\ Invented \notin References
    /\ Threshold \in 101..1000 /\ MaxTries \in Nat \ {0}
    /\ MinItems \in Nat /\ Certain \in 0..10 /\ MinCited \in Nat \ {0}

VARIABLES
    step,      \* where the question is
    context,   \* retrieved_chunks, in order
    signals,   \* confidence_signals
    route,
    tries,     \* attempts at an answer
    prose,     \* the draft of an answer
    reply,     \* answer_mode, the sentences that stay, the citations
    evidence,  \* references of the items found
    draft,     \* the hypotheses under review
    second,    \* they are the revised ones
    delivered  \* hypotheses of the reply, and how they were reviewed

groundingVars ==
    <<step, context, signals, route, tries, prose, reply, evidence, draft, second, delivered>>

NoSignals == [top |-> 0, rerank |-> 0, incident |-> FALSE, historical |-> NoMatch]
NoReply == [mode |-> "none", pieces |-> <<>>, citations |-> {}]
NothingDelivered ==
    [hypotheses |-> <<>>, review |-> "not_reviewed", verdict |-> "none", unsupported |-> {}]

GroundingInit ==
    /\ step = "retrieve" /\ context = <<>> /\ signals = NoSignals /\ route = "none"
    /\ tries = 0 /\ prose = <<>> /\ reply = NoReply
    /\ evidence = {} /\ draft = <<>> /\ second = FALSE /\ delivered = NothingDelivered

-----------------------------------------------------------------------------
(* Confidence: signals in thousandths, weighed over those that are there.  *)

Between(low, x, high) == IF x < low THEN low ELSE IF x > high THEN high ELSE x

\* _normalize_top_similarity: from 0.35 to 0.65.
Normalized(cosine) == Between(0, ((cosine - 35) * 1000) \div 30, 1000)

\* _distinct_source_count_signal: every further document leaves 0.30 of the doubt.
Doubt[n \in Nat] == IF n = 0 THEN 1000 ELSE (Doubt[n - 1] * 3) \div 10
SourceCount(chunks) == 1000 - Doubt[Cardinality({DocumentOf[c] : c \in ToSet(chunks)})]

\* The historical signal counts for an incident only, and only if there is a match.
Counts(s) == s.incident /\ s.historical # NoMatch

\* _weighted_score and its total weight.
Weighted(s, chunks) ==
    40 * Normalized(s.top) + 35 * (IF chunks = <<>> THEN 0 ELSE s.rerank)
    + 15 * SourceCount(chunks) + (IF Counts(s) THEN 10 * Normalized(s.historical) ELSE 0)
TotalWeight(s) == IF Counts(s) THEN 100 ELSE 90

\* evaluate_confidence.
RouteOf(s, chunks) ==
    IF Weighted(s, chunks) >= Threshold * TotalWeight(s) THEN "answer" ELSE "investigation"

\* The retrieval node: without candidates there is no dense hit.  Chunks that were
\* not reranked have the neutral score, one of Calibrated.
Retrieve ==
    /\ step = "retrieve"
    /\ \E chunks \in SetToAllKPermutations(Passages) :
       \E top \in Cosines \cup {0}, rerank \in Calibrated, incident \in BOOLEAN :
       \E historical \in IF incident THEN Cosines \cup {NoMatch} ELSE {NoMatch} :
         /\ chunks = <<>> => top = 0
         /\ context' = chunks
         /\ signals' = [top |-> top, rerank |-> rerank, incident |-> incident,
                        historical |-> historical]
    /\ step' = "evaluate"
    /\ UNCHANGED <<route, tries, prose, reply, evidence, draft, second, delivered>>

\* The signals have done their work once the route is chosen.
Evaluate ==
    /\ step = "evaluate"
    /\ route' = RouteOf(signals, context)
    /\ step' = IF route' = "answer" THEN "assess" ELSE "gather"
    /\ signals' = NoSignals
    /\ context' = IF route' = "answer" THEN context ELSE <<>>
    /\ UNCHANGED <<tries, prose, reply, evidence, draft, second, delivered>>

-----------------------------------------------------------------------------
(* The answer: sufficient evidence, a draft, and what of it is grounded.   *)

\* A sentence with its claim and two markers, before and after the full stop; 0 for none.
Markers == 0..(Cardinality(Passages) + 1)
Sentences == [claim: Claims, inside: Markers, after: Markers]
Proses == {<<s>> : s \in Sentences} \cup {<<s, t>> : s, t \in Sentences}

Cited(markers) == markers \ {0}

\* split_sentences: the text is cut after a full stop, so that a marker after it goes
\* with the next sentence, or makes one of its own.
SplitSentences(text) ==
    LET n == Len(text) IN
    [i \in 1..n |->
        [claim |-> text[i].claim,
         markers |-> Cited({text[i].inside} \cup (IF i = 1 THEN {} ELSE {text[i - 1].after}))]]
    \o (IF n = 0 \/ text[n].after = 0 THEN <<>>
        ELSE <<[claim |-> NoClaim, markers |-> {text[n].after}]>>)

\* verify_grounding: the best of the chunks decides, and the model where it is neither.
Grounded(piece, chunks, confirmed) ==
    LET best == {Support[<<piece.claim, chunks[i]>>] : i \in DOMAIN chunks} IN
    /\ piece.claim # NoClaim
    /\ "high" \in best \/ ("middle" \in best /\ piece.claim \in confirmed)

\* With a plausible mistake: the citations are those of the whole draft.
CitationsOf_Draft(kept, chunks) ==
    {chunks[m] : m \in DOMAIN chunks \cap
        UNION {SplitSentences(prose)[i].markers : i \in DOMAIN SplitSentences(prose)}}

\* build_citations: a marker that is out of range is skipped.
CitationsOf(kept, chunks) ==
    {chunks[m] : m \in DOMAIN chunks \cap UNION {kept[i].markers : i \in DOMAIN kept}}

\* call_with_retry: the next attempt starts anew, and after the last there is none.
Declines ==
    /\ prose' = <<>> /\ tries' = tries + 1 /\ UNCHANGED context
    /\ IF tries' < MaxTries THEN step' = "assess" /\ UNCHANGED reply
       ELSE step' = "done" /\ reply' = [NoReply EXCEPT !.mode = "no_answer"]

\* assess_sufficiency; nothing to assess is no answer at once.
Assess ==
    /\ step = "assess"
    /\ IF context = <<>>
       THEN /\ reply' = [NoReply EXCEPT !.mode = "no_answer"] /\ step' = "done"
            /\ UNCHANGED <<context, tries, prose>>
       ELSE \/ Declines
            \/ step' = "write" /\ UNCHANGED <<context, tries, prose, reply>>
    /\ UNCHANGED <<signals, route, evidence, draft, second, delivered>>

\* generate_answer: a text, NO_ANSWER, or a call that fails.
Compose ==
    /\ step = "write"
    /\ \/ Declines
       \/ /\ prose' \in Proses /\ step' = "verify"
          /\ UNCHANGED <<context, tries, reply>>
    /\ UNCHANGED <<signals, route, evidence, draft, second, delivered>>

Verify ==
    /\ step = "verify"
    /\ \E confirmed \in SUBSET Claims :
        LET pieces == SplitSentences(prose)
            kept == Kept(pieces, {i \in DOMAIN pieces : Grounded(pieces[i], context, confirmed)}) IN
        IF kept = <<>> THEN Declines
        ELSE /\ reply' = [mode |-> "answered", pieces |-> kept,
                          citations |-> CitationsOf(kept, context)]
             /\ step' = "done" /\ UNCHANGED <<context, tries, prose>>
    /\ UNCHANGED <<signals, route, evidence, draft, second, delivered>>

-----------------------------------------------------------------------------
(* The investigation: evidence, hypotheses that cite it, and their review. *)

Raw == [confidence: Stated,
        cites: UNION {[1..n -> References \cup {Invented}] : n \in 0..2}]
RawDrafts == UNION {[1..n -> Raw] : n \in 0..2}

\* _validate_hypotheses: only citations of what was found count, and a hypothesis
\* without any is dropped.
Checked(h, found) ==
    [confidence |-> Between(0, h.confidence, 10),
     cites |-> Kept(h.cites, {j \in DOMAIN h.cites : h.cites[j] \in found})]
Validated(raw, found) ==
    LET checked == [i \in DOMAIN raw |-> Checked(raw[i], found)]
    IN  Kept(checked, {i \in DOMAIN checked : checked[i].cites # <<>>})

\* What generate_hypotheses may come to, by the evidence.
Proposals == [found \in SUBSET References |-> {Validated(raw, found) : raw \in RawDrafts}]

\* validate_structurally: sure of itself on few citations.
Overconfident(h) == h.confidence >= Certain /\ Len(h.cites) < MinCited

Penalty(h, unsupported) ==
    (IF Overconfident(h) THEN 2 ELSE 0) + (IF unsupported THEN 3 ELSE 0)

\* With a plausible mistake: the indices are those of the first critique.
Penalized_First(hypotheses, indices) ==
    [i \in DOMAIN hypotheses |->
        [hypotheses[i] EXCEPT !.confidence =
            Between(0, @ - Penalty(hypotheses[i], i \in delivered.unsupported), 10)]]

\* _apply_penalties: of the hypotheses under review, by the indices of this critique.
Penalized(hypotheses, indices) ==
    [i \in DOMAIN hypotheses |->
        [hypotheses[i] EXCEPT !.confidence =
            Between(0, @ - Penalty(hypotheses[i], i \in indices), 10)]]

\* Evidence is gathered; nothing was found, so there is nothing to explain.
Gather ==
    /\ step = "gather"
    /\ evidence' \in SUBSET References
    /\ step' = IF evidence' = {} THEN "done" ELSE "hypothesize"
    /\ UNCHANGED <<context, signals, route, tries, prose, reply, draft, second, delivered>>

Delivers(hypotheses, review, verdict, unsupported) ==
    /\ delivered' = [hypotheses |-> hypotheses, review |-> review, verdict |-> verdict,
                     unsupported |-> unsupported]
    /\ step' = "done"

Rejects == Delivers(<<>>, "reviewed", "reject", {})

\* The structural check: too little evidence, or nothing that cites any.
ForCritique(hypotheses) ==
    /\ draft' = hypotheses
    /\ IF Cardinality(evidence) < MinItems \/ hypotheses = <<>> THEN Rejects
       ELSE step' = "critique" /\ UNCHANGED delivered

\* generate_hypotheses, or no hypotheses when the model fails; without any there is
\* no review, nor when it is switched off.
Hypothesize ==
    /\ step = "hypothesize"
    /\ \E hypotheses \in Proposals[evidence] :
        IF hypotheses = <<>>
        THEN Delivers(<<>>, "not_reviewed", "none", {}) /\ UNCHANGED draft
        ELSE \/ ForCritique(hypotheses)
             \/ Delivers(hypotheses, "not_reviewed", "none", {}) /\ UNCHANGED draft
    /\ UNCHANGED <<context, signals, route, tries, prose, reply, evidence, second>>

\* review_investigation: the verdict on the first draft, or on the revised one.
Criticize ==
    /\ step = "critique"
    /\ \/ Delivers(draft, "review_failed", IF second THEN "revise" ELSE "none", {})
       \/ \E verdict \in {"accept", "revise", "reject"}, indices \in SUBSET (1..3) :
            IF verdict = "accept"
            THEN Delivers(Penalized(draft, indices), "reviewed", "accept", indices)
            ELSE IF verdict = "revise" /\ ~second
            THEN /\ step' = "revise"
                 /\ delivered' = [delivered EXCEPT !.unsupported = indices]
            ELSE Rejects
    /\ UNCHANGED <<context, signals, route, tries, prose, reply, evidence, draft, second>>

\* The one revision: it fails and the first draft stays, or is judged in its turn.
Revise ==
    /\ step = "revise"
    /\ \/ Delivers(draft, "review_failed", "revise", {}) /\ UNCHANGED <<draft, second>>
       \/ /\ second' = TRUE
          /\ \E hypotheses \in Proposals[evidence] : ForCritique(hypotheses)
    /\ UNCHANGED <<context, signals, route, tries, prose, reply, evidence>>

GroundingNext ==
    \/ Retrieve \/ Evaluate \/ Assess \/ Compose \/ Verify
    \/ Gather \/ Hypothesize \/ Criticize \/ Revise

GroundingSpec == GroundingInit /\ [][GroundingNext]_groundingVars
-----------------------------------------------------------------------------
GroundingTypeOK ==
    /\ step \in {"retrieve", "evaluate", "assess", "write", "verify", "gather", "hypothesize",
                 "critique", "revise", "done"}
    /\ ToSet(context) \subseteq Passages /\ route \in {"none", "answer", "investigation"}
    /\ tries \in 0..MaxTries /\ prose \in Proses \cup {<<>>}
    /\ reply.mode \in {"none", "answered", "no_answer"} /\ reply.citations \subseteq Passages
    /\ evidence \subseteq References /\ second \in BOOLEAN
    /\ \A i \in DOMAIN draft : draft[i].confidence \in 0..10
    /\ delivered.review \in {"not_reviewed", "reviewed", "review_failed"}

\* The prompt of generate_answer asks for markers before the full stop.
MarkedAsAsked == \A i \in DOMAIN prose : prose[i].after = 0

\* No hypothesis cites a piece of evidence twice.
CitesOnce(h) == IsInjective(h.cites)

(***************************************************************************)
(* What is said rests on what was found.  An answer is given only from     *)
(* chunks (node: "should never route here with zero retrieved chunks"),    *)
(* every sentence of it is supported by one of them, and it cites chunks   *)
(* of its own context; if the model puts its markers where it was asked    *)
(* to, exactly those that a sentence which stays names.  A hypothesis      *)
(* cites evidence of this investigation, and of those whose review ended   *)
(* with "accept", one that is sure of itself on too few pieces, or found   *)
(* unsupported as it stands, has lost confidence; what was rejected is     *)
(* not there.                                                              *)
(***************************************************************************)
AnswersRest ==
    /\ route = "answer" => context # <<>>
    /\ reply.mode = "answered" =>
        /\ reply.pieces # <<>>
        /\ \A i \in DOMAIN reply.pieces :
             \E c \in ToSet(context) :
                 reply.pieces[i].claim # NoClaim /\ Support[<<reply.pieces[i].claim, c>>] # "low"
        /\ reply.citations \subseteq ToSet(context)
        /\ MarkedAsAsked =>
             \A c \in Passages : c \in reply.citations <=>
                \E i \in DOMAIN prose : \E p \in DOMAIN reply.pieces :
                    /\ prose[i].claim = reply.pieces[p].claim
                    /\ prose[i].inside \in DOMAIN context /\ context[prose[i].inside] = c
    /\ reply.mode # "answered" => reply.citations = {}

HypothesesRest ==
    step = "done" =>
        /\ \A i \in DOMAIN delivered.hypotheses :
             LET h == delivered.hypotheses[i] IN
             h.cites # <<>> /\ ToSet(h.cites) \subseteq evidence
        /\ delivered.verdict = "reject" => delivered.hypotheses = <<>>
        /\ delivered.verdict = "accept" =>
             \A i \in DOMAIN draft :
                LET sure == /\ draft[i].confidence >= Certain /\ CitesOnce(draft[i])
                            /\ Cardinality(ToSet(draft[i].cites)) < MinCited
                IN  sure \/ i \in delivered.unsupported =>
                      \/ delivered.hypotheses[i].confidence < draft[i].confidence
                      \/ delivered.hypotheses[i].confidence = 0

RepliesRest == AnswersRest /\ HypothesesRest
=============================================================================
