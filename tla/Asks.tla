--------------------------------- MODULE Asks ---------------------------------
(***************************************************************************)
(* Questions put to the agents (app/agents): answer_question,              *)
(* triage_incident and generate_postmortem.                                *)
(*                                                                         *)
(* An ask is one request and one database transaction, from the check of   *)
(* the budget to the commit: its row in agent_executions and the tokens    *)
(* counted in it are seen by others only when it has been committed, and   *)
(* an exception that leaves the request rolls them back.  Between the two  *)
(* it asks the language model, each time with retries.  A failed SQL       *)
(* statement whose exception is caught leaves the transaction aborted: the *)
(* statements that follow fail too.                                        *)
(***************************************************************************)
EXTENDS Naturals, FiniteSets, FiniteSetsExt

CONSTANTS
    Asks,         \* requests, numbered as they come in, each made once
    MaxRetries,   \* retries of a call to the model
    Budget,       \* tokens an organization may spend in a day
    MinEvidence   \* items below which hypotheses are rejected unseen

ASSUME AskConstants ==
    /\ Asks \subseteq Nat /\ IsFiniteSet(Asks)
    /\ MaxRetries \in Nat
    /\ Budget \in Nat \ {0}
    /\ MinEvidence \in Nat

VARIABLES
    asks,      \* what each request has come to
    window,    \* the committed rows of the last 24 hours
    critique,  \* the setting investigation_critique_enabled
    width      \* auxiliary: how many asks have been under way at one time

askVars == <<asks, window, critique, width>>

AskKinds  == {"answer_question", "triage_incident", "generate_postmortem"}
Graph     == {"rewrite", "search", "answer", "evidence", "hypotheses",
              "critique", "revision", "critique_revision", "attach"}
Pipeline  == {"timeline", "root_cause", "action_items"}
UnderWay  == Graph \cup Pipeline \cup {"finish"}
Ended     == {"done", "refused", "lost"}
Verdicts  == {"accept", "revise", "reject"}
Drafts    == {"original", "revised"}

\* A request that has not come in: no row, no tokens, no hypotheses.
NewAsk == [kind |-> "answer_question", stage |-> "new", incident |-> FALSE,
           row |-> "none", spent |-> 0, broken |-> FALSE, evidence |-> 0,
           draft |-> "none", review |-> "not_reviewed", verdict |-> "none",
           judged |-> [d \in Drafts |-> "none"], reply |-> "none"]

AskInit ==
    /\ asks = [a \in Asks |-> NewAsk]
    /\ window = {}
    /\ critique \in BOOLEAN
    /\ width = 0

-----------------------------------------------------------------------------
\* call_with_retry: the attempts of one call, and what they may cost.  An attempt
\* that the provider does not answer costs nothing, one whose answer cannot be
\* used does; one unit is what one attempt costs.
Attempts == MaxRetries + 1
Succeeding == 1..Attempts
Exhausting == 0..Attempts

\* What the requests of the last day are known to have spent.
Recorded == MapThenSumSet(LAMBDA a : asks[a].spent, window)

\* check_cost_budget raises at or above the limit.
WithinBudget == Recorded < Budget

InFlight(as) == {a \in Asks : as[a].stage \in UnderWay}

\* The request a goes on to a stage, with the fields of f changed as well.
Becomes(a, r) == asks' = [asks EXCEPT ![a] = r] /\ UNCHANGED <<window, critique, width>>

\* An exception leaves the request: get_db_session rolls everything back.  The row
\* keeps, for the record only, what had been written to it.
Raised(r) == [NewAsk EXCEPT !.stage = "lost", !.row = r.row]

\* update_agent_execution(status="failed"), then raise.
FailedAndRaised(r) == Raised([r EXCEPT !.row = "failed"])

-----------------------------------------------------------------------------
(***************************************************************************)
(* A request begins.  answer_question first recalls notes, and goes on     *)
(* without them when that fails; triage_incident reads the incident.  Then *)
(* the budget is checked and the row inserted.  With the transaction       *)
(* already aborted, or without the incident, the request fails.            *)
(***************************************************************************)
FirstStage(kind) == CASE kind = "answer_question"     -> "rewrite"
                      [] kind = "triage_incident"     -> "evidence"
                      [] kind = "generate_postmortem" -> "timeline"

ComesIn(a) == asks[a].stage = "new" /\ \A b \in Asks : b < a => asks[b].stage # "new"

BeginAsk(a, kind, incident) ==
    LET r == [asks[a] EXCEPT !.kind = kind, !.incident = incident] IN
    /\ ComesIn(a)
    /\ kind # "answer_question" => incident
    /\ asks' = [asks EXCEPT ![a] =
            IF WithinBudget
            THEN [r EXCEPT !.stage = FirstStage(kind), !.row = "running"]
            ELSE [r EXCEPT !.stage = "refused"]]
    /\ width' = IF Cardinality(InFlight(asks')) > width
                THEN Cardinality(InFlight(asks')) ELSE width
    /\ UNCHANGED <<window, critique>>

\* recall_relevant or get_incident before the row: what follows raises.
BeginAskFails(a, kind, incident) ==
    /\ ComesIn(a)
    /\ kind \in {"answer_question", "triage_incident"}
    /\ kind = "triage_incident" => incident
    /\ Becomes(a, Raised([asks[a] EXCEPT !.kind = kind, !.incident = incident]))

-----------------------------------------------------------------------------
\* There is a reply; the incident makes no difference any more.
Replies(r, reply) == [r EXCEPT !.stage = "finish", !.incident = FALSE, !.reply = reply]

\* Retrieval: rewrite_query with the incident's description, or of a vague
\* question; when the model fails the question stays as it is.
Rewrite(a) ==
    LET r == asks[a] IN
    /\ r.stage = "rewrite"
    /\ \E n \in Exhausting : Becomes(a, [r EXCEPT !.stage = "search", !.spent = @ + n])

\* The incident of the question is not there, or not for this actor.
NoSuchIncident(a) ==
    /\ asks[a].stage = "rewrite"
    /\ asks[a].incident
    /\ Becomes(a, FailedAndRaised(asks[a]))

\* What the confidence in chunks leads to.  Without chunks it is below any
\* threshold above 0; with them it is whatever the signals give.
Routes(found) == IF found THEN {"answer", "evidence"} ELSE {"evidence"}

\* hybrid search, for an incident also among incidents; a search that fails is an
\* empty one, and leaves the transaction aborted.
Search(a) ==
    LET r == asks[a] IN
    /\ r.stage = "search"
    /\ \E found \in BOOLEAN, broken \in BOOLEAN :
        \* a main search that fails finds nothing; a later one may fail alone
        /\ broken /\ found => r.incident
        /\ \E next \in Routes(found) :
            Becomes(a, [r EXCEPT !.stage = next, !.broken = broken])

\* _generate_and_verify under call_with_retry: an answer that keeps a grounded
\* sentence, or none at all.
Answer(a) ==
    LET r == asks[a] IN
    /\ r.stage = "answer"
    /\ \/ \E n \in Succeeding :
            Becomes(a, [Replies(r, "answered") EXCEPT !.spent = @ + n])
       \/ \E n \in Exhausting :
            Becomes(a, [Replies(r, "no_answer") EXCEPT !.spent = @ + n])

-----------------------------------------------------------------------------
\* gather_evidence: what the sources give together.  A source whose query fails
\* gives nothing and leaves the transaction aborted, so that the sources after it
\* give nothing either.  Items beyond MinEvidence make no difference.
Evidence(a) ==
    LET r == asks[a] IN
    /\ r.stage = "evidence"
    /\ \E n \in 0..MinEvidence, broken \in BOOLEAN :
        /\ r.broken => broken /\ n = 0
        /\ Becomes(a, [r EXCEPT !.evidence = n, !.broken = broken, !.reply = "investigation",
                                !.stage = IF n = 0 THEN "attach" ELSE "hypotheses"])

\* review_investigation is called with what generate_hypotheses gave; it does
\* nothing with nothing, or when it is switched off; too little evidence, or
\* no hypothesis left, is rejected without asking the model.  Once it is decided
\* what is delivered, how much evidence there was makes no difference any more.
Delivered(r, draft, review, verdict) ==
    [r EXCEPT !.stage = "attach", !.evidence = 0,
              !.draft = draft, !.review = review, !.verdict = verdict]

Rejected(r) == Delivered(r, "none", "reviewed", "reject")

ForReview(r, draft, stage) ==
    IF r.evidence < MinEvidence THEN Rejected(r)
    ELSE [r EXCEPT !.stage = stage, !.draft = draft]

Hypotheses(a) ==
    LET r == asks[a] IN
    /\ r.stage = "hypotheses"
    /\ \/ \* none is supported by its evidence, or the model fails
          \E n \in Exhausting :
            Becomes(a, [Delivered(r, "none", "not_reviewed", "none") EXCEPT !.spent = @ + n])
       \/ \E n \in Succeeding :
            Becomes(a, [(IF critique THEN ForReview(r, "original", "critique")
                         ELSE Delivered(r, "original", "not_reviewed", "none"))
                        EXCEPT !.spent = @ + n])

\* A verdict of the model on a draft, and what was judged.
Judged(r, n, v) == [r EXCEPT !.spent = @ + n, !.judged[r.draft] = v]

CritiqueFails(a) ==
    LET r == asks[a] IN
    /\ r.stage \in {"critique", "critique_revision"}
    /\ \E n \in Exhausting :
        Becomes(a, [Delivered(r, r.draft, "review_failed",
                              IF r.stage = "critique" THEN "none" ELSE "revise")
                    EXCEPT !.spent = @ + n])

Critique(a) ==
    \E n \in Succeeding, v \in Verdicts :
        LET r == Judged(asks[a], n, v) IN
        /\ asks[a].stage = "critique"
        /\ Becomes(a, CASE v = "accept" -> Delivered(r, r.draft, "reviewed", "accept")
                        [] v = "revise" -> [r EXCEPT !.stage = "revision"]
                        [] v = "reject" -> Rejected(r))

\* The one revision: it fails, it leaves nothing, or it is judged in its turn.
Revision(a) ==
    LET r == asks[a] IN
    /\ r.stage = "revision"
    /\ \/ \E n \in Exhausting :
            Becomes(a, [Delivered(r, r.draft, "review_failed", "revise") EXCEPT !.spent = @ + n])
       \/ \E n \in Succeeding :
            \/ Becomes(a, [Rejected(r) EXCEPT !.spent = @ + n])
            \/ Becomes(a, [ForReview(r, "revised", "critique_revision") EXCEPT !.spent = @ + n])

\* With a plausible mistake: there is no second revision, so the first one stays.
SecondVerdict_Kept(r, v) ==
    IF v = "reject" THEN Rejected(r) ELSE Delivered(r, r.draft, "reviewed", "accept")

\* With a plausible mistake: what has to be revised is, again and again.
SecondVerdict_Again(r, v) ==
    CASE v = "revise" -> [r EXCEPT !.stage = "revision"]
      [] v = "reject" -> Rejected(r)
      [] v = "accept" -> Delivered(r, r.draft, "reviewed", "accept")

\* A second "revise" has nowhere left to go.
SecondVerdict(r, v) ==
    IF v \in {"revise", "reject"} THEN Rejected(r)
    ELSE Delivered(r, r.draft, "reviewed", "accept")

CritiqueRevision(a) ==
    \E n \in Succeeding, v \in Verdicts :
        /\ asks[a].stage = "critique_revision"
        /\ Becomes(a, SecondVerdict(Judged(asks[a], n, v), v))

\* _attach_to_timeline: best effort, and a failure leaves the transaction aborted.
Attach(a) ==
    LET r == asks[a] IN
    /\ r.stage = "attach"
    /\ \/ Becomes(a, Replies(r, r.reply))
       \/ r.incident /\ Becomes(a, [Replies(r, r.reply) EXCEPT !.broken = TRUE])

-----------------------------------------------------------------------------
\* generate_postmortem: the timeline, then two calls; a call that keeps failing
\* is marked and raised.
PostmortemStep(a) ==
    LET r == asks[a] IN
    \/ /\ r.stage = "timeline"
       /\ Becomes(a, [r EXCEPT !.stage = "root_cause"])
    \/ /\ r.stage = "root_cause"
       /\ \E n \in Succeeding : Becomes(a, [r EXCEPT !.stage = "action_items", !.spent = @ + n])
    \/ /\ r.stage = "action_items"
       /\ \E n \in Succeeding :
            Becomes(a, [Replies(r, "postmortem") EXCEPT !.spent = @ + n])

PostmortemFails(a) ==
    /\ asks[a].stage \in Pipeline
    /\ \E n \in Exhausting :
        /\ asks[a].stage = "timeline" => n = 0
        /\ Becomes(a, FailedAndRaised([asks[a] EXCEPT !.spent = @ + n]))

-----------------------------------------------------------------------------
\* A node raises what it should not: the row says failed, the reply apologizes.
UnexpectedError(a) ==
    /\ asks[a].stage \in Graph
    /\ Becomes(a, [NewAsk EXCEPT !.stage = "finish", !.row = "failed", !.reply = "generic",
                                 !.kind = asks[a].kind, !.spent = asks[a].spent,
                                 !.broken = asks[a].broken])

\* The row is written and the request returns: committed, unless the transaction
\* is aborted.  Nothing but the row and its tokens is read of it any more.
FinishAsk(a) ==
    LET r == asks[a] IN
    /\ r.stage = "finish"
    /\ IF r.broken
       THEN Becomes(a, Raised(r))
       ELSE /\ asks' = [asks EXCEPT ![a] =
                    [NewAsk EXCEPT !.stage = "done", !.spent = r.spent,
                                   !.row = IF r.row = "failed" THEN "failed" ELSE "succeeded"]]
            /\ window' = window \cup {a}
            /\ UNCHANGED <<critique, width>>

\* The client goes away, or the process ends.
Cancelled(a) ==
    /\ asks[a].stage \in UnderWay
    /\ Becomes(a, Raised(asks[a]))

\* A day later.
Expire(a) ==
    /\ a \in window
    /\ window' = window \ {a}
    /\ UNCHANGED <<asks, critique, width>>

AskNext ==
    \E a \in Asks :
        \/ \E kind \in AskKinds, incident \in BOOLEAN :
                BeginAsk(a, kind, incident) \/ BeginAskFails(a, kind, incident)
        \/ Rewrite(a) \/ NoSuchIncident(a) \/ Search(a) \/ Answer(a)
        \/ Evidence(a) \/ Hypotheses(a)
        \/ Critique(a) \/ CritiqueFails(a) \/ Revision(a) \/ CritiqueRevision(a)
        \/ Attach(a)
        \/ PostmortemStep(a) \/ PostmortemFails(a)
        \/ UnexpectedError(a) \/ FinishAsk(a) \/ Cancelled(a)
        \/ Expire(a)

AskSpec == AskInit /\ [][AskNext]_askVars

-----------------------------------------------------------------------------
AskTypeOK ==
    /\ asks \in [Asks -> [
            kind : AskKinds, stage : UnderWay \cup Ended \cup {"new"}, incident : BOOLEAN,
            row : {"none", "running", "succeeded", "failed"}, spent : Nat, broken : BOOLEAN,
            evidence : 0..MinEvidence, draft : Drafts \cup {"none"},
            review : {"not_reviewed", "reviewed", "review_failed"},
            verdict : Verdicts \cup {"none"}, judged : [Drafts -> Verdicts \cup {"none"}],
            reply : {"none", "answered", "no_answer", "investigation", "generic", "postmortem"}]]
    /\ window \subseteq Asks
    /\ critique \in BOOLEAN
    /\ width \in 0..Cardinality(Asks)

(***************************************************************************)
(* The day's budget can be overrun only by the asks that were under way    *)
(* together when the last of them was let in, and by each of them by no    *)
(* more than the five calls that the longest way through the agents makes, *)
(* with their retries: the review is bounded.                              *)
(***************************************************************************)
MaxSpend == 5 * Attempts

BudgetHolds ==
    /\ Recorded <= Budget - 1 + width * MaxSpend
    /\ \A a \in Asks : asks[a].spent <= MaxSpend

(***************************************************************************)
(* What an investigation says of its own review is true: hypotheses marked *)
(* accepted are those that the critic has accepted, rejected ones are not  *)
(* delivered, and a revision is delivered only because the first draft was *)
(* sent back; when the critic could not be heard, it did not accept.       *)
(***************************************************************************)
ReviewIsEarned ==
    \A a \in Asks :
        LET r == asks[a] IN
        r.stage \in {"attach", "finish"} /\ r.reply = "investigation" =>
            /\ r.verdict = "accept" => r.review = "reviewed" /\ r.draft \in Drafts
                                       /\ r.judged[r.draft] = "accept"
            /\ r.verdict = "reject" => r.draft = "none"
            /\ r.draft = "revised" => r.judged["original"] = "revise"
            /\ r.draft \in Drafts /\ critique /\ r.verdict # "accept" =>
                    r.review = "review_failed" /\ r.judged[r.draft] \in {"none", "revise"}
=============================================================================
