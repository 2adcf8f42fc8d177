------------------------------ MODULE Incidents ------------------------------
(***************************************************************************)
(* One incident and its postmortems (app/core/incidents): the incident is  *)
(* edited, investigated and resolved; a language model drafts a postmortem *)
(* for it; people edit the draft and one of them approves it.              *)
(*                                                                         *)
(* A request is one transaction.  It reads a row, decides on that copy and *)
(* writes the attributes that differ from it, with the commit: nothing is  *)
(* locked in between.  Drafting has a third step: after the model answers, *)
(* create_postmortem looks again whether a postmortem exists.              *)
(***************************************************************************)
EXTENDS Naturals, FiniteSets

CONSTANTS
    Responders, \* requests that may be under way at one time
    Drafts,     \* postmortem rows that can be made
    Causes,     \* contents of a postmortem
    NoDraft,    \* no postmortem
    MaxNotes    \* bound: timeline entries

ASSUME IncidentConstants == NoDraft \notin Drafts /\ MaxNotes \in Nat /\ Causes # {}

VARIABLES
    incident,     \* [status, resolved]: resolved says that resolved_at is set
    postmortems,  \* [status, cause]: cause stands for the content
    timeline,     \* how many entries the timeline has
    ask,          \* what each request does, with its copy of the row
    incOverlaps   \* auxiliary: the kinds of requests, of those that may harm each
                  \* other, that were under way together

incidentVars == <<incident, postmortems, timeline, ask, incOverlaps>>

IncidentStatus == {"open", "investigating", "resolved", "closed"}
Done           == {"resolved", "closed"}
DraftStatus    == {"absent", "draft", "in_review", "approved"}
Editable       == {"draft", "in_review"}

NoCause  == CHOOSE c \in Causes : TRUE
NoRow    == [status |-> "absent", cause |-> NoCause]
NoAsk    == [kind |-> "none", row |-> NoDraft, status |-> "open",
             resolved |-> FALSE, cause |-> NoCause]

IncidentInit ==
    /\ incident = [status |-> "open", resolved |-> FALSE]
    /\ postmortems = [d \in Drafts |-> NoRow]
    /\ timeline = 0
    /\ ask = [r \in Responders |-> NoAsk]
    /\ incOverlaps = {}

-----------------------------------------------------------------------------
Existing == {d \in Drafts : postmortems[d].status # "absent"}

\* The overlaps that the properties below excuse, and those that occur when
\* request r becomes one of a kind.
Excused == {{"insert"}, {"edit", "approve"}}

Races(kind, r) == Excused \cap {{kind, ask[q].kind} : q \in Responders \ {r}}

BeginAsk(r, a) ==
    /\ ask[r].kind = "none"
    /\ ask' = [ask EXCEPT ![r] = a]
    /\ incOverlaps' = incOverlaps \cup Races(a.kind, r)
    /\ UNCHANGED <<incident, postmortems, timeline>>

EndAsk(r) ==
    /\ ask' = [ask EXCEPT ![r] = NoAsk]
    /\ UNCHANGED incOverlaps

\* The request raises or is cancelled: nothing of it stays.
AskFails(r) ==
    /\ ask[r].kind # "none"
    /\ EndAsk(r)
    /\ UNCHANGED <<incident, postmortems, timeline>>

\* The copy of the incident that _get_owned_incident returns.
Copy(kind) == [NoAsk EXCEPT !.kind = kind, !.status = incident.status, !.resolved = incident.resolved]

StartUpdateIncident(r) == BeginAsk(r, Copy("update"))

\* resolved_at after a patch of the status: set, kept or cleared.
Stamp(status) == status \in Done

(***************************************************************************)
(* update_incident: what is written is what differs from the copy, not     *)
(* from the row.                                                           *)
(***************************************************************************)
CommitUpdateIncident(r) ==
    \E status \in IncidentStatus :
        /\ ask[r].kind = "update"
        /\ LET stamp == Stamp(status) IN
            incident' = [status   |-> IF status # ask[r].status THEN status ELSE incident.status,
                         resolved |-> IF stamp # ask[r].resolved THEN stamp ELSE incident.resolved]
        /\ EndAsk(r)
        /\ UNCHANGED <<postmortems, timeline>>

\* add_timeline_note, record_investigation_result: an INSERT, and nothing else.
AddTimelineEntry ==
    /\ timeline < MaxNotes
    /\ timeline' = timeline + 1
    /\ UNCHANGED <<incident, postmortems, ask, incOverlaps>>

-----------------------------------------------------------------------------
\* trigger_postmortem_generation up to the agent, which reads the timeline.
StartDraft(r) ==
    /\ incident.status \in Done
    /\ Existing = {}
    /\ BeginAsk(r, Copy("draft"))

\* With a plausible mistake: the second look is left out.
CheckAgain_Not == TRUE

\* create_postmortem: get_postmortem_by_incident_id finds none.
CheckAgain == Existing = {}

\* The model has answered; create_postmortem up to its INSERT.
LookAgain(r) ==
    /\ ask[r].kind = "draft"
    /\ CheckAgain
    /\ ask' = [ask EXCEPT ![r].kind = "insert"]
    /\ incOverlaps' = incOverlaps \cup Races("insert", r)
    /\ UNCHANGED <<incident, postmortems, timeline>>

\* insert_postmortem and the commit.  No constraint names the incident.
CommitDraft(r) ==
    \E d \in Drafts \ Existing, cause \in Causes :
        /\ ask[r].kind = "insert"
        /\ postmortems' = [postmortems EXCEPT ![d] =
                [status |-> "draft", cause |-> cause]]
        /\ EndAsk(r)
        /\ UNCHANGED <<incident, timeline>>

\* With a plausible mistake: an approved postmortem may be edited as well.
Reviewable_Approved(d) == postmortems[d].status \in Editable \cup {"approved"}

\* What update_postmortem and approve_postmortem demand of their copy.
Reviewable(d) == postmortems[d].status \in Editable

StartReview(r, kind, d) ==
    /\ Reviewable(d)
    /\ BeginAsk(r, [NoAsk EXCEPT !.kind = kind, !.row = d, !.cause = postmortems[d].cause,
                                !.status = postmortems[d].status])

\* update_postmortem: a PATCH of the content, of the status, or of both.
CommitEditPostmortem(r) ==
    \E cause \in Causes, status \in Editable :
        LET d == ask[r].row IN
        /\ ask[r].kind = "edit"
        /\ postmortems' = [postmortems EXCEPT
                ![d].status = IF status # ask[r].status THEN status ELSE @,
                ![d].cause = IF cause # ask[r].cause THEN cause ELSE @]
        /\ EndAsk(r)
        /\ UNCHANGED <<incident, timeline>>

\* approve_postmortem; the router then enqueues a sync of the runbooks.
CommitApprove(r) ==
    LET d == ask[r].row IN
    /\ ask[r].kind = "approve"
    /\ postmortems' = [postmortems EXCEPT ![d].status = "approved"]
    /\ EndAsk(r)
    /\ UNCHANGED <<incident, timeline>>

IncidentNext ==
    \/ AddTimelineEntry
    \/ \E r \in Responders :
        \/ StartUpdateIncident(r)
        \/ CommitUpdateIncident(r)
        \/ StartDraft(r)
        \/ LookAgain(r)
        \/ CommitDraft(r)
        \/ \E d \in Drafts : StartReview(r, "edit", d) \/ StartReview(r, "approve", d)
        \/ CommitEditPostmortem(r)
        \/ CommitApprove(r)
        \/ AskFails(r)

IncidentSpec == IncidentInit /\ [][IncidentNext]_incidentVars

-----------------------------------------------------------------------------
IncidentKinds == {"update", "draft", "insert", "edit", "approve"}

IncidentTypeOK ==
    /\ incident \in [status : IncidentStatus, resolved : BOOLEAN]
    /\ postmortems \in [Drafts -> [status : DraftStatus, cause : Causes]]
    /\ timeline \in 0..MaxNotes
    /\ ask \in [Responders -> [kind : IncidentKinds \cup {"none"}, row : Drafts \cup {NoDraft},
                             status : IncidentStatus \cup Editable, resolved : BOOLEAN,
                             cause : Causes]]
    /\ incOverlaps \subseteq Excused

(***************************************************************************)
(* One postmortem per incident, which get_postmortem_by_incident_id and    *)
(* the join of list_incidents_for_ingestion rely on: the second look       *)
(* narrows the race to requests that have both passed it.                  *)
(***************************************************************************)
OnePostmortem == {"insert"} \notin incOverlaps => Cardinality(Existing) <= 1

(***************************************************************************)
(* "An approved or published postmortem is a closed state machine"         *)
(* (update_postmortem): it stays approved, with the content it had when it *)
(* was approved, unless an edit was under way together with an approval.   *)
(***************************************************************************)
ApprovalIsFinal ==
    [][{"edit", "approve"} \notin incOverlaps =>
        \A d \in Drafts : postmortems[d].status = "approved"
                            => postmortems'[d] = postmortems[d]]_incidentVars

\* An incident has one postmortem, and its approval is final.
PostmortemsAreSettled == []OnePostmortem /\ ApprovalIsFinal
=============================================================================
