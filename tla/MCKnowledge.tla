----------------------------- MODULE MCKnowledge -----------------------------
(***************************************************************************)
(* The instances that check how knowledge is reviewed, derived from        *)
(* documents, walked and written up.  The four parts share no state: each  *)
(* behaviour is one of one part, chosen in the initial state.              *)
(***************************************************************************)
EXTENDS KnowledgeReview, Evidence, Traversal, Incidents

VARIABLE part

reviewVars == vars
mcVars == <<part, reviewVars, evidenceVars, traversalVars, incidentVars>>

MCInit ==
    /\ part \in {"review", "evidence", "traversal", "incidents"}
    /\ Init /\ EvidenceInit /\ IncidentInit
    /\ TraversalInit
    /\ part # "traversal" => related = {} /\ hidden = {}

MCNext ==
    \/ /\ part = "review" /\ Next
       /\ UNCHANGED <<part, evidenceVars, traversalVars, incidentVars>>
    \/ /\ part = "evidence" /\ EvidenceNext
       /\ UNCHANGED <<part, reviewVars, traversalVars, incidentVars>>
    \/ /\ part = "traversal" /\ TraversalNext
       /\ UNCHANGED <<part, reviewVars, evidenceVars, incidentVars>>
    \/ /\ part = "incidents" /\ IncidentNext
       /\ UNCHANGED <<part, reviewVars, evidenceVars, traversalVars>>

MCSpec == MCInit /\ [][MCNext]_mcVars

\* The types of all four parts.
KnowledgeTypeOK == TypeOK /\ EvidenceTypeOK /\ TraversalTypeOK /\ IncidentTypeOK
=============================================================================
