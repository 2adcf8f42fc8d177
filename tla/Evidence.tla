------------------------------ MODULE Evidence ------------------------------
(***************************************************************************)
(* What the system derives from documents about one incident: the stored   *)
(* edges "document documents incident" of the knowledge graph              *)
(* (app/core/graph), and the finding "several documents are about one      *)
(* incident" with its evidence (app/core/proactive).  A reviewer who       *)
(* rejects a proposal (app/core/knowledge) withdraws both.                 *)
(*                                                                         *)
(* Three kinds of transactions work on them: a discovery pass, a detection *)
(* pass and a rejection.  Each reads, decides on what it has read, and     *)
(* writes with its commit.  A rejection deletes evidence early and holds   *)
(* those rows until it commits.                                            *)
(***************************************************************************)
EXTENDS Naturals, FiniteSets

CONSTANTS
    Docs,       \* documents whose metadata names the incident
    NoDoc,      \* no document
    Passes,     \* transactions that may be under way at one time
    MinSupport  \* minimum_support of the finding

ASSUME EvidenceConstants ==
    /\ IsFiniteSet(Docs) /\ NoDoc \notin Docs
    /\ MinSupport \in Nat \ {0}

VARIABLES
    docs,       \* each document: absent, live (deleted_at is NULL) or rejected
    edges,      \* each document's row in knowledge_graph_edges
    finding,    \* the row in proactive_findings, with its evidence
    passes,     \* what each transaction is doing, with what it has read
    racedEdges, \* auxiliary: documents rejected while a discovery was under way
    racedFinding \* auxiliary: a pass that touched the finding was disturbed, and
                 \* none has been undisturbed since

evidenceVars == <<docs, edges, finding, passes, racedEdges, racedFinding>>

DocStatus     == {"absent", "live", "rejected"}
EdgeStatus    == {"none", "active", "removed"}
FindingStatus == {"none", "active", "inactive"}
PassKinds     == {"discover", "detect", "look", "reject"}

NoFinding == [status |-> "none", support |-> 0, evidence |-> {}]

\* doc: the one to be rejected; read: documents; copy: the finding as it was
\* read; edge: an active edge was found; met: the kinds of passes that have
\* been under way together with this one.
NoPass == [kind |-> "none", doc |-> NoDoc, read |-> {}, copy |-> NoFinding,
           edge |-> FALSE, met |-> {}]

EvidenceInit ==
    /\ docs = [d \in Docs |-> "absent"]
    /\ edges = [d \in Docs |-> "none"]
    /\ finding = NoFinding
    /\ passes = [j \in Passes |-> NoPass]
    /\ racedEdges = {}
    /\ racedFinding = FALSE

-----------------------------------------------------------------------------
Family(kind) == IF kind = "look" THEN "detect" ELSE kind

Live        == {d \in Docs : docs[d] = "live"}
ActiveEdges == {d \in Docs : edges[d] = "active"}
Others(j)   == {Family(passes[k].kind) : k \in {q \in Passes \ {j} : passes[q].kind # "none"}}

\* A pass becomes one of a kind, and meets whatever else is under way.
BeginPass(j, pass) ==
    /\ passes[j].kind = "none"
    /\ passes' = [k \in Passes |->
            CASE k = j -> [pass EXCEPT !.met = Others(j)]
              [] k # j /\ passes[k].kind # "none" -> [passes[k] EXCEPT !.met = @ \cup {pass.kind}]
              [] OTHER -> passes[k]]

EndPass(j) == passes' = [passes EXCEPT ![j] = NoPass]

\* Any failure rolls a pass back.  A detector that raises ends here as well:
\* _run_one_detector reports the error and touches no finding.
PassFails(j) ==
    /\ passes[j].kind # "none"
    /\ EndPass(j)
    /\ UNCHANGED <<docs, edges, finding, racedEdges, racedFinding>>

\* propose_document with a source_incident_id among its metadata.
ProposeLinked(d) ==
    /\ docs[d] = "absent"
    /\ docs' = [docs EXCEPT ![d] = "live"]
    /\ UNCHANGED <<edges, finding, passes, racedEdges, racedFinding>>

-----------------------------------------------------------------------------
\* discover_document_incident_edges up to the documents that are not deleted.
StartDiscovery(j) ==
    /\ BeginPass(j, [NoPass EXCEPT !.kind = "discover", !.read = Live])
    /\ UNCHANGED <<docs, edges, finding, racedEdges, racedFinding>>

\* With a plausible mistake: the pass adds edges and repairs none.
Discovered_NoRepair(read, d) == IF d \in read THEN "active" ELSE edges[d]

(***************************************************************************)
(* upsert_derived_edge creates or revives the edge of each document that   *)
(* was read; an active edge of another document that is deleted goes.      *)
(***************************************************************************)
Discovered(read, d) ==
    CASE d \in read -> "active"
      [] d \notin read /\ edges[d] = "active" /\ docs[d] # "live" -> "removed"
      [] OTHER -> edges[d]

CommitDiscovery(j) ==
    /\ passes[j].kind = "discover"
    /\ edges' = [d \in Docs |-> Discovered(passes[j].read, d)]
    /\ racedEdges' = IF passes[j].met \cap {"discover", "reject"} = {}
                     THEN {} ELSE racedEdges
    /\ EndPass(j)
    /\ UNCHANGED <<docs, finding, racedFinding>>

-----------------------------------------------------------------------------
\* _detect_incident_multi_document: the candidate is made of active edges.
StartDetection(j) ==
    /\ BeginPass(j, [NoPass EXCEPT !.kind = "detect", !.read = ActiveEdges])
    /\ UNCHANGED <<docs, edges, finding, racedEdges, racedFinding>>

\* get_finding_by_fingerprint in upsert_finding.
LookUpFinding(j) ==
    /\ passes[j].kind = "detect"
    /\ passes' = [passes EXCEPT ![j].kind = "look", ![j].copy = finding]
    /\ UNCHANGED <<docs, edges, finding, racedEdges, racedFinding>>

\* The evidence rows that a rejection under way has deleted are locked.
EvidenceLocked == \E k \in Passes : passes[k].kind = "reject" /\ passes[k].doc \in passes[k].read

\* With a plausible mistake: evidence is replaced only when the finding changes.
Upserted_KeepsEvidence(read, copy) ==
    [status |-> "active", support |-> Cardinality(read),
     evidence |-> IF copy.status = "active" /\ copy.support = Cardinality(read)
                  THEN finding.evidence ELSE read]

(***************************************************************************)
(* upsert_finding writes what differs from its copy, all of it if there    *)
(* was no row; replace_evidence writes whatever the outcome.               *)
(***************************************************************************)
Upserted(read, copy) ==
    [status   |-> IF copy.status # "active" THEN "active" ELSE finding.status,
     support  |-> IF copy.support # Cardinality(read) THEN Cardinality(read) ELSE finding.support,
     evidence |-> read]

\* With a plausible mistake: findings no longer seen are left as they are.
Deactivated_Never == finding

\* deactivate_finding keeps the evidence.
Deactivated == IF finding.status = "active" THEN [finding EXCEPT !.status = "inactive"] ELSE finding

(***************************************************************************)
(* _run_one_detector after the detector: the candidate is upserted, or an  *)
(* active finding that was not seen is deactivated.  The fingerprint is    *)
(* unique: a second row for it is refused, and the pass fails.             *)
(***************************************************************************)
CommitDetection(j) ==
    LET pass == passes[j] IN
    /\ pass.kind = "look"
    /\ IF Cardinality(pass.read) >= MinSupport
       THEN /\ pass.copy.status = "none" => finding.status = "none"
            /\ ~EvidenceLocked
            /\ finding' = Upserted(pass.read, pass.copy)
       ELSE finding' = Deactivated
    /\ racedFinding' = (\/ pass.met \cap {"detect", "reject"} # {}
                        \/ \E d \in pass.read : docs[d] # "live")
    /\ EndPass(j)
    /\ UNCHANGED <<docs, edges, racedEdges>>

-----------------------------------------------------------------------------
(***************************************************************************)
(* reject_document up to its last statement: soft_delete_document, the     *)
(* edges, remove_evidence_for_entity and the support that remains.  `read` *)
(* is the evidence before the DELETE.  A second rejection of the document  *)
(* waits for the first one's lock on its row, and finds nothing to do.     *)
(***************************************************************************)
StartRejection(j, d) ==
    /\ docs[d] = "live"
    /\ \A k \in Passes : passes[k].doc # d
    /\ BeginPass(j, [NoPass EXCEPT !.kind = "reject", !.doc = d, !.copy = finding,
                                   !.read = finding.evidence, !.edge = (edges[d] = "active")])
    /\ UNCHANGED <<docs, edges, finding, racedEdges, racedFinding>>

\* With a plausible mistake: the support is not counted again.
Withdrawn_NoRecount(d, rest, copy) == [finding EXCEPT !.evidence = @ \ {d}]

\* handle_evidence_entity_removed: deactivate, or update_support.
Withdrawn(d, rest, copy) ==
    LET left == [finding EXCEPT !.evidence = @ \ {d}] IN
    CASE Cardinality(rest) < MinSupport /\ copy.status = "active" /\ finding.status = "active"
            -> [left EXCEPT !.status = "inactive"]
      [] Cardinality(rest) >= MinSupport /\ copy.support # Cardinality(rest)
            -> [left EXCEPT !.support = Cardinality(rest)]
      [] OTHER -> left

\* With a plausible mistake: the edges are left to the next discovery.
EdgeAfterRejection_Kept(j, d) == edges[d]

\* remove_edges_for_entity, as of the time of its UPDATE.
EdgeAfterRejection(j, d) == IF passes[j].edge THEN "removed" ELSE edges[d]

CommitRejection(j) ==
    LET pass == passes[j]
        d    == pass.doc
    IN  /\ pass.kind = "reject"
        /\ docs' = [docs EXCEPT ![d] = "rejected"]
        /\ edges' = [edges EXCEPT ![d] = EdgeAfterRejection(j, d)]
        /\ finding' = IF d \in pass.read THEN Withdrawn(d, pass.read \ {d}, pass.copy) ELSE finding
        /\ racedEdges' = IF "discover" \in pass.met THEN racedEdges \cup {d} ELSE racedEdges
        /\ racedFinding' = (racedFinding \/ pass.met \cap {"detect", "reject"} # {})
        /\ EndPass(j)

EvidenceNext ==
    \/ \E d \in Docs : ProposeLinked(d)
    \/ \E j \in Passes :
        \/ StartDiscovery(j)
        \/ CommitDiscovery(j)
        \/ StartDetection(j)
        \/ LookUpFinding(j)
        \/ CommitDetection(j)
        \/ \E d \in Docs : StartRejection(j, d)
        \/ CommitRejection(j)
        \/ PassFails(j)

EvidenceSpec == EvidenceInit /\ [][EvidenceNext]_evidenceVars

-----------------------------------------------------------------------------
EvidenceTypeOK ==
    /\ docs \in [Docs -> DocStatus]
    /\ edges \in [Docs -> EdgeStatus]
    /\ finding \in [status : FindingStatus, support : Nat, evidence : SUBSET Docs]
    /\ \A j \in Passes :
        /\ passes[j].kind \in PassKinds \cup {"none"}
        /\ passes[j].doc \in Docs \cup {NoDoc}
        /\ passes[j].read \subseteq Docs
    /\ racedEdges \subseteq Docs
    /\ racedFinding \in BOOLEAN

(***************************************************************************)
(* "A rejected runbook cannot still surface as related through the graph"  *)
(* (reject_document): its edge is active only if a discovery overlapped    *)
(* the rejection, and only until a discovery that overlaps none repairs it.*)
(***************************************************************************)
NoEdgeOfRejected ==
    \A d \in Docs : docs[d] = "rejected" /\ edges[d] = "active" => d \in racedEdges

(***************************************************************************)
(* "A rejected document must not keep inflating a finding's support count" *)
(* (reject_document): an active finding has the support it states, enough  *)
(* of it, all of it from live documents, unless passes disturbed each      *)
(* other since the last one that nothing disturbed.                        *)
(***************************************************************************)
FindingIsSupported ==
    finding.status = "active" /\ ~racedFinding =>
        /\ finding.support = Cardinality(finding.evidence)
        /\ finding.support >= MinSupport
        /\ finding.evidence \subseteq Live

\* What is derived from documents stands on documents that stand.
EvidenceStands == NoEdgeOfRejected /\ FindingIsSupported

(***************************************************************************)
(* A detection that meets no other pass leaves exactly what the edges say: *)
(* replace_evidence converges also when the count happens to be the same.  *)
(***************************************************************************)
DetectionConverges ==
    [][\A j \in Passes :
        CommitDetection(j) /\ passes[j].met = {} =>
            IF Cardinality(ActiveEdges) >= MinSupport
            THEN finding' = [status |-> "active", support |-> Cardinality(ActiveEdges),
                             evidence |-> ActiveEdges]
            ELSE finding'.status # "active"
      ]_evidenceVars
=============================================================================
