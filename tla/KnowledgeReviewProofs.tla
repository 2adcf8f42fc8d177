------------------------ MODULE KnowledgeReviewProofs ------------------------
(***************************************************************************)
(* The safety properties of KnowledgeReview for any number of concurrent   *)
(* requests, any set of contents and any number of edits; those of         *)
(* Evidence for any number of passes and documents; and that of Traversal  *)
(* for any graph, any bound on the depth, the nodes and the relationships. *)
(***************************************************************************)
EXTENDS KnowledgeReview, Evidence, Traversal, Foundations

\* Versions, and the copies of them, are bounded by the edits so far.
VersionsInv ==
    /\ status = "absent" => edits = 0
    /\ version <= edits + 1
    /\ \A r \in Requests : readVersion[r] <= edits + 1

\* Whichever requests are under way together are recorded.
OverlapInv ==
    \A r, s \in Requests :
        r # s /\ asks[r] # "nothing" /\ asks[s] # "nothing"
            => {asks[r], asks[s]} \in overlaps

\* A request that outlived a decision overlapped with it.
LateInv ==
    \A r \in Requests :
        /\ status = "published" /\ asks[r] \in {"edit", "reject"}
              => {"publish", asks[r]} \in overlaps
        /\ deleted /\ asks[r] = "publish" => {"publish", "reject"} \in overlaps

\* A copy is current unless a request overlapped that could change the row.
CopyInv ==
    \A r \in Requests :
        /\ asks[r] = "nothing" => text[r] = Unset
        /\ asks[r] = "publish" /\ text[r] # Unset
           /\ {"publish", "edit"} \notin overlaps => text[r] = content
        /\ asks[r] = "edit" /\ {"edit"} \notin overlaps
              => readVersion[r] = edits + 1

\* Only a publication makes a chunk.
ChunkInv == status # "published" => chunk = NoText

IInv ==
    /\ TypeOK
    /\ VersionsInv
    /\ OverlapInv
    /\ LateInv
    /\ CopyInv
    /\ ChunkInv
    /\ PublishedIsSearched
    /\ RejectedIsPurged
    /\ VersionCountsEdits

-----------------------------------------------------------------------------
\* Pairs are sets: they have no order, and a pair of equals is a singleton.
LEMMA Pairs == \A a, b : {a, b} = {b, a} /\ {a, a} = {a}
OBVIOUS

\* UnderWay is empty exactly when no request is under way.
LEMMA NobodyUnderWay ==
    UnderWay = {} <=> \A s \in Requests : asks[s] = "nothing"
BY DEF UnderWay

\* The same of the next state.
LEMMA NobodyUnderWayNext ==
    UnderWay' = {} <=> \A s \in Requests : asks'[s] = "nothing"
BY DEF UnderWay

\* What the start of a request makes true of requests and overlaps.
LEMMA Starting ==
    ASSUME TypeOK, NEW r \in Requests, NEW kind \in Kinds, Start(r, kind)
    PROVE  /\ status = "proposed" /\ ~deleted
           /\ asks[r] = "nothing"
           /\ asks' = [asks EXCEPT ![r] = kind]
           /\ overlaps \subseteq overlaps'
           /\ \A s \in Requests :
                 asks[s] # "nothing" => {kind, asks[s]} \in overlaps'
           /\ overlaps' \subseteq KindPairs
<1>1. UnderWay \subseteq Kinds
  BY DEF TypeOK, UnderWay
<1>2. \A s \in Requests : asks[s] # "nothing" => asks[s] \in UnderWay
  BY DEF UnderWay
<1>3. QED
  BY <1>1, <1>2 DEF TypeOK, Start, Owned, Pending, KindPairs

\* The initial state satisfies the invariant.
LEMMA InitIInv == Init => IInv
<1> SUFFICES ASSUME Init PROVE IInv
  OBVIOUS
<1>1. TypeOK
  <2>1. UnderWay = {}
    BY NobodyUnderWay DEF Init
  <2>2. /\ asks \in [Requests -> Kinds \cup {"nothing"}]
        /\ readVersion \in [Requests -> 0..(MaxEdits + 1)]
        /\ text \in [Requests -> Contents \cup {Unset}]
    BY MaxEditsIsNatural DEF Init, Contents
  <2>3. /\ status = "absent" /\ deleted = FALSE
        /\ version \in 0..(MaxEdits + 1) /\ edits \in 0..MaxEdits
        /\ content \in Contents /\ chunk \in Contents
        /\ overlaps \subseteq KindPairs
    BY MaxEditsIsNatural DEF Init, Contents
  <2>4. QED
    BY <2>1, <2>2, <2>3 DEF TypeOK
<1>2. VersionsInv /\ VersionCountsEdits
  BY DEF Init, VersionsInv, VersionCountsEdits
<1>3. OverlapInv /\ LateInv /\ CopyInv
  BY TextsAreTexts DEF Init, OverlapInv, LateInv, CopyInv
<1>4. ChunkInv /\ PublishedIsSearched /\ RejectedIsPurged
  BY DEF Init, ChunkInv, PublishedIsSearched, RejectedIsPurged
<1>5. QED
  BY <1>1, <1>2, <1>3, <1>4 DEF IInv

\* Proposing preserves the invariant: nobody is under way before.
LEMMA ProposeIInv ==
    ASSUME IInv, ProposeDocument
    PROVE  IInv'
<1> USE DEF IInv, ProposeDocument
<1>1. TypeOK'
  BY MaxEditsIsNatural, NobodyUnderWay, NobodyUnderWayNext
     DEF TypeOK, VersionsInv, Contents, Kinds
<1>2. VersionsInv'
  BY MaxEditsIsNatural, NobodyUnderWay
     DEF TypeOK, VersionsInv
<1>3. OverlapInv'
  BY Pairs DEF TypeOK, OverlapInv
<1>4. LateInv'
  BY Pairs DEF TypeOK, LateInv, OverlapInv, Kinds
<1>5. CopyInv'
  BY Pairs, TextsAreTexts, NobodyUnderWay
     DEF TypeOK, CopyInv, OverlapInv, VersionCountsEdits, Kinds
<1>6. ChunkInv'
  BY DEF TypeOK, ChunkInv
<1>7. PublishedIsSearched'
  BY TextsAreTexts DEF TypeOK, PublishedIsSearched, LateInv, CopyInv, ChunkInv
<1>8. RejectedIsPurged'
  BY NobodyUnderWay DEF TypeOK, RejectedIsPurged, LateInv, ChunkInv, Kinds
<1>9. VersionCountsEdits'
  BY MaxEditsIsNatural, NobodyUnderWay
     DEF TypeOK, VersionCountsEdits, CopyInv, VersionsInv
<1>10. QED
  BY <1>1, <1>2, <1>3, <1>4, <1>5, <1>6, <1>7, <1>8, <1>9

\* Starting a request preserves the invariant: it is recorded with all others.
LEMMA StartIInv ==
    ASSUME IInv, NEW r \in Requests, 
           StartPublish(r) \/ StartEdit(r) \/ StartReject(r)
    PROVE  IInv'
<1> USE DEF IInv
<1>1. PICK kind \in Kinds :
         /\ Start(r, kind)
         /\ kind = "edit" \/ text' = text
         /\ \E t \in Contents \cup {Unset} :
               text' = [text EXCEPT ![r] = t] \/ text' = text
  BY DEF StartPublish, StartEdit, StartReject, Kinds
<1>2. /\ status = "proposed" /\ ~deleted
      /\ asks[r] = "nothing"
      /\ asks' = [asks EXCEPT ![r] = kind]
      /\ readVersion' = [readVersion EXCEPT ![r] = version]
      /\ overlaps \subseteq overlaps' /\ overlaps' \subseteq KindPairs
      /\ \A s \in Requests :
            asks[s] # "nothing" => {kind, asks[s]} \in overlaps'
      /\ UNCHANGED <<status, deleted, version, content, chunk, edits>>
  BY <1>1, Starting DEF Start, row
<1> USE <1>1, <1>2
<1>3. TypeOK'
  BY MaxEditsIsNatural DEF TypeOK, VersionsInv, Contents, Kinds
<1>4. VersionsInv'
  BY MaxEditsIsNatural, NobodyUnderWay
     DEF TypeOK, VersionsInv
<1>5. OverlapInv'
  BY Pairs DEF TypeOK, OverlapInv
<1>6. LateInv'
  BY Pairs DEF TypeOK, LateInv, OverlapInv, Kinds
<1>7. CopyInv'
  BY Pairs, TextsAreTexts, NobodyUnderWay
     DEF TypeOK, CopyInv, OverlapInv, VersionCountsEdits, Kinds
<1>8. ChunkInv'
  BY DEF TypeOK, ChunkInv
<1>9. PublishedIsSearched'
  BY TextsAreTexts DEF TypeOK, PublishedIsSearched, LateInv, CopyInv, ChunkInv
<1>10. RejectedIsPurged'
  BY NobodyUnderWay DEF TypeOK, RejectedIsPurged, LateInv, ChunkInv, Kinds
<1>11. VersionCountsEdits'
  BY MaxEditsIsNatural, NobodyUnderWay
     DEF TypeOK, VersionCountsEdits, CopyInv, VersionsInv
<1>12. QED
  BY <1>3, <1>4, <1>5, <1>6, <1>7, <1>8, <1>9, <1>10, <1>11

\* Reading the content preserves the invariant.
LEMMA ReadContentIInv ==
    ASSUME IInv, NEW r \in Requests, ReadContent(r)
    PROVE  IInv'
<1> USE DEF IInv, ReadContent, row
<1>1. TypeOK'
  BY MaxEditsIsNatural, NobodyUnderWay, NobodyUnderWayNext
     DEF TypeOK, VersionsInv, Contents, Kinds
<1>2. VersionsInv'
  BY MaxEditsIsNatural, NobodyUnderWay
     DEF TypeOK, VersionsInv
<1>3. OverlapInv'
  BY Pairs DEF TypeOK, OverlapInv
<1>4. LateInv'
  BY Pairs DEF TypeOK, LateInv, OverlapInv, Kinds
<1>5. CopyInv'
  BY Pairs, TextsAreTexts, NobodyUnderWay
     DEF TypeOK, CopyInv, OverlapInv, VersionCountsEdits, Kinds
<1>6. ChunkInv'
  BY DEF TypeOK, ChunkInv
<1>7. PublishedIsSearched'
  BY TextsAreTexts DEF TypeOK, PublishedIsSearched, LateInv, CopyInv, ChunkInv
<1>8. RejectedIsPurged'
  BY NobodyUnderWay DEF TypeOK, RejectedIsPurged, LateInv, ChunkInv, Kinds
<1>9. VersionCountsEdits'
  BY MaxEditsIsNatural, NobodyUnderWay
     DEF TypeOK, VersionCountsEdits, CopyInv, VersionsInv
<1>10. QED
  BY <1>1, <1>2, <1>3, <1>4, <1>5, <1>6, <1>7, <1>8, <1>9

\* Publishing preserves the invariant.
LEMMA CommitPublishIInv ==
    ASSUME IInv, NEW r \in Requests, CommitPublish(r)
    PROVE  IInv'
<1> USE DEF IInv, CommitPublish, Embedded, Ends
<1>1. TypeOK'
  BY MaxEditsIsNatural, NobodyUnderWay, NobodyUnderWayNext
     DEF TypeOK, VersionsInv, Contents, Kinds
<1>2. VersionsInv'
  BY MaxEditsIsNatural, NobodyUnderWay
     DEF TypeOK, VersionsInv
<1>3. OverlapInv'
  BY Pairs DEF TypeOK, OverlapInv
<1>4. LateInv'
  BY Pairs DEF TypeOK, LateInv, OverlapInv, Kinds
<1>5. CopyInv'
  BY Pairs, TextsAreTexts, NobodyUnderWay
     DEF TypeOK, CopyInv, OverlapInv, VersionCountsEdits, Kinds
<1>6. ChunkInv'
  BY DEF TypeOK, ChunkInv
<1>7. PublishedIsSearched'
  BY TextsAreTexts DEF TypeOK, PublishedIsSearched, LateInv, CopyInv, ChunkInv
<1>8. RejectedIsPurged'
  BY NobodyUnderWay DEF TypeOK, RejectedIsPurged, LateInv, ChunkInv, Kinds
<1>9. VersionCountsEdits'
  BY MaxEditsIsNatural, NobodyUnderWay
     DEF TypeOK, VersionCountsEdits, CopyInv, VersionsInv
<1>10. QED
  BY <1>1, <1>2, <1>3, <1>4, <1>5, <1>6, <1>7, <1>8, <1>9

\* Editing preserves the invariant.
LEMMA CommitEditIInv ==
    ASSUME IInv, NEW r \in Requests, CommitEdit(r)
    PROVE  IInv'
<1> USE DEF IInv, CommitEdit, Bumped, Ends
<1>1. TypeOK'
  BY MaxEditsIsNatural, NobodyUnderWay, NobodyUnderWayNext
     DEF TypeOK, VersionsInv, Contents, Kinds
<1>2. VersionsInv'
  BY MaxEditsIsNatural, NobodyUnderWay
     DEF TypeOK, VersionsInv
<1>3. OverlapInv'
  BY Pairs DEF TypeOK, OverlapInv
<1>4. LateInv'
  BY Pairs DEF TypeOK, LateInv, OverlapInv, Kinds
<1>5. CopyInv'
  BY Pairs, TextsAreTexts, NobodyUnderWay
     DEF TypeOK, CopyInv, OverlapInv, VersionCountsEdits, Kinds
<1>6. ChunkInv'
  BY DEF TypeOK, ChunkInv
<1>7. PublishedIsSearched'
  BY TextsAreTexts DEF TypeOK, PublishedIsSearched, LateInv, CopyInv, ChunkInv
<1>8. RejectedIsPurged'
  BY NobodyUnderWay DEF TypeOK, RejectedIsPurged, LateInv, ChunkInv, Kinds
<1>9. VersionCountsEdits'
  BY MaxEditsIsNatural, NobodyUnderWay
     DEF TypeOK, VersionCountsEdits, CopyInv, VersionsInv
<1>10. QED
  BY <1>1, <1>2, <1>3, <1>4, <1>5, <1>6, <1>7, <1>8, <1>9

\* Rejecting preserves the invariant.
LEMMA CommitRejectIInv ==
    ASSUME IInv, NEW r \in Requests, CommitReject(r)
    PROVE  IInv'
<1> USE DEF IInv, CommitReject, Ends
<1>1. TypeOK'
  BY MaxEditsIsNatural, NobodyUnderWay, NobodyUnderWayNext
     DEF TypeOK, VersionsInv, Contents, Kinds
<1>2. VersionsInv'
  BY MaxEditsIsNatural, NobodyUnderWay
     DEF TypeOK, VersionsInv
<1>3. OverlapInv'
  BY Pairs DEF TypeOK, OverlapInv
<1>4. LateInv'
  BY Pairs DEF TypeOK, LateInv, OverlapInv, Kinds
<1>5. CopyInv'
  BY Pairs, TextsAreTexts, NobodyUnderWay
     DEF TypeOK, CopyInv, OverlapInv, VersionCountsEdits, Kinds
<1>6. ChunkInv'
  BY DEF TypeOK, ChunkInv
<1>7. PublishedIsSearched'
  BY TextsAreTexts DEF TypeOK, PublishedIsSearched, LateInv, CopyInv, ChunkInv
<1>8. RejectedIsPurged'
  BY NobodyUnderWay DEF TypeOK, RejectedIsPurged, LateInv, ChunkInv, Kinds
<1>9. VersionCountsEdits'
  BY MaxEditsIsNatural, NobodyUnderWay
     DEF TypeOK, VersionCountsEdits, CopyInv, VersionsInv
<1>10. QED
  BY <1>1, <1>2, <1>3, <1>4, <1>5, <1>6, <1>7, <1>8, <1>9

\* A failing request preserves the invariant.
LEMMA RequestFailsIInv ==
    ASSUME IInv, NEW r \in Requests, RequestFails(r)
    PROVE  IInv'
<1> USE DEF IInv, RequestFails, Ends, row
<1>1. TypeOK'
  BY MaxEditsIsNatural, NobodyUnderWay, NobodyUnderWayNext
     DEF TypeOK, VersionsInv, Contents, Kinds
<1>2. VersionsInv'
  BY MaxEditsIsNatural, NobodyUnderWay
     DEF TypeOK, VersionsInv
<1>3. OverlapInv'
  BY Pairs DEF TypeOK, OverlapInv
<1>4. LateInv'
  BY Pairs DEF TypeOK, LateInv, OverlapInv, Kinds
<1>5. CopyInv'
  BY Pairs, TextsAreTexts, NobodyUnderWay
     DEF TypeOK, CopyInv, OverlapInv, VersionCountsEdits, Kinds
<1>6. ChunkInv'
  BY DEF TypeOK, ChunkInv
<1>7. PublishedIsSearched'
  BY TextsAreTexts DEF TypeOK, PublishedIsSearched, LateInv, CopyInv, ChunkInv
<1>8. RejectedIsPurged'
  BY NobodyUnderWay DEF TypeOK, RejectedIsPurged, LateInv, ChunkInv, Kinds
<1>9. VersionCountsEdits'
  BY MaxEditsIsNatural, NobodyUnderWay
     DEF TypeOK, VersionCountsEdits, CopyInv, VersionsInv
<1>10. QED
  BY <1>1, <1>2, <1>3, <1>4, <1>5, <1>6, <1>7, <1>8, <1>9

\* Every step, and every stuttering step, preserves the invariant.
LEMMA StepIInv == IInv /\ [Next]_vars => IInv'
<1> SUFFICES ASSUME IInv, [Next]_vars PROVE IInv'
  OBVIOUS
<1>1. CASE ProposeDocument
  BY <1>1, ProposeIInv
<1>2. CASE \E r \in Requests : StartPublish(r) \/ StartEdit(r) \/ StartReject(r)
  BY <1>2, StartIInv
<1>3. CASE \E r \in Requests : ReadContent(r) \/ RequestFails(r)
  BY <1>3, ReadContentIInv, RequestFailsIInv
<1>4. CASE \E r \in Requests :
             CommitPublish(r) \/ CommitEdit(r) \/ CommitReject(r)
  BY <1>4, CommitPublishIInv, CommitEditIInv, CommitRejectIInv
<1>5. CASE UNCHANGED vars
  BY <1>5 DEF vars, IInv, TypeOK, VersionsInv, OverlapInv, LateInv, CopyInv,
              ChunkInv, PublishedIsSearched, RejectedIsPurged,
              VersionCountsEdits, UnderWay
<1>6. QED
  BY <1>1, <1>2, <1>3, <1>4, <1>5 DEF Next

\* Every reachable state satisfies the invariant.
LEMMA ReachableIInv == Spec => []IInv
BY InitIInv, StepIInv, PTL DEF Spec

-----------------------------------------------------------------------------
(***************************************************************************)
(* Type correctness: in particular the version never exceeds the number of *)
(* edits by more than one, however requests interleave.                    *)
(***************************************************************************)
THEOREM ReviewTypes == Spec => []TypeOK
<1>1. IInv => TypeOK
  BY DEF IInv
<1>2. QED
  BY <1>1, ReachableIInv, PTL

(***************************************************************************)
(* publish_document: without an edit under way at the same time, what is   *)
(* searched is the content that was published.                             *)
(***************************************************************************)
THEOREM SearchShowsThePublished == Spec => []PublishedIsSearched
<1>1. IInv => PublishedIsSearched
  BY DEF IInv
<1>2. QED
  BY <1>1, ReachableIInv, PTL

(***************************************************************************)
(* reject_document: without a publication under way at the same time, a    *)
(* rejected document stays unpublished and leaves nothing in the index.    *)
(***************************************************************************)
THEOREM RejectionLeavesNothing == Spec => []RejectedIsPurged
<1>1. IInv => RejectedIsPurged
  BY DEF IInv
<1>2. QED
  BY <1>1, ReachableIInv, PTL

(***************************************************************************)
(* The two together: the index follows publish_document, update_document   *)
(* and reject_document, for any number of requests.                        *)
(***************************************************************************)
THEOREM SearchIsReviewed == Spec => []SearchFollowsReview
<1>1. PublishedIsSearched /\ RejectedIsPurged => SearchFollowsReview
  BY DEF SearchFollowsReview
<1>2. QED
  BY <1>1, SearchShowsThePublished, RejectionLeavesNothing, PTL

(***************************************************************************)
(* update_document: without two edits under way at the same time, the      *)
(* version counts the edits.                                               *)
(***************************************************************************)
THEOREM VersionsCount == Spec => []VersionCountsEdits
<1>1. IInv => VersionCountsEdits
  BY DEF IInv
<1>2. QED
  BY <1>1, ReachableIInv, PTL

-----------------------------------------------------------------------------
(***************************************************************************)
(* Evidence: edges and findings under discovery, detection and rejection,  *)
(* for any number of passes and documents.                                 *)
(***************************************************************************)
Families == {"discover", "detect", "reject"}
Findings == [status : FindingStatus, support : Nat, evidence : SUBSET Docs]
PassRecords == [kind : PassKinds \cup {"none"}, doc : Docs \cup {NoDoc}, read : SUBSET Docs,
                copy : Findings, edge : BOOLEAN, met : SUBSET Families]

EvidenceTypes ==
    /\ docs \in [Docs -> DocStatus]
    /\ edges \in [Docs -> EdgeStatus]
    /\ finding \in Findings
    /\ passes \in [Passes -> PassRecords]
    /\ racedEdges \in SUBSET Docs
    /\ racedFinding \in BOOLEAN

\* Passes under way together have met.
MeetInv ==
    \A j, k \in Passes :
        j # k /\ passes[j].kind # "none" /\ passes[k].kind # "none"
            => Family(passes[k].kind) \in passes[j].met

\* A document is rejected by one pass at a time, and is there until then.
DocsInv ==
    /\ \A j \in Passes :
        IF passes[j].kind = "reject"
        THEN passes[j].doc \in Docs /\ docs[passes[j].doc] = "live"
        ELSE passes[j].doc = NoDoc
    /\ \A j, k \in Passes :
        j # k /\ passes[j].kind = "reject" /\ passes[k].kind = "reject"
            => passes[j].doc # passes[k].doc

\* What a discovery has read is still there, or was rejected under its eyes.
DiscoverInv ==
    \A j \in Passes : passes[j].kind = "discover" =>
        \A d \in passes[j].read :
            docs[d] = "live" \/ ("reject" \in passes[j].met /\ d \in racedEdges)

\* What a detection has read is what is there, unless it met who changes it.
DetectInv ==
    \A j \in Passes :
        /\ passes[j].kind \in {"detect", "look"} /\ passes[j].met \cap {"discover", "reject"} = {}
              => passes[j].read = ActiveEdges
        /\ passes[j].kind = "look" /\ passes[j].met \cap {"detect", "reject"} = {}
              => passes[j].copy = finding

\* And so is what a rejection has read.
RejectInv ==
    \A j \in Passes : passes[j].kind = "reject" =>
        /\ edges[passes[j].doc] = "active" /\ ~passes[j].edge => "discover" \in passes[j].met
        /\ passes[j].met \cap {"detect", "reject"} = {}
              => passes[j].copy = finding /\ passes[j].read = finding.evidence

EvidenceInv ==
    /\ EvidenceTypes /\ MeetInv /\ DocsInv /\ DiscoverInv /\ DetectInv /\ RejectInv
    /\ EvidenceStands

LEMMA NoPassIsAPass ==
    NoFinding \in Findings /\ NoPass \in PassRecords /\ NoPass.kind = "none"
    /\ NoPass.doc = NoDoc /\ NoPass.met = {}
BY DEF NoFinding, Findings, NoPass, PassRecords, FindingStatus

\* EndPass: one pass is over, and the others do not see it.
LEMMA PassEnds ==
    ASSUME EvidenceTypes, NEW j \in Passes, EndPass(j)
    PROVE  /\ passes' \in [Passes -> PassRecords]
           /\ passes'[j] = NoPass
           /\ \A k \in Passes \ {j} : passes'[k] = passes[k]
BY NoPassIsAPass DEF EvidenceTypes, EndPass

\* BeginPass: one pass begins, and all under way meet it.
LEMMA PassBegins ==
    ASSUME EvidenceTypes, NEW j \in Passes, NEW pass \in PassRecords,
           pass.kind \in Families, BeginPass(j, pass)
    PROVE  /\ passes' \in [Passes -> PassRecords]
           /\ passes[j].kind = "none"
           /\ passes'[j] = [pass EXCEPT !.met = Others(j)]
           /\ \A k \in Passes \ {j} :
                /\ passes[k].kind = "none" => passes'[k] = passes[k]
                /\ passes[k].kind # "none"
                      => passes'[k] = [passes[k] EXCEPT !.met = @ \cup {pass.kind}]
<1>1. Others(j) \in SUBSET Families
  <2>1. \A q \in Passes : passes[q].kind \in PassKinds \cup {"none"}
    BY DEF EvidenceTypes, PassRecords
  <2> QED
    BY <2>1 DEF Others, Family, PassKinds, Families
<1>2. [pass EXCEPT !.met = Others(j)] \in PassRecords
  BY <1>1 DEF PassRecords
<1>3. ASSUME NEW k \in Passes
      PROVE  [passes[k] EXCEPT !.met = @ \cup {pass.kind}] \in PassRecords
  <2>1. passes[k] \in PassRecords
    BY DEF EvidenceTypes
  <2>2. passes[k].met \cup {pass.kind} \in SUBSET Families
    BY <2>1 DEF PassRecords
  <2> QED
    BY <2>1, <2>2 DEF PassRecords
<1>4. \A k \in Passes : passes[k] \in PassRecords
  BY DEF EvidenceTypes
<1>5. passes' \in [Passes -> PassRecords]
  BY <1>2, <1>3, <1>4 DEF BeginPass
<1> QED
  BY <1>5 DEF BeginPass

\* A pass that begins reads what is there, and the others only meet it.
LEMMA BeginKeeps ==
    ASSUME EvidenceInv, NEW j \in Passes, NEW pass \in PassRecords,
           pass.kind \in Families, BeginPass(j, pass),
           UNCHANGED <<docs, edges, finding, racedEdges, racedFinding>>,
           pass.kind = "reject" =>
              /\ pass.doc \in Docs /\ docs[pass.doc] = "live"
              /\ \A k \in Passes : passes[k].doc # pass.doc
              /\ pass.edge = (edges[pass.doc] = "active")
              /\ pass.copy = finding /\ pass.read = finding.evidence,
           pass.kind # "reject" => pass.doc = NoDoc,
           pass.kind = "discover" => pass.read = Live,
           pass.kind = "detect" => pass.read = ActiveEdges
    PROVE  EvidenceInv'
<1>1. /\ passes' \in [Passes -> PassRecords]
      /\ passes[j].kind = "none"
      /\ passes'[j] = [pass EXCEPT !.met = Others(j)]
      /\ \A k \in Passes \ {j} :
           /\ passes[k].kind = "none" => passes'[k] = passes[k]
           /\ passes[k].kind # "none"
                 => passes'[k] = [passes[k] EXCEPT !.met = @ \cup {pass.kind}]
  BY PassBegins DEF EvidenceInv
<1>2. \A k \in Passes \ {j} :
        /\ passes'[k].kind = passes[k].kind /\ passes'[k].doc = passes[k].doc
        /\ passes'[k].read = passes[k].read /\ passes'[k].copy = passes[k].copy
        /\ passes'[k].edge = passes[k].edge /\ passes[k].met \subseteq passes'[k].met
        /\ passes[k].kind # "none" => pass.kind \in passes'[k].met
  <2> TAKE k \in Passes \ {j}
  <2>1. passes[k] \in PassRecords
    BY DEF EvidenceInv, EvidenceTypes
  <2>2. CASE passes[k].kind = "none"
    BY <1>1, <2>2
  <2>3. CASE passes[k].kind # "none"
    BY <1>1, <2>1, <2>3 DEF PassRecords
  <2> QED
    BY <2>2, <2>3
<1>3. /\ passes'[j].kind = pass.kind /\ passes'[j].doc = pass.doc
      /\ passes'[j].read = pass.read /\ passes'[j].copy = pass.copy
      /\ passes'[j].edge = pass.edge /\ passes'[j].met = Others(j)
  BY <1>1 DEF PassRecords
<1>4. EvidenceTypes'
  BY <1>1 DEF EvidenceInv, EvidenceTypes
<1>5. MeetInv'
  <2>1. ASSUME NEW k \in Passes \ {j}, passes[k].kind # "none"
        PROVE  /\ Family(passes'[k].kind) \in passes'[j].met
               /\ Family(passes'[j].kind) \in passes'[k].met
    BY <1>2, <1>3, <2>1 DEF Others, Family, Families
  <2>2. ASSUME NEW k \in Passes \ {j}, NEW l \in Passes \ {j}, k # l,
               passes[k].kind # "none", passes[l].kind # "none"
        PROVE  Family(passes'[l].kind) \in passes'[k].met
    BY <1>2, <2>2 DEF EvidenceInv, MeetInv
  <2> QED
    BY <1>2, <2>1, <2>2 DEF MeetInv
<1>6. DocsInv'
  BY <1>2, <1>3 DEF EvidenceInv, DocsInv
<1>7. DiscoverInv'
  <2>1. ASSUME pass.kind = "discover", NEW d \in pass.read
        PROVE  docs'[d] = "live"
    BY <2>1 DEF Live
  <2> QED
    BY <1>2, <1>3, <2>1 DEF EvidenceInv, DiscoverInv
<1>8. DetectInv'
  <2>1. ActiveEdges' = ActiveEdges
    BY DEF ActiveEdges
  <2>2. passes'[j].kind = "detect" => passes'[j].read = ActiveEdges'
    BY <1>3, <2>1
  <2>3. passes'[j].kind # "look"
    BY <1>3 DEF Families
  <2> QED
    BY <1>2, <2>1, <2>2, <2>3 DEF EvidenceInv, DetectInv
<1>9. RejectInv'
  <2>1. ASSUME pass.kind = "reject"
        PROVE  /\ ~(edges[pass.doc] = "active" /\ ~pass.edge)
               /\ pass.copy = finding /\ pass.read = finding.evidence
    BY <2>1
  <2>2. ASSUME NEW k \in Passes \ {j}, passes[k].kind = "reject"
        PROVE  /\ edges[passes[k].doc] = "active" /\ ~passes[k].edge
                     => "discover" \in passes'[k].met
               /\ passes'[k].met \cap {"detect", "reject"} = {}
                     => passes[k].copy = finding /\ passes[k].read = finding.evidence
    BY <1>2, <2>2 DEF EvidenceInv, RejectInv
  <2> QED
    BY <1>2, <1>3, <2>1, <2>2 DEF RejectInv
<1>10. EvidenceStands'
  <2>1. Live' = Live
    BY DEF Live
  <2> QED
    BY <2>1 DEF EvidenceInv, EvidenceStands, NoEdgeOfRejected, FindingIsSupported
<1> QED
  BY <1>4, <1>5, <1>6, <1>7, <1>8, <1>9, <1>10 DEF EvidenceInv

LEMMA StartsKeep ==
    ASSUME EvidenceInv, NEW j \in Passes,
           \/ StartDiscovery(j) \/ StartDetection(j) \/ \E d \in Docs : StartRejection(j, d)
    PROVE  EvidenceInv'
<1> USE NoPassIsAPass
<1>1. CASE StartDiscovery(j)
  <2> DEFINE pass == [NoPass EXCEPT !.kind = "discover", !.read = Live]
  <2>1. Live \in SUBSET Docs
    BY DEF Live
  <2>2. pass \in PassRecords /\ pass.kind = "discover" /\ pass.doc = NoDoc /\ pass.read = Live
    BY <2>1 DEF PassRecords, PassKinds
  <2>3. BeginPass(j, pass) /\ UNCHANGED <<docs, edges, finding, racedEdges, racedFinding>>
    BY <1>1 DEF StartDiscovery
  <2> HIDE DEF pass
  <2> QED
    BY <2>2, <2>3, BeginKeeps DEF Families
<1>2. CASE StartDetection(j)
  <2> DEFINE pass == [NoPass EXCEPT !.kind = "detect", !.read = ActiveEdges]
  <2>1. ActiveEdges \in SUBSET Docs
    BY DEF ActiveEdges
  <2>2. pass \in PassRecords /\ pass.kind = "detect" /\ pass.doc = NoDoc /\ pass.read = ActiveEdges
    BY <2>1 DEF PassRecords, PassKinds
  <2>3. BeginPass(j, pass) /\ UNCHANGED <<docs, edges, finding, racedEdges, racedFinding>>
    BY <1>2 DEF StartDetection
  <2> HIDE DEF pass
  <2> QED
    BY <2>2, <2>3, BeginKeeps DEF Families
<1>3. CASE \E d \in Docs : StartRejection(j, d)
  <2>1. PICK d \in Docs : StartRejection(j, d)
    BY <1>3
  <2> DEFINE found == (edges[d] = "active")
             pass == [NoPass EXCEPT !.kind = "reject", !.doc = d, !.copy = finding,
                                    !.read = finding.evidence, !.edge = found]
  <2>2. finding \in Findings /\ finding.evidence \in SUBSET Docs
    BY DEF EvidenceInv, EvidenceTypes, Findings
  <2>3. found \in BOOLEAN
    OBVIOUS
  <2>4. BeginPass(j, pass) /\ UNCHANGED <<docs, edges, finding, racedEdges, racedFinding>>
    BY <2>1 DEF StartRejection
  <2>5. docs[d] = "live" /\ \A k \in Passes : passes[k].doc # d
    BY <2>1 DEF StartRejection
  <2>6. found = (edges[d] = "active")
    OBVIOUS
  <2> HIDE DEF found
  <2>7. /\ pass \in PassRecords /\ pass.kind = "reject" /\ pass.doc = d
        /\ pass.copy = finding /\ pass.read = finding.evidence /\ pass.edge = found
    BY <2>2, <2>3 DEF PassRecords, PassKinds
  <2> HIDE DEF pass
  <2> QED
    BY <2>4, <2>5, <2>6, <2>7, BeginKeeps DEF Families
<1> QED
  BY <1>1, <1>2, <1>3

\* LookUpFinding: the copy is the finding, and nothing else changes.
LEMMA LookUpKeeps ==
    ASSUME EvidenceInv, NEW j \in Passes, LookUpFinding(j)
    PROVE  EvidenceInv'
<1>1. passes[j] \in PassRecords /\ passes[j].kind = "detect" /\ finding \in Findings
  BY DEF EvidenceInv, EvidenceTypes, LookUpFinding
<1>2. passes' = [passes EXCEPT ![j] = [@ EXCEPT !.kind = "look", !.copy = finding]]
  BY <1>1 DEF LookUpFinding, EvidenceInv, EvidenceTypes
<1>3. /\ passes'[j].kind = "look" /\ passes'[j].copy = finding
      /\ passes'[j].read = passes[j].read /\ passes'[j].met = passes[j].met
      /\ passes'[j].doc = passes[j].doc
      /\ passes'[j] \in PassRecords
  BY <1>1, <1>2 DEF EvidenceInv, EvidenceTypes, PassRecords, PassKinds
<1>4. \A k \in Passes \ {j} : passes'[k] = passes[k]
  BY <1>2 DEF EvidenceInv, EvidenceTypes
<1>5. UNCHANGED <<docs, edges, finding, racedEdges, racedFinding>>
  BY DEF LookUpFinding
<1>6. EvidenceTypes'
  BY <1>2, <1>3, <1>5 DEF EvidenceInv, EvidenceTypes
<1>7. MeetInv'
  BY <1>1, <1>3, <1>4 DEF EvidenceInv, MeetInv, Family
<1>8. DocsInv' /\ DiscoverInv' /\ RejectInv'
  <2>1. DocsInv'
    BY <1>1, <1>3, <1>4, <1>5 DEF EvidenceInv, DocsInv
  <2>2. DiscoverInv'
    BY <1>1, <1>3, <1>4, <1>5 DEF EvidenceInv, DiscoverInv
  <2>3. RejectInv'
    BY <1>1, <1>3, <1>4, <1>5 DEF EvidenceInv, RejectInv
  <2> QED
    BY <2>1, <2>2, <2>3
<1>9. DetectInv'
  <2>1. ActiveEdges' = ActiveEdges
    BY <1>5 DEF ActiveEdges
  <2> QED
    BY <1>1, <1>3, <1>4, <1>5, <2>1 DEF EvidenceInv, DetectInv
<1>10. EvidenceStands'
  <2>1. Live' = Live
    BY <1>5 DEF Live
  <2> QED
    BY <1>5, <2>1 DEF EvidenceInv, EvidenceStands, NoEdgeOfRejected, FindingIsSupported
<1> QED
  BY <1>6, <1>7, <1>8, <1>9, <1>10 DEF EvidenceInv

\* What follows for the invariants about passes alone when one of them ends.
LEMMA EndKeeps ==
    ASSUME EvidenceInv, NEW j \in Passes, EndPass(j)
    PROVE  /\ passes' \in [Passes -> PassRecords]
           /\ passes'[j].kind = "none" /\ passes'[j].doc = NoDoc
           /\ \A k \in Passes \ {j} : passes'[k] = passes[k]
           /\ MeetInv'
<1>1. /\ passes' \in [Passes -> PassRecords]
      /\ passes'[j] = NoPass
      /\ \A k \in Passes \ {j} : passes'[k] = passes[k]
  BY PassEnds DEF EvidenceInv
<1>2. MeetInv'
  BY <1>1, NoPassIsAPass DEF EvidenceInv, MeetInv
<1> QED
  BY <1>1, <1>2, NoPassIsAPass

LEMMA FailKeeps ==
    ASSUME EvidenceInv, NEW j \in Passes, PassFails(j)
    PROVE  EvidenceInv'
<1>1. /\ passes' \in [Passes -> PassRecords]
      /\ passes'[j].kind = "none" /\ passes'[j].doc = NoDoc
      /\ \A k \in Passes \ {j} : passes'[k] = passes[k]
      /\ MeetInv'
  BY EndKeeps DEF PassFails
<1>2. UNCHANGED <<docs, edges, finding, racedEdges, racedFinding>>
  BY DEF PassFails
<1>3. Live' = Live /\ ActiveEdges' = ActiveEdges
  BY <1>2 DEF Live, ActiveEdges
<1>4. EvidenceTypes'
  BY <1>1, <1>2 DEF EvidenceInv, EvidenceTypes
<1>5. DocsInv'
  BY <1>1, <1>2 DEF EvidenceInv, DocsInv
<1>6. DiscoverInv'
  BY <1>1, <1>2 DEF EvidenceInv, DiscoverInv
<1>7. DetectInv'
  BY <1>1, <1>2, <1>3 DEF EvidenceInv, DetectInv
<1>8. RejectInv'
  BY <1>1, <1>2 DEF EvidenceInv, RejectInv
<1>9. EvidenceStands'
  BY <1>2, <1>3 DEF EvidenceInv, EvidenceStands, NoEdgeOfRejected, FindingIsSupported
<1> QED
  BY <1>1, <1>4, <1>5, <1>6, <1>7, <1>8, <1>9 DEF EvidenceInv

LEMMA ProposeKeeps ==
    ASSUME EvidenceInv, NEW d \in Docs, ProposeLinked(d)
    PROVE  EvidenceInv'
<1>1. /\ docs' \in [Docs -> DocStatus]
      /\ \A e \in Docs : docs[e] # "absent" => docs'[e] = docs[e]
      /\ \A e \in Docs : docs'[e] = "rejected" => docs[e] = "rejected"
  BY DEF ProposeLinked, EvidenceInv, EvidenceTypes, DocStatus
<1>2. UNCHANGED <<edges, finding, passes, racedEdges, racedFinding>>
  BY DEF ProposeLinked
<1>3. ActiveEdges' = ActiveEdges /\ Live \subseteq Live'
  BY <1>1, <1>2 DEF ActiveEdges, Live
<1>4. EvidenceTypes'
  BY <1>1, <1>2 DEF EvidenceInv, EvidenceTypes
<1>5. MeetInv'
  BY <1>2 DEF EvidenceInv, MeetInv
<1>6. DocsInv'
  BY <1>1, <1>2 DEF EvidenceInv, DocsInv
<1>7. DiscoverInv'
  <2>1. ASSUME NEW k \in Passes, passes[k].kind = "discover", NEW e \in passes[k].read
        PROVE  docs'[e] = "live" \/ ("reject" \in passes[k].met /\ e \in racedEdges)
    <3>1. e \in Docs
      BY <2>1 DEF EvidenceInv, EvidenceTypes, PassRecords
    <3> QED
      BY <1>1, <2>1, <3>1 DEF EvidenceInv, DiscoverInv
  <2> QED
    BY <1>2, <2>1 DEF DiscoverInv
<1>8. DetectInv'
  BY <1>2, <1>3 DEF EvidenceInv, DetectInv
<1>9. RejectInv'
  BY <1>2 DEF EvidenceInv, RejectInv
<1>10. EvidenceStands'
  BY <1>1, <1>2, <1>3 DEF EvidenceInv, EvidenceStands, NoEdgeOfRejected, FindingIsSupported
<1> QED
  BY <1>4, <1>5, <1>6, <1>7, <1>8, <1>9, <1>10 DEF EvidenceInv

\* CommitDiscovery: an edge of a rejected document comes back only if the
\* rejection overlapped; a discovery that met nobody repairs them all.
LEMMA DiscoveryKeeps ==
    ASSUME EvidenceInv, NEW j \in Passes, CommitDiscovery(j)
    PROVE  EvidenceInv'
<1>1. /\ passes' \in [Passes -> PassRecords]
      /\ passes'[j].kind = "none" /\ passes'[j].doc = NoDoc
      /\ \A k \in Passes \ {j} : passes'[k] = passes[k]
      /\ MeetInv'
  BY EndKeeps DEF CommitDiscovery
<1>2. passes[j].kind = "discover" /\ UNCHANGED <<docs, finding, racedFinding>>
  BY DEF CommitDiscovery
<1>3. passes[j] \in PassRecords /\ passes[j].read \in SUBSET Docs
  BY DEF EvidenceInv, EvidenceTypes, PassRecords
<1>4. /\ edges' \in [Docs -> EdgeStatus]
      /\ \A d \in Docs : edges'[d] = Discovered(passes[j].read, d)
  <2>1. \A d \in Docs : Discovered(passes[j].read, d) \in EdgeStatus
    BY DEF Discovered, EdgeStatus, EvidenceInv, EvidenceTypes
  <2> QED
    BY <2>1 DEF CommitDiscovery
<1>5. \/ racedEdges' = racedEdges
      \/ passes[j].met \cap {"discover", "reject"} = {} /\ racedEdges' = {}
  BY DEF CommitDiscovery
<1>6. \A k \in Passes \ {j} : passes[k].kind # "none" =>
         "discover" \in passes[k].met /\ Family(passes[k].kind) \in passes[j].met
  BY <1>2 DEF EvidenceInv, MeetInv, Family
<1>7. EvidenceTypes'
  BY <1>1, <1>2, <1>4, <1>5 DEF EvidenceInv, EvidenceTypes
<1>8. DocsInv'
  BY <1>1, <1>2 DEF EvidenceInv, DocsInv
<1>9. DiscoverInv'
  <2>1. ASSUME NEW k \in Passes \ {j}, passes[k].kind = "discover"
        PROVE  racedEdges' = racedEdges
    <3>1. "discover" \in passes[j].met
      BY <1>6, <2>1 DEF Family
    <3> QED
      BY <1>5, <3>1
  <2> QED
    BY <1>1, <1>2, <2>1 DEF EvidenceInv, DiscoverInv
<1>10. DetectInv'
  BY <1>1, <1>2, <1>6 DEF EvidenceInv, DetectInv
<1>11. RejectInv'
  BY <1>1, <1>2, <1>6 DEF EvidenceInv, RejectInv
<1>12. NoEdgeOfRejected'
  <2> SUFFICES ASSUME NEW d \in Docs, docs[d] = "rejected", edges'[d] = "active"
               PROVE  d \in racedEdges'
    BY <1>2 DEF NoEdgeOfRejected
  <2>1. d \in passes[j].read
    BY <1>4 DEF Discovered
  <2>2. "reject" \in passes[j].met /\ d \in racedEdges
    BY <1>2, <2>1 DEF EvidenceInv, DiscoverInv
  <2> QED
    BY <1>5, <2>2
<1>13. FindingIsSupported'
  <2>1. Live' = Live
    BY <1>2 DEF Live
  <2> QED
    BY <1>2, <2>1 DEF EvidenceInv, EvidenceStands, FindingIsSupported
<1> QED
  BY <1>1, <1>7, <1>8, <1>9, <1>10, <1>11, <1>12, <1>13 DEF EvidenceInv, EvidenceStands

LEMMA DocSetsCount == \A S \in SUBSET Docs : Cardinality(S) \in Nat
BY EvidenceConstants, FS_Subset, FS_CardinalityType

\* What CommitDetection makes of the finding, if it met no other writer of it.
LEMMA DetectionWrites ==
    ASSUME EvidenceInv, NEW j \in Passes, CommitDetection(j)
    PROVE  /\ finding' \in Findings
           /\ passes[j].met \cap {"detect", "reject"} = {} =>
                IF Cardinality(passes[j].read) >= MinSupport
                THEN finding' = [status |-> "active", support |-> Cardinality(passes[j].read),
                                 evidence |-> passes[j].read]
                ELSE finding'.status # "active"
<1> DEFINE read == passes[j].read
           copy == passes[j].copy
<1>1. passes[j] \in PassRecords /\ finding \in Findings /\ passes[j].kind = "look"
  BY DEF EvidenceInv, EvidenceTypes, CommitDetection
<1>2. read \in SUBSET Docs /\ copy \in Findings
  BY <1>1 DEF PassRecords
<1>3. Cardinality(read) \in Nat /\ MinSupport \in Nat
  BY <1>2, DocSetsCount, EvidenceConstants
<1>4. passes[j].met \cap {"detect", "reject"} = {} => copy = finding
  BY <1>1 DEF EvidenceInv, DetectInv
<1>5. CASE Cardinality(read) >= MinSupport
  <2>1. finding' = Upserted(read, copy)
    BY <1>5 DEF CommitDetection
  <2>2. Upserted(read, copy) \in Findings
    BY <1>1, <1>2, <1>3 DEF Upserted, Findings, FindingStatus
  <2>3. copy = finding => Upserted(read, copy) =
           [status |-> "active", support |-> Cardinality(read), evidence |-> read]
    BY <1>1, <1>2, <1>3 DEF Upserted, Findings
  <2> QED
    BY <1>4, <1>5, <2>1, <2>2, <2>3
<1>6. CASE ~(Cardinality(read) >= MinSupport)
  <2>1. finding' = Deactivated
    BY <1>6 DEF CommitDetection
  <2>2. Deactivated \in Findings /\ Deactivated.status # "active"
    BY <1>1 DEF Deactivated, Findings, FindingStatus
  <2> QED
    BY <1>6, <2>1, <2>2
<1> QED
  BY <1>5, <1>6

LEMMA DetectionKeeps ==
    ASSUME EvidenceInv, NEW j \in Passes, CommitDetection(j)
    PROVE  EvidenceInv'
<1>1. /\ passes' \in [Passes -> PassRecords]
      /\ passes'[j].kind = "none" /\ passes'[j].doc = NoDoc
      /\ \A k \in Passes \ {j} : passes'[k] = passes[k]
      /\ MeetInv'
  BY EndKeeps DEF CommitDetection
<1>2. passes[j].kind = "look" /\ UNCHANGED <<docs, edges, racedEdges>>
  BY DEF CommitDetection
<1>3. racedFinding' = (\/ passes[j].met \cap {"detect", "reject"} # {}
                       \/ \E d \in passes[j].read : docs[d] # "live")
  BY DEF CommitDetection
<1>4. Live' = Live /\ ActiveEdges' = ActiveEdges
  BY <1>2 DEF Live, ActiveEdges
<1>5. \A k \in Passes \ {j} : passes[k].kind # "none" => "detect" \in passes[k].met
  BY <1>2 DEF EvidenceInv, MeetInv, Family
<1>6. EvidenceTypes'
  <2>1. racedFinding' \in BOOLEAN
    BY <1>3
  <2>2. finding' \in Findings
    BY DetectionWrites
  <2> QED
    BY <1>1, <1>2, <2>1, <2>2 DEF EvidenceInv, EvidenceTypes
<1>7. DocsInv'
  BY <1>1, <1>2 DEF EvidenceInv, DocsInv
<1>8. DiscoverInv'
  BY <1>1, <1>2 DEF EvidenceInv, DiscoverInv
<1>9. DetectInv'
  BY <1>1, <1>4, <1>5 DEF EvidenceInv, DetectInv
<1>10. RejectInv'
  BY <1>1, <1>2, <1>5 DEF EvidenceInv, RejectInv
<1>11. NoEdgeOfRejected'
  BY <1>2 DEF EvidenceInv, EvidenceStands, NoEdgeOfRejected
<1>12. FindingIsSupported'
  <2> SUFFICES ASSUME finding'.status = "active", ~racedFinding'
               PROVE  /\ finding'.support = Cardinality(finding'.evidence)
                      /\ finding'.support >= MinSupport
                      /\ finding'.evidence \subseteq Live'
    BY DEF FindingIsSupported
  <2>1. passes[j].met \cap {"detect", "reject"} = {} /\ \A d \in passes[j].read : docs[d] = "live"
    BY <1>3
  <2>2. /\ Cardinality(passes[j].read) >= MinSupport
        /\ finding' = [status |-> "active", support |-> Cardinality(passes[j].read),
                       evidence |-> passes[j].read]
    BY <2>1, DetectionWrites
  <2>3. passes[j].read \subseteq Live
    BY <2>1 DEF Live, EvidenceInv, EvidenceTypes, PassRecords
  <2> QED
    BY <1>4, <2>2, <2>3
<1> QED
  BY <1>1, <1>6, <1>7, <1>8, <1>9, <1>10, <1>11, <1>12 DEF EvidenceInv, EvidenceStands

\* What Withdrawn makes of a finding that is as it was read: the evidence goes,
\* and the finding with it if what remains is too little.
LEMMA WithdrawnIsSound ==
    ASSUME NEW d \in Docs, NEW read \in SUBSET Docs, NEW copy \in Findings,
           finding \in Findings, d \in read
    PROVE  /\ Withdrawn(d, read \ {d}, copy) \in Findings
           /\ Withdrawn(d, read \ {d}, copy).evidence = finding.evidence \ {d}
           /\ copy = finding /\ read = finding.evidence
              /\ (finding.status = "active" => finding.support = Cardinality(finding.evidence))
              /\ Withdrawn(d, read \ {d}, copy).status = "active" =>
                 /\ finding.status = "active"
                 /\ Withdrawn(d, read \ {d}, copy).support = Cardinality(finding.evidence \ {d})
                 /\ Withdrawn(d, read \ {d}, copy).support >= MinSupport
<1> DEFINE rest == read \ {d}
           left == [finding EXCEPT !.evidence = @ \ {d}]
           small == Cardinality(rest)
<1>1. small \in Nat /\ Cardinality(read) = small + 1
  <2>1. IsFiniteSet(read) /\ IsFiniteSet(rest)
    BY EvidenceConstants, FS_Subset
  <2>2. Cardinality(rest) = Cardinality(read) - 1
    BY <2>1, FS_RemoveElement
  <2>3. Cardinality(rest) \in Nat /\ Cardinality(read) \in Nat
    BY <2>1, FS_CardinalityType
  <2> QED
    BY <2>2, <2>3
<1>2. /\ left \in Findings /\ left.status = finding.status /\ left.support = finding.support
      /\ left.evidence = finding.evidence \ {d}
  BY DEF Findings
<1>3. MinSupport \in Nat
  BY EvidenceConstants
<1>4. Withdrawn(d, rest, copy) =
        CASE small < MinSupport /\ copy.status = "active" /\ finding.status = "active"
                -> [left EXCEPT !.status = "inactive"]
          [] small >= MinSupport /\ copy.support # small
                -> [left EXCEPT !.support = small]
          [] OTHER -> left
  BY DEF Withdrawn
<1> HIDE DEF left, rest, small
<1>5. CASE small < MinSupport /\ copy.status = "active" /\ finding.status = "active"
  <2>1. Withdrawn(d, rest, copy) = [left EXCEPT !.status = "inactive"]
    BY <1>1, <1>3, <1>4, <1>5
  <2>2. /\ Withdrawn(d, rest, copy) \in Findings
        /\ Withdrawn(d, rest, copy).evidence = left.evidence
        /\ Withdrawn(d, rest, copy).status # "active"
    BY <1>2, <2>1 DEF Findings, FindingStatus
  <2> QED
    BY <1>2, <2>2 DEF rest
<1>6. CASE small >= MinSupport /\ copy.support # small
  <2>1. Withdrawn(d, rest, copy) = [left EXCEPT !.support = small]
    BY <1>1, <1>3, <1>4, <1>6
  <2>2. /\ Withdrawn(d, rest, copy) \in Findings
        /\ Withdrawn(d, rest, copy).evidence = left.evidence
        /\ Withdrawn(d, rest, copy).status = left.status
        /\ Withdrawn(d, rest, copy).support = small
    BY <1>1, <1>2, <2>1 DEF Findings
  <2> QED
    BY <1>2, <1>6, <2>2 DEF rest, small
<1>7. CASE /\ ~(small < MinSupport /\ copy.status = "active" /\ finding.status = "active")
           /\ ~(small >= MinSupport /\ copy.support # small)
  <2>1. Withdrawn(d, rest, copy) = left
    BY <1>4, <1>7
  <2>2. ASSUME copy = finding, read = finding.evidence,
               finding.status = "active" => finding.support = Cardinality(finding.evidence),
               finding.status = "active"
        PROVE  FALSE
    <3>1. copy.support = small + 1
      BY <1>1, <2>2
    <3> QED
      BY <1>1, <1>3, <1>7, <2>2, <3>1
  <2> QED
    BY <1>2, <2>1, <2>2 DEF rest
<1> QED
  BY <1>5, <1>6, <1>7 DEF rest

\* What CommitRejection leaves of the finding, if it met no other writer of it.
LEMMA RejectionWrites ==
    ASSUME EvidenceInv, NEW j \in Passes, CommitRejection(j),
           NEW d, d = passes[j].doc
    PROVE  /\ finding' \in Findings
           /\ passes[j].met \cap {"detect", "reject"} = {} /\ ~racedFinding
              /\ finding'.status = "active" =>
                /\ finding'.support = Cardinality(finding'.evidence)
                /\ finding'.support >= MinSupport
                /\ finding'.evidence \subseteq Live \ {d}
<1> DEFINE read == passes[j].read
           copy == passes[j].copy
<1>1. passes[j] \in PassRecords /\ finding \in Findings /\ passes[j].kind = "reject"
  BY DEF EvidenceInv, EvidenceTypes, CommitRejection
<1>2. read \in SUBSET Docs /\ copy \in Findings /\ d \in Docs
  BY <1>1 DEF PassRecords, EvidenceInv, DocsInv
<1>3. passes[j].met \cap {"detect", "reject"} = {} => copy = finding /\ read = finding.evidence
  BY <1>1 DEF EvidenceInv, RejectInv
<1>4. ~racedFinding /\ finding.status = "active" =>
        /\ finding.support = Cardinality(finding.evidence)
        /\ finding.support >= MinSupport
        /\ finding.evidence \subseteq Live
  BY DEF EvidenceInv, EvidenceStands, FindingIsSupported
<1>5. finding' = IF d \in read THEN Withdrawn(d, read \ {d}, copy) ELSE finding
  BY DEF CommitRejection
<1> HIDE DEF read, copy
<1>6. CASE d \in read
  <2> DEFINE new == Withdrawn(d, read \ {d}, copy)
  <2>1. finding' = new
    BY <1>5, <1>6
  <2>2. /\ new \in Findings
        /\ new.evidence = finding.evidence \ {d}
        /\ copy = finding /\ read = finding.evidence
           /\ (finding.status = "active" => finding.support = Cardinality(finding.evidence))
           /\ new.status = "active" =>
              /\ finding.status = "active"
              /\ new.support = Cardinality(finding.evidence \ {d})
              /\ new.support >= MinSupport
    BY <1>1, <1>2, <1>6, WithdrawnIsSound
  <2> HIDE DEF new
  <2> QED
    BY <1>3, <1>4, <2>1, <2>2
<1>7. CASE d \notin read
  BY <1>1, <1>3, <1>4, <1>5, <1>7
<1> QED
  BY <1>6, <1>7

LEMMA RejectionKeeps ==
    ASSUME EvidenceInv, NEW j \in Passes, CommitRejection(j)
    PROVE  EvidenceInv'
<1>1. /\ passes' \in [Passes -> PassRecords]
      /\ passes'[j].kind = "none" /\ passes'[j].doc = NoDoc
      /\ \A k \in Passes \ {j} : passes'[k] = passes[k]
      /\ MeetInv'
  BY EndKeeps DEF CommitRejection
<1> DEFINE d == passes[j].doc
<1>2. passes[j].kind = "reject" /\ d \in Docs /\ docs[d] = "live"
  BY DEF CommitRejection, EvidenceInv, DocsInv
<1>3. /\ docs' \in [Docs -> DocStatus] /\ docs'[d] = "rejected"
      /\ \A e \in Docs \ {d} : docs'[e] = docs[e]
  BY <1>2 DEF CommitRejection, EvidenceInv, EvidenceTypes, DocStatus
<1>4. EdgeAfterRejection(j, d) \in EdgeStatus
      /\ (EdgeAfterRejection(j, d) = "active" => edges[d] = "active" /\ ~passes[j].edge)
  BY <1>2 DEF EdgeAfterRejection, EvidenceInv, EvidenceTypes, EdgeStatus
<1>5. /\ edges' \in [Docs -> EdgeStatus]
      /\ edges'[d] = EdgeAfterRejection(j, d)
      /\ \A e \in Docs \ {d} : edges'[e] = edges[e]
  BY <1>2, <1>4 DEF CommitRejection, EvidenceInv, EvidenceTypes
<1>6. racedEdges' = IF "discover" \in passes[j].met THEN racedEdges \cup {d} ELSE racedEdges
  BY DEF CommitRejection
<1>7. racedFinding' = (racedFinding \/ passes[j].met \cap {"detect", "reject"} # {})
  BY DEF CommitRejection
<1>8. \A k \in Passes \ {j} : passes[k].kind # "none" =>
         "reject" \in passes[k].met /\ Family(passes[k].kind) \in passes[j].met
  BY <1>2 DEF EvidenceInv, MeetInv, Family
<1>9. finding' \in Findings
  BY RejectionWrites
<1>10. EvidenceTypes'
  <2>1. racedFinding' \in BOOLEAN
    BY <1>7
  <2>2. racedEdges' \in SUBSET Docs
    BY <1>2, <1>6 DEF EvidenceInv, EvidenceTypes
  <2> QED
    BY <1>1, <1>3, <1>5, <1>9, <2>1, <2>2 DEF EvidenceTypes
<1>11. DocsInv'
  <2>1. ASSUME NEW k \in Passes \ {j}, passes[k].kind = "reject"
        PROVE  docs'[passes[k].doc] = "live" /\ passes[k].doc \in Docs \ {d}
    BY <1>2, <1>3, <2>1 DEF EvidenceInv, DocsInv
  <2> QED
    BY <1>1, <2>1 DEF EvidenceInv, DocsInv
<1>12. DiscoverInv'
  <2> SUFFICES ASSUME NEW k \in Passes \ {j}, passes[k].kind = "discover",
                      NEW e \in passes[k].read
               PROVE  docs'[e] = "live" \/ ("reject" \in passes[k].met /\ e \in racedEdges')
    BY <1>1 DEF DiscoverInv
  <2>1. "reject" \in passes[k].met /\ "discover" \in passes[j].met
    BY <1>8 DEF Family
  <2>2. e \in Docs
    BY DEF EvidenceInv, EvidenceTypes, PassRecords
  <2> QED
    BY <1>3, <1>6, <2>1, <2>2 DEF EvidenceInv, DiscoverInv
<1>13. DetectInv'
  BY <1>1, <1>8 DEF DetectInv
<1>14. RejectInv'
  <2>1. ASSUME NEW k \in Passes \ {j}, passes[k].kind = "reject"
        PROVE  passes[k].doc \in Docs \ {d}
    BY <1>2, <2>1 DEF EvidenceInv, DocsInv
  <2> QED
    BY <1>1, <1>5, <1>8, <2>1 DEF EvidenceInv, RejectInv
<1>15. NoEdgeOfRejected'
  <2> SUFFICES ASSUME NEW e \in Docs, docs'[e] = "rejected", edges'[e] = "active"
               PROVE  e \in racedEdges'
    BY DEF NoEdgeOfRejected
  <2>1. CASE e = d
    <3>1. edges[d] = "active" /\ ~passes[j].edge
      BY <1>4, <1>5, <2>1
    <3>2. "discover" \in passes[j].met
      BY <1>2, <3>1 DEF EvidenceInv, RejectInv
    <3> QED
      BY <1>6, <2>1, <3>2
  <2>2. CASE e # d
    BY <1>3, <1>5, <1>6, <2>2 DEF EvidenceInv, EvidenceStands, NoEdgeOfRejected
  <2> QED
    BY <2>1, <2>2
<1>16. FindingIsSupported'
  <2>1. Live' = Live \ {d}
    BY <1>3 DEF Live
  <2>2. ~racedFinding' => ~racedFinding /\ passes[j].met \cap {"detect", "reject"} = {}
    BY <1>7
  <2> QED
    BY <2>1, <2>2, RejectionWrites DEF FindingIsSupported
<1> QED
  BY <1>1, <1>10, <1>11, <1>12, <1>13, <1>14, <1>15, <1>16 DEF EvidenceInv, EvidenceStands

-----------------------------------------------------------------------------
\* What a detection that met no other pass makes of the finding.
Converges ==
    \A j \in Passes :
        CommitDetection(j) /\ passes[j].met = {} =>
            IF Cardinality(ActiveEdges) >= MinSupport
            THEN finding' = [status |-> "active", support |-> Cardinality(ActiveEdges),
                             evidence |-> ActiveEdges]
            ELSE finding'.status # "active"

LEMMA EvidenceBegins == EvidenceInit => EvidenceInv
<1> SUFFICES ASSUME EvidenceInit PROVE EvidenceInv
  OBVIOUS
<1> USE NoPassIsAPass DEF EvidenceInit
<1>1. EvidenceTypes
  BY DEF EvidenceTypes, DocStatus, EdgeStatus
<1>2. MeetInv /\ DocsInv /\ DiscoverInv /\ DetectInv /\ RejectInv
  BY DEF MeetInv, DocsInv, DiscoverInv, DetectInv, RejectInv
<1>3. EvidenceStands
  BY DEF EvidenceStands, NoEdgeOfRejected, FindingIsSupported, NoFinding
<1> QED
  BY <1>1, <1>2, <1>3 DEF EvidenceInv

LEMMA EvidenceStep ==
    EvidenceInv /\ [EvidenceNext]_evidenceVars => EvidenceInv' /\ Converges
<1> SUFFICES ASSUME EvidenceInv, [EvidenceNext]_evidenceVars
             PROVE  EvidenceInv' /\ Converges
  OBVIOUS
<1>1. EvidenceInv'
  <2>1. CASE UNCHANGED evidenceVars
    BY <2>1 DEF evidenceVars, EvidenceInv, EvidenceTypes, MeetInv, DocsInv, DiscoverInv,
                DetectInv, RejectInv, EvidenceStands, NoEdgeOfRejected, FindingIsSupported,
                Live, ActiveEdges
  <2>2. CASE EvidenceNext
    BY <2>2, ProposeKeeps, StartsKeep, LookUpKeeps, DiscoveryKeeps, DetectionKeeps,
       RejectionKeeps, FailKeeps DEF EvidenceNext
  <2> QED
    BY <2>1, <2>2
<1>2. Converges
  <2> SUFFICES ASSUME NEW j \in Passes, CommitDetection(j), passes[j].met = {}
               PROVE  IF Cardinality(ActiveEdges) >= MinSupport
                      THEN finding' = [status |-> "active", support |-> Cardinality(ActiveEdges),
                                       evidence |-> ActiveEdges]
                      ELSE finding'.status # "active"
    BY DEF Converges
  <2>1. passes[j].read = ActiveEdges
    BY DEF CommitDetection, EvidenceInv, DetectInv
  <2>2. passes[j].met \cap {"detect", "reject"} = {}
    OBVIOUS
  <2> QED
    BY <2>1, <2>2, DetectionWrites
<1> QED
  BY <1>1, <1>2

(***************************************************************************)
(* An edge of a rejected document is active only if a discovery overlapped *)
(* the rejection, and an active finding has the support that it states,    *)
(* all of it from live documents, unless passes disturbed each other:      *)
(* discover_document_incident_edges, _run_one_detector, reject_document.   *)
(***************************************************************************)
THEOREM EvidenceAlwaysStands == EvidenceSpec => []EvidenceStands
<1>1. EvidenceInv => EvidenceStands
  BY DEF EvidenceInv
<1> QED
  BY <1>1, EvidenceBegins, EvidenceStep, PTL DEF EvidenceSpec

(***************************************************************************)
(* A detection that met no other pass leaves the finding exactly as the    *)
(* active edges say (replace_evidence, deactivate_finding).                *)
(***************************************************************************)
THEOREM DetectionAlwaysConverges == EvidenceSpec => DetectionConverges
<1>1. [Converges]_evidenceVars <=>
        [\A j \in Passes :
            CommitDetection(j) /\ passes[j].met = {} =>
                IF Cardinality(ActiveEdges) >= MinSupport
                THEN finding' = [status |-> "active", support |-> Cardinality(ActiveEdges),
                                 evidence |-> ActiveEdges]
                ELSE finding'.status # "active"]_evidenceVars
  BY DEF Converges
<1> QED
  BY <1>1, EvidenceBegins, EvidenceStep, PTL DEF EvidenceSpec, DetectionConverges

\* Types of documents, edges, findings and passes.
THEOREM EvidenceTypesHold == EvidenceSpec => []EvidenceTypeOK
<1>1. EvidenceInv => EvidenceTypeOK
  BY DEF EvidenceInv, EvidenceTypes, EvidenceTypeOK, PassRecords, Findings
<1> QED
  BY <1>1, EvidenceBegins, EvidenceStep, PTL DEF EvidenceSpec

-----------------------------------------------------------------------------
(* Traversal: what the walk has reached is what its depth allows, and what *)
(* it has still to look at accounts for the rest, unless it says otherwise.*)

\* One step further than the entities of X.
Further(X) ==
    X \cup {n \in Entities : \E m \in X : \E e \in DirectRelationships(m) : n \in {e[1], e[2]}}

\* What the recursion computes: the origin, and one step further at each depth.
LEMMA WithinHolds ==
    /\ Within[0] = {Origin}
    /\ \A k \in 1..MaxDepth : Within[k] = Further(Within[k - 1])
<1> DEFINE V == SUBSET Entities
           step == [X \in V |-> Further(X)]
           depths == 0..MaxDepth
<1>1. {Origin} \in V /\ step \in [V -> V] /\ MaxDepth \in Nat
  BY TraversalConstants DEF Further
<1>2. PICK f : Recurs(f, MaxDepth, V, {Origin}, step)
  <2> HIDE DEF V, step
  <2> QED
    BY <1>1, RecursionOnNumbers
<1>3. \A k \in depths : k # 0 => k \in 1..MaxDepth /\ step[f[k - 1]] = Further(f[k - 1])
  <2>1. \A X \in V : step[X] = Further(X)
    OBVIOUS
  <2>2. \A k \in depths : k # 0 => k - 1 \in depths /\ k \in 1..MaxDepth
    BY <1>1
  <2> HIDE DEF V, step
  <2> QED
    BY <1>2, <2>1, <2>2 DEF Recurs
<1>4. f = [k \in depths |-> IF k = 0 THEN {Origin} ELSE Further(f[k - 1])]
  <2> HIDE DEF step
  <2> QED
    BY <1>2, <1>3 DEF Recurs
<1>5. Within = [k \in depths |-> IF k = 0 THEN {Origin} ELSE Further(Within[k - 1])]
  BY <1>4 DEF Within, Further
<1>6. 0 \in depths /\ \A k \in 1..MaxDepth : k \in depths /\ k # 0
  BY <1>1
<1> QED
  BY <1>5, <1>6

\* The walk has gone no further than its depth, and nowhere it may not.
WalkTypes ==
    /\ related \subseteq Entities \X Entities /\ Origin \notin hidden
    /\ visited \subseteq Entities /\ IsFiniteSet(visited) /\ Cardinality(visited) <= MaxNodes
    /\ seen \subseteq related /\ IsFiniteSet(seen) /\ Cardinality(seen) <= MaxRelations
    /\ depth \in 1..MaxDepth /\ truncated \in BOOLEAN

ReachInv ==
    /\ visited \subseteq Within[depth]
    /\ frontier \subseteq visited /\ frontier \subseteq Within[depth - 1]
    /\ ahead \subseteq visited
    /\ node \in visited /\ node \in Within[depth - 1]
    /\ todo \subseteq DirectRelationships(node)
    /\ \A e \in seen : \E n \in Within[depth - 1] : e \in DirectRelationships(n)

\* What has not been left out has been found: the entities of the depths before, and the
\* relationships of those that the walk has done with.
FoundInv ==
    ~truncated =>
        /\ visited = Within[depth - 1] \cup ahead
        /\ \A n \in Within[depth - 1] \ frontier :
             DirectRelationships(n) \subseteq seen \cup (IF n = node THEN todo ELSE {})
        /\ \A e \in seen : e[1] \in visited /\ e[2] \in visited

TraversalInv == WalkTypes /\ ReachInv /\ FoundInv

\* The depth is never outside its range, and each is one step further than the last.
LEMMA DepthFacts ==
    ASSUME WalkTypes
    PROVE  /\ depth \in Nat /\ depth - 1 \in 0..MaxDepth /\ depth \in 0..MaxDepth /\ depth \in 1..MaxDepth
           /\ depth < MaxDepth => depth + 1 \in 1..MaxDepth /\ (depth + 1) - 1 = depth
           /\ Within[0] = {Origin} /\ 1 - 1 = 0
           /\ Within[depth] = Further(Within[depth - 1])
<1>1. /\ depth \in Nat /\ depth - 1 \in 0..MaxDepth /\ depth \in 0..MaxDepth /\ depth \in 1..MaxDepth
      /\ depth < MaxDepth => depth + 1 \in 1..MaxDepth /\ (depth + 1) - 1 = depth
      /\ 1 - 1 = 0
  BY TraversalConstants DEF WalkTypes
<1> QED
  BY <1>1, WithinHolds

\* The walk begins at its origin.
LEMMA TraversalInitially == TraversalInit => TraversalInv
<1> SUFFICES ASSUME TraversalInit
             PROVE  WalkTypes /\ ReachInv /\ FoundInv
  BY DEF TraversalInv
<1>1. /\ visited = {Origin} /\ frontier = {Origin} /\ ahead = {} /\ depth = 1 /\ seen = {}
      /\ node = Origin /\ todo = {} /\ truncated = FALSE
      /\ related \subseteq Entities \X Entities /\ Origin \notin hidden
  BY DEF TraversalInit
<1>2. WalkTypes
  <2>1. IsFiniteSet({Origin}) /\ Cardinality({Origin}) = 1 /\ IsFiniteSet({}) /\ Cardinality({}) = 0
    BY FS_Singleton, FS_EmptySet
  <2>2. MaxNodes \in Nat \ {0} /\ MaxRelations \in Nat \ {0} /\ MaxDepth \in Nat \ {0}
        /\ Origin \in Entities
    BY TraversalConstants
  <2>3. 1 <= MaxNodes /\ 0 <= MaxRelations /\ 1 \in 1..MaxDepth
    BY <2>2
  <2> QED
    BY <1>1, <2>1, <2>2, <2>3 DEF WalkTypes
<1>3. Within[depth - 1] = {Origin} /\ {Origin} \subseteq Within[depth]
  BY <1>1, <1>2, DepthFacts DEF Further
<1>4. ReachInv
  BY <1>1, <1>3 DEF ReachInv
<1>5. FoundInv
  BY <1>1, <1>3 DEF FoundInv
<1> QED
  BY <1>2, <1>4, <1>5

\* The relationships do not change, and so neither does what can be reached.
LEMMA SameWithin ==
    ASSUME UNCHANGED <<related, hidden>>
    PROVE  /\ Within' = Within
           /\ \A n : DirectRelationships(n)' = DirectRelationships(n)
BY DEF Within, DirectRelationships

\* Every step of the walk keeps what it has reached and what it has found.
LEMMA TraversalStep == TraversalInv /\ [TraversalNext]_traversalVars => TraversalInv'
<1> SUFFICES ASSUME TraversalInv, [TraversalNext]_traversalVars
             PROVE  WalkTypes' /\ ReachInv' /\ FoundInv'
  BY DEF TraversalInv
<1>1. WalkTypes /\ ReachInv /\ FoundInv
  BY DEF TraversalInv
<1>2. related' = related /\ hidden' = hidden
  BY DEF traversalVars, TraversalNext, ExpandNode, SkipSeen, TakeRelationship, RelationCapHit, NextDepth
<1>3. /\ Within' = Within
      /\ \A n : DirectRelationships(n)' = DirectRelationships(n)
  BY <1>2, SameWithin
<1>4. /\ depth \in 1..MaxDepth /\ Within[depth] = Further(Within[depth - 1])
      /\ depth < MaxDepth => depth + 1 \in 1..MaxDepth /\ (depth + 1) - 1 = depth
      /\ depth \in Nat
  BY <1>1, DepthFacts
<1>5. CASE ExpandNode
  <2>1. /\ todo = {} /\ UNCHANGED <<related, hidden, visited, ahead, depth, seen, truncated>>
        /\ node' \in frontier /\ todo' = DirectRelationships(node')
        /\ frontier' = frontier \ {node'}
    BY <1>5 DEF ExpandNode
  <2>2. WalkTypes'
    BY <1>1, <2>1 DEF WalkTypes
  <2>3. ReachInv'
    BY <1>1, <1>3, <2>1 DEF ReachInv
  <2>4. FoundInv'
    BY <1>1, <1>3, <2>1 DEF FoundInv
  <2> QED
    BY <2>2, <2>3, <2>4
<1>6. CASE SkipSeen
  <2>1. /\ UNCHANGED <<related, hidden, visited, frontier, ahead, depth, seen, truncated, node>>
        /\ todo' \subseteq todo /\ todo \subseteq todo' \cup seen
    BY <1>6 DEF SkipSeen
  <2>2. WalkTypes'
    BY <1>1, <2>1 DEF WalkTypes
  <2>3. ReachInv'
    BY <1>1, <1>3, <2>1 DEF ReachInv
  <2>4. FoundInv'
    BY <1>1, <1>3, <2>1 DEF FoundInv
  <2> QED
    BY <2>2, <2>3, <2>4
<1>7. CASE TakeRelationship
  <2>1. PICK e \in todo \ seen :
          /\ seen' = seen \cup {e} /\ todo' = todo \ {e}
          /\ truncated' = (truncated \/ LeftOut(OtherEnd(e)))
          /\ visited' = IF Room THEN visited \cup {OtherEnd(e)} ELSE visited
          /\ ahead' = IF Room THEN ahead \cup ({OtherEnd(e)} \ visited) ELSE ahead
    BY <1>7 DEF TakeRelationship
  <2>2. /\ Cardinality(seen) < MaxRelations
        /\ UNCHANGED <<related, hidden, frontier, depth, node>>
    BY <1>7 DEF TakeRelationship
  <2>3. /\ e \in DirectRelationships(node) /\ e \in related /\ e[1] \in Entities /\ e[2] \in Entities
        /\ e[1] = node \/ e[2] = node
        /\ node \in visited /\ node \in Within[depth - 1]
    BY <1>1, <2>1 DEF ReachInv, WalkTypes, DirectRelationships
  <2>4. OtherEnd(e) \in {e[1], e[2]} /\ {e[1], e[2]} \subseteq {node, OtherEnd(e)}
    BY <2>3 DEF OtherEnd
  <2>5. OtherEnd(e) \in Entities /\ OtherEnd(e) \in Within[depth]
    BY <1>4, <2>3, <2>4 DEF Further
  <2> DEFINE other == OtherEnd(e)
  <2> HIDE DEF other
  <2>6. WalkTypes'
    <3>1. IsFiniteSet(visited') /\ Cardinality(visited') <= MaxNodes
      <4>1. IsFiniteSet(visited) /\ Cardinality(visited) \in Nat /\ Cardinality(visited) <= MaxNodes
        BY <1>1, FS_CardinalityType DEF WalkTypes
      <4>2. IsFiniteSet(visited \cup {other}) /\ Cardinality(visited \cup {other}) \in
              {Cardinality(visited), Cardinality(visited) + 1}
        BY <4>1, FS_AddElement
      <4>3. visited' = IF Room THEN visited \cup {other} ELSE visited
        BY <2>1 DEF other
      <4>4. MaxNodes \in Nat
        BY TraversalConstants
      <4> QED
        BY <4>1, <4>2, <4>3, <4>4 DEF Room
    <3>2. IsFiniteSet(seen') /\ Cardinality(seen') <= MaxRelations
      <4>1. IsFiniteSet(seen) /\ Cardinality(seen) \in Nat
        BY <1>1, FS_CardinalityType DEF WalkTypes
      <4>2. IsFiniteSet(seen \cup {e}) /\ Cardinality(seen \cup {e}) \in
              {Cardinality(seen), Cardinality(seen) + 1}
        BY <4>1, FS_AddElement
      <4>3. MaxRelations \in Nat
        BY TraversalConstants
      <4> QED
        BY <2>1, <2>2, <4>1, <4>2, <4>3
    <3>3. visited' \subseteq Entities /\ seen' \subseteq related /\ truncated' \in BOOLEAN
      BY <1>1, <2>1, <2>3, <2>5 DEF WalkTypes
    <3> QED
      BY <1>1, <1>2, <2>2, <3>1, <3>2, <3>3 DEF WalkTypes
  <2>7. ReachInv'
    BY <1>1, <1>3, <2>1, <2>2, <2>3, <2>5 DEF ReachInv
  <2>8. ~truncated' => ~truncated /\ other \in visited'
    BY <2>1 DEF LeftOut, Room, other
  <2>9. visited \subseteq visited' /\ visited' \subseteq visited \cup {other}
        /\ ahead \subseteq ahead' /\ (other \in visited' => other \in visited \/ other \in ahead')
        /\ ahead' \subseteq visited'
    BY <1>1, <2>1 DEF other, ReachInv
  <2>10. FoundInv'
    <3> SUFFICES ASSUME ~truncated'
                 PROVE  /\ visited' = Within[depth - 1] \cup ahead'
                        /\ \A n \in Within[depth - 1] \ frontier :
                             DirectRelationships(n) \subseteq seen' \cup (IF n = node THEN todo' ELSE {})
                        /\ \A d \in seen' : d[1] \in visited' /\ d[2] \in visited'
      BY <1>3, <2>2 DEF FoundInv
    <3>1. /\ visited = Within[depth - 1] \cup ahead
          /\ \A n \in Within[depth - 1] \ frontier :
               DirectRelationships(n) \subseteq seen \cup (IF n = node THEN todo ELSE {})
          /\ \A d \in seen : d[1] \in visited /\ d[2] \in visited
      BY <1>1, <2>8 DEF FoundInv
    <3>2. visited' = Within[depth - 1] \cup ahead'
      BY <2>8, <2>9, <3>1
    <3>3. \A n \in Within[depth - 1] \ frontier :
            DirectRelationships(n) \subseteq seen' \cup (IF n = node THEN todo' ELSE {})
      BY <2>1, <3>1
    <3>4. e[1] \in visited' /\ e[2] \in visited'
      BY <2>3, <2>4, <2>8, <2>9 DEF other
    <3> QED
      BY <2>1, <2>9, <3>1, <3>2, <3>3, <3>4
  <2> QED
    BY <2>6, <2>7, <2>10
<1>8. CASE RelationCapHit
  <2>1. /\ truncated' = TRUE /\ todo' = {} /\ frontier' = {}
        /\ UNCHANGED <<related, hidden, visited, ahead, depth, seen, node>>
    BY <1>8 DEF RelationCapHit
  <2> QED
    BY <1>1, <1>3, <2>1 DEF WalkTypes, ReachInv, FoundInv
<1>9. CASE NextDepth
  <2>1. /\ frontier = {} /\ todo = {} /\ depth < MaxDepth /\ depth' = depth + 1
        /\ frontier' = ahead /\ ahead' = {}
        /\ UNCHANGED <<related, hidden, visited, seen, truncated, node, todo>>
    BY <1>9 DEF NextDepth, Deeper
  <2>2. depth' - 1 = depth /\ depth' \in 1..MaxDepth /\ Within[depth'] = Further(Within[depth])
    BY <1>4, <2>1, WithinHolds
  <2>3. Within[depth - 1] \subseteq Within[depth] /\ Within[depth] \subseteq Within[depth']
    BY <1>4, <2>2 DEF Further
  <2>4. WalkTypes'
    BY <1>1, <2>1, <2>2 DEF WalkTypes
  <2>5. ReachInv'
    BY <1>1, <1>3, <2>1, <2>2, <2>3 DEF ReachInv
  <2>6. ASSUME ~truncated
        PROVE  visited = Within[depth]
    <3>1. \A n \in Within[depth - 1] : DirectRelationships(n) \subseteq seen
      BY <1>1, <2>1, <2>6 DEF FoundInv
    <3>2. Within[depth] \subseteq visited
      BY <1>1, <1>4, <2>6, <3>1 DEF FoundInv, Further
    <3> QED
      BY <1>1, <3>2 DEF ReachInv
  <2>7. FoundInv'
    BY <1>1, <1>3, <2>1, <2>2, <2>6 DEF FoundInv
  <2> QED
    BY <2>4, <2>5, <2>7
<1>10. CASE UNCHANGED traversalVars
  BY <1>1, <1>3, <1>10 DEF traversalVars, WalkTypes, ReachInv, FoundInv
<1> QED
  BY <1>5, <1>6, <1>7, <1>8, <1>9, <1>10 DEF TraversalNext

\* And so it is always.
LEMMA TraversalInvariant == TraversalSpec => []TraversalInv
BY TraversalInitially, TraversalStep, PTL DEF TraversalSpec

\* What can be reached is visible.
LEMMA WithinIsVisible ==
    ASSUME WalkTypes
    PROVE  \A k \in 0..MaxDepth : Within[k] \cap hidden = {}
<1> DEFINE P == {k \in Nat : k <= MaxDepth => Within[k] \cap hidden = {}}
<1>1. 0 \in P
  BY WithinHolds DEF WalkTypes
<1>2. ASSUME NEW k \in Nat, k \in P
      PROVE  k + 1 \in P
  <2> SUFFICES ASSUME k + 1 <= MaxDepth
               PROVE  Within[k + 1] \cap hidden = {}
    OBVIOUS
  <2>1. k + 1 \in 1..MaxDepth /\ (k + 1) - 1 = k /\ k <= MaxDepth
    BY TraversalConstants
  <2>2. Within[k + 1] = Further(Within[k])
    BY <2>1, WithinHolds
  <2> QED
    BY <1>2, <2>1, <2>2 DEF Further, DirectRelationships
<1>3. Nat \subseteq P
  <2> HIDE DEF P
  <2> QED
    BY <1>1, <1>2, NaturalsByInduction
<1> QED
  BY <1>3, TraversalConstants

\* A walk that comes to nothing new has come to all there is.
LEMMA NothingFurther ==
    ASSUME NEW k \in 0..MaxDepth, Further(Within[k]) = Within[k]
    PROVE  \A n \in k..MaxDepth : Within[n] = Within[k]
<1> DEFINE P == {n \in Nat : k + n <= MaxDepth => Within[k + n] = Within[k]}
<1>1. k \in Nat /\ MaxDepth \in Nat
  BY TraversalConstants
<1>2. 0 \in P
  BY <1>1
<1>3. ASSUME NEW n \in Nat, n \in P
      PROVE  n + 1 \in P
  <2> SUFFICES ASSUME k + (n + 1) <= MaxDepth
               PROVE  Within[k + (n + 1)] = Within[k]
    OBVIOUS
  <2>1. k + (n + 1) \in 1..MaxDepth /\ (k + (n + 1)) - 1 = k + n /\ k + n <= MaxDepth
    BY <1>1
  <2> QED
    BY <1>3, <2>1, WithinHolds
<1>4. Nat \subseteq P
  <2> HIDE DEF P
  <2> QED
    BY <1>2, <1>3, NaturalsByInduction
<1>5. \A n \in k..MaxDepth : n - k \in Nat /\ k + (n - k) = n /\ n <= MaxDepth
  BY <1>1
<1> QED
  BY <1>4, <1>5

(***************************************************************************)
(* get_neighborhood's "truncated" is honest: a neighbourhood that does not *)
(* carry it has every visible entity within the depth and every visible    *)
(* relationship of those before the last, whatever the caps; and no walk   *)
(* ever shows an entity that is hidden or too far.                         *)
(***************************************************************************)
THEOREM TraversalIsComplete == TraversalSpec => []CompleteUnlessTruncated
<1> SUFFICES ASSUME TraversalInv
             PROVE  CompleteUnlessTruncated
  BY TraversalInvariant, PTL
<1>1. WalkTypes /\ ReachInv /\ FoundInv
  BY DEF TraversalInv
<1>2. /\ depth \in 1..MaxDepth /\ depth \in 0..MaxDepth /\ depth - 1 \in 0..MaxDepth /\ depth \in Nat
      /\ Within[depth] = Further(Within[depth - 1])
  BY <1>1, DepthFacts
<1>3. visited \subseteq Within[MaxDepth] \ hidden
  <2>1. MaxDepth \in 0..MaxDepth /\ MaxDepth \in Nat
    BY TraversalConstants
  <2>2. \A n \in Nat : depth + n <= MaxDepth => Within[depth] \subseteq Within[depth + n]
    <3> DEFINE P == {n \in Nat : depth + n <= MaxDepth => Within[depth] \subseteq Within[depth + n]}
    <3>1. 0 \in P
      BY <1>2
    <3>2. ASSUME NEW n \in Nat, n \in P
          PROVE  n + 1 \in P
      <4> SUFFICES ASSUME depth + (n + 1) <= MaxDepth
                   PROVE  Within[depth] \subseteq Within[depth + (n + 1)]
        OBVIOUS
      <4>1. /\ depth + (n + 1) \in 1..MaxDepth /\ (depth + (n + 1)) - 1 = depth + n
            /\ depth + n <= MaxDepth
        BY <1>2, <2>1
      <4>2. Within[depth + (n + 1)] = Further(Within[depth + n])
        BY <4>1, WithinHolds
      <4> QED
        BY <3>2, <4>1, <4>2 DEF Further
    <3>3. Nat \subseteq P
      <4> HIDE DEF P
      <4> QED
        BY <3>1, <3>2, NaturalsByInduction
    <3> QED
      BY <3>3
  <2>3. MaxDepth - depth \in Nat /\ depth + (MaxDepth - depth) = MaxDepth
    BY <1>2, <2>1
  <2>4. Within[depth] \subseteq Within[MaxDepth]
    BY <2>1, <2>2, <2>3
  <2> QED
    BY <1>1, <2>1, <2>4, WithinIsVisible DEF ReachInv
<1>4. ASSUME WalkEnded, ~truncated
      PROVE  /\ visited = Within[MaxDepth]
             /\ seen = UNION {DirectRelationships(n) : n \in Within[MaxDepth - 1]}
  <2>1. frontier = {} /\ todo = {}
    BY <1>4 DEF WalkEnded
  <2>0. ahead = {} \/ depth >= MaxDepth
    BY <1>2, <1>4, TraversalConstants DEF WalkEnded, Deeper
  <2>2. \A n \in Within[depth - 1] : DirectRelationships(n) \subseteq seen
    BY <1>1, <1>4, <2>1 DEF FoundInv
  <2>3. seen = UNION {DirectRelationships(n) : n \in Within[depth - 1]}
    BY <1>1, <2>2 DEF ReachInv
  <2>4. visited = Within[depth]
    <3>1. Within[depth] \subseteq visited
      BY <1>1, <1>2, <1>4, <2>2 DEF FoundInv, Further
    <3> QED
      BY <1>1, <3>1 DEF ReachInv
  <2>5. CASE depth >= MaxDepth
    <3>1. depth = MaxDepth
      BY <1>2, <2>5, TraversalConstants
    <3> QED
      BY <2>3, <2>4, <3>1
  <2>6. CASE ahead = {}
    <3>1. visited = Within[depth - 1]
      BY <1>1, <1>4, <2>6 DEF FoundInv
    <3>2. \A n \in (depth - 1)..MaxDepth : Within[n] = Within[depth - 1]
      BY <1>2, <2>4, <3>1, NothingFurther
    <3>3. MaxDepth \in (depth - 1)..MaxDepth /\ MaxDepth - 1 \in (depth - 1)..MaxDepth
      BY <1>2, TraversalConstants
    <3> QED
      BY <2>3, <3>1, <3>2, <3>3
  <2> QED
    BY <2>0, <2>5, <2>6
<1> QED
  BY <1>3, <1>4 DEF CompleteUnlessTruncated

\* Types of the walk, with the caps on what it visits and records.
THEOREM TraversalTypesHold == TraversalSpec => []TraversalTypeOK
<1>1. TraversalInv => TraversalTypeOK
  BY DEF TraversalInv, WalkTypes, ReachInv, TraversalTypeOK, DirectRelationships
<1> QED
  BY <1>1, TraversalInvariant, PTL

=============================================================================
