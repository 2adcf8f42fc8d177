------------------------------ MODULE MCServices ------------------------------
(***************************************************************************)
(* The instances that check what serves requests: the questions put to the *)
(* agents, the report of knowledge gaps, the processing of a document,     *)
(* search, the doors, by which one comes to a session, the calls that are  *)
(* served, the pages that show all this, and what a reply rests on.        *)
(* The parts share no state: each behaviour is one of one part, chosen in  *)
(* the initial state.                                                      *)
(***************************************************************************)
EXTENDS Asks, Gaps, Processing, Retrieval, Accounts, Serving, Browser, Grounding

VARIABLE part

mcVars == <<part, askVars, gapVars, processingVars, retrievalVars,
            accountVars, servingVars, browserVars, groundingVars>>

\* Three questions of one topic: enough for a report, and one to be merged into it.
MCTopicOf == [q \in Questions |-> "t1"]

\* Code, documentation of a repository and a runbook, which is an incident's
\* postmortem, a conversation, a past incident, and what the reader may not read.
Chunk(collection, access, repo, incident, tokens) ==
    [collection |-> collection, access |-> access, repo |-> repo,
     incident |-> incident, tokens |-> tokens]

MCInfo == [c \in Chunks |->
    CASE c = "k1" -> Chunk("code", "open", TRUE, NoIncident, 2)
      [] c = "k2" -> Chunk("documentation", "open", TRUE, NoIncident, 0)
      [] c = "k3" -> Chunk("documentation", "granted", FALSE, "i1", 1)
      [] c = "k4" -> Chunk("conversations", "open", FALSE, NoIncident, 1)
      [] c = "k5" -> Chunk("incidents", "open", FALSE, NoIncident, 1)
      [] c = "k6" -> Chunk("code", "denied", FALSE, NoIncident, 1)]

\* One person belongs to both organizations, another to one of them.
MCMembers == {<<"u1", "f1">>, <<"u1", "f2">>, <<"u2", "f2">>}
MCLoginsTo == {<<"u1", "f1">>, <<"u2", "f2">>}

\* A claim that a passage supports, one that the model has to confirm, one that none does.
MCDocumentOf == [p \in Passages |-> "d1"]
MCSupport == [x \in Claims \X Passages |->
    CASE x = <<"a", "s1">> -> "high" [] x = <<"b", "s2">> -> "middle" [] OTHER -> "low"]

\* A part that does not run stays in one state.
MCInit ==
    /\ part \in {"asks", "gaps", "documents", "search", "doors", "calls", "pages", "replies"}
    /\ AskInit /\ GapInit /\ AccountInit /\ GroundingInit /\ BrowserInit /\ ServingInit
    /\ part # "asks" => critique
    /\ IF part = "documents" THEN ProcessingInit
       ELSE raw = <<>> /\ kind = "document" /\ content = Untouched /\ chunks = <<>>
    /\ IF part = "search" THEN RetrievalInit
       ELSE store = {} /\ written = {} /\ search = NoSearch /\ present = {} /\ changes = 0

MCNext ==
    \/ /\ part = "asks" /\ AskNext
       /\ UNCHANGED <<part, gapVars, processingVars, retrievalVars, accountVars,
                         servingVars, browserVars, groundingVars>>
    \/ /\ part = "gaps" /\ GapNext
       /\ UNCHANGED <<part, askVars, processingVars, retrievalVars, accountVars,
                         servingVars, browserVars, groundingVars>>
    \/ /\ part = "documents" /\ ProcessingNext
       /\ UNCHANGED <<part, askVars, gapVars, retrievalVars, accountVars, servingVars,
                         browserVars, groundingVars>>
    \/ /\ part = "search" /\ RetrievalNext
       /\ UNCHANGED <<part, askVars, gapVars, processingVars, accountVars, servingVars,
                         browserVars, groundingVars>>
    \/ /\ part = "doors" /\ AccountNext
       /\ UNCHANGED <<part, askVars, gapVars, processingVars, retrievalVars, servingVars,
                         browserVars, groundingVars>>
    \/ /\ part = "calls" /\ ServingNext
       /\ UNCHANGED <<part, askVars, gapVars, processingVars, retrievalVars, accountVars,
                         browserVars, groundingVars>>
    \/ /\ part = "pages" /\ BrowserNext
       /\ UNCHANGED <<part, askVars, gapVars, processingVars, retrievalVars, accountVars,
                         servingVars, groundingVars>>
    \/ /\ part = "replies" /\ GroundingNext
       /\ UNCHANGED <<part, askVars, gapVars, processingVars, retrievalVars, accountVars,
                         servingVars, browserVars>>

MCSpec == MCInit /\ [][MCNext]_mcVars

\* The types of the part that runs.
ServicesTypeOK ==
    /\ part = "asks"   => AskTypeOK
    /\ part = "gaps"   => GapTypeOK
    /\ part = "documents" => ProcessingTypeOK
    /\ part = "search" => RetrievalTypeOK
    /\ part = "doors" => AccountTypeOK
    /\ part = "calls" => ServingTypeOK
    /\ part = "pages" => BrowserTypeOK
    /\ part = "replies" => GroundingTypeOK

(***************************************************************************)
(* The review of a reply is that of its hypotheses (Asks), and the reply   *)
(* rests on what was found (Grounding): run by run, and sentence by        *)
(* sentence.                                                               *)
(***************************************************************************)
RepliesAreEarned == ReviewIsEarned /\ RepliesRest

(***************************************************************************)
(* A passage keeps what its document says (Processing), and a search that  *)
(* hands it over does so from what is stored and allowed (Retrieval).      *)
(***************************************************************************)
PassagesAreSound == ChunksAreExact /\ SearchIsSound
=============================================================================
