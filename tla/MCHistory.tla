------------------------------ MODULE MCHistory ------------------------------
(***************************************************************************)
(* The instances that check what ingestion keeps of a source over time:    *)
(* the versions of its items, and the walk through our own incidents and   *)
(* postmortems.  The parts share no state: each behaviour is one of one    *)
(* part, chosen in the initial state.                                      *)
(***************************************************************************)
EXTENDS Documents, InternalSync

VARIABLE part

documentVars == vars
mcVars == <<part, documentVars, syncVars>>

AllSettings   == {"incidents", "runbooks"} \X BOOLEAN
QuietRunbooks == {<<"runbooks", TRUE>>}

MCInit ==
    /\ part \in {"documents", "walks"}
    /\ Init /\ SyncInit
    /\ part = "walks" => \A i \in Items : SourceContent(i) = CHOOSE c \in Contents : TRUE
    /\ part = "documents" => setting = <<"runbooks", TRUE>>

InDocuments(A) == part = "documents" /\ A /\ UNCHANGED <<part, syncVars>>
InWalks(A) == part = "walks" /\ A /\ UNCHANGED <<part, documentVars>>

MCNext ==
    \/ InDocuments(Next)
    \/ InWalks(SyncNext)

MCSpec == MCInit /\ [][MCNext]_mcVars

\* The fairness of both parts: in a behaviour of one part no action of the
\* other is enabled.
MCFairness ==
    /\ \A s \in Syncs :
         /\ WF_mcVars(InDocuments(FetchPage(s)))
         /\ WF_mcVars(InDocuments(DuplicateRejected(s)))
         /\ \A i \in Items :
              /\ SF_mcVars(InDocuments(next[s] = i /\ GetLatestDocument(s)))
              /\ SF_mcVars(InDocuments(next[s] = i /\ InsertDocument(s)))
    /\ WF_mcVars(InWalks(SyncStep))
    /\ <>[][FailSync => SyncStep]_mcVars

MCFairSpec == MCSpec /\ MCFairness

\* The types of both parts.
HistoryTypeOK == TypeOK /\ SyncTypeOK

\* An item that is edited is ingested in the end, whatever happens to items
\* after it (EarlierItemsCatchUp of Documents), and the walks of an internal
\* connector keep ending (SyncsComplete of InternalSync).
WalksBringEdits ==
    /\ part = "documents" => EarlierItemsCatchUp
    /\ part = "walks"     => SyncsComplete
=============================================================================
