---------------------------- MODULE MCSurroundings ----------------------------
(***************************************************************************)
(* The instances that check what surrounds the services: the walks over    *)
(* the sources outside, the secrets that the organizations entrust, the    *)
(* rate limiters, and what the benchmark of replies takes for true.        *)
(* The parts share no state: each behaviour is one of one part, chosen in  *)
(* the initial state.                                                      *)
(***************************************************************************)
EXTENDS MCSourceWalks, Secrets, Buckets, GroundTruth

VARIABLE part

surroundVars == <<part, walkVars, secretVars, bucketVars, truthVars>>

MCOwnerOf == [p \in Projects |-> CHOOSE o \in Orgs : TRUE]

\* A question that the evidence answers, and one that it says nothing of.
MCExpected == [c \in Corpus |-> IF c = "fabricated" THEN "no_answer" ELSE "answer"]

\* A part that does not run stays in one state.
MCInit ==
    /\ part \in {"walks", "secrets", "limits", "truth"}
    /\ WalkInit /\ SecretInit /\ BucketInit /\ GroundTruthInit
    /\ part # "walks" => source = "github"
    /\ part # "secrets" => deployed = Vault /\ secrets = [s \in Holders |-> NoSecret]
    /\ part # "limits" => limit = [rate |-> 1, capacity |-> NoCapacity, shared |-> FALSE]

MCNext ==
    \/ /\ part = "walks" /\ WalkNext
       /\ UNCHANGED <<part, secretVars, bucketVars, truthVars>>
    \/ /\ part = "secrets" /\ SecretNext
       /\ UNCHANGED <<part, walkVars, bucketVars, truthVars>>
    \/ /\ part = "limits" /\ BucketNext
       /\ UNCHANGED <<part, walkVars, secretVars, truthVars>>
    \/ /\ part = "truth" /\ GroundTruthNext
       /\ UNCHANGED <<part, walkVars, secretVars, bucketVars>>

MCSpec == MCInit /\ [][MCNext]_surroundVars

\* A constraint of the run: SharePoint, whose downloads may fail one by one,
\* leaves out one item at most, so that the other ones must be brought in.
FewLeftOut == source = "sharepoint" => Cardinality(excused) <= 1

\* The types of the part that runs.
SurroundingsTypeOK ==
    /\ part = "walks"   => TypeOKWalks
    /\ part = "secrets" => SecretTypeOK
    /\ part = "limits"  => BucketTypeOK
    /\ part = "truth"   => GroundTruthTypeOK
=============================================================================
