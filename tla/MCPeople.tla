------------------------------- MODULE MCPeople -------------------------------
(***************************************************************************)
(* The instances that check what is kept of a person: the notes and their  *)
(* erasure, the way into an organization, and the sessions.  The parts     *)
(* share no state: each behaviour is one of one part, chosen in the        *)
(* initial state.                                                          *)
(***************************************************************************)
EXTENDS Erasure, Tenancy, Sessions, TLC

CONSTANT Bystander  \* a person who is not the one whose data is deleted

VARIABLE part

mcVars == <<part, erasureVars, tenancyVars, sessionVars>>

MCTableSteps == <<"refresh_tokens">>

MCInit ==
    /\ part \in {"notes", "deletion", "tenancy", "sessions"}
    /\ ErasureInit /\ TenancyInit /\ SessionInit
    /\ part # "deletion" => \A p \in Subject : invited[p]

MCNext ==
    \/ /\ part = "notes" /\ MemoryStep
       /\ UNCHANGED <<part, tenancyVars, sessionVars>>
    \/ /\ part = "deletion" /\ ErasureNext
       /\ UNCHANGED <<part, tenancyVars, sessionVars>>
    \/ /\ part = "tenancy" /\ TenancyNext
       /\ UNCHANGED <<part, erasureVars, sessionVars>>
    \/ /\ part = "sessions" /\ SessionNext
       /\ UNCHANGED <<part, erasureVars, tenancyVars>>

MCSpec == MCInit /\ [][MCNext]_mcVars

\* Notes alone are checked with two requests of anybody on three notes; while
\* data is deleted there is one request at a time, of its subject, on two.
Busy  == {s \in Sessions : work[s] # Idle}
Made  == {m \in Memories : memories[m].status # "absent"}
Focus ==
    part = "deletion" =>
        /\ Cardinality(Busy) <= 1
        /\ \A s \in Sessions : work[s].who # Bystander
        /\ Cardinality(Made) <= 2

Symmetry == Permutations(Memories) \cup Permutations(Sessions)

\* The types of all parts.
PeopleTypeOK == ErasureTypeOK /\ TenancyTypeOK /\ SessionTypeOK
=============================================================================
