-------------------------- MODULE SurroundingsProofs --------------------------
(***************************************************************************)
(* Three components around the sync, for all values of their constants.      *)
(*                                                                         *)
(* Secrets open for whoever sealed them (Secrets).  What is stored was     *)
(* sealed by a service that named its key right, and so is what a request  *)
(* is about to store: a key that is renewed, or settings that change,      *)
(* between the two, take nothing back.                                     *)
(*                                                                         *)
(* A walk passes over nothing (SourceWalks).  Whatever is out of date is   *)
(* in the next window, and every walk that is under way, or that a         *)
(* checkpoint would take up again, still comes to it: by the token it      *)
(* holds, or by the rank that the item has in a listing that is computed   *)
(* anew at every call.  Every edit that a link vouches for is ingested, or *)
(* a walk that goes on from the link still comes to it.                    *)
(*                                                                         *)
(* The benchmark's truth is earned (GroundTruth).  While commands are run  *)
(* one after the other its file is in the order of time, so the first      *)
(* annotation is of the oldest text: if that is the text of now, all are.  *)
(***************************************************************************)
EXTENDS Secrets, SourceWalks, GroundTruth, Foundations, SequenceTheorems


\* Rows, requests and what was opened, with their sets named one by one.
Rows == UNION {RowsOf(o) : o \in Orgs}
HolderOrNone == Holders \cup {NoSecret}
RowOrNone == Rows \cup {NoRow}
ProcessOrNone == Processes \cup {NoSecret}
EnvelopeOrNone == Envelopes \cup {NoSecret}
ServiceOrNone == Services \cup {NotBuilt}
SealStages == {"idle", "seal", "store", "done", "failed"}
Seals == [stage : SealStages, place : HolderOrNone, row : RowOrNone,
          process : ProcessOrNone, envelope : EnvelopeOrNone]

TypeInv ==
    /\ deployed \in Services
    /\ providers \in [Processes -> ServiceOrNone]
    /\ vault \in [reachable : BOOLEAN, version : 1..MaxVersions]
    /\ secrets \in [Holders -> EnvelopeOrNone]
    /\ rows \in [Connectors -> RowOrNone]
    /\ seals \in [Registrations -> Seals]
    /\ opened.place \in HolderOrNone /\ opened.process \in ProcessOrNone

\* The envelope names the key that wrapped it: the vault's, by a version that it has
\* made, or one of the local ones.
NamesItsKey(e) ==
    \/ e.version \in 1..vault.version /\ e.wrapped = <<Vault, e.version>>
    \/ \E key \in LocalKeys : e.wrapped = <<Local(key), 1>>

\* What a request holds between its steps.
SealInv ==
    \A r \in Registrations :
        /\ seals[r].stage \in {"seal", "store"} =>
             /\ seals[r].place \in Holders
             /\ seals[r].place \in Connectors => seals[r].row \in Rows
             /\ seals[r].process \in Processes
        /\ seals[r].stage = "store" =>
             seals[r].envelope \in Envelopes /\ NamesItsKey(seals[r].envelope)

\* What is stored.
StoredInv ==
    /\ \A place \in Holders : secrets[place] # NoSecret => NamesItsKey(secrets[place])
    /\ \A c \in Connectors : rows[c] # NoRow <=> secrets[c] # NoSecret

\* Who was refused last is not the service that sealed.
RefusedInv ==
    opened.got = "refused" =>
        /\ opened.place \in Holders /\ opened.process \in Processes
        /\ secrets[opened.place] # NoSecret
        /\ providers[opened.process] # NotBuilt
        /\ providers[opened.process] # secrets[opened.place].wrapped[1]

IndInv == TypeInv /\ SealInv /\ StoredInv /\ RefusedInv

-----------------------------------------------------------------------------
\* The services differ, and none of them is the mark of a process that has built none.
LEMMA ServiceFacts ==
    /\ Vault \in Services /\ NotBuilt \notin Services
    /\ \A key \in LocalKeys : Local(key) \in Services /\ Local(key) # Vault
    /\ \A s \in Services : s = Vault \/ \E key \in LocalKeys : s = Local(key)
<1>1. \A key : Local(key).provider = "local"
    BY DEF Local
<1>2. Vault.provider = "azure" /\ NotBuilt.provider = "none"
    BY DEF Vault, NotBuilt
<1> QED
    BY <1>1, <1>2 DEF Services

\* A row of an organization is a row.
LEMMA RowFacts ==
    /\ NoRow \notin Rows
    /\ \A row \in Rows : [row EXCEPT !.cursor = TRUE] \in Rows
<1>1. \A row \in Rows : row.organization # NoSecret
    BY SecretConstants DEF Rows, RowsOf
<1>2. NoRow.organization = NoSecret
    BY DEF NoRow
<1>3. ASSUME NEW row \in Rows PROVE [row EXCEPT !.cursor = TRUE] \in Rows
  <2>1. PICK o \in Orgs : row \in RowsOf(o)
    BY DEF Rows
  <2> DEFINE scopes == {o} \cup {p \in Projects : OwnerOf[p] = o}
  <2>2. row \in [organization : {o}, scope : scopes, cursor : BOOLEAN]
    BY <2>1 DEF RowsOf
  <2> HIDE DEF scopes
  <2>3. [row EXCEPT !.cursor = TRUE] \in [organization : {o}, scope : scopes, cursor : BOOLEAN]
    BY <2>2
  <2> QED
    BY <2>3 DEF Rows, RowsOf, scopes
<1> QED
    BY <1>1, <1>2, <1>3

\* get_kms builds the service once and keeps it.
LEMMA KmsFacts ==
    ASSUME TypeInv, NEW p \in Processes
    PROVE  /\ Kms(p) \in Services
           /\ Built(p) \in [Processes -> ServiceOrNone]
           /\ Built(p)[p] = Kms(p)
           /\ \A q \in Processes : providers[q] # NotBuilt => Built(p)[q] = providers[q]
BY ServiceFacts DEF TypeInv, Kms, Built, ServiceOrNone

\* What encrypt_secret makes names its key.
LEMMA SealedFacts ==
    ASSUME TypeInv, NEW r \in Registrations, NEW service \in Services
    PROVE  Sealed(r, service) \in Envelopes /\ NamesItsKey(Sealed(r, service))
<1> USE SecretConstants
<1>1. vault.version \in 1..MaxVersions /\ vault.version \in Nat
    BY DEF TypeInv
<1>2. r \in Plaintexts
    BY DEF Plaintexts
<1>3. CASE service = Vault
  <2>1. Sealed(r, service) =
          [text |-> r, version |-> vault.version, wrapped |-> <<Vault, vault.version>>]
    BY <1>3 DEF Sealed, Wrapped, Envelope
  <2>2. <<Vault, vault.version>> \in Wrapping /\ vault.version \in 0..LocalVersion
    BY <1>1, ServiceFacts DEF Wrapping, LocalVersion
  <2>3. Sealed(r, service) \in Envelopes
    BY <1>2, <2>1, <2>2 DEF Envelopes
  <2> QED
    BY <1>1, <2>1, <2>3 DEF NamesItsKey
<1>4. CASE service # Vault
  <2>1. Sealed(r, service) =
          [text |-> r, version |-> LocalVersion, wrapped |-> <<service, 1>>]
    BY <1>4 DEF Sealed, Wrapped, Envelope
  <2>2. <<service, 1>> \in Wrapping /\ LocalVersion \in 0..LocalVersion
    BY DEF Wrapping, LocalVersion
  <2>3. Sealed(r, service) \in Envelopes
    BY <1>2, <2>1, <2>2 DEF Envelopes
  <2> QED
    BY <1>4, <2>1, <2>3, ServiceFacts DEF NamesItsKey
<1> QED
    BY <1>3, <1>4

\* Whoever sealed an envelope opens it, when he is within reach; nobody is refused by
\* the service that sealed.
LEMMA OpenFacts ==
    ASSUME TypeInv, NEW e \in Envelopes, NamesItsKey(e), NEW service \in Services
    PROVE  /\ Open(service, e) \in {e.text, "refused", "unreachable"}
           /\ e.text # "refused"
           /\ service = e.wrapped[1] => Open(service, e) # "refused"
           /\ service = e.wrapped[1] /\ ~Unreachable(service) => Open(service, e) = e.text
<1> USE SecretConstants
<1>1. e.text # "refused"
    BY DEF Envelopes, Plaintexts
<1>2. Open(service, e) \in {e.text, "refused", "unreachable"}
    BY DEF Open
<1>3. vault.version \in 1..MaxVersions /\ vault.version \in Nat
    BY DEF TypeInv
<1>4. ASSUME service = e.wrapped[1]
      PROVE  Open(service, e) = IF Unreachable(service) THEN "unreachable" ELSE e.text
  <2>1. CASE e.version \in 1..vault.version /\ e.wrapped = <<Vault, e.version>>
    <3>1. service = Vault /\ e.version \in 1..MaxVersions
      BY <1>3, <1>4, <2>1
    <3> QED
      BY <2>1, <3>1 DEF Open, Unwraps
  <2>2. CASE \E key \in LocalKeys : e.wrapped = <<Local(key), 1>>
    <3>1. service # Vault /\ e.wrapped = <<service, 1>>
      BY <1>4, <2>2, ServiceFacts
    <3> QED
      BY <3>1 DEF Open, Unwraps, Unreachable
  <2> QED
    BY <2>1, <2>2 DEF NamesItsKey
<1> QED
    BY <1>1, <1>2, <1>4

-----------------------------------------------------------------------------
\* A registration that seals nothing has no key.
LEMMA NoSealFacts ==
    /\ NoSeal \in Seals /\ NoSeal.stage = "idle"
    /\ [NoSeal EXCEPT !.stage = "failed"] \in Seals
    /\ [NoSeal EXCEPT !.stage = "failed"].stage = "failed"
    /\ [NoSeal EXCEPT !.stage = "done"] \in Seals
    /\ [NoSeal EXCEPT !.stage = "done"].stage = "done"
BY DEF NoSeal, Seals, SealStages, HolderOrNone, RowOrNone, ProcessOrNone, EnvelopeOrNone

\* In the beginning nothing is sealed.
LEMMA Initially == SecretInit => IndInv
<1> SUFFICES ASSUME SecretInit PROVE IndInv
    OBVIOUS
<1> USE SecretConstants, NoSecretIsNone
<1>1. PICK old \in SUBSET Connectors, key \in LocalKeys, o \in Orgs :
         /\ Cardinality(old) <= 1
         /\ secrets = [s \in Holders |->
              IF s \in old THEN Envelope("old", Unversioned, <<Local(key), 1>>) ELSE NoSecret]
         /\ rows = [c \in Connectors |->
              IF c \in old THEN [organization |-> o, scope |-> o, cursor |-> FALSE] ELSE NoRow]
    BY Zenon DEF SecretInit
<1> DEFINE e == Envelope("old", Unversioned, <<Local(key), 1>>)
<1> DEFINE row == [organization |-> o, scope |-> o, cursor |-> FALSE]
<1>2. e \in Envelopes /\ e.wrapped = <<Local(key), 1>>
  <2>1. <<Local(key), 1>> \in Wrapping /\ Unversioned \in 0..LocalVersion /\ "old" \in Plaintexts
    BY ServiceFacts DEF Wrapping, Unversioned, LocalVersion, Plaintexts
  <2> QED
    BY <2>1 DEF Envelope, Envelopes
<1>3. row \in Rows
    BY DEF Rows, RowsOf
<1> HIDE DEF e, row
<1>4. secrets = [s \in Holders |-> IF s \in old THEN e ELSE NoSecret]
    BY <1>1 DEF e
<1>5. rows = [c \in Connectors |-> IF c \in old THEN row ELSE NoRow]
    BY <1>1 DEF row
<1>6. secrets \in [Holders -> EnvelopeOrNone]
    BY <1>2, <1>4 DEF EnvelopeOrNone
<1>7. rows \in [Connectors -> RowOrNone]
    BY <1>3, <1>5 DEF RowOrNone
<1>8. vault \in [reachable : BOOLEAN, version : 1..MaxVersions]
  <2>1. vault = [reachable |-> TRUE, version |-> 1]
    BY Zenon DEF SecretInit
  <2>2. 1 \in 1..MaxVersions
    OBVIOUS
  <2> QED
    BY <2>1, <2>2
<1>9. TypeInv
    BY <1>6, <1>7, <1>8, NoSealFacts
    DEF TypeInv, SecretInit, ServiceOrNone, NothingOpened, HolderOrNone, ProcessOrNone
<1>10. SealInv
    BY NoSealFacts DEF SecretInit, SealInv
<1>11. StoredInv
  <2>1. e # NoSecret /\ row # NoRow /\ NamesItsKey(e) /\ Connectors \subseteq Holders
    BY <1>2, <1>3, RowFacts DEF NamesItsKey, Holders
  <2> QED
    BY <1>4, <1>5, <2>1 DEF StoredInv
<1>12. RefusedInv
    BY DEF SecretInit, NothingOpened, RefusedInv
<1> QED
    BY <1>9, <1>10, <1>11, <1>12 DEF IndInv

-----------------------------------------------------------------------------
\* A request that begins or fails changes nothing but its own seal.
LEMMA SealOnly ==
    ASSUME IndInv, NEW r \in Registrations, NEW s \in Seals,
           s.stage \in {"seal", "store"} =>
               /\ s.place \in Holders
               /\ s.place \in Connectors => s.row \in Rows
               /\ s.process \in Processes,
           s.stage = "store" => s.envelope \in Envelopes /\ NamesItsKey(s.envelope),
           seals' = [seals EXCEPT ![r] = s],
           UNCHANGED <<deployed, providers, vault, secrets, rows, opened, deploys>>
    PROVE  IndInv'
<1>1. TypeInv'
    BY DEF IndInv, TypeInv
<1>2. \A q \in Registrations : seals'[q] = IF q = r THEN s ELSE seals[q]
    BY DEF IndInv, TypeInv
<1>3. \A e : NamesItsKey(e)' <=> NamesItsKey(e)
    BY DEF NamesItsKey
<1>4. SealInv'
  <2> SUFFICES ASSUME NEW q \in Registrations PROVE SealInv!(q)'
      BY DEF SealInv
  <2>1. CASE q = r
      BY <1>2, <1>3, <2>1
  <2>2. CASE q # r
      BY <1>2, <1>3, <2>2 DEF IndInv, SealInv
  <2> QED
      BY <2>1, <2>2
<1>5. StoredInv' /\ RefusedInv'
    BY <1>3 DEF IndInv, StoredInv, RefusedInv
<1> QED
    BY <1>1, <1>4, <1>5 DEF IndInv

\* A connector is registered: its credential is sealed under the key of the process.
LEMMA BeginRegistrationStep ==
    ASSUME IndInv, NEW r \in Registrations, NEW p \in Processes, NEW c \in Connectors,
           NEW o \in Orgs, NEW row \in RowsOf(o), BeginRegistration(r, p, c, row)
    PROVE  IndInv'
<1> DEFINE s == [stage |-> "seal", place |-> c, row |-> row, process |-> p, envelope |-> NoSecret]
<1>1. row \in Rows
    BY DEF Rows
<1>2. /\ s \in Seals /\ s.stage = "seal" /\ s.place \in Holders
      /\ s.row \in Rows /\ s.process \in Processes
    BY <1>1 DEF Seals, SealStages, Holders, HolderOrNone, RowOrNone, ProcessOrNone, EnvelopeOrNone
<1>3. /\ seals' = [seals EXCEPT ![r] = s]
      /\ UNCHANGED <<deployed, providers, vault, secrets, rows, opened, deploys>>
    BY DEF BeginRegistration
<1> HIDE DEF s
<1> QED
    BY <1>2, <1>3, SealOnly

\* An organization sets up single sign-on: its client secret is sealed.
LEMMA BeginSsoStep ==
    ASSUME IndInv, NEW r \in Registrations, NEW p \in Processes, NEW o \in Orgs, BeginSso(r, p, o)
    PROVE  IndInv'
<1> DEFINE s == IF secrets[o] # NoSecret THEN [NoSeal EXCEPT !.stage = "failed"]
                ELSE [stage |-> "seal", place |-> o, row |-> NoRow, process |-> p, envelope |-> NoSecret]
<1>1. s \in Seals /\ s.stage # "store"
    BY NoSealFacts DEF Seals, SealStages, Holders, HolderOrNone, RowOrNone, ProcessOrNone, EnvelopeOrNone
<1>2. s.stage = "seal" => s.place \in Holders /\ s.place \notin Connectors /\ s.process \in Processes
    BY NoSealFacts, SecretConstants DEF Holders
<1>3. /\ seals' = [seals EXCEPT ![r] = s]
      /\ UNCHANGED <<deployed, providers, vault, secrets, rows, opened, deploys>>
    BY DEF BeginSso
<1> HIDE DEF s
<1> QED
    BY <1>1, <1>2, <1>3, SealOnly

\* Seal asks the service of the process, which it builds when it is the first to ask.
LEMMA SealStep ==
    ASSUME IndInv, NEW r \in Registrations, Seal(r)
    PROVE  IndInv'
<1> DEFINE p == seals[r].process
<1> DEFINE s == IF Unreachable(Kms(p)) THEN [NoSeal EXCEPT !.stage = "failed"]
                ELSE [seals[r] EXCEPT !.stage = "store", !.envelope = Sealed(r, Kms(p))]
<1>1. /\ seals[r].stage = "seal" /\ providers' = Built(p)
      /\ seals' = [seals EXCEPT ![r] = s]
      /\ UNCHANGED <<deployed, vault, secrets, rows, opened, deploys>>
    BY DEF Seal
<1>2. /\ p \in Processes /\ seals[r] \in Seals /\ seals[r].place \in Holders
      /\ seals[r].place \in Connectors => seals[r].row \in Rows
    BY <1>1 DEF IndInv, TypeInv, SealInv
<1>3. /\ Kms(p) \in Services /\ Built(p) \in [Processes -> ServiceOrNone]
      /\ \A q \in Processes : providers[q] # NotBuilt => Built(p)[q] = providers[q]
    BY <1>2, KmsFacts DEF IndInv
<1> DEFINE e == Sealed(r, Kms(p))
<1>4. e \in Envelopes /\ NamesItsKey(e)
    BY <1>3, SealedFacts DEF IndInv
<1>5. /\ s \in Seals /\ s.stage # "seal"
      /\ s.stage = "store" =>
            /\ s.place \in Holders
            /\ s.place \in Connectors => s.row \in Rows
            /\ s.process \in Processes
            /\ s.envelope \in Envelopes /\ NamesItsKey(s.envelope)
  <2> HIDE DEF e
  <2>1. CASE Unreachable(Kms(p))
    BY <2>1, NoSealFacts
  <2>2. CASE ~Unreachable(Kms(p))
    <3>1. s = [seals[r] EXCEPT !.stage = "store", !.envelope = e]
      BY <2>2 DEF e
    <3>2. e \in EnvelopeOrNone /\ "store" \in SealStages
      BY <1>4 DEF EnvelopeOrNone, SealStages
    <3> HIDE DEF s
    <3>3. /\ s \in Seals /\ s.stage = "store" /\ s.envelope = e
          /\ s.place = seals[r].place /\ s.row = seals[r].row /\ s.process = p
      BY <1>2, <3>1, <3>2 DEF Seals
    <3> QED
      BY <1>2, <1>4, <3>3
  <2> QED
    BY <2>1, <2>2
<1> HIDE DEF s, e
<1>6. TypeInv'
    BY <1>1, <1>3, <1>5 DEF IndInv, TypeInv
<1>7. \A q \in Registrations : seals'[q] = IF q = r THEN s ELSE seals[q]
    BY <1>1 DEF IndInv, TypeInv
<1>8. \A x : NamesItsKey(x)' <=> NamesItsKey(x)
    BY <1>1 DEF NamesItsKey
<1>9. SealInv'
  <2> SUFFICES ASSUME NEW q \in Registrations PROVE SealInv!(q)'
      BY DEF SealInv
  <2>1. CASE q = r
      BY <1>5, <1>7, <1>8, <2>1
  <2>2. CASE q # r
      BY <1>7, <1>8, <2>2 DEF IndInv, SealInv
  <2> QED
      BY <2>1, <2>2
<1>10. StoredInv'
    BY <1>1, <1>8 DEF IndInv, StoredInv
<1>11. RefusedInv'
    BY <1>1, <1>3 DEF IndInv, RefusedInv
<1> QED
    BY <1>6, <1>9, <1>10, <1>11 DEF IndInv

\* Store puts the envelope where there was none, and a connector's row with it.
LEMMA StoreStep ==
    ASSUME IndInv, NEW r \in Registrations, Store(r)
    PROVE  IndInv'
<1> USE NoSecretIsNone
<1> DEFINE place == seals[r].place
<1>1. /\ seals[r].stage = "store"
      /\ UNCHANGED <<deployed, providers, vault, opened, deploys>>
    BY DEF Store
<1>2. CASE secrets[place] # NoSecret
  <2> DEFINE s == [NoSeal EXCEPT !.stage = "failed"]
  <2>1. /\ seals' = [seals EXCEPT ![r] = s]
        /\ UNCHANGED <<deployed, providers, vault, secrets, rows, opened, deploys>>
    BY <1>1, <1>2 DEF Store
  <2>2. s \in Seals /\ s.stage = "failed"
    BY NoSealFacts
  <2> HIDE DEF s
  <2> QED
    BY <2>1, <2>2, SealOnly
<1>3. CASE secrets[place] = NoSecret
  <2> DEFINE s == [NoSeal EXCEPT !.stage = "done"]
  <2> DEFINE e == seals[r].envelope
  <2>1. /\ seals' = [seals EXCEPT ![r] = s]
        /\ secrets' = [secrets EXCEPT ![place] = e]
        /\ rows' = IF place \in Connectors THEN [rows EXCEPT ![place] = seals[r].row] ELSE rows
    BY <1>1, <1>3 DEF Store
  <2>2. s \in Seals /\ s.stage = "done"
    BY NoSealFacts
  <2>3. /\ place \in Holders /\ e \in Envelopes /\ NamesItsKey(e)
        /\ place \in Connectors => seals[r].row \in Rows
    BY <1>1 DEF IndInv, SealInv
  <2> HIDE DEF s, e, place
  <2>4. TypeInv'
    BY <1>1, <2>1, <2>2, <2>3 DEF IndInv, TypeInv, EnvelopeOrNone, RowOrNone
  <2>5. \A x : NamesItsKey(x)' <=> NamesItsKey(x)
    BY <1>1 DEF NamesItsKey
  <2>6. /\ \A h \in Holders : secrets'[h] = IF h = place THEN e ELSE secrets[h]
        /\ \A c \in Connectors : rows'[c] = IF c = place THEN seals[r].row ELSE rows[c]
        /\ \A q \in Registrations : seals'[q] = IF q = r THEN s ELSE seals[q]
    BY <2>1 DEF IndInv, TypeInv
  <2>7. SealInv'
    BY <2>2, <2>5, <2>6 DEF IndInv, SealInv
  <2>8. StoredInv'
    BY <2>3, <2>5, <2>6, RowFacts DEF IndInv, StoredInv, Holders
  <2>9. RefusedInv'
    BY <1>1, <1>3, <2>6 DEF IndInv, RefusedInv, place
  <2> QED
    BY <2>4, <2>7, <2>8, <2>9 DEF IndInv
<1> QED
    BY <1>2, <1>3

\* A sync writes its position into the row of the connector, and nothing else of it.
LEMMA CheckpointStep ==
    ASSUME IndInv, NEW c \in Connectors, Checkpoint(c)
    PROVE  IndInv'
<1>1. /\ rows[c] # NoRow /\ rows' = [rows EXCEPT ![c] = [rows[c] EXCEPT !.cursor = TRUE]]
      /\ UNCHANGED <<deployed, providers, vault, secrets, seals, opened, deploys>>
    BY DEF Checkpoint, IndInv, TypeInv
<1> DEFINE row == [rows[c] EXCEPT !.cursor = TRUE]
<1>2. row \in Rows
    BY <1>1, RowFacts DEF IndInv, TypeInv, RowOrNone
<1> HIDE DEF row
<1>3. rows' = [rows EXCEPT ![c] = row]
    BY <1>1 DEF row
<1>4. TypeInv'
    BY <1>1, <1>2, <1>3 DEF IndInv, TypeInv, RowOrNone
<1>5. \A x : NamesItsKey(x)' <=> NamesItsKey(x)
    BY <1>1 DEF NamesItsKey
<1>6. SealInv' /\ RefusedInv'
    BY <1>1, <1>5 DEF IndInv, SealInv, RefusedInv
<1>7. StoredInv'
    BY <1>1, <1>2, <1>3, <1>5, RowFacts DEF IndInv, TypeInv, StoredInv
<1> QED
    BY <1>4, <1>6, <1>7 DEF IndInv

-----------------------------------------------------------------------------
\* What a process is refused was sealed by another service than its own.
LEMMA UseStep ==
    ASSUME IndInv, NEW p \in Processes, NEW place \in Holders, UseSecret(p, place)
    PROVE  IndInv'
<1> USE NoSecretIsNone
<1> DEFINE e == secrets[place]
<1>1. /\ e # NoSecret /\ providers' = Built(p)
      /\ opened' = [place |-> place, process |-> p, got |-> Open(Kms(p), e)]
      /\ UNCHANGED <<deployed, vault, secrets, rows, seals, deploys>>
    BY DEF UseSecret
<1>2. e \in Envelopes /\ NamesItsKey(e)
    BY <1>1 DEF IndInv, TypeInv, EnvelopeOrNone, StoredInv
<1>3. /\ Kms(p) \in Services /\ Built(p) \in [Processes -> ServiceOrNone]
      /\ Built(p)[p] = Kms(p)
    BY KmsFacts DEF IndInv
<1>4. Open(Kms(p), e) = "refused" => Kms(p) # e.wrapped[1]
    BY <1>2, <1>3, OpenFacts DEF IndInv
<1> HIDE DEF e
<1>5. opened'.place = place /\ opened'.process = p /\ opened'.got = Open(Kms(p), e)
    BY <1>1
<1>6. TypeInv'
    BY <1>1, <1>3, <1>5 DEF IndInv, TypeInv, HolderOrNone, ProcessOrNone
<1>7. \A x : NamesItsKey(x)' <=> NamesItsKey(x)
    BY <1>1 DEF NamesItsKey
<1>8. SealInv' /\ StoredInv'
    BY <1>1, <1>7 DEF IndInv, SealInv, StoredInv
<1>9. secrets'[place] = e /\ providers'[p] = Kms(p) /\ Kms(p) # NotBuilt
    BY <1>1, <1>3, ServiceFacts DEF e
<1>10. RefusedInv'
    BY <1>1, <1>4, <1>5, <1>9 DEF RefusedInv
<1> QED
    BY <1>6, <1>8, <1>10 DEF IndInv

\* New settings for a service: its processes keep what they have until they restart.
LEMMA DeployStep ==
    ASSUME IndInv, NEW service \in Services, Deploy(service)
    PROVE  IndInv'
BY DEF Deploy, IndInv, TypeInv, SealInv, StoredInv, RefusedInv, NamesItsKey

\* The requests of a process that restarts fail; it will build its service anew.
LEMMA RestartStep ==
    ASSUME IndInv, NEW p \in Processes, Restart(p)
    PROVE  IndInv'
<1> DEFINE s == [NoSeal EXCEPT !.stage = "failed"]
<1>1. /\ providers' = [providers EXCEPT ![p] = NotBuilt]
      /\ seals' = [r \in Registrations |-> IF seals[r].process = p THEN s ELSE seals[r]]
      /\ opened' = NothingOpened
      /\ UNCHANGED <<deployed, vault, secrets, rows, deploys>>
    BY DEF Restart
<1>2. s \in Seals /\ s.stage = "failed"
    BY NoSealFacts
<1> HIDE DEF s
<1>3. /\ opened'.place = NoSecret /\ opened'.process = NoSecret /\ opened'.got = "nothing"
    BY <1>1 DEF NothingOpened
<1>4. TypeInv'
    BY <1>1, <1>2, <1>3 DEF IndInv, TypeInv, ServiceOrNone, HolderOrNone, ProcessOrNone
<1>5. \A x : NamesItsKey(x)' <=> NamesItsKey(x)
    BY <1>1 DEF NamesItsKey
<1>6. SealInv'
    BY <1>1, <1>2, <1>5 DEF IndInv, SealInv
<1>7. StoredInv' /\ RefusedInv'
    BY <1>1, <1>3, <1>5 DEF IndInv, StoredInv, RefusedInv
<1> QED
    BY <1>4, <1>6, <1>7 DEF IndInv

\* The vault's versions only grow: an envelope that names one of them still does.
LEMMA VaultStep ==
    ASSUME IndInv, VaultChanges
    PROVE  IndInv'
<1> USE SecretConstants
<1>1. /\ opened' = NothingOpened
      /\ UNCHANGED <<deployed, providers, secrets, rows, seals, deploys>>
    BY DEF VaultChanges
<1>2. opened'.place = NoSecret /\ opened'.process = NoSecret /\ opened'.got = "nothing"
    BY <1>1 DEF NothingOpened
<1>3. vault \in [reachable : BOOLEAN, version : 1..MaxVersions]
    BY DEF IndInv, TypeInv
<1>4. /\ vault' \in [reachable : BOOLEAN, version : 1..MaxVersions]
      /\ vault'.version \in {vault.version, vault.version + 1}
  <2>1. CASE vault' = [vault EXCEPT !.reachable = ~vault.reachable]
    <3> DEFINE there == ~vault.reachable
    <3>1. there \in BOOLEAN
      OBVIOUS
    <3> HIDE DEF there
    <3>2. vault' = [vault EXCEPT !.reachable = there]
      BY <2>1 DEF there
    <3> QED
      BY <1>3, <3>1, <3>2
  <2>2. CASE vault.version < MaxVersions /\ vault' = [vault EXCEPT !.version = vault.version + 1]
    <3>1. vault.version + 1 \in 1..MaxVersions
      BY <1>3, <2>2
    <3> QED
      BY <1>3, <2>2, <3>1
  <2> QED
    BY <2>1, <2>2 DEF VaultChanges
<1>5. \A x : NamesItsKey(x) => NamesItsKey(x)'
  <2>1. 1..vault.version \subseteq 1..vault'.version
    BY <1>3, <1>4
  <2> QED
    BY <2>1 DEF NamesItsKey
<1>6. TypeInv'
    BY <1>1, <1>2, <1>4 DEF IndInv, TypeInv, HolderOrNone, ProcessOrNone
<1>7. SealInv' /\ StoredInv' /\ RefusedInv'
    BY <1>1, <1>2, <1>5 DEF IndInv, SealInv, StoredInv, RefusedInv
<1> QED
    BY <1>6, <1>7 DEF IndInv

-----------------------------------------------------------------------------
\* Every step of the processes and of the operator keeps the invariant.
LEMMA Step == IndInv /\ [SecretNext]_secretVars => IndInv'
<1> SUFFICES ASSUME IndInv, [SecretNext]_secretVars PROVE IndInv'
    OBVIOUS
<1>1. CASE UNCHANGED secretVars
    BY <1>1 DEF secretVars, IndInv, TypeInv, SealInv, StoredInv, RefusedInv, NamesItsKey
<1>2. CASE SecretNext
    BY <1>2, BeginRegistrationStep, BeginSsoStep, SealStep, StoreStep, CheckpointStep, UseStep,
       DeployStep, RestartStep, VaultStep DEF SecretNext
<1> QED
    BY <1>1, <1>2

\* The invariant holds in all states that requests, processes and the vault reach.
THEOREM SecretsInvariant == SecretSpec => []IndInv
BY Initially, Step, PTL DEF SecretSpec

\* Settings, envelopes, rows and requests keep their types (tenancy/service.py, kms.py).
THEOREM SecretTypes == SecretSpec => []SecretTypeOK
<1>1. IndInv => SecretTypeOK
  <2> SUFFICES ASSUME IndInv PROVE SecretTypeOK
      OBVIOUS
  <2>1. rows \in [Connectors -> (UNION {RowsOf(o) : o \in Orgs}) \cup {NoRow}]
      BY DEF IndInv, TypeInv, RowOrNone, Rows
  <2>2. /\ providers \in [Processes -> Services \cup {NotBuilt}]
        /\ secrets \in [Holders -> Envelopes \cup {NoSecret}]
      BY DEF IndInv, TypeInv, ServiceOrNone, EnvelopeOrNone
  <2>3. \A r \in Registrations : seals[r].stage \in {"idle", "seal", "store", "done", "failed"}
      BY DEF IndInv, TypeInv, Seals, SealStages
  <2> QED
      BY <2>1, <2>2, <2>3 DEF IndInv, TypeInv, SecretTypeOK, HolderOrNone
<1> QED
    BY <1>1, SecretsInvariant, PTL

\* Whoever opens an envelope gets the text that was sealed in it or is refused, and the
\* service that sealed it is never refused; a row of a connector has its secret.
THEOREM SecretsStayOpen == SecretSpec => []SecretsOpen
<1>1. IndInv => SecretsOpen
  <2> SUFFICES ASSUME IndInv PROVE SecretsOpen
      OBVIOUS
  <2>1. ASSUME NEW place \in Holders, NEW p \in Processes,
               secrets[place] # NoSecret, providers[p] # NotBuilt
        PROVE  /\ Open(providers[p], secrets[place]) \in {secrets[place].text, "refused", "unreachable"}
               /\ providers[p] = secrets[place].wrapped[1] /\ ~Unreachable(providers[p]) =>
                    Open(providers[p], secrets[place]) = secrets[place].text
    <3>1. secrets[place] \in Envelopes /\ NamesItsKey(secrets[place]) /\ providers[p] \in Services
      BY <2>1 DEF IndInv, TypeInv, EnvelopeOrNone, ServiceOrNone, StoredInv
    <3> QED
      BY <3>1, OpenFacts DEF IndInv
  <2> QED
      BY <2>1 DEF IndInv, StoredInv, RefusedInv, SecretsOpen
<1> QED
    BY <1>1, SecretsInvariant, PTL

-----------------------------------------------------------------------------
(* Walks by tokens (SourceWalks).                                          *)

\* The sources that hand out a token: a page lists what is left of what matched when
\* the listing was opened.  The others compute a listing at every call.
Continued == {"jira", "slack", "teams", "sharepoint"}

Syncs == [stage : {"fetch", "items"}, full : BOOLEAN, since : Times,
          cursor : Positions, state : [Places -> Times],
          latest : [Places -> Times], page : [Items -> Times], more : BOOLEAN]
Checkpoints == [stage : {"saved"}, full : BOOLEAN, since : Times, cursor : Positions,
                latest : [Places -> Times]]
WalkTypes ==
    /\ clock \in Times /\ clock # 0
    /\ changed \in [Items -> Times] /\ held \in [Items -> Times]
    /\ lastSynced \in Times /\ tokens \in [Places -> Times] /\ linked \in [Places -> Times]
    /\ checkpoint = NoCheckpoint \/ checkpoint \in Checkpoints
    /\ sync = Idle \/ sync \in Syncs
    /\ excused \in SUBSET Items /\ mislinked \in BOOLEAN

\* The links that a sync starts with when it continues the checkpoint.
Resumed == IF checkpoint.latest # NoLinks THEN checkpoint.latest ELSE tokens

\* Nothing is later than the clock, and what has never been edited is not ingested.
TimesHold ==
    /\ lastSynced <= clock
    /\ \A i \in Items : changed[i] <= clock /\ (changed[i] = 0 => held[i] = 0)
    /\ \A p \in Places : tokens[p] <= clock
    /\ checkpoint # NoCheckpoint =>
         checkpoint.cursor.at <= clock /\ \A p \in Places : checkpoint.latest[p] <= clock
    /\ sync # Idle =>
         /\ sync.cursor.at <= clock /\ \A p \in Places : sync.state[p] <= clock
         /\ \A i \in Items : changed[i] = 0 => sync.page[i] = 0

\* A sync and a checkpoint are of the window that was opened last, at a place there is;
\* the token to be saved is what the sync has collected.
WindowsHold ==
    /\ checkpoint # NoCheckpoint =>
         checkpoint.since \in {0, lastSynced} /\ checkpoint.cursor.place \in Places
    /\ sync # Idle =>
         /\ sync.since \in {0, lastSynced}
         /\ sync.latest \in {NoLinks, sync.state}
         /\ sync.stage = "fetch" => sync.cursor.place \in Places /\ sync.page = Late
         /\ sync.stage = "items" => (sync.more <=> sync.cursor.place \in Places)

\* Teams: a channel has a first link exactly when it has one to go on from.
FirstsHold ==
    source = "teams" =>
        /\ \A p \in Places : tokens[p] # 0 => linked[p] # 0
        /\ ~mislinked => \A p \in Places : linked[p] # 0 =>
             /\ tokens[p] # 0
             /\ checkpoint # NoCheckpoint => Resumed[p] # 0
             /\ sync # Idle => sync.state[p] # 0

\* What a page lists and the source has changed since is later than every link.
PageHolds ==
    sync # Idle => \A i \in Items : sync.page[i] \notin {0, changed[i]} =>
        /\ i \in excused
        /\ changed[i] > sync.cursor.at
        /\ \A p \in Places : changed[i] > sync.state[p] /\ changed[i] > tokens[p]
        /\ checkpoint # NoCheckpoint =>
             changed[i] > checkpoint.cursor.at /\ \A p \in Places : changed[i] > Resumed[p]

\* The sources of which a sync loses nothing but what was edited meanwhile.
Whole == source \in {"jira", "slack"} \/ (source = "sharepoint" /\ ~mislinked)

\* What a walk at a position has still to come to.
Ahead(i, c) ==
    \/ Home[i] > c.place
    \/ Home[i] = c.place /\ (c.at = 0 \/ i \in c.rest)

\* What is out of date is in the next window, and every walk comes to it.
Covers(c, page) ==
    \A i \in Items : Stale(i) /\ i \notin excused => Ahead(i, c) \/ page[i] = changed[i]
CoverHolds ==
    Whole =>
        /\ lastSynced # 0 =>
             \A i \in Items : Stale(i) /\ i \notin excused => changed[i] > lastSynced
        /\ checkpoint # NoCheckpoint => Covers(checkpoint.cursor, Late)
        /\ sync # Idle => Covers(sync.cursor, sync.page)

\* The edits that a link to go on from vouches for: Teams' since the first link of the
\* channel, SharePoint's but those that are excused.
VouchedBy(i, time, first, out, name, link) ==
    /\ time # 0 /\ time <= link
    /\ \/ name = "teams" /\ first # 0 /\ first < time
       \/ name = "sharepoint" /\ i \notin out
Vouched(i, link) == VouchedBy(i, changed[i], linked[Home[i]], excused, source, link)

\* They are ingested, or still to come at the place that a walk is at; it has opened
\* its listing there at a time that will be the link.
Promised(i, c, links) ==
    \/ Vouched(i, links[Home[i]])
    \/ Home[i] = c.place /\ c.at # 0 /\ Vouched(i, c.at)
Earns(c, links, page) ==
    \A i \in Items : Promised(i, c, links) /\ Stale(i) =>
        \/ page[i] = changed[i]
        \/ Home[i] = c.place /\ c.at # 0 /\ i \in c.rest
LinksHold ==
    source \in {"teams", "sharepoint"} /\ ~mislinked =>
        /\ \A i \in Items : Vouched(i, tokens[Home[i]]) => ~Stale(i)
        /\ checkpoint # NoCheckpoint => Earns(checkpoint.cursor, Resumed, Late)
        /\ sync # Idle => Earns(sync.cursor, sync.state, sync.page)

WalkInv ==
    source \in Continued =>
        /\ WalkTypes /\ TimesHold /\ WindowsHold /\ FirstsHold /\ PageHolds
        /\ CoverHolds /\ LinksHold

LEMMA WalkBlanks ==
    /\ NoLinks \in [Places -> Times] /\ Late \in [Items -> Times]
    /\ \A p \in Places : NoLinks[p] = 0
    /\ \A i \in Items : Late[i] = 0
    /\ FirstPosition \in Positions /\ FirstPosition.at = 0 /\ FirstPosition.place = 1
    /\ 1 \in Places /\ 0 \in Times /\ 1 \in Times
    /\ Times \subseteq Nat /\ Places \subseteq Nat
    /\ \A i \in Items : Home[i] \in Places
BY WalkConstants DEF NoLinks, Late, FirstPosition, Positions, Places, Times

\* A running sync, and a checkpoint, taken apart.
LEMMA SyncParts ==
    ASSUME WalkTypes, sync # Idle
    PROVE  /\ sync \in Syncs /\ sync.stage \in {"fetch", "items"}
           /\ sync.full \in BOOLEAN /\ sync.since \in Times
           /\ sync.cursor \in Positions /\ sync.cursor.at \in Nat
           /\ sync.cursor.place \in Nat /\ sync.cursor.rest \in SUBSET Items
           /\ sync.state \in [Places -> Times] /\ sync.latest \in [Places -> Times]
           /\ sync.page \in [Items -> Times] /\ sync.more \in BOOLEAN
<1>1. sync \in Syncs
  BY DEF WalkTypes
<1>2. /\ sync.stage \in {"fetch", "items"}
      /\ sync.full \in BOOLEAN /\ sync.since \in Times
      /\ sync.cursor \in Positions
      /\ sync.state \in [Places -> Times] /\ sync.latest \in [Places -> Times]
      /\ sync.page \in [Items -> Times] /\ sync.more \in BOOLEAN
  BY <1>1 DEF Syncs
<1>3. /\ sync.cursor.at \in Nat /\ sync.cursor.place \in 1..(NumPlaces + 1)
      /\ sync.cursor.rest \in SUBSET Items
  BY <1>2 DEF Positions
<1> QED
  BY <1>1, <1>2, <1>3, WalkConstants

LEMMA CheckpointParts ==
    ASSUME WalkTypes, checkpoint # NoCheckpoint
    PROVE  /\ checkpoint \in Checkpoints
           /\ checkpoint.full \in BOOLEAN /\ checkpoint.since \in Times
           /\ checkpoint.cursor \in Positions /\ checkpoint.cursor.at \in Nat
           /\ checkpoint.cursor.place \in Nat /\ checkpoint.cursor.rest \in SUBSET Items
           /\ checkpoint.latest \in [Places -> Times]
           /\ Resumed \in [Places -> Times]
<1>1. checkpoint \in Checkpoints
  BY DEF WalkTypes
<1>2. /\ checkpoint.full \in BOOLEAN /\ checkpoint.since \in Times
      /\ checkpoint.cursor \in Positions /\ checkpoint.latest \in [Places -> Times]
  BY <1>1 DEF Checkpoints
<1>3. /\ checkpoint.cursor.at \in Nat /\ checkpoint.cursor.place \in 1..(NumPlaces + 1)
      /\ checkpoint.cursor.rest \in SUBSET Items
  BY <1>2 DEF Positions
<1>4. Resumed \in [Places -> Times]
  BY <1>2 DEF Resumed, WalkTypes
<1> QED
  BY <1>1, <1>2, <1>3, <1>4, WalkConstants

\* The parts of the invariant for a source that hands out tokens.
LEMMA WalkParts ==
    WalkInv /\ source \in Continued =>
        WalkTypes /\ TimesHold /\ WindowsHold /\ FirstsHold /\ PageHolds /\ CoverHolds /\ LinksHold
BY DEF WalkInv

\* At the beginning nothing is ingested, and no walk has begun.
LEMMA WalksInitially == WalkInit => WalkInv
<1> SUFFICES ASSUME WalkInit, source \in Continued
             PROVE  WalkTypes /\ TimesHold /\ WindowsHold /\ FirstsHold /\ PageHolds
                    /\ CoverHolds /\ LinksHold
  BY DEF WalkInv
<1>1. /\ clock = 1 /\ held = Late /\ lastSynced = 0 /\ tokens = NoLinks
      /\ checkpoint = NoCheckpoint /\ sync = Idle /\ excused = {} /\ linked = NoLinks
      /\ mislinked = FALSE
      /\ changed = [i \in Items |-> IF source = "slack" THEN 0 ELSE 1]
  BY DEF WalkInit
<1>2. WalkTypes
  <2>1. changed \in [Items -> Times]
    BY <1>1, WalkBlanks
  <2>2. 1 \in Times /\ 1 # 0 /\ {} \in SUBSET Items /\ FALSE \in BOOLEAN
    BY WalkBlanks
  <2> QED
    BY <1>1, <2>1, <2>2, WalkBlanks DEF WalkTypes
<1>3. TimesHold
  BY <1>1, WalkBlanks DEF TimesHold
<1>4. WindowsHold /\ FirstsHold /\ PageHolds
  BY <1>1, WalkBlanks DEF WindowsHold, FirstsHold, PageHolds
<1>5. CoverHolds
  BY <1>1 DEF CoverHolds
<1>6. LinksHold
  <2>1. \A i \in Items : changed[i] # 0 => ~(changed[i] <= 0)
    BY <1>1
  <2>2. \A i \in Items : tokens[Home[i]] = 0
    BY <1>1, WalkBlanks
  <2> QED
    BY <1>1, <2>1, <2>2 DEF LinksHold, Vouched, VouchedBy
<1> QED
  BY <1>2, <1>3, <1>4, <1>5, <1>6

\* The source is edited: later than anything the walks know of.
LEMMA ChangeHolds ==
    ASSUME WalkInv, source \in Continued, NEW i \in Items, Change(i)
    PROVE  WalkInv'
<1>1. /\ clock < MaxClock /\ clock' = clock + 1
      /\ changed' = [changed EXCEPT ![i] = clock + 1]
      /\ excused' = IF sync = Idle /\ checkpoint = NoCheckpoint THEN excused \ {i}
                    ELSE excused \cup {i}
      /\ UNCHANGED <<source, held, lastSynced, tokens, checkpoint, sync, linked, mislinked>>
  BY DEF Change
<1>2. WalkTypes /\ TimesHold /\ WindowsHold /\ FirstsHold /\ PageHolds /\ CoverHolds /\ LinksHold
  BY WalkParts
<1>3. /\ clock \in Nat /\ clock + 1 \in Times /\ changed' \in [Items -> Times]
      /\ changed'[i] = clock + 1 /\ \A j \in Items : j # i => changed'[j] = changed[j]
      /\ \A j \in Items : changed[j] \in Nat
  BY <1>1, <1>2, WalkConstants DEF WalkTypes, Times
<1>4. /\ sync # Idle \/ checkpoint # NoCheckpoint => i \in excused'
      /\ \A j \in Items : j # i => (j \in excused' <=> j \in excused)
  BY <1>1
<1>5. WalkTypes'
  BY <1>1, <1>2, <1>3 DEF WalkTypes
<1>6. /\ lastSynced \in Nat /\ lastSynced < clock + 1
      /\ \A p \in Places : tokens[p] \in Nat /\ tokens[p] < clock + 1
      /\ checkpoint # NoCheckpoint =>
           /\ checkpoint.cursor.at \in Nat /\ checkpoint.cursor.at < clock + 1
           /\ \A p \in Places : checkpoint.latest[p] \in Nat /\ checkpoint.latest[p] < clock + 1
           /\ \A p \in Places : Resumed[p] \in Nat /\ Resumed[p] < clock + 1
      /\ sync # Idle =>
           /\ sync.cursor.at \in Nat /\ sync.cursor.at < clock + 1
           /\ \A p \in Places : sync.state[p] \in Nat /\ sync.state[p] < clock + 1
  <2>1. lastSynced \in Nat /\ lastSynced <= clock
        /\ \A p \in Places : tokens[p] \in Nat /\ tokens[p] <= clock
    BY <1>2, WalkBlanks DEF WalkTypes, TimesHold
  <2>2. ASSUME checkpoint # NoCheckpoint
        PROVE  /\ checkpoint.cursor.at \in Nat /\ checkpoint.cursor.at < clock + 1
               /\ \A p \in Places :
                    checkpoint.latest[p] \in Nat /\ checkpoint.latest[p] < clock + 1
               /\ \A p \in Places : Resumed[p] \in Nat /\ Resumed[p] < clock + 1
    <3>1. /\ checkpoint.cursor.at \in Nat /\ checkpoint.cursor.at <= clock
          /\ \A p \in Places : checkpoint.latest[p] \in Nat /\ checkpoint.latest[p] <= clock
      BY <1>2, <2>2, CheckpointParts, WalkBlanks DEF TimesHold
    <3>2. \A p \in Places : Resumed[p] \in Nat /\ Resumed[p] <= clock
      BY <2>1, <3>1 DEF Resumed
    <3> QED
      BY <1>3, <3>1, <3>2
  <2>3. ASSUME sync # Idle
        PROVE  /\ sync.cursor.at \in Nat /\ sync.cursor.at < clock + 1
               /\ \A p \in Places : sync.state[p] \in Nat /\ sync.state[p] < clock + 1
    <3>1. /\ sync.cursor.at \in Nat /\ sync.cursor.at <= clock
          /\ \A p \in Places : sync.state[p] \in Nat /\ sync.state[p] <= clock
      BY <1>2, <2>3, SyncParts, WalkBlanks DEF TimesHold
    <3> QED
      BY <1>3, <3>1
  <2> QED
    BY <1>3, <2>1, <2>2, <2>3
<1>7. TimesHold'
  <2>1. \A j \in Items : changed'[j] <= clock + 1 /\ (changed'[j] = 0 => held[j] = 0)
    BY <1>2, <1>3 DEF TimesHold
  <2>2. \A n \in Nat : n < clock + 1 => n <= clock + 1
    BY <1>3
  <2>3. sync # Idle => \A j \in Items : changed'[j] = 0 => sync.page[j] = 0
    BY <1>2, <1>3 DEF TimesHold
  <2> QED
    BY <1>1, <1>6, <2>1, <2>2, <2>3 DEF TimesHold
<1>8. WindowsHold'
  BY <1>1, <1>2 DEF WindowsHold
<1>9. FirstsHold'
  BY <1>1, <1>2 DEF FirstsHold, Resumed
<1>10. PageHolds'
  <2> SUFFICES ASSUME sync # Idle, NEW j \in Items, sync.page[j] \notin {0, changed'[j]}
               PROVE  /\ j \in excused'
                      /\ changed'[j] > sync.cursor.at
                      /\ \A p \in Places : changed'[j] > sync.state[p] /\ changed'[j] > tokens[p]
                      /\ checkpoint # NoCheckpoint =>
                           /\ changed'[j] > checkpoint.cursor.at
                           /\ \A p \in Places : changed'[j] > Resumed[p]
    BY <1>1 DEF PageHolds, Resumed
  <2>1. CASE j = i
    BY <1>3, <1>4, <1>6, <2>1
  <2>2. CASE j # i
    BY <1>2, <1>3, <1>4, <2>2 DEF PageHolds
  <2> QED
    BY <2>1, <2>2
<1>11. CoverHolds'
  <2>1. ASSUME NEW j \in Items, j # i
        PROVE  (Stale(j)' <=> Stale(j)) /\ changed'[j] = changed[j]
    BY <1>1, <1>3, <2>1 DEF Stale
  <2>2. ASSUME Whole, lastSynced # 0, NEW j \in Items, Stale(j)', j \notin excused'
        PROVE  changed'[j] > lastSynced
    <3>1. CASE j = i
      BY <1>3, <1>6, <3>1
    <3>2. CASE j # i
      BY <1>2, <1>4, <2>1, <2>2, <3>2 DEF CoverHolds
    <3> QED
      BY <3>1, <3>2
  <2>3. ASSUME Whole, checkpoint # NoCheckpoint
        PROVE  Covers(checkpoint.cursor, Late)'
    BY <1>1, <1>2, <1>4, <2>1, <2>3 DEF CoverHolds, Covers, Ahead, Late
  <2>4. ASSUME Whole, sync # Idle
        PROVE  Covers(sync.cursor, sync.page)'
    BY <1>1, <1>2, <1>4, <2>1, <2>4 DEF CoverHolds, Covers, Ahead
  <2>5. Whole' <=> Whole
    BY <1>1 DEF Whole
  <2> QED
    BY <1>1, <2>2, <2>3, <2>4, <2>5 DEF CoverHolds
<1>12. LinksHold'
  <2> DEFINE After(j, link) ==
               VouchedBy(j, changed'[j], linked'[Home[j]], excused', source', link)
  <2>1. ASSUME NEW j \in Items, NEW link \in Nat, link < clock + 1
        PROVE  After(j, link) =>
                 /\ Vouched(j, link)
                 /\ (held'[j] # changed'[j]) = Stale(j) /\ changed'[j] = changed[j]
    <3> SUFFICES ASSUME After(j, link)
                 PROVE  /\ Vouched(j, link)
                        /\ (held'[j] # changed'[j]) = Stale(j) /\ changed'[j] = changed[j]
      OBVIOUS
    <3>1. changed'[j] <= link
      BY DEF VouchedBy
    <3>2. j # i
      BY <1>3, <2>1, <3>1
    <3> QED
      BY <1>1, <1>3, <1>4, <3>2 DEF Vouched, VouchedBy, Stale
  <2> HIDE DEF After
  <2> SUFFICES ASSUME source \in {"teams", "sharepoint"}, ~mislinked
               PROVE  /\ \A j \in Items : Vouched(j, tokens[Home[j]])' => ~Stale(j)'
                      /\ checkpoint # NoCheckpoint =>
                           Earns(checkpoint.cursor, Resumed, Late)'
                      /\ sync # Idle => Earns(sync.cursor, sync.state, sync.page)'
    BY <1>1 DEF LinksHold
  <2>2. ASSUME NEW j \in Items, After(j, tokens[Home[j]])
        PROVE  held'[j] = changed'[j]
    <3>1. tokens[Home[j]] \in Nat /\ tokens[Home[j]] < clock + 1
      BY <1>6, WalkBlanks
    <3> QED
      BY <1>2, <2>1, <2>2, <3>1 DEF LinksHold, Stale
  <2>3. \A j \in Items : Vouched(j, tokens[Home[j]])' => ~Stale(j)'
    BY <1>1, <2>2 DEF Vouched, Stale, After
  <2>4. ASSUME NEW c, NEW links, NEW page, c.at \in Nat, c.at < clock + 1,
               \A p \in Places : links[p] \in Nat /\ links[p] < clock + 1,
               Earns(c, links, page), NEW j \in Items, held'[j] # changed'[j],
               \/ After(j, links[Home[j]])
               \/ Home[j] = c.place /\ c.at # 0 /\ After(j, c.at)
        PROVE  page[j] = changed'[j] \/ (Home[j] = c.place /\ c.at # 0 /\ j \in c.rest)
    <3>1. links[Home[j]] \in Nat /\ links[Home[j]] < clock + 1
      BY <2>4, WalkBlanks
    <3>2. Promised(j, c, links) /\ Stale(j) /\ changed'[j] = changed[j]
      BY <2>1, <2>4, <3>1 DEF Promised
    <3> QED
      BY <2>4, <3>2 DEF Earns
  <2>5. ASSUME checkpoint # NoCheckpoint
        PROVE  Earns(checkpoint.cursor, Resumed, Late)'
    <3>1. Earns(checkpoint.cursor, Resumed, Late)
      BY <1>2, <2>5 DEF LinksHold
    <3> SUFFICES ASSUME NEW j \in Items, Promised(j, checkpoint.cursor, Resumed)', Stale(j)'
                 PROVE  \/ Late[j] = changed'[j]
                        \/ /\ Home[j] = checkpoint.cursor.place /\ checkpoint.cursor.at # 0
                           /\ j \in checkpoint.cursor.rest
      BY <1>1 DEF Earns, Late
    <3>2. \/ After(j, Resumed[Home[j]])
          \/ /\ Home[j] = checkpoint.cursor.place /\ checkpoint.cursor.at # 0
             /\ After(j, checkpoint.cursor.at)
      BY <1>1 DEF Promised, Vouched, After, Resumed
    <3>3. held'[j] # changed'[j]
      BY DEF Stale
    <3> QED
      BY <1>6, <2>4, <2>5, <3>1, <3>2, <3>3
  <2>6. ASSUME sync # Idle
        PROVE  Earns(sync.cursor, sync.state, sync.page)'
    <3>1. Earns(sync.cursor, sync.state, sync.page)
      BY <1>2, <2>6 DEF LinksHold
    <3> SUFFICES ASSUME NEW j \in Items, Promised(j, sync.cursor, sync.state)', Stale(j)'
                 PROVE  \/ sync.page[j] = changed'[j]
                        \/ /\ Home[j] = sync.cursor.place /\ sync.cursor.at # 0
                           /\ j \in sync.cursor.rest
      BY <1>1 DEF Earns
    <3>2. \/ After(j, sync.state[Home[j]])
          \/ /\ Home[j] = sync.cursor.place /\ sync.cursor.at # 0
             /\ After(j, sync.cursor.at)
      BY <1>1 DEF Promised, Vouched, After
    <3>3. held'[j] # changed'[j]
      BY DEF Stale
    <3> QED
      BY <1>6, <2>4, <2>6, <3>1, <3>2, <3>3
  <2> QED
    BY <2>3, <2>5, <2>6
<1> QED
  BY <1>5, <1>7, <1>8, <1>9, <1>10, <1>11, <1>12 DEF WalkInv

\* A sync begins at a position from which it comes to all that is out of date.
LEMMA SyncBegins ==
    ASSUME WalkInv, source \in Continued, sync = Idle,
           UNCHANGED <<source, clock, changed, held, lastSynced, tokens, checkpoint, excused,
                       linked, mislinked>>,
           sync' \in Syncs, sync'.stage = "fetch", sync'.page = Late,
           sync'.since \in {0, lastSynced}, sync'.cursor.place \in Places,
           sync'.cursor.at <= clock,
           \A p \in Places : sync'.state[p] <= clock,
           sync'.latest \in {NoLinks, sync'.state},
           source = "teams" /\ ~mislinked =>
               \A p \in Places : linked[p] # 0 => sync'.state[p] # 0,
           Whole => Covers(sync'.cursor, Late),
           source \in {"teams", "sharepoint"} /\ ~mislinked =>
               Earns(sync'.cursor, sync'.state, Late)
    PROVE  WalkInv'
<1>1. WalkTypes /\ TimesHold /\ WindowsHold /\ FirstsHold /\ PageHolds /\ CoverHolds /\ LinksHold
  BY WalkParts
<1>2. WalkTypes'
  BY <1>1 DEF WalkTypes
<1>3. TimesHold'
  BY <1>1, WalkBlanks DEF TimesHold
<1>4. WindowsHold'
  BY <1>1 DEF WindowsHold
<1>5. FirstsHold'
  BY <1>1 DEF FirstsHold, Resumed
<1>6. PageHolds'
  BY WalkBlanks DEF PageHolds
<1>7. /\ \A i \in Items : Stale(i)' = Stale(i)
      /\ \A i \in Items : Vouched(i, tokens[Home[i]])' = Vouched(i, tokens[Home[i]])
      /\ Whole' = Whole
  BY DEF Stale, Vouched, Whole
<1>8. CoverHolds'
  <2>1. checkpoint # NoCheckpoint /\ Whole => Covers(checkpoint.cursor, Late)'
    BY <1>1, <1>7 DEF CoverHolds, Covers, Ahead, Late
  <2>2. Whole => Covers(sync.cursor, sync.page)'
    BY <1>7 DEF Covers, Ahead, Late
  <2>3. Whole /\ lastSynced # 0 =>
          \A i \in Items : Stale(i)' /\ i \notin excused => changed[i] > lastSynced
    BY <1>1, <1>7 DEF CoverHolds
  <2> QED
    BY <1>7, <2>1, <2>2, <2>3 DEF CoverHolds
<1>9. LinksHold'
  <2> SUFFICES ASSUME source \in {"teams", "sharepoint"}, ~mislinked
               PROVE  /\ \A i \in Items : Vouched(i, tokens[Home[i]])' => ~Stale(i)'
                      /\ checkpoint # NoCheckpoint =>
                           Earns(checkpoint.cursor, Resumed, Late)'
                      /\ Earns(sync.cursor, sync.state, sync.page)'
    BY DEF LinksHold
  <2>1. \A i \in Items : Vouched(i, tokens[Home[i]])' => ~Stale(i)'
    BY <1>1, <1>7 DEF LinksHold
  <2>2. checkpoint # NoCheckpoint => Earns(checkpoint.cursor, Resumed, Late)'
    BY <1>1, <1>7 DEF LinksHold, Earns, Promised, Vouched, Resumed, Late
  <2>3. Earns(sync.cursor, sync.state, sync.page)'
    BY <1>7 DEF Earns, Promised, Vouched, Late
  <2> QED
    BY <2>1, <2>2, <2>3
<1> QED
  BY <1>2, <1>3, <1>4, <1>5, <1>6, <1>8, <1>9 DEF WalkInv

LEMMA StartHolds ==
    ASSUME WalkInv, source \in Continued, NEW full \in BOOLEAN, StartSync(full)
    PROVE  WalkInv'
<1> DEFINE since == IF full THEN 0 ELSE lastSynced
<1>1. /\ sync = Idle
      /\ sync' = [stage |-> "fetch", full |-> full, since |-> since,
                  cursor |-> FirstPosition, state |-> tokens, latest |-> NoLinks,
                  page |-> Late, more |-> TRUE]
      /\ UNCHANGED <<source, clock, changed, held, lastSynced, tokens, checkpoint, excused,
                     linked, mislinked>>
  BY DEF StartSync, Begin
<1>2. WalkTypes /\ TimesHold /\ FirstsHold /\ LinksHold
  BY WalkParts
<1>3. since \in Times /\ since \in {0, lastSynced}
  BY <1>2, WalkBlanks DEF WalkTypes
<1> HIDE DEF since
<1>4. /\ sync' \in Syncs /\ sync'.stage = "fetch" /\ sync'.page = Late /\ sync'.since = since
      /\ sync'.cursor = FirstPosition /\ sync'.state = tokens /\ sync'.latest = NoLinks
  BY <1>1, <1>2, <1>3, WalkBlanks DEF Syncs, WalkTypes
<1>5. FirstPosition.at <= clock /\ \A p \in Places : tokens[p] <= clock
  BY <1>2, WalkBlanks DEF TimesHold, WalkTypes
<1>6. Covers(FirstPosition, Late)
  <2>1. \A i \in Items : Home[i] \in Nat /\ Home[i] >= 1
    BY WalkConstants
  <2> QED
    BY <2>1, WalkBlanks DEF Covers, Ahead
<1>7. source \in {"teams", "sharepoint"} /\ ~mislinked => Earns(FirstPosition, tokens, Late)
  BY <1>2, WalkBlanks DEF LinksHold, Earns, Promised
<1> QED
  BY <1>1, <1>2, <1>3, <1>4, <1>5, <1>6, <1>7, WalkBlanks, SyncBegins DEF FirstsHold

LEMMA ContinueHolds ==
    ASSUME WalkInv, source \in Continued, NEW full \in BOOLEAN, ContinueSync(full)
    PROVE  WalkInv'
<1>1. /\ sync = Idle /\ checkpoint # NoCheckpoint
      /\ sync' = [stage |-> "fetch", full |-> full, since |-> checkpoint.since,
                  cursor |-> checkpoint.cursor, state |-> Resumed,
                  latest |-> checkpoint.latest, page |-> Late, more |-> TRUE]
      /\ UNCHANGED <<source, clock, changed, held, lastSynced, tokens, checkpoint, excused,
                     linked, mislinked>>
  BY DEF ContinueSync, Begin, Resumed
<1>2. /\ WalkTypes /\ TimesHold /\ WindowsHold /\ FirstsHold /\ CoverHolds /\ LinksHold
  BY WalkParts
<1>3. /\ checkpoint.since \in Times /\ checkpoint.cursor \in Positions
      /\ checkpoint.latest \in [Places -> Times] /\ Resumed \in [Places -> Times]
  BY <1>1, <1>2, CheckpointParts
<1>4. /\ sync' \in Syncs /\ sync'.stage = "fetch" /\ sync'.page = Late
      /\ sync'.since = checkpoint.since
      /\ sync'.cursor = checkpoint.cursor /\ sync'.state = Resumed
      /\ sync'.latest = checkpoint.latest
  BY <1>1, <1>3, WalkBlanks DEF Syncs
<1>5. checkpoint.cursor.at <= clock /\ \A p \in Places : Resumed[p] <= clock
  BY <1>1, <1>2 DEF TimesHold, Resumed
<1>6. checkpoint.latest \in {NoLinks, Resumed}
  BY DEF Resumed
<1>7. checkpoint.since \in {0, lastSynced} /\ checkpoint.cursor.place \in Places
  BY <1>1, <1>2 DEF WindowsHold
<1>8. source = "teams" /\ ~mislinked => \A p \in Places : linked[p] # 0 => Resumed[p] # 0
  BY <1>1, <1>2 DEF FirstsHold
<1>9. /\ Whole => Covers(checkpoint.cursor, Late)
      /\ source \in {"teams", "sharepoint"} /\ ~mislinked =>
           Earns(checkpoint.cursor, Resumed, Late)
  BY <1>1, <1>2 DEF CoverHolds, LinksHold
<1> QED
  BY <1>1, <1>4, <1>5, <1>6, <1>7, <1>8, <1>9, SyncBegins

\* What is out of date once items of the page are ingested was so before, or has been
\* edited since the page was fetched: then nothing that is claimed is about it.
LEMMA AfterIngesting ==
    ASSUME WalkInv, source \in Continued, sync # Idle, NEW done \in SUBSET OnPage,
           held' = Ingested(done)
    PROVE  /\ held' \in [Items -> Times]
           /\ \A i \in Items : changed[i] = 0 => held'[i] = 0
           /\ Whole => \A i \in Items : held'[i] # changed[i] /\ i \notin excused =>
                Stale(i) /\ (done = OnPage => sync.page[i] # changed[i])
           /\ source \in {"teams", "sharepoint"} /\ ~mislinked =>
                \A i \in Items : held'[i] # changed[i] =>
                  /\ ~Vouched(i, tokens[Home[i]])
                  /\ checkpoint # NoCheckpoint /\ Promised(i, checkpoint.cursor, Resumed) =>
                       /\ Home[i] = checkpoint.cursor.place /\ checkpoint.cursor.at # 0
                       /\ i \in checkpoint.cursor.rest
                  /\ done = OnPage /\ Promised(i, sync.cursor, sync.state) =>
                       /\ Home[i] = sync.cursor.place /\ sync.cursor.at # 0
                       /\ i \in sync.cursor.rest
<1>1. WalkTypes /\ TimesHold /\ WindowsHold /\ FirstsHold /\ PageHolds /\ CoverHolds /\ LinksHold
  BY WalkParts
<1>2. /\ sync.page \in [Items -> Times] /\ held \in [Items -> Times]
      /\ \A i \in Items : held'[i] = IF i \in done THEN sync.page[i] ELSE held[i]
  BY <1>1, SyncParts DEF Ingested, WalkTypes
<1>3. held' \in [Items -> Times]
  BY <1>2 DEF Ingested
<1>4. \A i \in Items : changed[i] = 0 => held'[i] = 0
  BY <1>1, <1>2 DEF TimesHold
<1>5. \A i \in Items : held'[i] # changed[i] /\ sync.page[i] \in {0, changed[i]} =>
        Stale(i) /\ (done = OnPage => sync.page[i] # changed[i])
  <2> SUFFICES ASSUME NEW i \in Items, held'[i] # changed[i], sync.page[i] \in {0, changed[i]}
               PROVE  Stale(i) /\ (done = OnPage => sync.page[i] # changed[i])
    OBVIOUS
  <2>1. i \in done => sync.page[i] # 0
    BY DEF OnPage
  <2>2. i \notin done /\ Stale(i)
    BY <1>2, <2>1 DEF Stale
  <2>3. changed[i] # 0
    BY <1>1, <2>2 DEF Stale, TimesHold
  <2> QED
    BY <2>2, <2>3 DEF OnPage
<1>6. \A i \in Items : sync.page[i] \notin {0, changed[i]} => i \in excused
  BY <1>1 DEF PageHolds
<1>7. Whole => \A i \in Items : held'[i] # changed[i] /\ i \notin excused =>
        Stale(i) /\ (done = OnPage => sync.page[i] # changed[i])
  BY <1>5, <1>6
<1>8. ASSUME source \in {"teams", "sharepoint"}, ~mislinked, NEW i \in Items,
             held'[i] # changed[i]
      PROVE  /\ ~Vouched(i, tokens[Home[i]])
             /\ checkpoint # NoCheckpoint /\ Promised(i, checkpoint.cursor, Resumed) =>
                  /\ Home[i] = checkpoint.cursor.place /\ checkpoint.cursor.at # 0
                  /\ i \in checkpoint.cursor.rest
             /\ done = OnPage /\ Promised(i, sync.cursor, sync.state) =>
                  /\ Home[i] = sync.cursor.place /\ sync.cursor.at # 0
                  /\ i \in sync.cursor.rest
  <2>1. CASE sync.page[i] \notin {0, changed[i]}
    <3>1. Home[i] \in Places /\ changed[i] \in Nat
      BY <1>1, WalkBlanks DEF WalkTypes
    <3>2. ASSUME NEW link \in Nat, changed[i] > link
          PROVE  ~Vouched(i, link)
      BY <3>1, <3>2 DEF Vouched, VouchedBy
    <3>3. ~Vouched(i, tokens[Home[i]])
      <4>1. tokens[Home[i]] \in Nat /\ changed[i] > tokens[Home[i]]
        BY <1>1, <2>1, <3>1, WalkBlanks DEF PageHolds, WalkTypes
      <4> QED
        BY <3>2, <4>1
    <3>4. ~Promised(i, sync.cursor, sync.state)
      <4>1. /\ sync.state[Home[i]] \in Nat /\ changed[i] > sync.state[Home[i]]
            /\ sync.cursor.at \in Nat /\ changed[i] > sync.cursor.at
        BY <1>1, <2>1, <3>1, SyncParts, WalkBlanks DEF PageHolds
      <4> QED
        BY <3>2, <4>1 DEF Promised
    <3>5. checkpoint # NoCheckpoint => ~Promised(i, checkpoint.cursor, Resumed)
      <4> SUFFICES ASSUME checkpoint # NoCheckpoint
                   PROVE  ~Promised(i, checkpoint.cursor, Resumed)
        OBVIOUS
      <4>1. /\ Resumed[Home[i]] \in Nat /\ changed[i] > Resumed[Home[i]]
            /\ checkpoint.cursor.at \in Nat /\ changed[i] > checkpoint.cursor.at
        BY <1>1, <2>1, <3>1, CheckpointParts, WalkBlanks DEF PageHolds
      <4> QED
        BY <3>2, <4>1 DEF Promised
    <3> QED
      BY <3>3, <3>4, <3>5
  <2>2. CASE sync.page[i] \in {0, changed[i]}
    <3>1. Stale(i) /\ (done = OnPage => sync.page[i] # changed[i])
      BY <1>5, <1>8, <2>2
    <3>2. Late[i] # changed[i]
      BY <1>1, <3>1, WalkBlanks DEF Stale, TimesHold
    <3>3. ~Vouched(i, tokens[Home[i]])
      BY <1>1, <1>8, <3>1 DEF LinksHold
    <3>4. checkpoint # NoCheckpoint /\ Promised(i, checkpoint.cursor, Resumed) =>
            /\ Home[i] = checkpoint.cursor.place /\ checkpoint.cursor.at # 0
            /\ i \in checkpoint.cursor.rest
      BY <1>1, <1>8, <3>1, <3>2 DEF LinksHold, Earns
    <3>5. done = OnPage /\ Promised(i, sync.cursor, sync.state) =>
            /\ Home[i] = sync.cursor.place /\ sync.cursor.at # 0
            /\ i \in sync.cursor.rest
      BY <1>1, <1>8, <3>1 DEF LinksHold, Earns
    <3> QED
      BY <3>3, <3>4, <3>5
  <2> QED
    BY <2>1, <2>2
<1> QED
  BY <1>3, <1>4, <1>7, <1>8

\* A page is durable: the checkpoint names what is still to come.
LEMMA SavePageHolds ==
    ASSUME WalkInv, source \in Continued, SavePage
    PROVE  WalkInv'
<1>1. /\ sync.stage = "items" /\ sync.more /\ held' = Ingested(OnPage)
      /\ checkpoint' = [stage |-> "saved", full |-> sync.full, since |-> sync.since,
                        cursor |-> sync.cursor, latest |-> sync.latest]
      /\ sync' = [sync EXCEPT !.stage = "fetch", !.page = Late]
      /\ UNCHANGED <<source, clock, changed, lastSynced, tokens, excused, linked, mislinked>>
  BY DEF SavePage
<1>2. WalkTypes /\ TimesHold /\ WindowsHold /\ FirstsHold /\ PageHolds /\ CoverHolds /\ LinksHold
  BY WalkParts
<1>3. sync # Idle
  BY <1>1 DEF Idle
<1>4. /\ sync \in Syncs
      /\ sync.full \in BOOLEAN /\ sync.since \in Times
      /\ sync.cursor \in Positions /\ sync.cursor.at \in Nat
      /\ sync.state \in [Places -> Times] /\ sync.latest \in [Places -> Times]
  BY <1>2, <1>3, SyncParts
<1>5. /\ checkpoint' \in Checkpoints /\ checkpoint' # NoCheckpoint
      /\ checkpoint'.since = sync.since /\ checkpoint'.cursor = sync.cursor
      /\ checkpoint'.latest = sync.latest
  BY <1>1, <1>4 DEF Checkpoints, NoCheckpoint
<1>6. /\ sync' \in Syncs /\ sync' # Idle /\ sync'.stage = "fetch" /\ sync'.page = Late
      /\ sync'.since = sync.since /\ sync'.cursor = sync.cursor
      /\ sync'.state = sync.state /\ sync'.latest = sync.latest
  BY <1>1, <1>4, WalkBlanks DEF Syncs, Idle
<1>7. sync.latest = NoLinks \/ sync.latest = sync.state
  BY <1>2, <1>3 DEF WindowsHold
<1>8. Resumed' \in {tokens, sync.state}
  BY <1>1, <1>5, <1>7 DEF Resumed
<1>9. /\ held' \in [Items -> Times]
      /\ \A i \in Items : changed[i] = 0 => held'[i] = 0
      /\ Whole => \A i \in Items : held'[i] # changed[i] /\ i \notin excused =>
           Stale(i) /\ sync.page[i] # changed[i]
      /\ source \in {"teams", "sharepoint"} /\ ~mislinked =>
           \A i \in Items : held'[i] # changed[i] =>
             /\ ~Vouched(i, tokens[Home[i]])
             /\ Promised(i, sync.cursor, sync.state) =>
                  /\ Home[i] = sync.cursor.place /\ sync.cursor.at # 0
                  /\ i \in sync.cursor.rest
  BY <1>1, <1>3, AfterIngesting
<1>10. WalkTypes'
  BY <1>1, <1>2, <1>5, <1>6, <1>9 DEF WalkTypes
<1>11. TimesHold'
  <2>1. \A p \in Places : sync.latest[p] <= clock
    <3>1. CASE sync.latest = NoLinks
      <4>1. clock \in Nat
        BY <1>2, WalkBlanks DEF WalkTypes
      <4> QED
        BY <3>1, <4>1, WalkBlanks
    <3>2. CASE sync.latest = sync.state
      BY <1>2, <1>3, <3>2 DEF TimesHold
    <3> QED
      BY <1>7, <3>1, <3>2
  <2> QED
    BY <1>1, <1>2, <1>3, <1>5, <1>6, <1>9, <2>1, WalkBlanks DEF TimesHold
<1>12. WindowsHold'
  BY <1>1, <1>2, <1>3, <1>5, <1>6 DEF WindowsHold
<1>13. FirstsHold'
  BY <1>1, <1>2, <1>3, <1>6, <1>8 DEF FirstsHold
<1>14. PageHolds'
  BY <1>6, WalkBlanks DEF PageHolds
<1>15. CoverHolds'
  <2> SUFFICES ASSUME Whole
               PROVE  /\ lastSynced # 0 => \A i \in Items :
                           Stale(i)' /\ i \notin excused => changed[i] > lastSynced
                      /\ Covers(sync.cursor, Late)'
    BY <1>1, <1>5, <1>6 DEF CoverHolds, Whole, Covers, Late, Ahead
  <2>1. lastSynced # 0 => \A i \in Items :
          Stale(i)' /\ i \notin excused => changed[i] > lastSynced
    BY <1>1, <1>2, <1>9 DEF CoverHolds, Stale
  <2>2. \A i \in Items : held'[i] # changed[i] /\ i \notin excused => Ahead(i, sync.cursor)
    BY <1>2, <1>3, <1>9 DEF CoverHolds, Covers
  <2>3. Covers(sync.cursor, Late)'
    BY <1>1, <1>6, <2>2 DEF Covers, Ahead, Stale
  <2> QED
    BY <2>1, <2>3
<1>16. LinksHold'
  <2> SUFFICES ASSUME source \in {"teams", "sharepoint"}, ~mislinked
               PROVE  /\ \A i \in Items : Vouched(i, tokens[Home[i]])' => ~Stale(i)'
                      /\ Earns(checkpoint.cursor, Resumed, Late)'
                      /\ Earns(sync.cursor, sync.state, sync.page)'
    BY <1>1 DEF LinksHold
  <2>1. \A i \in Items : Vouched(i, tokens[Home[i]])' => ~Stale(i)'
    BY <1>1, <1>9 DEF Vouched, Stale
  <2>2. ASSUME NEW links, links \in {tokens, sync.state}, NEW i \in Items,
               held'[i] # changed[i], Promised(i, sync.cursor, links)
        PROVE  /\ Home[i] = sync.cursor.place /\ sync.cursor.at # 0
               /\ i \in sync.cursor.rest
    BY <1>9, <2>2 DEF Promised
  <2>3. ASSUME NEW i \in Items
        PROVE  /\ Stale(i)' = (held'[i] # changed[i])
               /\ Promised(i, checkpoint.cursor, Resumed)' =
                    Promised(i, sync.cursor, Resumed')
               /\ Promised(i, sync.cursor, sync.state)' = Promised(i, sync.cursor, sync.state)
    BY <1>1, <1>5, <1>6 DEF Stale, Promised, Vouched
  <2>4. Earns(checkpoint.cursor, Resumed, Late)'
    BY <1>5, <1>8, <2>2, <2>3 DEF Earns
  <2>5. Earns(sync.cursor, sync.state, sync.page)'
    BY <1>6, <2>2, <2>3 DEF Earns
  <2> QED
    BY <2>1, <2>4, <2>5
<1> QED
  BY <1>10, <1>11, <1>12, <1>13, <1>14, <1>15, <1>16 DEF WalkInv

\* The worker is lost, or the sync fails before it has collected a link.
LEMMA NoLinkHolds ==
    ASSUME WalkInv, source \in Continued, sync # Idle, NEW done \in SUBSET OnPage,
           held' = Ingested(done), sync' = Idle, tokens' = tokens,
           linked' = linked \/ (source # "teams" /\ linked' \in [Places -> Times]),
           mislinked' = mislinked,
           UNCHANGED <<source, clock, changed, lastSynced, checkpoint, excused>>
    PROVE  WalkInv'
<1>1. WalkTypes /\ TimesHold /\ WindowsHold /\ FirstsHold /\ PageHolds /\ CoverHolds /\ LinksHold
  BY WalkParts
<1>2. /\ held' \in [Items -> Times]
      /\ \A i \in Items : changed[i] = 0 => held'[i] = 0
      /\ Whole => \A i \in Items : held'[i] # changed[i] /\ i \notin excused => Stale(i)
      /\ source \in {"teams", "sharepoint"} /\ ~mislinked =>
           \A i \in Items : held'[i] # changed[i] =>
             /\ ~Vouched(i, tokens[Home[i]])
             /\ checkpoint # NoCheckpoint /\ Promised(i, checkpoint.cursor, Resumed) =>
                  /\ Home[i] = checkpoint.cursor.place /\ checkpoint.cursor.at # 0
                  /\ i \in checkpoint.cursor.rest
  BY AfterIngesting
<1>3. linked' \in [Places -> Times] /\ (source = "teams" => linked' = linked)
  BY <1>1 DEF WalkTypes
<1>4. WalkTypes'
  BY <1>1, <1>2, <1>3 DEF WalkTypes
<1>5. TimesHold'
  BY <1>1, <1>2 DEF TimesHold
<1>6. WindowsHold' /\ PageHolds'
  BY <1>1 DEF WindowsHold, PageHolds
<1>7. FirstsHold'
  BY <1>1, <1>3 DEF FirstsHold, Resumed
<1>8. CoverHolds'
  <2>1. Whole /\ lastSynced # 0 => \A i \in Items :
          Stale(i)' /\ i \notin excused => changed[i] > lastSynced
    BY <1>1, <1>2 DEF CoverHolds, Stale
  <2>2. Whole /\ checkpoint # NoCheckpoint => Covers(checkpoint.cursor, Late)'
    BY <1>1, <1>2 DEF CoverHolds, Covers, Ahead, Stale, Late
  <2> QED
    BY <2>1, <2>2 DEF CoverHolds, Whole
<1>9. LinksHold'
  <2> SUFFICES ASSUME source \in {"teams", "sharepoint"}, ~mislinked
               PROVE  /\ \A i \in Items : Vouched(i, tokens[Home[i]])' => ~Stale(i)'
                      /\ checkpoint # NoCheckpoint =>
                           Earns(checkpoint.cursor, Resumed, Late)'
    BY DEF LinksHold
  <2>1. \A i \in Items : \A link :
          VouchedBy(i, changed[i], linked'[Home[i]], excused, source, link)
                                 => Vouched(i, link)
    BY <1>3 DEF Vouched, VouchedBy
  <2>2. \A i \in Items : Vouched(i, tokens[Home[i]])' => ~Stale(i)'
    BY <1>2, <2>1 DEF Vouched, Stale
  <2>3. ASSUME checkpoint # NoCheckpoint, NEW i \in Items, Stale(i)',
               Promised(i, checkpoint.cursor, Resumed)'
        PROVE  /\ Home[i] = checkpoint.cursor.place /\ checkpoint.cursor.at # 0
               /\ i \in checkpoint.cursor.rest
    <3>1. Promised(i, checkpoint.cursor, Resumed)
      BY <2>1, <2>3 DEF Promised, Vouched, Resumed
    <3> QED
      BY <1>2, <2>3, <3>1 DEF Stale
  <2>4. checkpoint # NoCheckpoint => Earns(checkpoint.cursor, Resumed, Late)'
    BY <2>3 DEF Earns
  <2> QED
    BY <2>2, <2>4
<1> QED
  BY <1>4, <1>5, <1>6, <1>7, <1>8, <1>9 DEF WalkInv

LEMMA CrashHolds ==
    ASSUME WalkInv, source \in Continued, NEW done \in SUBSET Items, Crash(done)
    PROVE  WalkInv'
BY NoLinkHolds DEF Crash

\* The first links of the channels, after a sync that ends with these.
LEMMA FirstLinksHold ==
    ASSUME WalkTypes, NEW links \in [Places -> Times]
    PROVE  /\ FirstLinks(links) \in [Places -> Times]
           /\ source = "teams" => \A p \in Places :
                FirstLinks(links)[p] = IF linked[p] = 0 THEN links[p] ELSE linked[p]
BY WalkBlanks DEF FirstLinks, WalkTypes

\* A sync that fails saves the links that it has collected: from then on nothing is
\* claimed of Teams and SharePoint.
LEMMA FailHolds ==
    ASSUME WalkInv, source \in Continued, NEW done \in SUBSET Items, Fail(done)
    PROVE  WalkInv'
<1>1. /\ sync # Idle /\ done \in SUBSET OnPage /\ held' = Ingested(done)
      /\ tokens' = Saved(sync.latest) /\ linked' = FirstLinks(tokens')
      /\ mislinked' = (mislinked \/ sync.latest # NoLinks) /\ sync' = Idle
      /\ UNCHANGED <<source, clock, changed, lastSynced, checkpoint, excused>>
  BY DEF Fail
<1>2. WalkTypes /\ TimesHold /\ WindowsHold /\ FirstsHold /\ PageHolds /\ CoverHolds /\ LinksHold
  BY WalkParts
<1>3. CASE sync.latest = NoLinks
  <2>1. tokens' = tokens
    BY <1>1, <1>3 DEF Saved
  <2>2. tokens \in [Places -> Times] /\ linked \in [Places -> Times] /\ mislinked \in BOOLEAN
    BY <1>2 DEF WalkTypes
  <2>3. linked' \in [Places -> Times]
    BY <1>1, <1>2, <2>1, <2>2, FirstLinksHold
  <2>4. source = "teams" => linked' = linked
    <3>1. source = "teams" => \A p \in Places : linked'[p] = linked[p]
      BY <1>1, <1>2, <2>1, <2>2, FirstLinksHold DEF FirstsHold
    <3> QED
      BY <2>2, <2>3, <3>1
  <2>5. mislinked' = mislinked
    BY <1>1, <1>3, <2>2
  <2> QED
    BY <1>1, <2>1, <2>3, <2>4, <2>5, NoLinkHolds
<1>4. CASE sync.latest # NoLinks
  <2>1. /\ held' \in [Items -> Times]
        /\ \A i \in Items : changed[i] = 0 => held'[i] = 0
        /\ Whole => \A i \in Items : held'[i] # changed[i] /\ i \notin excused => Stale(i)
    BY <1>1, AfterIngesting
  <2>2. sync.latest = sync.state /\ sync.state \in [Places -> Times]
    BY <1>1, <1>2, <1>4, SyncParts DEF WindowsHold
  <2>3. tokens' = sync.state /\ mislinked' = TRUE
    BY <1>1, <1>4, <2>2 DEF Saved
  <2>4. /\ linked' \in [Places -> Times]
        /\ source = "teams" => \A p \in Places :
             linked'[p] = IF linked[p] = 0 THEN sync.state[p] ELSE linked[p]
    BY <1>1, <1>2, <2>2, <2>3, FirstLinksHold
  <2>5. WalkTypes'
    BY <1>1, <1>2, <2>1, <2>2, <2>3, <2>4 DEF WalkTypes
  <2>6. TimesHold'
    BY <1>1, <1>2, <2>1, <2>3 DEF TimesHold
  <2>7. WindowsHold' /\ PageHolds' /\ LinksHold'
    BY <1>1, <1>2, <2>3 DEF WindowsHold, PageHolds, LinksHold
  <2>8. FirstsHold'
    BY <1>1, <2>3, <2>4 DEF FirstsHold
  <2>9. CoverHolds'
    <3>1. Whole' => Whole
      BY <1>1, <2>3 DEF Whole
    <3>2. Whole /\ lastSynced # 0 => \A i \in Items :
            Stale(i)' /\ i \notin excused => changed[i] > lastSynced
      BY <1>1, <1>2, <2>1 DEF CoverHolds, Stale
    <3>3. Whole /\ checkpoint # NoCheckpoint => Covers(checkpoint.cursor, Late)'
      BY <1>1, <1>2, <2>1 DEF CoverHolds, Covers, Ahead, Stale, Late
    <3> QED
      BY <1>1, <3>1, <3>2, <3>3 DEF CoverHolds
  <2> QED
    BY <2>5, <2>6, <2>7, <2>8, <2>9 DEF WalkInv
<1> QED
  BY <1>3, <1>4

\* The last page: the walk has come to all there was, and its links become those to go
\* on from.
LEMMA FinishHolds ==
    ASSUME WalkInv, source \in Continued, Finish
    PROVE  WalkInv'
<1>1. /\ sync.stage = "items" /\ ~sync.more /\ clock < MaxClock
      /\ held' = Ingested(OnPage) /\ clock' = clock + 1 /\ lastSynced' = clock + 1
      /\ checkpoint' = NoCheckpoint /\ tokens' = Saved(sync.latest)
      /\ linked' = FirstLinks(tokens') /\ sync' = Idle
      /\ UNCHANGED <<source, changed, excused, mislinked>>
  BY DEF Finish
<1>2. WalkTypes /\ TimesHold /\ WindowsHold /\ FirstsHold /\ PageHolds /\ CoverHolds /\ LinksHold
  BY WalkParts
<1>3. sync # Idle
  BY <1>1 DEF Idle
<1>4. /\ held' \in [Items -> Times]
      /\ \A i \in Items : changed[i] = 0 => held'[i] = 0
      /\ Whole => \A i \in Items : held'[i] # changed[i] /\ i \notin excused =>
           Stale(i) /\ sync.page[i] # changed[i]
      /\ source \in {"teams", "sharepoint"} /\ ~mislinked =>
           \A i \in Items : held'[i] # changed[i] =>
             /\ ~Vouched(i, tokens[Home[i]])
             /\ Promised(i, sync.cursor, sync.state) =>
                  /\ Home[i] = sync.cursor.place /\ sync.cursor.at # 0
                  /\ i \in sync.cursor.rest
  BY <1>1, <1>3, AfterIngesting
<1>5. sync.cursor.place = NumPlaces + 1
  <2>1. sync.cursor.place \in 1..(NumPlaces + 1)
    BY <1>2, <1>3, SyncParts DEF Positions
  <2>2. sync.cursor.place \notin Places
    BY <1>1, <1>2, <1>3 DEF WindowsHold
  <2> QED
    BY <2>1, <2>2, WalkConstants DEF Places
<1>6. \A i \in Items : Home[i] # sync.cursor.place /\ ~(Home[i] > sync.cursor.place)
  BY <1>5, WalkConstants
<1>7. tokens' \in {tokens, sync.state}
  BY <1>1, <1>2, <1>3 DEF Saved, WindowsHold
<1>8. /\ tokens \in [Places -> Times] /\ sync.state \in [Places -> Times]
      /\ tokens' \in [Places -> Times]
  BY <1>2, <1>3, <1>7, SyncParts DEF WalkTypes
<1>9. /\ linked' \in [Places -> Times]
      /\ source = "teams" => \A p \in Places :
           linked'[p] = IF linked[p] = 0 THEN tokens'[p] ELSE linked[p]
  BY <1>1, <1>2, <1>8, FirstLinksHold
<1>10. clock \in Nat /\ clock + 1 \in Times /\ clock + 1 # 0
  BY <1>1, <1>2, WalkConstants DEF WalkTypes, Times
<1>11. WalkTypes'
  BY <1>1, <1>2, <1>4, <1>8, <1>9, <1>10 DEF WalkTypes
<1>12. TimesHold'
  <2>1. \A n \in Nat : n <= clock => n <= clock + 1
    BY <1>10
  <2>2. \A p \in Places : tokens'[p] \in Nat /\ tokens'[p] <= clock
    BY <1>2, <1>3, <1>7, <1>8, WalkBlanks DEF TimesHold
  <2>3. \A i \in Items : changed[i] \in Nat /\ changed[i] <= clock
    BY <1>2, WalkBlanks DEF TimesHold, WalkTypes
  <2>4. clock + 1 <= clock + 1
    BY <1>10
  <2> QED
    BY <1>1, <1>4, <2>1, <2>2, <2>3, <2>4 DEF TimesHold
<1>13. WindowsHold' /\ PageHolds'
  BY <1>1 DEF WindowsHold, PageHolds
<1>14. FirstsHold'
  <2>1. source = "teams" => \A p \in Places : tokens'[p] # 0 => linked'[p] # 0
    BY <1>9
  <2>2. source = "teams" /\ ~mislinked => \A p \in Places : linked'[p] # 0 => tokens'[p] # 0
    BY <1>2, <1>3, <1>7, <1>9 DEF FirstsHold
  <2> QED
    BY <1>1, <2>1, <2>2 DEF FirstsHold
<1>15. CoverHolds'
  <2>1. Whole => \A i \in Items : held'[i] # changed[i] => i \in excused
    BY <1>2, <1>3, <1>4, <1>6 DEF CoverHolds, Covers, Ahead
  <2> QED
    BY <1>1, <2>1 DEF CoverHolds, Whole, Stale
<1>16. LinksHold'
  <2> SUFFICES ASSUME source \in {"teams", "sharepoint"}, ~mislinked, NEW i \in Items,
                      Vouched(i, tokens[Home[i]])', held'[i] # changed[i]
               PROVE  FALSE
    BY <1>1 DEF LinksHold, Stale
  <2>1. VouchedBy(i, changed[i], linked'[Home[i]], excused, source, tokens'[Home[i]])
    BY <1>1 DEF Vouched
  <2>2. Home[i] \in Places /\ changed[i] \in Nat /\ tokens'[Home[i]] \in Nat
    BY <1>2, <1>8, WalkBlanks DEF WalkTypes
  <2>3. Vouched(i, tokens'[Home[i]])
    <3>1. CASE source = "sharepoint"
      BY <2>1, <3>1 DEF Vouched, VouchedBy
    <3>2. CASE source = "teams"
      <4>1. /\ linked'[Home[i]] < changed[i] /\ changed[i] <= tokens'[Home[i]]
            /\ changed[i] # 0 /\ linked'[Home[i]] # 0
        BY <2>1, <3>2 DEF VouchedBy
      <4>2. linked[Home[i]] # 0
        BY <1>9, <2>2, <3>2, <4>1
      <4> QED
        BY <1>9, <2>2, <3>2, <4>1, <4>2 DEF Vouched, VouchedBy
    <3> QED
      BY <3>1, <3>2
  <2>4. CASE tokens' = tokens
    BY <1>4, <2>3, <2>4
  <2>5. CASE tokens' = sync.state
    BY <1>4, <1>6, <2>3, <2>5 DEF Promised
  <2> QED
    BY <1>7, <2>4, <2>5
<1> QED
  BY <1>11, <1>12, <1>13, <1>14, <1>15, <1>16 DEF WalkInv

\* A page of a continuation: `got` of what was left when it was asked for.
OpenedAt(c) == IF c.at = 0 THEN clock ELSE c.at
Left(c, matched) == IF c.at = 0 THEN matched ELSE c.rest
After(c, left, got) ==
    IF left = got THEN NextPlace(c.place)
    ELSE [place |-> c.place, at |-> OpenedAt(c), rest |-> left \ got]

LEMMA PageOfContinuation ==
    ASSUME NEW c, NEW matched, NEW page \in Continuation(c, matched)
    PROVE  \E got \in SUBSET Left(c, matched) :
             page = [items |-> got, failed |-> {}, next |-> After(c, Left(c, matched), got),
                     link |-> IF Left(c, matched) = got THEN OpenedAt(c) ELSE 0]
BY DEF Continuation, Left, After, OpenedAt

\* What a call of fetch_batch brings: it leaves out nothing that a sync must bring in,
\* but what cannot be downloaded, and what is older than the window.
PageIs(page, c, left, got) ==
    /\ got \subseteq left
    /\ page.next = After(c, left, got)
    /\ page.link \in {0, OpenedAt(c)} /\ (page.link # 0 => left = got)
    /\ page.items \subseteq got /\ page.failed \subseteq got
    /\ source # "sharepoint" => page.items = got /\ page.failed = {}
    /\ \A i \in got : i \in page.items \/ i \in page.failed \/ ~(changed[i] >= sync.since)

\* What the listing holds when it is opened.
Matches(matched) ==
    LET p == sync.cursor.place
        saved == sync.state[p]
    IN CASE source \in {"jira", "slack"} -> matched = Matching(p, sync.since)
         [] source = "teams" /\ sync.since = 0 -> matched = Matching(p, 0)
         [] source = "teams" /\ sync.since # 0 ->
              matched = {i \in At(p) :
                           changed[i] > IF saved # 0 THEN saved ELSE sync.since}
         [] OTHER -> matched = {i \in At(p) : changed[i] > IF saved # 0 THEN saved ELSE 0}

LEMMA FetchedPage ==
    ASSUME source \in Continued, NEW page \in FetchBatch(sync.cursor, sync)
    PROVE  \E matched, got : Matches(matched) /\ PageIs(page, sync.cursor, Left(sync.cursor, matched), got)
<1> DEFINE c == sync.cursor
           p == c.place
           saved == sync.state[p]
<1>1. ASSUME NEW matched, NEW q \in Continuation(c, matched), page = q, source = "teams"
      PROVE  \E got : PageIs(page, c, Left(c, matched), got)
  <2>1. PICK got \in SUBSET Left(c, matched) :
          q = [items |-> got, failed |-> {}, next |-> After(c, Left(c, matched), got),
               link |-> IF Left(c, matched) = got THEN OpenedAt(c) ELSE 0]
    BY PageOfContinuation
  <2> HIDE DEF c
  <2>2. PageIs(page, c, Left(c, matched), got)
    BY <1>1, <2>1 DEF PageIs
  <2> QED
    BY <2>2
<1>2. ASSUME NEW matched, NEW q \in Continuation(c, matched), page = [q EXCEPT !.link = 0],
             source # "sharepoint"
      PROVE  \E got : PageIs(page, c, Left(c, matched), got)
  <2>1. PICK got \in SUBSET Left(c, matched) :
          q = [items |-> got, failed |-> {}, next |-> After(c, Left(c, matched), got),
               link |-> IF Left(c, matched) = got THEN OpenedAt(c) ELSE 0]
    BY PageOfContinuation
  <2> HIDE DEF c
  <2>2. /\ page.items = got /\ page.failed = {} /\ page.link = 0
        /\ page.next = After(c, Left(c, matched), got)
    BY <1>2, <2>1
  <2>3. PageIs(page, c, Left(c, matched), got)
    BY <2>1, <2>2 DEF PageIs
  <2> QED
    BY <2>3
<1>3. ASSUME NEW matched, NEW q \in Continuation(c, matched),
             page \in Filtered(q, sync.since), source = "sharepoint"
      PROVE  \E got : PageIs(page, c, Left(c, matched), got)
  <2>1. PICK got \in SUBSET Left(c, matched) :
          q = [items |-> got, failed |-> {}, next |-> After(c, Left(c, matched), got),
               link |-> IF Left(c, matched) = got THEN OpenedAt(c) ELSE 0]
    BY PageOfContinuation
  <2> DEFINE recent == {i \in q.items : changed[i] >= sync.since}
  <2>2. PICK failed \in SUBSET recent :
          page = [q EXCEPT !.items = recent \ failed, !.failed = failed]
    BY <1>3 DEF Filtered
  <2>3. q.items = got
    BY <2>1
  <2>4. \A i \in got : i \in recent \/ ~(changed[i] >= sync.since)
    BY <2>3
  <2>5. recent \subseteq got
    BY <2>3
  <2> HIDE DEF c, recent
  <2>6. /\ page.items = recent \ failed /\ page.failed = failed
        /\ page.link = (IF Left(c, matched) = got THEN OpenedAt(c) ELSE 0)
        /\ page.next = After(c, Left(c, matched), got)
    BY <2>1, <2>2
  <2>7. PageIs(page, c, Left(c, matched), got)
    BY <1>3, <2>1, <2>2, <2>4, <2>5, <2>6 DEF PageIs
  <2> QED
    BY <2>7
<1>4. CASE source \in {"jira", "slack"}
  <2> DEFINE matched == Matching(p, sync.since)
  <2>1. PICK q \in Continuation(c, matched) : page = [q EXCEPT !.link = 0]
    BY <1>4 DEF FetchBatch, JiraPages, SlackPages, Unlinked
  <2>2. Matches(matched)
    BY <1>4 DEF Matches
  <2> HIDE DEF matched
  <2> QED
    BY <1>2, <1>4, <2>1, <2>2
<1>5. CASE source = "teams" /\ sync.since = 0
  <2> DEFINE matched == Matching(p, 0)
  <2>1. PICK q \in Continuation(c, matched) : page = [q EXCEPT !.link = 0]
    BY <1>5 DEF FetchBatch, TeamsPages, TeamsFullPages, Unlinked
  <2>2. Matches(matched)
    BY <1>5 DEF Matches
  <2> HIDE DEF matched
  <2> QED
    BY <1>2, <1>5, <2>1, <2>2
<1>6. CASE source = "teams" /\ sync.since # 0
  <2> DEFINE matched == {i \in At(p) : changed[i] > IF saved # 0 THEN saved ELSE sync.since}
  <2>1. page \in Continuation(c, matched)
    BY <1>6 DEF FetchBatch, TeamsPages, Feed
  <2>2. Matches(matched)
    BY <1>6 DEF Matches
  <2> HIDE DEF matched
  <2> QED
    BY <1>1, <1>6, <2>1, <2>2
<1>7. CASE source = "sharepoint"
  <2> DEFINE matched == {i \in At(p) : changed[i] > IF saved # 0 THEN saved ELSE 0}
  <2>1. PICK q \in Continuation(c, matched) : page \in Filtered(q, sync.since)
    BY <1>7 DEF FetchBatch, SharePointPages, Feed
  <2>2. Matches(matched)
    BY <1>7 DEF Matches
  <2> HIDE DEF matched
  <2> QED
    BY <1>3, <1>7, <2>1, <2>2
<1> QED
  BY <1>4, <1>5, <1>6, <1>7 DEF Continued

\* What is out of date at the place of the walk, and must be brought in, is left.
LEMMA NothingIsPassed ==
    ASSUME WalkInv, source \in Continued, sync.stage = "fetch", NEW matched, Matches(matched),
           NEW i \in Items, Stale(i), Home[i] = sync.cursor.place
    PROVE  /\ Whole /\ i \notin excused => i \in Left(sync.cursor, matched)
           /\ source \in {"teams", "sharepoint"} /\ ~mislinked
              /\ (Vouched(i, OpenedAt(sync.cursor)) \/ Vouched(i, sync.state[Home[i]])) =>
                i \in Left(sync.cursor, matched)
<1>1. WalkTypes /\ TimesHold /\ WindowsHold /\ FirstsHold /\ CoverHolds /\ LinksHold
  BY WalkParts
<1>2. sync # Idle
  BY DEF Idle
<1>3. /\ sync.page = Late /\ Late[i] = 0 /\ changed[i] # 0 /\ changed[i] \in Nat
      /\ changed[i] <= clock /\ clock \in Nat
  BY <1>1, <1>2, WalkBlanks DEF WindowsHold, WalkTypes, TimesHold, Stale
<1>4. Home[i] \in Places /\ sync.state[Home[i]] \in Nat /\ sync.cursor.place \in Nat
      /\ sync.since \in Nat /\ lastSynced \in Nat /\ linked[Home[i]] \in Nat
  BY <1>1, <1>2, SyncParts, WalkBlanks DEF WalkTypes
<1>5. CASE sync.cursor.at # 0
  <2>1. Left(sync.cursor, matched) = sync.cursor.rest /\ OpenedAt(sync.cursor) = sync.cursor.at
    BY <1>5 DEF Left, OpenedAt
  <2>2. Whole /\ i \notin excused => i \in sync.cursor.rest
    BY <1>1, <1>2, <1>3, <1>4, <1>5 DEF CoverHolds, Covers, Ahead
  <2>3. source \in {"teams", "sharepoint"} /\ ~mislinked
        /\ (Vouched(i, sync.cursor.at) \/ Vouched(i, sync.state[Home[i]])) =>
          i \in sync.cursor.rest
    BY <1>1, <1>2, <1>3, <1>5 DEF LinksHold, Earns, Promised
  <2> QED
    BY <2>1, <2>2, <2>3
<1>6. CASE sync.cursor.at = 0
  <2>1. Left(sync.cursor, matched) = matched /\ OpenedAt(sync.cursor) = clock
    BY <1>6 DEF Left, OpenedAt
  <2>2. source \in {"teams", "sharepoint"} /\ ~mislinked => ~Vouched(i, sync.state[Home[i]])
    BY <1>1, <1>2, <1>3, <1>6 DEF LinksHold, Earns, Promised
  <2>3. ASSUME source \in {"teams", "sharepoint"}, ~mislinked, Vouched(i, clock)
        PROVE  i \in matched
    <3>1. changed[i] > sync.state[Home[i]]
      BY <1>3, <1>4, <2>2, <2>3 DEF Vouched, VouchedBy
    <3>2. CASE source = "sharepoint"
      <4>1. matched = {j \in At(sync.cursor.place) :
                         changed[j] > IF sync.state[sync.cursor.place] # 0
                                      THEN sync.state[sync.cursor.place] ELSE 0}
        BY <3>2 DEF Matches
      <4> QED
        BY <1>3, <3>1, <4>1 DEF At
    <3>3. CASE source = "teams" /\ sync.since = 0
      <4>1. matched = Matching(sync.cursor.place, 0)
        BY <3>3 DEF Matches
      <4> QED
        BY <1>3, <4>1 DEF Matching, At
    <3>4. CASE source = "teams" /\ sync.since # 0
      <4>1. linked[Home[i]] # 0
        BY <2>3, <3>4 DEF Vouched, VouchedBy
      <4>2. sync.state[Home[i]] # 0
        BY <1>1, <1>2, <1>4, <2>3, <3>4, <4>1 DEF FirstsHold
      <4>3. matched = {j \in At(sync.cursor.place) :
                         changed[j] > IF sync.state[sync.cursor.place] # 0
                                      THEN sync.state[sync.cursor.place] ELSE sync.since}
        BY <3>4 DEF Matches
      <4> QED
        BY <3>1, <4>2, <4>3 DEF At
    <3> QED
      BY <2>3, <3>2, <3>3, <3>4
  <2>4. ASSUME Whole, i \notin excused
        PROVE  i \in matched
    <3>1. CASE source = "sharepoint"
      BY <1>3, <2>3, <2>4, <3>1 DEF Whole, Vouched, VouchedBy
    <3>2. CASE source \in {"jira", "slack"}
      <4>1. matched = Matching(sync.cursor.place, sync.since)
        BY <3>2 DEF Matches
      <4>2. changed[i] >= sync.since
        <5>1. sync.since \in {0, lastSynced}
          BY <1>1, <1>2 DEF WindowsHold
        <5>2. lastSynced # 0 => changed[i] > lastSynced
          BY <1>1, <2>4 DEF CoverHolds
        <5> QED
          BY <1>3, <1>4, <5>1, <5>2
      <4> QED
        BY <1>3, <4>1, <4>2 DEF Matching, At
    <3> QED
      BY <2>4, <3>1, <3>2 DEF Whole
  <2> QED
    BY <2>1, <2>2, <2>3, <2>4
<1> QED
  BY <1>5, <1>6, SyncParts, <1>1, <1>2

LEMMA MatchesAreItems ==
    ASSUME source \in Continued, NEW matched, Matches(matched)
    PROVE  matched \subseteq Items
<1>1. CASE source \in {"jira", "slack"}
  BY <1>1 DEF Matches, Matching, At
<1>2. CASE source = "teams" /\ sync.since = 0
  BY <1>2 DEF Matches, Matching, At
<1>3. CASE source = "teams" /\ sync.since # 0
  BY <1>3 DEF Matches, At
<1>4. CASE source = "sharepoint"
  BY <1>4 DEF Matches, At
<1> QED
  BY <1>1, <1>2, <1>3, <1>4 DEF Continued

\* A call of fetch_batch: what the page leaves out is still ahead.
LEMMA FetchHolds ==
    ASSUME WalkInv, source \in Continued, FetchPage
    PROVE  WalkInv'
<1>1. /\ sync.stage = "fetch"
      /\ UNCHANGED <<source, clock, changed, held, lastSynced, tokens, checkpoint, linked,
                     mislinked>>
  BY DEF FetchPage
<1>2. PICK page \in FetchBatch(sync.cursor, sync) :
        /\ sync' = [Collected(sync, page) EXCEPT
                      !.stage  = "items",
                      !.cursor = page.next,
                      !.page   = [i \in Items |-> IF i \in page.items THEN changed[i] ELSE 0],
                      !.more   = page.next.place <= NumPlaces]
        /\ excused' = excused \cup page.failed
  BY DEF FetchPage
<1>3. WalkTypes /\ TimesHold /\ WindowsHold /\ FirstsHold /\ PageHolds /\ CoverHolds /\ LinksHold
  BY WalkParts
<1>4. sync # Idle
  BY <1>1 DEF Idle
<1>5. PICK matched, got :
        Matches(matched) /\ PageIs(page, sync.cursor, Left(sync.cursor, matched), got)
  BY FetchedPage
<1> DEFINE p == sync.cursor.place
           left == Left(sync.cursor, matched)
           begun == OpenedAt(sync.cursor)
           next == page.next
           state == IF page.link = 0 THEN sync.state ELSE [sync.state EXCEPT ![p] = page.link]
           latest == IF page.link = 0 THEN sync.latest ELSE state
           brought == [i \in Items |-> IF i \in page.items THEN changed[i] ELSE 0]
           more == next.place <= NumPlaces
<1>6. /\ p \in Places /\ p \in Nat /\ begun \in Times /\ begun \in Nat /\ begun # 0
      /\ begun <= clock /\ clock \in Nat /\ left \subseteq Items
  <2>1. p \in Places /\ p \in Nat /\ clock \in Times /\ clock \in Nat /\ clock # 0
    BY <1>1, <1>3, <1>4, WalkBlanks DEF WindowsHold, WalkTypes
  <2>2. sync.cursor.at \in Nat /\ sync.cursor.at <= clock /\ sync.cursor.rest \in SUBSET Items
    BY <1>3, <1>4, SyncParts DEF TimesHold
  <2>3. begun \in Nat /\ begun # 0 /\ begun <= clock
    BY <2>1, <2>2 DEF OpenedAt
  <2>4. begun \in Times
    BY <2>1, <2>3, WalkConstants DEF Times
  <2>5. left \subseteq Items
    BY <1>5, <2>2, MatchesAreItems DEF Left
  <2> QED
    BY <2>1, <2>3, <2>4, <2>5
<1>7. /\ left = got => next.place = p + 1 /\ next.at = 0
      /\ left # got => next.place = p /\ next.at = begun /\ next.rest = left \ got
      /\ next \in Positions
  <2>1. next = After(sync.cursor, left, got)
    BY <1>5 DEF PageIs
  <2>2. CASE left = got
    <3>1. next = [place |-> p + 1, at |-> 0, rest |-> {}]
      BY <2>1, <2>2 DEF After, NextPlace
    <3>2. p + 1 \in 1..(NumPlaces + 1) /\ 0 \in Nat /\ {} \in SUBSET Items
      BY <1>6, WalkConstants DEF Places
    <3> HIDE DEF p
    <3> QED
      BY <2>2, <3>1, <3>2 DEF Positions
  <2>3. CASE left # got
    <3>1. next = [place |-> p, at |-> begun, rest |-> left \ got]
      BY <2>1, <2>3 DEF After
    <3>2. p \in 1..(NumPlaces + 1) /\ begun \in Nat /\ left \ got \in SUBSET Items
      BY <1>6, WalkConstants DEF Places
    <3> HIDE DEF p, begun, left
    <3> QED
      BY <2>3, <3>1, <3>2 DEF Positions
  <2> QED
    BY <2>2, <2>3
<1>8. /\ got \subseteq left /\ page.link \in {0, begun}
      /\ page.items \subseteq got /\ page.failed \subseteq got
      /\ source # "sharepoint" => page.items = got /\ page.failed = {}
      /\ \A i \in got : i \in page.items \/ i \in page.failed \/ ~(changed[i] >= sync.since)
  BY <1>5 DEF PageIs
<1>9. /\ sync \in Syncs /\ sync.full \in BOOLEAN /\ sync.since \in Times
      /\ sync.state \in [Places -> Times] /\ sync.latest \in [Places -> Times]
      /\ \A i \in Items : changed[i] \in Times /\ changed[i] \in Nat
  BY <1>3, <1>4, SyncParts, WalkBlanks DEF WalkTypes
<1>10. /\ state \in [Places -> Times] /\ latest \in [Places -> Times]
       /\ brought \in [Items -> Times] /\ more \in BOOLEAN
  <2>1. state \in [Places -> Times]
    BY <1>6, <1>8, <1>9
  <2>2. latest \in [Places -> Times]
    BY <1>9, <2>1
  <2>3. brought \in [Items -> Times]
    BY <1>9, WalkBlanks
  <2> QED
    BY <2>1, <2>2, <2>3
<1>11. /\ \A q \in Places : q # p => state[q] = sync.state[q]
       /\ state[p] \in {sync.state[p], begun}
       /\ \A q \in Places : state[q] \in {sync.state[q], begun}
  BY <1>6, <1>8, <1>9
<1>12. \A i \in Items : brought[i] = IF i \in page.items THEN changed[i] ELSE 0
  OBVIOUS
<1>13. /\ sync' # Idle /\ sync' \in Syncs
       /\ sync'.stage = "items" /\ sync'.since = sync.since /\ sync'.cursor = next
       /\ sync'.state = state /\ sync'.latest = latest /\ sync'.page = brought
       /\ sync'.more = more
  <2>1. /\ "items" \in {"fetch", "items"} /\ next \in Positions
    BY <1>7
  <2>2. CASE page.link = 0
    <3>1. sync' = [sync EXCEPT !.stage = "items", !.cursor = next, !.page = brought,
                               !.more = more]
      BY <1>2, <2>2 DEF Collected
    <3>2. state = sync.state /\ latest = sync.latest
      BY <2>2
    <3> HIDE DEF next, brought, more, state, latest
    <3>3. sync' \in Syncs
      BY <1>9, <1>10, <2>1, <3>1 DEF Syncs
    <3>4. /\ sync'.stage = "items" /\ sync'.since = sync.since /\ sync'.cursor = next
          /\ sync'.state = sync.state /\ sync'.latest = sync.latest
          /\ sync'.page = brought /\ sync'.more = more
      BY <1>9, <3>1 DEF Syncs
    <3> QED
      BY <3>2, <3>3, <3>4 DEF Idle
  <2>3. CASE page.link # 0
    <3>1. sync' = [[sync EXCEPT !.state = state, !.latest = state] EXCEPT
                     !.stage = "items", !.cursor = next, !.page = brought, !.more = more]
      BY <1>2, <2>3 DEF Collected
    <3>2. latest = state
      BY <2>3
    <3> HIDE DEF next, brought, more, state, latest
    <3>3. sync' \in Syncs
      BY <1>9, <1>10, <2>1, <3>1 DEF Syncs
    <3>4. /\ sync'.stage = "items" /\ sync'.since = sync.since /\ sync'.cursor = next
          /\ sync'.state = state /\ sync'.latest = state
          /\ sync'.page = brought /\ sync'.more = more
      BY <1>9, <3>1 DEF Syncs
    <3> QED
      BY <3>2, <3>3, <3>4 DEF Idle
  <2> QED
    BY <2>2, <2>3
<1>14. latest \in {NoLinks, state}
  BY <1>3, <1>4 DEF WindowsHold
<1> HIDE DEF p, left, begun, next, state, latest, brought, more
<1>15. WalkTypes'
  <2>1. excused' \in SUBSET Items
    BY <1>2, <1>3, <1>6, <1>8 DEF WalkTypes
  <2> QED
    BY <1>1, <1>3, <1>13, <2>1 DEF WalkTypes
<1>16. TimesHold'
  <2>1. next.at <= clock
    BY <1>6, <1>7
  <2>2. \A q \in Places : state[q] <= clock
    BY <1>3, <1>4, <1>6, <1>11 DEF TimesHold
  <2>3. \A i \in Items : changed[i] = 0 => brought[i] = 0
    BY <1>12
  <2> QED
    BY <1>1, <1>3, <1>13, <2>1, <2>2, <2>3 DEF TimesHold
<1>17. WindowsHold'
  <2>1. more <=> next.place \in Places
    <3>1. next.place \in 1..(NumPlaces + 1)
      BY <1>7 DEF Positions
    <3> QED
      BY <3>1, WalkConstants DEF more, Places
  <2> QED
    BY <1>1, <1>3, <1>4, <1>13, <1>14, <2>1 DEF WindowsHold
<1>18. FirstsHold'
  <2>1. \A q \in Places : sync.state[q] # 0 => state[q] # 0
    BY <1>6, <1>11
  <2> QED
    BY <1>1, <1>3, <1>4, <1>13, <2>1 DEF FirstsHold, Resumed
<1>19. PageHolds'
  BY <1>1, <1>12, <1>13 DEF PageHolds
<1>20. ASSUME NEW i \in Items
       PROVE  /\ Stale(i)' <=> Stale(i)
              /\ i \notin excused' => i \notin excused /\ i \notin page.failed
              /\ Home[i] \in Places /\ Home[i] \in Nat /\ Late[i] = 0
              /\ Stale(i) => changed[i] # 0
  <2>1. i \notin excused' => i \notin excused /\ i \notin page.failed
    BY <1>2
  <2>2. Stale(i) => changed[i] # 0
    BY <1>3 DEF TimesHold, Stale
  <2> QED
    BY <1>1, <2>1, <2>2, WalkBlanks DEF Stale
\* What must be brought in from this place is on the page, or left after it.
<1>21. ASSUME NEW i \in left, i \in Items, i \notin page.failed, Stale(i),
              changed[i] >= sync.since \/ source # "sharepoint"
       PROVE  \/ brought[i] = changed[i]
              \/ next.place = p /\ next.at # 0 /\ i \in next.rest
  <2>1. CASE i \in got
    BY <1>8, <1>12, <1>21, <2>1
  <2>2. CASE i \notin got
    BY <1>6, <1>7, <1>21, <2>2
  <2> QED
    BY <2>1, <2>2
<1>22. ASSUME Whole, NEW i \in Items, Stale(i), i \notin excused
       PROVE  changed[i] >= sync.since
  <2>1. lastSynced \in Nat /\ changed[i] \in Nat
    BY <1>3, <1>9, WalkBlanks DEF WalkTypes
  <2>2. lastSynced # 0 => changed[i] > lastSynced
    BY <1>3, <1>22 DEF CoverHolds
  <2> QED
    BY <1>3, <1>4, <2>1, <2>2 DEF WindowsHold
<1>23. CoverHolds'
  <2>1. Whole' <=> Whole
    BY <1>1 DEF Whole
  <2>2. Whole /\ lastSynced # 0 =>
          \A i \in Items : Stale(i)' /\ i \notin excused' => changed[i] > lastSynced
    BY <1>3, <1>20 DEF CoverHolds
  <2>3. ASSUME Whole, checkpoint # NoCheckpoint, NEW i \in Items, Stale(i), i \notin excused'
        PROVE  Ahead(i, checkpoint.cursor) \/ Late[i] = changed[i]
    BY <1>3, <1>20, <2>3 DEF CoverHolds, Covers
  <2>4. ASSUME Whole, NEW i \in Items, Stale(i), i \notin excused'
        PROVE  Ahead(i, next) \/ brought[i] = changed[i]
    <3>1. Ahead(i, sync.cursor)
      BY <1>1, <1>3, <1>4, <1>20, <2>4 DEF CoverHolds, Covers, WindowsHold
    <3>2. CASE Home[i] > p
      <4>1. CASE left = got
        BY <1>6, <1>7, <1>20, <3>2, <4>1 DEF Ahead
      <4>2. CASE left # got
        BY <1>7, <3>2, <4>2 DEF Ahead
      <4> QED
        BY <4>1, <4>2
    <3>3. CASE Home[i] = p
      <4>1. i \in left
        BY <1>1, <1>5, <1>20, <2>4, <3>3, NothingIsPassed DEF p, left
      <4>2. changed[i] >= sync.since
        BY <1>20, <1>22, <2>4
      <4> QED
        BY <1>20, <1>21, <2>4, <3>3, <4>1, <4>2 DEF Ahead
    <3> QED
      BY <3>1, <3>2, <3>3 DEF Ahead, p
  <2>5. Whole /\ checkpoint # NoCheckpoint => Covers(checkpoint.cursor, Late)'
    BY <1>1, <1>20, <2>3 DEF Covers, Ahead, Late
  <2>6. Whole => Covers(sync.cursor, sync.page)'
    BY <1>1, <1>13, <1>20, <2>4 DEF Covers, Ahead
  <2> QED
    BY <1>1, <2>1, <2>2, <2>5, <2>6 DEF CoverHolds
<1>24. LinksHold'
  <2> SUFFICES ASSUME source \in {"teams", "sharepoint"}, ~mislinked, NEW i \in Items, Stale(i)
               PROVE  /\ ~Vouched(i, tokens[Home[i]])'
                      /\ checkpoint # NoCheckpoint /\ Promised(i, checkpoint.cursor, Resumed)' =>
                           \/ Late[i] = changed[i]
                           \/ /\ Home[i] = checkpoint.cursor.place /\ checkpoint.cursor.at # 0
                              /\ i \in checkpoint.cursor.rest
                      /\ Promised(i, sync.cursor, sync.state)' =>
                           \/ brought[i] = changed[i]
                           \/ Home[i] = next.place /\ next.at # 0 /\ i \in next.rest
    BY <1>1, <1>13 DEF LinksHold, Earns, Stale, Late
  <2>1. ASSUME NEW link,
               VouchedBy(i, changed[i], linked[Home[i]], excused', source, link)
        PROVE  Vouched(i, link) /\ (source = "sharepoint" => i \notin excused')
    BY <1>20, <2>1 DEF Vouched, VouchedBy
  <2>2. ~Vouched(i, tokens[Home[i]])'
    <3>1. Vouched(i, tokens[Home[i]])' =>
            VouchedBy(i, changed[i], linked[Home[i]], excused', source, tokens[Home[i]])
      BY <1>1 DEF Vouched
    <3> QED
      BY <1>3, <2>1, <3>1 DEF LinksHold
  <2>3. ASSUME checkpoint # NoCheckpoint, Promised(i, checkpoint.cursor, Resumed)'
        PROVE  \/ Late[i] = changed[i]
               \/ /\ Home[i] = checkpoint.cursor.place /\ checkpoint.cursor.at # 0
                  /\ i \in checkpoint.cursor.rest
    <3>1. \/ VouchedBy(i, changed[i], linked[Home[i]], excused', source, Resumed[Home[i]])
          \/ /\ Home[i] = checkpoint.cursor.place /\ checkpoint.cursor.at # 0
             /\ VouchedBy(i, changed[i], linked[Home[i]], excused', source,
                          checkpoint.cursor.at)
      BY <1>1, <2>3 DEF Promised, Vouched, Resumed
    <3>2. Promised(i, checkpoint.cursor, Resumed)
      BY <2>1, <3>1 DEF Promised
    <3> QED
      BY <1>3, <2>3, <3>2 DEF LinksHold, Earns
  <2>4. ASSUME Promised(i, sync.cursor, sync.state)'
        PROVE  \/ brought[i] = changed[i]
               \/ Home[i] = next.place /\ next.at # 0 /\ i \in next.rest
    <3>1. \/ VouchedBy(i, changed[i], linked[Home[i]], excused', source, state[Home[i]])
          \/ /\ Home[i] = next.place /\ next.at # 0
             /\ VouchedBy(i, changed[i], linked[Home[i]], excused', source, next.at)
      BY <1>1, <1>13, <2>4 DEF Promised, Vouched
    <3>2. \/ Vouched(i, state[Home[i]])
          \/ Home[i] = next.place /\ next.at # 0 /\ Vouched(i, next.at)
      BY <2>1, <3>1
    <3>3. source = "sharepoint" => i \notin excused'
      BY <2>1, <3>1
    <3>4. next.at # 0 => next.place = p /\ next.at = begun
      BY <1>7
    <3>5. CASE Home[i] # p
      <4>1. Promised(i, sync.cursor, sync.state)
        BY <1>11, <1>20, <3>2, <3>4, <3>5 DEF Promised
      <4>2. sync.page[i] = Late[i]
        BY <1>1, <1>3, <1>4 DEF WindowsHold
      <4> QED
        BY <1>3, <1>4, <1>20, <3>5, <4>1, <4>2 DEF LinksHold, Earns, p
    <3>6. CASE Home[i] = p
      <4>1. Vouched(i, begun) \/ Vouched(i, sync.state[Home[i]])
        BY <1>11, <3>2, <3>4, <3>6
      <4>2. i \in left
        BY <1>1, <1>5, <3>6, <4>1, NothingIsPassed DEF p, left, begun
      <4>3. i \notin page.failed
        BY <1>8, <1>20, <3>3
      <4>4. changed[i] >= sync.since \/ source # "sharepoint"
        BY <1>20, <1>22, <3>3 DEF Whole
      <4> QED
        BY <1>21, <3>6, <4>2, <4>3, <4>4
    <3> QED
      BY <3>5, <3>6
  <2> QED
    BY <2>2, <2>3, <2>4
<1> QED
  BY <1>15, <1>16, <1>17, <1>18, <1>19, <1>23, <1>24 DEF WalkInv

LEMMA WalkStep == WalkInv /\ [WalkNext]_walkVars => WalkInv'
<1> SUFFICES ASSUME WalkInv, [WalkNext]_walkVars
             PROVE  WalkInv'
  OBVIOUS
<1>1. source' = source
  BY DEF walkVars, WalkNext, Change, StartSync, ContinueSync, FetchPage, SavePage, Finish,
         Fail, Crash
<1>2. CASE source \notin Continued
  BY <1>1, <1>2 DEF WalkInv
<1>3. CASE source \in Continued
  <2>1. ASSUME NEW i \in Items, Change(i)
        PROVE  WalkInv'
    BY <1>3, <2>1, ChangeHolds
  <2>2. ASSUME NEW full \in BOOLEAN, StartSync(full)
        PROVE  WalkInv'
    BY <1>3, <2>2, StartHolds
  <2>3. ASSUME NEW full \in BOOLEAN, ContinueSync(full)
        PROVE  WalkInv'
    BY <1>3, <2>3, ContinueHolds
  <2>4. CASE FetchPage
    BY <1>3, <2>4, FetchHolds
  <2>5. CASE SavePage
    BY <1>3, <2>5, SavePageHolds
  <2>6. CASE Finish
    BY <1>3, <2>6, FinishHolds
  <2>7. ASSUME NEW done \in SUBSET Items, Fail(done)
        PROVE  WalkInv'
    BY <1>3, <2>7, FailHolds
  <2>8. ASSUME NEW done \in SUBSET Items, Crash(done)
        PROVE  WalkInv'
    BY <1>3, <2>8, CrashHolds
  <2>9. CASE UNCHANGED walkVars
    BY <1>3, <2>9 DEF walkVars, WalkInv, WalkTypes, TimesHold, WindowsHold, FirstsHold, PageHolds,
       CoverHolds, LinksHold, Resumed, Whole, Covers, Ahead, Stale, Vouched, Promised, Earns
  <2> QED
    BY <2>1, <2>2, <2>3, <2>4, <2>5, <2>6, <2>7, <2>8, <2>9 DEF WalkNext
<1> QED
  BY <1>2, <1>3

LEMMA WalkInvariant == WalkSpec => [](source \in Sources /\ WalkInv)
<1>1. WalkInit => source \in Sources
  BY DEF WalkInit
<1>2. source \in Sources /\ [WalkNext]_walkVars => (source \in Sources)'
  BY DEF walkVars, WalkNext, Change, StartSync, ContinueSync, FetchPage, SavePage, Finish,
         Fail, Crash
<1> QED
  BY <1>1, <1>2, WalksInitially, WalkStep, PTL DEF WalkSpec

\* Between the first delta link of a channel or site and the one saved now every edit is
\* ingested, through edits, crashes, retries and repeated syncs, as long as no failing
\* sync has written the links that it had collected (the failure path of service.py).
THEOREM SavedLinksAreEarned == WalkSpec => []LinksAreEarned
<1>1. WalkInv => LinksAreEarned
  <2> SUFFICES ASSUME WalkInv, ~mislinked, source \in {"teams", "sharepoint"}, NEW i \in Items,
                      linked[Home[i]] < changed[i], changed[i] <= tokens[Home[i]], Stale(i)
               PROVE  source = "sharepoint" /\ i \in excused
    BY DEF LinksAreEarned, Earned
  <2>1. WalkTypes /\ FirstsHold /\ LinksHold
    BY WalkParts DEF Continued
  <2>2. /\ Home[i] \in Places /\ changed[i] \in Nat
        /\ linked[Home[i]] \in Nat /\ tokens[Home[i]] \in Nat
    BY <2>1, WalkBlanks DEF WalkTypes
  <2>3. ~Vouched(i, tokens[Home[i]])
    BY <2>1 DEF LinksHold
  <2>4. changed[i] # 0 /\ tokens[Home[i]] # 0
    BY <2>2
  <2>5. source = "teams" => linked[Home[i]] # 0
    BY <2>1, <2>2, <2>4 DEF FirstsHold
  <2> QED
    BY <2>3, <2>4, <2>5 DEF Vouched, VouchedBy
<1> QED
  BY <1>1, WalkInvariant, PTL

-----------------------------------------------------------------------------
(* Walks by page number (SourceWalks): Azure DevOps, Confluence, GitHub.   *)

\* The sources that compute their listing anew at every call.  What has to be said of
\* an item is its rank in the listing, as of the times of edits `chg`.
Listed == OldestFirst \cup {"github"}

ListingOf(p, since, chg, name) ==
    {i \in Items : Home[i] = p /\ chg[i] # 0 /\ chg[i] >= IF name = "github" /\ p = 1 THEN 0 ELSE since}
OrderOf(chg, name) ==
    {e \in Items \X Items :
        \/ IF name \in OldestFirst THEN chg[e[1]] < chg[e[2]] ELSE chg[e[1]] > chg[e[2]]
        \/ chg[e[1]] = chg[e[2]] /\ Number[e[1]] < Number[e[2]]}
Position(i, p, since, chg, name) == RankIn(i, ListingOf(p, since, chg, name), OrderOf(chg, name))

\* A walk that stands at a position, with a window, still comes to the item.
Comes(i, c, since, chg, name) ==
    \/ Home[i] > c.place
    \/ Home[i] = c.place /\ Position(i, c.place, since, chg, name) >= c.at

\* Nothing is later than the clock; a sync and a checkpoint are of the window that was
\* opened last, at a place there is.
ListWindows ==
    /\ lastSynced <= clock
    /\ \A i \in Items : changed[i] # 0 /\ changed[i] <= clock
    /\ checkpoint # NoCheckpoint =>
         checkpoint.since \in {0, lastSynced} /\ checkpoint.cursor.place \in Places
    /\ sync # Idle =>
         /\ sync.since \in {0, lastSynced}
         /\ sync.stage = "fetch" => sync.cursor.place \in Places /\ sync.page = Late
         /\ sync.stage = "items" => (sync.more <=> sync.cursor.place \in Places)
         /\ \A i \in Items : sync.page[i] \notin {0, changed[i]} => i \in excused

\* What is out of date and was not disturbed is in the next window, and every walk comes
\* to it.
Due(i) == Stale(i) /\ i \notin excused /\ Home[i] \notin shifted
ListHolds ==
    /\ lastSynced # 0 => \A i \in Items : Due(i) => changed[i] > lastSynced
    /\ checkpoint # NoCheckpoint => \A i \in Items :
         Due(i) => Comes(i, checkpoint.cursor, checkpoint.since, changed, source)
    /\ sync # Idle => \A i \in Items :
         Due(i) => Comes(i, sync.cursor, sync.since, changed, source) \/ sync.page[i] = changed[i]

ListInv == source \in Listed => WalkTypes /\ ListWindows /\ ListHolds

LEMMA ListParts ==
    ListInv /\ source \in Listed => WalkTypes /\ ListWindows /\ ListHolds
BY DEF ListInv

\* A listing is finite, and its order is one.
LEMMA ListingsAreOrdered ==
    ASSUME NEW chg \in [Items -> Times], NEW name, NEW p, NEW since
    PROVE  /\ IsFiniteSet(ListingOf(p, since, chg, name))
           /\ Orders(OrderOf(chg, name), ListingOf(p, since, chg, name))
<1> DEFINE S == ListingOf(p, since, chg, name)
           order == OrderOf(chg, name)
<1>1. S \subseteq Items
  BY DEF ListingOf
<1>2. IsFiniteSet(S)
  BY <1>1, WalkConstants, FS_Subset
<1>3. \A i \in Items : chg[i] \in Nat /\ Number[i] \in Nat
  BY WalkConstants, WalkBlanks
<1>4. \A i, j \in Items : <<i, j>> \in order <=>
        \/ IF name \in OldestFirst THEN chg[i] < chg[j] ELSE chg[i] > chg[j]
        \/ chg[i] = chg[j] /\ Number[i] < Number[j]
  BY DEF OrderOf
<1>5. \A i, j \in Items : i = j \/ Number[i] # Number[j]
  BY WalkConstants
<1> HIDE DEF order, S
<1>6. \A i \in S : <<i, i>> \notin order
  BY <1>1, <1>3, <1>4
<1>7. \A i, j, k \in S : <<i, j>> \in order /\ <<j, k>> \in order => <<i, k>> \in order
  <2> SUFFICES ASSUME NEW i \in S, NEW j \in S, NEW k \in S, <<i, j>> \in order, <<j, k>> \in order
               PROVE  <<i, k>> \in order
    OBVIOUS
  <2>1. /\ chg[i] \in Nat /\ chg[j] \in Nat /\ chg[k] \in Nat
        /\ Number[i] \in Nat /\ Number[j] \in Nat /\ Number[k] \in Nat
    BY <1>1, <1>3
  <2>2. CASE name \in OldestFirst
    BY <1>1, <1>4, <2>1, <2>2
  <2>3. CASE name \notin OldestFirst
    BY <1>1, <1>4, <2>1, <2>3
  <2> QED
    BY <2>2, <2>3
<1>8. \A i, j \in S : i = j \/ <<i, j>> \in order \/ <<j, i>> \in order
  <2> SUFFICES ASSUME NEW i \in S, NEW j \in S, i # j
               PROVE  <<i, j>> \in order \/ <<j, i>> \in order
    OBVIOUS
  <2>1. /\ i \in Items /\ j \in Items /\ chg[i] \in Nat /\ chg[j] \in Nat
        /\ Number[i] \in Nat /\ Number[j] \in Nat /\ Number[i] # Number[j]
    BY <1>1, <1>3, <1>5
  <2>2. chg[i] < chg[j] \/ chg[i] > chg[j] \/ chg[i] = chg[j]
    BY <2>1
  <2>3. Number[i] < Number[j] \/ Number[j] < Number[i]
    BY <2>1
  <2> QED
    BY <1>4, <2>1, <2>2, <2>3
<1>9. Orders(order, S)
  BY <1>6, <1>7, <1>8 DEF Orders
<1> QED
  BY <1>2, <1>9 DEF S, order

\* A position is a number, for items of the listing and for others.
LEMMA PositionsAreNumbers ==
    ASSUME NEW chg \in [Items -> Times], NEW name, NEW p, NEW since, NEW i
    PROVE  Position(i, p, since, chg, name) \in Nat
<1> DEFINE before == {j \in ListingOf(p, since, chg, name) : <<j, i>> \in OrderOf(chg, name)}
<1>1. before \subseteq ListingOf(p, since, chg, name)
  OBVIOUS
<1>2. IsFiniteSet(before)
  BY <1>1, ListingsAreOrdered, FS_Subset
<1> QED
  BY <1>2, FS_CardinalityType DEF Position, RankIn

\* An edit puts no other item nearer to the beginning: a listing that is newest first
\* gains an item before it, one that is oldest first is of another place.
LEMMA EditsShift ==
    ASSUME NEW chg \in [Items -> Times], NEW new \in [Items -> Times], NEW name \in Listed,
           NEW j \in Items, NEW i \in Items, i # j, NEW p, NEW since \in Nat, Home[i] = p,
           \A k \in Items : k # j => new[k] = chg[k],
           \A k \in Items : chg[k] < new[j],
           name \in OldestFirst => Home[j] # p
    PROVE  Position(i, p, since, new, name) >= Position(i, p, since, chg, name)
<1> DEFINE before == {k \in ListingOf(p, since, chg, name) : <<k, i>> \in OrderOf(chg, name)}
           after == {k \in ListingOf(p, since, new, name) : <<k, i>> \in OrderOf(new, name)}
<1>1. \A k \in Items : chg[k] \in Nat /\ new[k] \in Nat
  BY WalkBlanks
<1>2. ASSUME NEW k \in before
      PROVE  k \in after
  <2>1. k \in Items /\ k \in ListingOf(p, since, chg, name) /\ <<k, i>> \in OrderOf(chg, name)
    BY DEF ListingOf
  <2>2. CASE k # j
    <3>1. new[k] = chg[k] /\ new[i] = chg[i]
      BY <2>1, <2>2
    <3>2. k \in ListingOf(p, since, new, name)
      BY <2>1, <3>1 DEF ListingOf
    <3>3. <<k, i>> \in OrderOf(new, name)
      BY <2>1, <3>1 DEF OrderOf
    <3> QED
      BY <3>2, <3>3
  <2>3. CASE k = j
    <3>1. Home[j] = p /\ name \notin OldestFirst
      BY <2>1, <2>3 DEF ListingOf
    <3>2. new[i] = chg[i] /\ new[j] > new[i] /\ new[j] > chg[j]
      BY <1>1
    <3>3. j \in ListingOf(p, since, new, name)
      BY <1>1, <2>1, <2>3, <3>2 DEF ListingOf
    <3>4. <<j, i>> \in OrderOf(new, name)
      BY <3>1, <3>2 DEF OrderOf
    <3> QED
      BY <2>3, <3>3, <3>4
  <2> QED
    BY <2>2, <2>3
<1>3. IsFiniteSet(after)
  <2>1. after \subseteq ListingOf(p, since, new, name)
    OBVIOUS
  <2> QED
    BY <2>1, ListingsAreOrdered, FS_Subset
<1>4. /\ Position(i, p, since, new, name) = Cardinality(after)
      /\ Position(i, p, since, chg, name) = Cardinality(before)
  BY DEF Position, RankIn
<1>5. before \subseteq after
  BY <1>2
<1> HIDE DEF before, after
<1>6. Cardinality(before) \in Nat /\ Cardinality(after) \in Nat /\ Cardinality(before) <= Cardinality(after)
  BY <1>3, <1>5, FS_Subset, FS_CardinalityType
<1> QED
  BY <1>4, <1>6

\* The page that a call returns, in terms of positions.
LEMMA SliceIsPage ==
    ASSUME source \in Listed, changed \in [Items -> Times], NEW c, NEW since
    PROVE  /\ Listing(c.place, since) = ListingOf(c.place, since, changed, source)
           /\ Slice(c, since) =
                PageOf(ListingOf(c.place, since, changed, source), OrderOf(changed, source), c.at, PageSize)
<1>1. Listing(c.place, since) = ListingOf(c.place, since, changed, source)
  BY DEF Listing, Matching, At, ListingOf
<1>2. \A i, j \in Items : <<j, i>> \in OrderOf(changed, source) <=> Precedes(j, i)
  BY DEF OrderOf, Precedes
<1>3. ASSUME NEW i \in Items
      PROVE  Rank(i, c.place, since) =
               RankIn(i, ListingOf(c.place, since, changed, source), OrderOf(changed, source))
  <2>1. {j \in Listing(c.place, since) : Precedes(j, i)}
          = {j \in ListingOf(c.place, since, changed, source) : <<j, i>> \in OrderOf(changed, source)}
    BY <1>1, <1>2 DEF ListingOf
  <2> QED
    BY <2>1 DEF Rank, RankIn
<1>4. ListingOf(c.place, since, changed, source) \subseteq Items
  BY DEF ListingOf
<1> QED
  BY <1>1, <1>3, <1>4 DEF Slice, PageOf

\* At the beginning nothing is ingested, and no walk has begun.
LEMMA ListsInitially == WalkInit => ListInv
<1> SUFFICES ASSUME WalkInit, source \in Listed
             PROVE  WalkTypes /\ ListWindows /\ ListHolds
  BY DEF ListInv
<1>1. /\ clock = 1 /\ held = Late /\ lastSynced = 0 /\ tokens = NoLinks
      /\ checkpoint = NoCheckpoint /\ sync = Idle /\ excused = {} /\ linked = NoLinks
      /\ mislinked = FALSE
      /\ changed = [i \in Items |-> IF source = "slack" THEN 0 ELSE 1]
  BY DEF WalkInit
<1>2. source # "slack"
  BY DEF Listed, OldestFirst
<1>3. WalkTypes
  <2>1. changed \in [Items -> Times]
    BY <1>1, WalkBlanks
  <2>2. 1 \in Times /\ 1 # 0 /\ {} \in SUBSET Items /\ FALSE \in BOOLEAN
    BY WalkBlanks
  <2> QED
    BY <1>1, <2>1, <2>2, WalkBlanks DEF WalkTypes
<1>4. ListWindows
  BY <1>1, <1>2 DEF ListWindows
<1>5. ListHolds
  BY <1>1 DEF ListHolds
<1> QED
  BY <1>3, <1>4, <1>5

\* The source is edited: what was listed already stays behind the walk, but in a place
\* of a listing that is oldest first.
LEMMA ChangeLists ==
    ASSUME ListInv, source \in Listed, NEW j \in Items, Change(j)
    PROVE  ListInv'
<1> DEFINE open == ~(sync = Idle /\ checkpoint = NoCheckpoint)
<1>1. /\ clock < MaxClock /\ clock' = clock + 1
      /\ changed' = [changed EXCEPT ![j] = clock + 1]
      /\ excused' = IF open THEN excused \cup {j} ELSE excused \ {j}
      /\ shifted' = IF source \in OldestFirst /\ j \in excused'
                    THEN shifted \cup {Home[j]} ELSE shifted
      /\ UNCHANGED <<source, held, lastSynced, tokens, checkpoint, sync, linked, mislinked>>
  BY DEF Change
<1>2. WalkTypes /\ ListWindows /\ ListHolds
  BY ListParts
<1>3. /\ clock \in Nat /\ clock + 1 \in Times /\ changed' \in [Items -> Times]
      /\ changed \in [Items -> Times]
      /\ changed'[j] = clock + 1 /\ \A i \in Items : i # j => changed'[i] = changed[i]
      /\ \A i \in Items : changed[i] \in Nat /\ changed[i] < clock + 1
      /\ lastSynced \in Nat /\ lastSynced < clock + 1
  BY <1>1, <1>2, WalkConstants DEF WalkTypes, ListWindows, Times
<1>4. /\ open => j \in excused'
      /\ \A i \in Items : i # j => (i \in excused' <=> i \in excused)
      /\ \A p : p \notin shifted' => p \notin shifted
      /\ open /\ source \in OldestFirst => Home[j] \in shifted'
  BY <1>1
<1>5. WalkTypes'
  BY <1>1, <1>2, <1>3 DEF WalkTypes
<1>6. ListWindows'
  <2>1. \A i \in Items : changed'[i] # 0 /\ changed'[i] <= clock + 1
    BY <1>2, <1>3 DEF ListWindows
  <2>2. ASSUME sync # Idle, NEW i \in Items, sync.page[i] \notin {0, changed'[i]}
        PROVE  i \in excused'
    <3>1. CASE i = j
      BY <1>4, <2>2, <3>1
    <3>2. CASE i # j
      BY <1>2, <1>3, <1>4, <2>2, <3>2 DEF ListWindows
    <3> QED
      BY <3>1, <3>2
  <2>3. lastSynced <= clock + 1
    BY <1>3
  <2> QED
    BY <1>1, <1>2, <2>1, <2>2, <2>3 DEF ListWindows
<1>7. ASSUME NEW i \in Items, Due(i)', i # j
      PROVE  Due(i) /\ changed'[i] = changed[i]
  BY <1>1, <1>3, <1>4, <1>7 DEF Due, Stale
<1>8. ASSUME open, NEW i \in Items, Due(i)', NEW c \in Positions, NEW since \in Nat,
             Comes(i, c, since, changed, source)
      PROVE  Comes(i, c, since, changed', source)
  <2>1. i # j
    BY <1>4, <1>8 DEF Due
  <2>2. CASE Home[i] > c.place
    BY <2>2 DEF Comes
  <2>3. CASE Home[i] = c.place /\ Position(i, c.place, since, changed, source) >= c.at
    <3>1. source \in OldestFirst => Home[j] # c.place
      BY <1>4, <1>8, <2>3 DEF Due
    <3>2. \A k \in Items : changed[k] < changed'[j]
      BY <1>3
    <3>3. Position(i, c.place, since, changed', source) >= Position(i, c.place, since, changed, source)
      BY <1>3, <2>1, <2>3, <3>1, <3>2, EditsShift
    <3>4. c.at \in Nat /\ Position(i, c.place, since, changed', source) \in Nat
          /\ Position(i, c.place, since, changed, source) \in Nat
      BY <1>3, PositionsAreNumbers DEF Positions
    <3>5. Position(i, c.place, since, changed', source) >= c.at
      BY <2>3, <3>3, <3>4
    <3> QED
      BY <2>3, <3>5 DEF Comes
  <2> QED
    BY <1>8, <2>2, <2>3 DEF Comes
<1>9. ListHolds'
  <2>1. ASSUME lastSynced # 0, NEW i \in Items, Due(i)'
        PROVE  changed'[i] > lastSynced
    <3>1. CASE i = j
      BY <1>3, <3>1
    <3>2. CASE i # j
      BY <1>2, <1>7, <2>1, <3>2 DEF ListHolds
    <3> QED
      BY <3>1, <3>2
  <2>2. ASSUME checkpoint # NoCheckpoint, NEW i \in Items, Due(i)'
        PROVE  Comes(i, checkpoint.cursor, checkpoint.since, changed', source)
    <3>1. checkpoint.cursor \in Positions /\ checkpoint.since \in Nat
      BY <1>2, <2>2, CheckpointParts, WalkBlanks
    <3>2. i # j /\ Due(i)
      BY <1>4, <1>7, <2>2 DEF Due
    <3> QED
      BY <1>2, <1>8, <2>2, <3>1, <3>2 DEF ListHolds
  <2>3. ASSUME sync # Idle, NEW i \in Items, Due(i)'
        PROVE  Comes(i, sync.cursor, sync.since, changed', source) \/ sync.page[i] = changed'[i]
    <3>1. sync.cursor \in Positions /\ sync.since \in Nat
      BY <1>2, <2>3, SyncParts, WalkBlanks
    <3>2. i # j /\ Due(i) /\ changed'[i] = changed[i]
      BY <1>4, <1>7, <2>3 DEF Due
    <3> QED
      BY <1>2, <1>8, <2>3, <3>1, <3>2 DEF ListHolds
  <2> HIDE DEF open
  <2> QED
    BY <1>1, <2>1, <2>2, <2>3 DEF ListHolds
<1> QED
  BY <1>5, <1>6, <1>9 DEF ListInv

\* A sync begins at a position from which it comes to all that is due.
LEMMA ListBegins ==
    ASSUME ListInv, source \in Listed, sync = Idle,
           UNCHANGED <<source, clock, changed, held, lastSynced, tokens, checkpoint, excused,
                       linked, mislinked, shifted>>,
           sync' \in Syncs, sync'.stage = "fetch", sync'.page = Late,
           sync'.since \in {0, lastSynced}, sync'.cursor.place \in Places,
           \A i \in Items : Due(i) => Comes(i, sync'.cursor, sync'.since, changed, source)
    PROVE  ListInv'
<1>1. WalkTypes /\ ListWindows /\ ListHolds
  BY ListParts
<1>2. WalkTypes'
  BY <1>1 DEF WalkTypes
<1>3. ListWindows'
  BY <1>1, WalkBlanks DEF ListWindows
<1>4. \A i \in Items : Due(i)' = Due(i)
  BY DEF Due, Stale
<1>5. ListHolds'
  BY <1>1, <1>4 DEF ListHolds
<1> QED
  BY <1>2, <1>3, <1>5 DEF ListInv

LEMMA StartLists ==
    ASSUME ListInv, source \in Listed, NEW full \in BOOLEAN, StartSync(full)
    PROVE  ListInv'
<1> DEFINE since == IF full THEN 0 ELSE lastSynced
<1>1. /\ sync = Idle
      /\ sync' = [stage |-> "fetch", full |-> full, since |-> since,
                  cursor |-> FirstPosition, state |-> tokens, latest |-> NoLinks,
                  page |-> Late, more |-> TRUE]
      /\ UNCHANGED <<source, clock, changed, held, lastSynced, tokens, checkpoint, excused,
                     linked, mislinked, shifted>>
  BY DEF StartSync, Begin
<1>2. WalkTypes
  BY ListParts
<1>3. since \in Times /\ since \in {0, lastSynced}
  BY <1>2, WalkBlanks DEF WalkTypes
<1> HIDE DEF since
<1>4. /\ sync' \in Syncs /\ sync'.stage = "fetch" /\ sync'.page = Late /\ sync'.since = since
      /\ sync'.cursor = FirstPosition
  BY <1>1, <1>2, <1>3, WalkBlanks DEF Syncs, WalkTypes
<1>5. \A i \in Items : Comes(i, FirstPosition, since, changed, source)
  <2>1. \A i \in Items : Home[i] \in Nat /\ Home[i] >= 1
    BY WalkConstants
  <2>2. \A i \in Items : Position(i, 1, since, changed, source) \in Nat
    BY <1>2, PositionsAreNumbers DEF WalkTypes
  <2>3. \A i \in Items : Position(i, 1, since, changed, source) >= 0
    BY <2>2
  <2> QED
    BY <2>1, <2>3, WalkBlanks DEF Comes
<1> QED
  BY <1>1, <1>3, <1>4, <1>5, WalkBlanks, ListBegins

LEMMA ContinueLists ==
    ASSUME ListInv, source \in Listed, NEW full \in BOOLEAN, ContinueSync(full)
    PROVE  ListInv'
<1>1. /\ sync = Idle /\ checkpoint # NoCheckpoint
      /\ sync' = [stage |-> "fetch", full |-> full, since |-> checkpoint.since,
                  cursor |-> checkpoint.cursor, state |-> Resumed,
                  latest |-> checkpoint.latest, page |-> Late, more |-> TRUE]
      /\ UNCHANGED <<source, clock, changed, held, lastSynced, tokens, checkpoint, excused,
                     linked, mislinked, shifted>>
  BY DEF ContinueSync, Begin, Resumed
<1>2. WalkTypes /\ ListWindows /\ ListHolds
  BY ListParts
<1>3. /\ checkpoint.since \in Times /\ checkpoint.cursor \in Positions
      /\ checkpoint.latest \in [Places -> Times] /\ Resumed \in [Places -> Times]
  BY <1>1, <1>2, CheckpointParts
<1>4. /\ sync' \in Syncs /\ sync'.stage = "fetch" /\ sync'.page = Late
      /\ sync'.since = checkpoint.since /\ sync'.cursor = checkpoint.cursor
  BY <1>1, <1>3, WalkBlanks DEF Syncs
<1>5. /\ checkpoint.since \in {0, lastSynced} /\ checkpoint.cursor.place \in Places
      /\ \A i \in Items :
           Due(i) => Comes(i, checkpoint.cursor, checkpoint.since, changed, source)
  BY <1>1, <1>2 DEF ListWindows, ListHolds
<1> QED
  BY <1>1, <1>4, <1>5, ListBegins

\* What is due once items of the page are ingested was so before, and the page did not
\* bring it in.
LEMMA AfterListing ==
    ASSUME ListInv, source \in Listed, sync # Idle, NEW done \in SUBSET OnPage,
           held' = Ingested(done), UNCHANGED <<changed, excused, shifted>>
    PROVE  /\ held' \in [Items -> Times]
           /\ \A i \in Items : Due(i)' => Due(i) /\ (done = OnPage => sync.page[i] # changed[i])
<1>1. WalkTypes /\ ListWindows
  BY ListParts
<1>2. /\ sync.page \in [Items -> Times] /\ held \in [Items -> Times]
      /\ \A i \in Items : held'[i] = IF i \in done THEN sync.page[i] ELSE held[i]
  BY <1>1, SyncParts DEF Ingested, WalkTypes
<1>3. held' \in [Items -> Times]
  BY <1>2 DEF Ingested
<1>4. ASSUME NEW i \in Items, Due(i)'
      PROVE  Due(i) /\ (done = OnPage => sync.page[i] # changed[i])
  <2>1. held'[i] # changed[i] /\ i \notin excused /\ Home[i] \notin shifted
    BY <1>4 DEF Due, Stale
  <2>2. sync.page[i] \in {0, changed[i]} /\ changed[i] # 0
    BY <1>1, <2>1 DEF ListWindows
  <2>3. i \in done => sync.page[i] # 0
    BY DEF OnPage
  <2>4. i \notin done
    BY <1>2, <2>1, <2>2, <2>3
  <2>5. done = OnPage => sync.page[i] = 0
    BY <2>4 DEF OnPage
  <2> QED
    BY <1>2, <2>1, <2>2, <2>4, <2>5 DEF Due, Stale
<1> QED
  BY <1>3, <1>4

LEMMA SavePageLists ==
    ASSUME ListInv, source \in Listed, SavePage
    PROVE  ListInv'
<1>1. /\ sync.stage = "items" /\ sync.more /\ held' = Ingested(OnPage)
      /\ checkpoint' = [stage |-> "saved", full |-> sync.full, since |-> sync.since,
                        cursor |-> sync.cursor, latest |-> sync.latest]
      /\ sync' = [sync EXCEPT !.stage = "fetch", !.page = Late]
      /\ UNCHANGED <<source, clock, changed, lastSynced, tokens, excused, linked, mislinked,
                     shifted>>
  BY DEF SavePage
<1>2. WalkTypes /\ ListWindows /\ ListHolds
  BY ListParts
<1>3. sync # Idle
  BY <1>1 DEF Idle
<1>4. /\ sync \in Syncs
      /\ sync.full \in BOOLEAN /\ sync.since \in Times
      /\ sync.cursor \in Positions /\ sync.latest \in [Places -> Times]
  BY <1>2, <1>3, SyncParts
<1>5. /\ checkpoint' \in Checkpoints /\ checkpoint' # NoCheckpoint
      /\ checkpoint'.since = sync.since /\ checkpoint'.cursor = sync.cursor
  BY <1>1, <1>4 DEF Checkpoints, NoCheckpoint
<1>6. /\ sync' \in Syncs /\ sync' # Idle /\ sync'.stage = "fetch" /\ sync'.page = Late
      /\ sync'.since = sync.since /\ sync'.cursor = sync.cursor
  BY <1>1, <1>4, WalkBlanks DEF Syncs, Idle
<1>7. /\ held' \in [Items -> Times]
      /\ \A i \in Items : Due(i)' => Due(i) /\ sync.page[i] # changed[i]
  BY <1>1, <1>3, AfterListing
<1>8. WalkTypes'
  BY <1>1, <1>2, <1>5, <1>6, <1>7 DEF WalkTypes
<1>9. ListWindows'
  BY <1>1, <1>2, <1>3, <1>5, <1>6, WalkBlanks DEF ListWindows
<1>10. ListHolds'
  BY <1>1, <1>2, <1>3, <1>5, <1>6, <1>7 DEF ListHolds
<1> QED
  BY <1>8, <1>9, <1>10 DEF ListInv

\* The sync fails, or its worker is lost, with some of the page ingested.
LEMMA SyncIsLost ==
    ASSUME ListInv, source \in Listed, sync # Idle, NEW done \in SUBSET OnPage,
           held' = Ingested(done), sync' = Idle, tokens' \in [Places -> Times],
           linked' \in [Places -> Times], mislinked' \in BOOLEAN,
           UNCHANGED <<source, clock, changed, lastSynced, checkpoint, excused, shifted>>
    PROVE  ListInv'
<1>1. WalkTypes /\ ListWindows /\ ListHolds
  BY ListParts
<1>2. /\ held' \in [Items -> Times]
      /\ \A i \in Items : Due(i)' => Due(i)
  BY AfterListing
<1>3. WalkTypes'
  BY <1>1, <1>2 DEF WalkTypes
<1>4. ListWindows'
  BY <1>1 DEF ListWindows
<1>5. ListHolds'
  BY <1>1, <1>2 DEF ListHolds
<1> QED
  BY <1>3, <1>4, <1>5 DEF ListInv

LEMMA FailLists ==
    ASSUME ListInv, source \in Listed, NEW done \in SUBSET Items, Fail(done) \/ Crash(done)
    PROVE  ListInv'
<1>1. /\ sync # Idle /\ done \in SUBSET OnPage /\ held' = Ingested(done) /\ sync' = Idle
      /\ UNCHANGED <<source, clock, changed, lastSynced, checkpoint, excused, shifted>>
  BY DEF Fail, Crash
<1>2. /\ WalkTypes
      /\ tokens \in [Places -> Times] /\ linked \in [Places -> Times] /\ mislinked \in BOOLEAN
  BY ListParts DEF WalkTypes
<1>3. tokens' \in [Places -> Times]
  BY <1>1, <1>2, SyncParts DEF Fail, Crash, Saved
<1>4. linked' \in [Places -> Times] /\ mislinked' \in BOOLEAN
  BY <1>2, <1>3, FirstLinksHold DEF Fail, Crash
<1> QED
  BY <1>1, <1>3, <1>4, SyncIsLost

\* The last page: the walk has come to all that was due.
LEMMA FinishLists ==
    ASSUME ListInv, source \in Listed, Finish
    PROVE  ListInv'
<1>1. /\ sync.stage = "items" /\ ~sync.more /\ clock < MaxClock
      /\ held' = Ingested(OnPage) /\ clock' = clock + 1 /\ lastSynced' = clock + 1
      /\ checkpoint' = NoCheckpoint /\ tokens' = Saved(sync.latest)
      /\ linked' = FirstLinks(tokens') /\ sync' = Idle
      /\ UNCHANGED <<source, changed, excused, mislinked, shifted>>
  BY DEF Finish
<1>2. WalkTypes /\ ListWindows /\ ListHolds
  BY ListParts
<1>3. sync # Idle
  BY <1>1 DEF Idle
<1>4. /\ held' \in [Items -> Times]
      /\ \A i \in Items : Due(i)' => Due(i) /\ sync.page[i] # changed[i]
  BY <1>1, <1>3, AfterListing
<1>5. sync.cursor.place = NumPlaces + 1
  <2>1. sync.cursor.place \in 1..(NumPlaces + 1)
    BY <1>2, <1>3, SyncParts DEF Positions
  <2>2. sync.cursor.place \notin Places
    BY <1>1, <1>2, <1>3 DEF ListWindows
  <2> QED
    BY <2>1, <2>2, WalkConstants DEF Places
<1>6. \A i \in Items : Home[i] # sync.cursor.place /\ ~(Home[i] > sync.cursor.place)
  BY <1>5, WalkConstants
<1>7. tokens' \in [Places -> Times] /\ linked' \in [Places -> Times]
  <2>1. tokens' \in [Places -> Times]
    BY <1>1, <1>2, <1>3, SyncParts DEF Saved, WalkTypes
  <2> QED
    BY <1>1, <1>2, <2>1, FirstLinksHold
<1>8. clock \in Nat /\ clock + 1 \in Times /\ clock + 1 # 0
  BY <1>1, <1>2, WalkConstants DEF WalkTypes, Times
<1>9. WalkTypes'
  BY <1>1, <1>2, <1>4, <1>7, <1>8 DEF WalkTypes
<1>10. ListWindows'
  <2>1. \A i \in Items : changed[i] \in Nat /\ changed[i] <= clock + 1 /\ changed[i] # 0
    <3>1. \A i \in Items : changed[i] \in Nat /\ changed[i] <= clock /\ changed[i] # 0
      BY <1>2, WalkBlanks DEF ListWindows, WalkTypes
    <3> QED
      BY <1>8, <3>1
  <2>2. clock + 1 <= clock + 1
    BY <1>8
  <2> QED
    BY <1>1, <2>1, <2>2 DEF ListWindows
<1>11. ListHolds'
  <2>1. \A i \in Items : ~Due(i)'
    BY <1>2, <1>3, <1>4, <1>6 DEF ListHolds, Comes
  <2> QED
    BY <1>1, <2>1 DEF ListHolds
<1> QED
  BY <1>9, <1>10, <1>11 DEF ListInv

\* A call lists the next items in rank.  What is due is among them, or the page is full
\* and the walk goes on at this place: with the oldest edits first a full list is never
\* mistaken for the last, and with the newest first nothing that is due comes after an
\* item that is older than the window.
LEMMA NothingDueIsPassed ==
    ASSUME source \in Listed, changed \in [Items -> Times],
           NEW c \in Positions, NEW since \in Nat, NEW i \in Items,
           changed[i] # 0, changed[i] >= since,
           Home[i] = c.place, Position(i, c.place, since, changed, source) >= c.at
    PROVE  \/ i \in Taken(Slice(c, since), since)
           \/ /\ ~Exhausted(c, since) /\ Cardinality(Slice(c, since)) = PageSize
              /\ Position(i, c.place, since, changed, source) >= c.at + PageSize
<1> DEFINE S == ListingOf(c.place, since, changed, source)
           order == OrderOf(changed, source)
           rank == Position(i, c.place, since, changed, source)
           got == Slice(c, since)
<1>1. /\ IsFiniteSet(S) /\ Orders(order, S)
  BY ListingsAreOrdered
<1>2. /\ Listing(c.place, since) = S /\ got = PageOf(S, order, c.at, PageSize)
  BY SliceIsPage
<1>3. \A j \in Items : changed[j] \in Nat
  BY WalkBlanks
<1>4. i \in S
  BY <1>3 DEF ListingOf
<1>5. rank = RankIn(i, S, order) /\ rank \in Nat /\ c.at \in Nat /\ PageSize \in Nat \ {0}
  BY PositionsAreNumbers, WalkConstants DEF Position, Positions
<1>6. /\ rank < Cardinality(S) /\ Cardinality(S) \in Nat
      /\ \A j \in S : <<i, j>> \in order => rank < RankIn(j, S, order)
  BY <1>1, <1>4, <1>5, RanksFollow, FS_CardinalityType
<1>7. \A j \in got : /\ j \in S /\ RankIn(j, S, order) \in Nat
                      /\ RankIn(j, S, order) < c.at + PageSize
  <2>1. \A j \in got : j \in S /\ RankIn(j, S, order) \in c.at..(c.at + PageSize - 1)
    BY <1>2 DEF PageOf
  <2> HIDE DEF S, order, got
  <2> QED
    BY <1>5, <2>1
<1>8. rank >= c.at + PageSize => Cardinality(got) = PageSize
  BY <1>1, <1>2, <1>4, <1>5, PagesAreFull
<1>9. CASE rank < c.at + PageSize
  <2>1. rank \in c.at..(c.at + PageSize - 1)
    <3> HIDE DEF rank
    <3> QED
      BY <1>5, <1>9 DEF rank
  <2>2. i \in got
    BY <1>2, <1>4, <1>5, <2>1 DEF PageOf
  <2> QED
    BY <2>2 DEF Taken
<1>10. CASE rank >= c.at + PageSize
  <2>1. Cardinality(got) = PageSize
    BY <1>8, <1>10
  <2>2. ~(c.at + PageSize >= Cardinality(S))
    <3> HIDE DEF rank, S
    <3> QED
      BY <1>5, <1>6, <1>10
  <2>3. ~(PageSize < PageSize)
    BY <1>5
  <2>4. ASSUME NEW j \in got, changed[j] < since
        PROVE  FALSE
    <3>1. j \in S /\ j \in Items /\ changed[j] \in Nat
      BY <1>3, <1>7 DEF ListingOf
    <3>2. source = "github"
      BY <2>4, <3>1 DEF ListingOf
    <3>3. changed[i] \in Nat /\ changed[i] > changed[j] /\ source \notin OldestFirst
      BY <1>3, <2>4, <3>1, <3>2 DEF OldestFirst
    <3>4. <<i, j>> \in order
      BY <3>1, <3>3 DEF OrderOf
    <3>5. rank < RankIn(j, S, order) /\ RankIn(j, S, order) < c.at + PageSize
          /\ RankIn(j, S, order) \in Nat
      BY <1>6, <1>7, <3>1, <3>4
    <3> HIDE DEF rank, S, order
    <3> QED
      BY <1>5, <1>10, <3>5
  <2>5. ~Exhausted(c, since)
    BY <1>2, <2>1, <2>2, <2>3, <2>4 DEF Exhausted
  <2> QED
    BY <1>10, <2>1, <2>5
<1> QED
  BY <1>5, <1>9, <1>10

\* A page: what is due is on it, or still to come.
LEMMA FetchLists ==
    ASSUME ListInv, source \in Listed, FetchPage
    PROVE  ListInv'
<1> DEFINE c == sync.cursor
           got == Slice(c, sync.since)
           taken == Taken(got, sync.since)
           next == IF Exhausted(c, sync.since) THEN NextPlace(c.place)
                   ELSE [c EXCEPT !.at = @ + Cardinality(got)]
           brought == [i \in Items |-> IF i \in taken THEN changed[i] ELSE 0]
           more == next.place <= NumPlaces
<1>1. WalkTypes /\ ListWindows /\ ListHolds
  BY ListParts
<1>2. /\ sync.stage = "fetch"
      /\ sync' = [sync EXCEPT !.stage = "items", !.cursor = next, !.page = brought, !.more = more]
      /\ excused' = excused
      /\ UNCHANGED <<source, clock, changed, held, lastSynced, tokens, checkpoint, linked,
                     mislinked, shifted>>
  <2>1. FetchBatch(c, sync) = {ListedPage(c, sync.since)}
    <3>1. source \in {"azure_devops", "confluence", "github"}
      BY DEF Listed, OldestFirst
    <3> QED
      BY <3>1 DEF FetchBatch, AzureDevOpsPages, ConfluencePages, GitHubPages
  <2> DEFINE page == ListedPage(c, sync.since)
  <2>2. /\ sync.stage = "fetch"
        /\ sync' = [Collected(sync, page) EXCEPT
                       !.stage = "items", !.cursor = page.next,
                       !.page = [i \in Items |-> IF i \in page.items THEN changed[i] ELSE 0],
                       !.more = page.next.place <= NumPlaces]
        /\ excused' = excused \cup page.failed
        /\ UNCHANGED <<source, clock, changed, held, lastSynced, tokens, checkpoint, linked,
                       mislinked, shifted>>
    BY <2>1 DEF FetchPage
  <2>3. page.link = 0 /\ page.failed = {} /\ page.items = taken /\ page.next = next
    BY DEF ListedPage
  <2> HIDE DEF page, next, taken
  <2>4. Collected(sync, page) = sync
    BY <2>3 DEF Collected
  <2> QED
    BY <2>2, <2>3, <2>4
<1>3. sync # Idle
  BY <1>2 DEF Idle
<1>4. /\ sync \in Syncs /\ sync.since \in Times /\ sync.since \in Nat /\ c \in Positions
      /\ c.at \in Nat /\ c.place \in Places /\ c.place \in Nat
  BY <1>1, <1>2, <1>3, SyncParts, WalkBlanks DEF ListWindows
<1>5. changed \in [Items -> Times] /\ \A i \in Items : changed[i] \in Nat /\ changed[i] # 0
  BY <1>1, WalkBlanks DEF WalkTypes, ListWindows
<1>6. Cardinality(got) \in Nat
  <2>1. Cardinality(got) \in 0..PageSize
    BY <1>4, <1>5, SliceIsPage, ListingsAreOrdered, PagesAreFull, WalkConstants
  <2> QED
    BY <2>1
<1>7. /\ next \in Positions
      /\ next = NextPlace(c.place) \/ next = [c EXCEPT !.at = c.at + Cardinality(got)]
  <2>1. NextPlace(c.place) \in Positions
    <3>1. c.place + 1 \in 1..(NumPlaces + 1) /\ 0 \in Nat /\ {} \in SUBSET Items
      BY <1>4, WalkConstants DEF Places
    <3> HIDE DEF c
    <3> QED
      BY <3>1 DEF NextPlace, Positions
  <2>2. [c EXCEPT !.at = c.at + Cardinality(got)] \in Positions
    <3> DEFINE at == c.at + Cardinality(got)
    <3>1. at \in Nat
      BY <1>4, <1>6
    <3> HIDE DEF at, c
    <3>2. [c EXCEPT !.at = at] \in Positions
      BY <1>4, <3>1 DEF Positions
    <3> QED
      BY <3>2 DEF at
  <2> QED
    BY <2>1, <2>2
<1>8. brought \in [Items -> Times] /\ more \in BOOLEAN
  BY <1>5, WalkBlanks
<1>9. /\ sync' \in Syncs /\ sync' # Idle /\ sync'.stage = "items"
      /\ sync'.since = sync.since /\ sync'.cursor = next /\ sync'.page = brought
      /\ sync'.more = more
  <2>1. "items" \in {"fetch", "items"}
    OBVIOUS
  <2> HIDE DEF next, brought, more
  <2>2. sync' \in Syncs
    BY <1>2, <1>4, <1>7, <1>8, <2>1 DEF Syncs
  <2>3. /\ sync'.stage = "items" /\ sync'.since = sync.since /\ sync'.cursor = next
        /\ sync'.page = brought /\ sync'.more = more
    BY <1>2, <1>4 DEF Syncs
  <2> QED
    BY <2>2, <2>3 DEF Idle
<1>10. WalkTypes'
  BY <1>1, <1>2, <1>9 DEF WalkTypes
<1>11. ListWindows'
  <2>1. more <=> next.place \in Places
    <3>1. next.place \in 1..(NumPlaces + 1)
      BY <1>7 DEF Positions
    <3> HIDE DEF next
    <3> QED
      BY <3>1, WalkConstants DEF Places
  <2>2. \A i \in Items : brought[i] \in {0, changed[i]}
    OBVIOUS
  <2> HIDE DEF next, brought, more
  <2> QED
    BY <1>1, <1>2, <1>3, <1>9, <2>1, <2>2 DEF ListWindows
<1>12. \A i \in Items : Due(i)' = Due(i)
  BY <1>2 DEF Due, Stale
<1>13. ASSUME NEW i \in Items, Due(i)
       PROVE  Comes(i, next, sync.since, changed, source) \/ brought[i] = changed[i]
  <2>1. Comes(i, c, sync.since, changed, source)
    BY <1>1, <1>2, <1>3, <1>5, <1>13, WalkBlanks DEF ListHolds, ListWindows
  <2>2. changed[i] >= sync.since
    <3>1. lastSynced \in Nat /\ (lastSynced # 0 => changed[i] > lastSynced)
      BY <1>1, <1>13, WalkBlanks DEF WalkTypes, ListHolds
    <3>2. sync.since \in {0, lastSynced}
      BY <1>1, <1>3 DEF ListWindows
    <3> QED
      BY <1>5, <3>1, <3>2
  <2>3. Home[i] \in Nat /\ \A p : Position(i, p, sync.since, changed, source) \in Nat
    BY <1>5, WalkBlanks, PositionsAreNumbers
  <2>4. CASE Home[i] > c.place
    <3>1. CASE next = NextPlace(c.place)
      <4>1. next.place = c.place + 1 /\ next.at = 0
        BY <3>1 DEF NextPlace
      <4>2. Home[i] > next.place \/ Home[i] = next.place
        BY <1>4, <2>3, <2>4, <4>1
      <4>3. Position(i, next.place, sync.since, changed, source) >= next.at
        BY <2>3, <4>1
      <4> QED
        BY <4>2, <4>3 DEF Comes
    <3>2. CASE next = [c EXCEPT !.at = c.at + Cardinality(got)]
      <4>1. next.place = c.place
        BY <1>4, <3>2 DEF Positions
      <4> QED
        BY <2>4, <4>1 DEF Comes
    <3> QED
      BY <1>7, <3>1, <3>2
  <2>5. CASE Home[i] = c.place /\ Position(i, c.place, sync.since, changed, source) >= c.at
    <3>1. \/ i \in taken
          \/ /\ ~Exhausted(c, sync.since) /\ Cardinality(got) = PageSize
             /\ Position(i, c.place, sync.since, changed, source) >= c.at + PageSize
      BY <1>4, <1>5, <2>2, <2>5, NothingDueIsPassed
    <3>2. CASE i \in taken
      BY <3>2
    <3>3. CASE /\ ~Exhausted(c, sync.since) /\ Cardinality(got) = PageSize
               /\ Position(i, c.place, sync.since, changed, source) >= c.at + PageSize
      <4>1. next = [c EXCEPT !.at = c.at + PageSize]
        BY <3>3
      <4>2. next.place = c.place /\ next.at = c.at + PageSize
        BY <1>4, <4>1 DEF Positions
      <4> QED
        BY <2>5, <3>3, <4>2 DEF Comes
    <3> QED
      BY <3>1, <3>2, <3>3
  <2> QED
    BY <2>1, <2>4, <2>5 DEF Comes
<1>14. ListHolds'
  <2> HIDE DEF next, brought, more
  <2> QED
    BY <1>1, <1>2, <1>9, <1>12, <1>13 DEF ListHolds
<1> QED
  BY <1>10, <1>11, <1>14 DEF ListInv

LEMMA ListStep == ListInv /\ [WalkNext]_walkVars => ListInv'
<1> SUFFICES ASSUME ListInv, [WalkNext]_walkVars
             PROVE  ListInv'
  OBVIOUS
<1>1. source' = source
  BY DEF walkVars, WalkNext, Change, StartSync, ContinueSync, FetchPage, SavePage, Finish,
         Fail, Crash
<1>2. CASE source \notin Listed
  BY <1>1, <1>2 DEF ListInv
<1>3. CASE source \in Listed
  <2>1. ASSUME NEW i \in Items, Change(i)
        PROVE  ListInv'
    BY <1>3, <2>1, ChangeLists
  <2>2. ASSUME NEW full \in BOOLEAN, StartSync(full)
        PROVE  ListInv'
    BY <1>3, <2>2, StartLists
  <2>3. ASSUME NEW full \in BOOLEAN, ContinueSync(full)
        PROVE  ListInv'
    BY <1>3, <2>3, ContinueLists
  <2>4. CASE FetchPage
    BY <1>3, <2>4, FetchLists
  <2>5. CASE SavePage
    BY <1>3, <2>5, SavePageLists
  <2>6. CASE Finish
    BY <1>3, <2>6, FinishLists
  <2>7. ASSUME NEW done \in SUBSET Items, Fail(done) \/ Crash(done)
        PROVE  ListInv'
    BY <1>3, <2>7, FailLists
  <2>8. CASE UNCHANGED walkVars
    BY <1>3, <2>8 DEF walkVars, ListInv, WalkTypes, ListWindows, ListHolds, Due, Stale
  <2> QED
    BY <2>1, <2>2, <2>3, <2>4, <2>5, <2>6, <2>7, <2>8 DEF WalkNext
<1> QED
  BY <1>2, <1>3

\* A walk passes over nothing, in every source and whatever is edited while it runs, and
\* wherever it fails, crashes or is continued: what is out of date is in the next window,
\* but for what was edited while a sync was at work, and for the places of an oldest-first
\* listing where that happened; and links are earned.
THEOREM NothingIsPassedOver == WalkSpec => []WalksPassOverNothing
<1>1. source \in Sources /\ WalkInv /\ ListInv => NothingSlipsThrough
  <2> SUFFICES ASSUME source \in Sources, WalkInv, ListInv
               PROVE  NothingSlipsThrough
    OBVIOUS
  <2>1. CASE source \in Continued
    BY <2>1, WalkParts DEF Continued, NothingSlipsThrough, CoverHolds, Whole
  <2>2. CASE source \in Listed
    BY <2>2, ListParts DEF NothingSlipsThrough, ListHolds, Due
  <2> QED
    BY <2>1, <2>2 DEF Sources, Continued, Listed, OldestFirst
<1>2. WalkSpec => []ListInv
  BY ListsInitially, ListStep, PTL DEF WalkSpec
<1> QED
  BY <1>1, <1>2, WalkInvariant, SavedLinksAreEarned, PTL DEF WalksPassOverNothing

-----------------------------------------------------------------------------
(* The benchmark: what people said of its cases, and what is made of it.   *)

\* Commands, with their sets named one by one.
CommandStages == {"idle", "begun", "read"}
CommandKinds == {"none", "annotation", "resolution"}
Carried == Entries \cup {"none"}
CommandRecords == [stage: CommandStages, kind: CommandKinds, entry: Carried, copy: Files]

\* The sequence t is s with e after it.
Adds(s, t, e) ==
    \E n \in Nat :
        /\ DOMAIN t = DOMAIN s \cup {n} /\ n \notin DOMAIN s /\ t[n] = e
        /\ \A i \in DOMAIN s : i < n /\ t[i] = s[i]

\* What an entry holds.
LEMMA EntryFields ==
    ASSUME NEW e \in Entries
    PROVE  /\ e.case \in Corpus /\ e.by \in Reviewers /\ e.mode \in Opinions
           /\ e.of \in 1..MaxEdits + 1 /\ e.at \in 1..MaxCommands
           /\ e.of \in Nat /\ e.at \in Nat
<1>1. /\ e.case \in Corpus /\ e.by \in Reviewers /\ e.mode \in Opinions
      /\ e.of \in 1..MaxEdits + 1 /\ e.at \in 1..MaxCommands
  BY DEF Entries
<1> QED
  BY <1>1, GroundTruthConstants DEF GroundTruthConstants

\* What a file holds.
LEMMA FileEntries ==
    ASSUME NEW f \in Files
    PROVE  /\ f.annotations \in Seq(Entries) /\ f.resolutions \in Seq(Entries)
           /\ DOMAIN f.annotations \subseteq Nat /\ DOMAIN f.resolutions \subseteq Nat
           /\ \A i \in DOMAIN f.annotations : f.annotations[i] \in Entries
           /\ \A i \in DOMAIN f.resolutions : f.resolutions[i] \in Entries
<1>1. f.annotations \in Seq(Entries) /\ f.resolutions \in Seq(Entries)
  BY DEF Files
<1>2. \A s \in Seq(Entries) : DOMAIN s \subseteq Nat /\ \A i \in DOMAIN s : s[i] \in Entries
  BY LenProperties
<1> QED
  BY <1>1, <1>2

\* The file of nobody.
LEMMA EmptyFileIsOne == EmptyFile \in Files /\ DOMAIN EmptyFile.annotations = {}
                        /\ DOMAIN EmptyFile.resolutions = {}
<1>1. <<>> \in Seq(Entries) /\ DOMAIN <<>> = {}
  BY EmptySeq
<1> QED
  BY <1>1 DEF EmptyFile, Files

\* Adding to a file.
LEMMA FileGrows ==
    ASSUME NEW f \in Files, NEW e \in Entries, NEW kind \in {"annotation", "resolution"},
           NEW d, d.kind = kind, d.entry = e
    PROVE  /\ Extended(f, d) \in Files
           /\ kind = "annotation" =>
                /\ Adds(f.annotations, Extended(f, d).annotations, e)
                /\ Extended(f, d).resolutions = f.resolutions
           /\ kind = "resolution" =>
                /\ Adds(f.resolutions, Extended(f, d).resolutions, e)
                /\ Extended(f, d).annotations = f.annotations
<1>1. \A s \in Seq(Entries) : Append(s, e) \in Seq(Entries) /\ Adds(s, Append(s, e), e)
  <2> TAKE s \in Seq(Entries)
  <2>1. Append(s, e) \in Seq(Entries)
    BY AppendProperties
  <2>2. /\ DOMAIN s = 1..Len(s) /\ Len(s) \in Nat
        /\ DOMAIN Append(s, e) = 1..Len(Append(s, e))
    BY <2>1, LenProperties
  <2>3. /\ Len(Append(s, e)) = Len(s) + 1
        /\ \A i \in 1..Len(s) : Append(s, e)[i] = s[i]
        /\ Append(s, e)[Len(s) + 1] = e
    BY AppendProperties
  <2> DEFINE n == Len(s) + 1
  <2>4. n \in Nat /\ 1..n = (1..Len(s)) \cup {n} /\ n \notin 1..Len(s) /\ \A i \in 1..Len(s) : i < n
    BY <2>2
  <2> QED
    BY <2>1, <2>2, <2>3, <2>4 DEF Adds
<1>2. f.annotations \in Seq(Entries) /\ f.resolutions \in Seq(Entries)
  BY FileEntries
<1>3. CASE kind = "annotation"
  <2>1. Extended(f, d) = [f EXCEPT !.annotations = Append(f.annotations, e)]
    BY <1>3 DEF Extended
  <2> QED
    BY <1>1, <1>2, <1>3, <2>1 DEF Files
<1>4. CASE kind = "resolution"
  <2>1. Extended(f, d) = [f EXCEPT !.resolutions = Append(f.resolutions, e)]
    BY <1>4 DEF Extended
  <2> QED
    BY <1>1, <1>2, <1>4, <2>1 DEF Files
<1> QED
  BY <1>3, <1>4

-----------------------------------------------------------------------------
\* A nonempty set of numbers has a least one.
LEMMA LeastIsThere ==
    ASSUME NEW S, S \subseteq Nat, S # {}
    PROVE  \E i \in S : \A j \in S : i <= j
<1> DEFINE Less == {pair \in Nat \X Nat : pair[1] < pair[2]}
<1>1. IsWellFoundedOn(Less, Nat)
  BY NatLessThanWellFounded DEF OpToRel
<1>2. \A m, n \in Nat : m < n => <<m, n>> \in Less
  OBVIOUS
<1>3. PICK i \in S : \A j \in S : ~(<<j, i>> \in Less)
  <2> HIDE DEF Less
  <2> QED
    BY <1>1, WFMin
<1>4. \A j \in S : i <= j
  <2> HIDE DEF Less
  <2> TAKE j \in S
  <2>1. i \in Nat /\ j \in Nat /\ ~(j < i)
    BY <1>2, <1>3
  <2> QED
    BY <2>1
<1> QED
  BY <1>4

\* The first of a case's entries.
LEMMA ForemostIsThere ==
    ASSUME NEW S, S \subseteq Nat, S # {}
    PROVE  Foremost(S) \in S /\ \A j \in S : Foremost(S) <= j
<1> QED
  BY LeastIsThere DEF Foremost

\* The last of them.
LEMMA HindmostIsThere ==
    ASSUME NEW s \in Seq(Entries), NEW S, S \subseteq DOMAIN s, S # {}
    PROVE  Hindmost(S) \in S
<1>1. Len(s) \in Nat /\ DOMAIN s = 1..Len(s)
  BY LenProperties
<1> DEFINE n == Len(s)
           T == {n - i : i \in S}
<1>2. T \subseteq Nat /\ T # {}
  BY <1>1
<1>3. PICK k \in T : \A j \in T : k <= j
  <2> HIDE DEF T
  <2> QED
    BY <1>2, LeastIsThere
<1>4. PICK i \in S : k = n - i
  OBVIOUS
<1>5. \A j \in S : j <= i
  <2> TAKE j \in S
  <2>1. k <= n - j
    BY <1>3
  <2> QED
    BY <1>1, <1>4, <2>1
<1> QED
  BY <1>5 DEF Hindmost

\* The first in time is of the independent pair.
LEMMA PairIsThere ==
    ASSUME NEW f \in Files, NEW c, AnnotationsOf(c, f) # {}
    PROVE  IndependentPair(c, f) # {}
<1> DEFINE S == AnnotationsOf(c, f)
           T == {f.annotations[i].at : i \in S}
<1>1. \A i \in S : f.annotations[i].at \in Nat
  BY FileEntries, EntryFields DEF AnnotationsOf
<1>2. PICK t \in T : \A u \in T : t <= u
  <2>1. T \subseteq Nat /\ T # {}
    BY <1>1
  <2> HIDE DEF T
  <2> QED
    BY <2>1, LeastIsThere
<1>3. PICK i \in S : t = f.annotations[i].at
  OBVIOUS
<1>4. \A j \in S : ~(f.annotations[j].at < f.annotations[i].at)
  <2> TAKE j \in S
  <2>1. f.annotations[i].at <= f.annotations[j].at
    BY <1>2, <1>3
  <2> QED
    BY <1>1, <2>1
<1>5. Earlier(i, c, f) = {}
  BY <1>4 DEF Earlier
<1> QED
  BY <1>3, <1>5 DEF IndependentPair

\* Two who disagree are the pair for good: who comes later comes after both.
LEMMA PairStays ==
    ASSUME NEW f \in Files, NEW g \in Files, NEW e \in Entries, NEW c,
           Adds(f.annotations, g.annotations, e),
           \A i \in DOMAIN f.annotations : f.annotations[i].at < e.at,
           Disagreed(c, f)
    PROVE  /\ IndependentPair(c, g) = IndependentPair(c, f) /\ Disagreed(c, g)
           /\ \A i \in IndependentPair(c, f) :
                i \in DOMAIN f.annotations /\ g.annotations[i] = f.annotations[i]
<1>1. PICK n \in Nat :
        /\ DOMAIN g.annotations = DOMAIN f.annotations \cup {n} /\ n \notin DOMAIN f.annotations
        /\ g.annotations[n] = e
        /\ \A i \in DOMAIN f.annotations : i < n /\ g.annotations[i] = f.annotations[i]
  BY DEF Adds
<1> DEFINE S == AnnotationsOf(c, f)
           P == IndependentPair(c, f)
<1>2. P \subseteq S /\ S \subseteq DOMAIN f.annotations
  BY DEF IndependentPair, AnnotationsOf
<1>3. \A i \in DOMAIN f.annotations : f.annotations[i].at \in Nat
  BY FileEntries, EntryFields
<1>4. e.at \in Nat
  BY EntryFields
<1>5. /\ S \subseteq AnnotationsOf(c, g) /\ AnnotationsOf(c, g) \subseteq S \cup {n}
  BY <1>1 DEF AnnotationsOf
<1>6. ASSUME NEW i \in S
      PROVE  Earlier(i, c, g) = Earlier(i, c, f)
  <2>1. g.annotations[i] = f.annotations[i]
    BY <1>1, <1>2
  <2>2. ~(g.annotations[n].at < g.annotations[i].at)
    BY <1>1, <1>2, <1>3, <1>4, <2>1
  <2>3. \A j \in S : g.annotations[j] = f.annotations[j]
    BY <1>1, <1>2
  <2> QED
    BY <1>5, <2>1, <2>2, <2>3 DEF Earlier
<1>7. PICK i, j \in P : f.annotations[i].mode # f.annotations[j].mode
  BY DEF Disagreed
<1>8. ~(n \in IndependentPair(c, g))
  <2>1. i # j
    BY <1>7
  <2>2. i \in Earlier(n, c, g) /\ j \in Earlier(n, c, g)
    BY <1>1, <1>2, <1>5 DEF Earlier
  <2> QED
    BY <2>1, <2>2 DEF IndependentPair
<1>9. IndependentPair(c, g) = P
  BY <1>5, <1>6, <1>8 DEF IndependentPair
<1>10. \A k \in P : k \in DOMAIN f.annotations /\ g.annotations[k] = f.annotations[k]
  BY <1>1, <1>2
<1>11. Disagreed(c, g)
  BY <1>7, <1>9, <1>10 DEF Disagreed
<1> QED
  BY <1>9, <1>10, <1>11

-----------------------------------------------------------------------------
\* Two entries of a reviewer on a case are one.
OneVoice(f) ==
    \A i, j \in DOMAIN f.annotations :
        (/\ f.annotations[i].case = f.annotations[j].case
         /\ f.annotations[i].by = f.annotations[j].by) => i = j

\* Whoever wrote e has seen the first two disagree, as they stand in the file.
Informed(e, f) ==
    /\ Disagreed(e.case, f)
    /\ \A i \in IndependentPair(e.case, f) :
         f.annotations[i].at < e.at /\ f.annotations[i].of <= e.of

\* The entry e may follow what is in the file.
Follows(kind, e, f) ==
    /\ \A i \in DOMAIN f.annotations :
         /\ f.annotations[i].at < e.at
         /\ f.annotations[i].case = e.case => f.annotations[i].of <= e.of
    /\ kind = "resolution" => Informed(e, f)

\* The file was written in the order of time, and so of the texts.
InOrder(f) ==
    /\ \A i, j \in DOMAIN f.annotations :
         i < j /\ f.annotations[i].case = f.annotations[j].case =>
             f.annotations[i].of <= f.annotations[j].of
    /\ \A r \in DOMAIN f.resolutions : Informed(f.resolutions[r], f)

\* Nothing in the file is later than now.
Elapsed(e, now, texts) == e.at <= now /\ e.of <= texts[e.case]
SoFar(f, now, texts) ==
    /\ \A i \in DOMAIN f.annotations : Elapsed(f.annotations[i], now, texts)
    /\ \A i \in DOMAIN f.resolutions : Elapsed(f.resolutions[i], now, texts)

\* A file in order stays so when what may follow is added.
LEMMA OrderIsKept ==
    ASSUME NEW f \in Files, NEW g \in Files, NEW e \in Entries,
           NEW kind \in {"annotation", "resolution"},
           kind = "annotation" => /\ Adds(f.annotations, g.annotations, e)
                                  /\ g.resolutions = f.resolutions,
           kind = "resolution" => /\ Adds(f.resolutions, g.resolutions, e)
                                  /\ g.annotations = f.annotations,
           InOrder(f), Follows(kind, e, f)
    PROVE  InOrder(g)
<1>1. CASE kind = "annotation"
  <2>1. Adds(f.annotations, g.annotations, e) /\ g.resolutions = f.resolutions
    BY <1>1
  <2>2. \A i \in DOMAIN f.annotations : f.annotations[i].at < e.at
    BY DEF Follows
  <2>3. PICK n \in Nat :
          /\ DOMAIN g.annotations = DOMAIN f.annotations \cup {n} /\ n \notin DOMAIN f.annotations
          /\ g.annotations[n] = e
          /\ \A i \in DOMAIN f.annotations : i < n /\ g.annotations[i] = f.annotations[i]
    BY <2>1 DEF Adds
  <2>4. DOMAIN f.annotations \subseteq Nat
    BY FileEntries
  <2>5. ASSUME NEW i \in DOMAIN g.annotations, NEW j \in DOMAIN g.annotations,
               i < j, g.annotations[i].case = g.annotations[j].case
        PROVE  g.annotations[i].of <= g.annotations[j].of
    <3>1. CASE j \in DOMAIN f.annotations
      <4>1. i \in DOMAIN f.annotations
        BY <2>3, <2>4, <2>5, <3>1
      <4> QED
        BY <2>3, <2>5, <3>1, <4>1 DEF InOrder
    <3>2. CASE j = n
      <4>1. i \in DOMAIN f.annotations
        BY <2>3, <2>4, <2>5, <3>2
      <4>2. g.annotations[j] = e /\ g.annotations[i] = f.annotations[i]
        BY <2>3, <3>2, <4>1
      <4> QED
        BY <2>5, <4>1, <4>2 DEF Follows
    <3> QED
      BY <2>3, <3>1, <3>2
  <2>6. ASSUME NEW r \in DOMAIN g.resolutions
        PROVE  Informed(g.resolutions[r], g)
    <3> DEFINE c == g.resolutions[r].case
    <3>1. Informed(g.resolutions[r], f)
      BY <2>1 DEF InOrder
    <3>2. Disagreed(c, f)
      BY <3>1 DEF Informed
    <3>3. /\ IndependentPair(c, g) = IndependentPair(c, f) /\ Disagreed(c, g)
          /\ \A i \in IndependentPair(c, f) : g.annotations[i] = f.annotations[i]
      BY <2>1, <2>2, <3>2, PairStays
    <3> QED
      BY <3>1, <3>3 DEF Informed
  <2> QED
    BY <2>5, <2>6 DEF InOrder
<1>2. CASE kind = "resolution"
  <2>1. Adds(f.resolutions, g.resolutions, e) /\ g.annotations = f.annotations
    BY <1>2
  <2>2. \A x : Informed(x, g) <=> Informed(x, f)
    BY <2>1 DEF Informed, Disagreed, IndependentPair, Earlier, AnnotationsOf
  <2>3. Informed(e, f)
    BY <1>2 DEF Follows
  <2>4. \A r \in DOMAIN g.resolutions : Informed(g.resolutions[r], g)
    BY <2>1, <2>2, <2>3 DEF Adds, InOrder
  <2> QED
    BY <2>1, <2>4 DEF InOrder
<1> QED
  BY <1>1, <1>2

\* ... and so does a file whose entries are of the past.
LEMMA PastIsKept ==
    ASSUME NEW f \in Files, NEW g \in Files, NEW e \in Entries,
           NEW kind \in {"annotation", "resolution"},
           kind = "annotation" => /\ Adds(f.annotations, g.annotations, e)
                                  /\ g.resolutions = f.resolutions,
           kind = "resolution" => /\ Adds(f.resolutions, g.resolutions, e)
                                  /\ g.annotations = f.annotations,
           NEW now, NEW texts, SoFar(f, now, texts), Elapsed(e, now, texts)
    PROVE  SoFar(g, now, texts)
<1>1. CASE kind = "annotation"
  BY <1>1 DEF Adds, SoFar
<1>2. CASE kind = "resolution"
  BY <1>2 DEF Adds, SoFar
<1> QED
  BY <1>1, <1>2

\* A voice that is not in the file may be added to it.
LEMMA VoicesAreKept ==
    ASSUME NEW f \in Files, NEW g \in Files, NEW e \in Entries, OneVoice(f), ~Annotated(f, e),
           Adds(f.annotations, g.annotations, e)
    PROVE  OneVoice(g)
BY DEF Adds, OneVoice, Annotated

-----------------------------------------------------------------------------
\* The types, the voices in every file and copy, and the order while commands are run
\* one after the other.
TruthTypes ==
    /\ edition \in [Corpus -> 1..MaxEdits + 1] /\ turn \in 0..MaxCommands
    /\ file \in Files /\ recorded \in Files /\ command \in [Commands -> CommandRecords]
    /\ \A k \in Commands :
         ~Free(k) => command[k].kind \in {"annotation", "resolution"} /\ command[k].entry \in Entries
    /\ overlapped \in BOOLEAN /\ report.compared \subseteq Corpus

VoiceInv ==
    /\ OneVoice(file)
    /\ \A k \in Commands : command[k].stage = "read" =>
         /\ OneVoice(command[k].copy)
         /\ command[k].kind = "annotation" => ~Annotated(command[k].copy, command[k].entry)

SoloInv ==
    ~overlapped =>
        /\ \A j, k \in Commands : ~Free(j) /\ ~Free(k) => j = k
        /\ \A k \in Commands : command[k].stage = "read" => command[k].copy = file
        /\ file = recorded /\ InOrder(file) /\ SoFar(file, turn, edition)
        /\ \A k \in Commands : ~Free(k) =>
             /\ Follows(command[k].kind, command[k].entry, file)
             /\ Elapsed(command[k].entry, turn, edition)

TruthInv == TruthTypes /\ VoiceInv /\ SoloInv

\* What a command is while nobody has called it.
LEMMA NoCommandIsOne == NoCommand \in CommandRecords /\ NoCommand.stage = "idle"
<1>1. "idle" \in CommandStages /\ "none" \in CommandKinds /\ "none" \in Carried
  BY DEF CommandStages, CommandKinds, Carried
<1> QED
  BY <1>1, EmptyFileIsOne DEF NoCommand, CommandRecords

LEMMA TruthStarts == GroundTruthInit => TruthInv /\ TruthIsEarned
<1> SUFFICES ASSUME GroundTruthInit
             PROVE  TruthInv /\ TruthIsEarned
  OBVIOUS
<1> USE DEF GroundTruthInit
<1>1. TruthTypes
  <2>1. \A k \in Commands : Free(k)
    BY NoCommandIsOne DEF Free
  <2>2. edition \in [Corpus -> 1..MaxEdits + 1] /\ turn \in 0..MaxCommands
    BY GroundTruthConstants DEF GroundTruthConstants
  <2> QED
    BY <2>1, <2>2, EmptyFileIsOne, NoCommandIsOne DEF TruthTypes, NoBenchmark
<1>2. VoiceInv
  BY NoCommandIsOne, EmptyFileIsOne DEF VoiceInv, OneVoice
<1>3. SoloInv
  BY NoCommandIsOne, EmptyFileIsOne DEF SoloInv, Free, InOrder, SoFar
<1>4. TruthIsEarned
  <2>1. OneVoiceEach
    BY EmptyFileIsOne DEF OneVoiceEach
  <2>2. HeardOnThisText /\ ReliableOnBothKinds /\ FabricationShows
    BY DEF NoBenchmark, HeardOnThisText, ReliableOnBothKinds, FabricationShows
  <2> QED
    BY <2>1, <2>2 DEF TruthIsEarned
<1> QED
  BY <1>1, <1>2, <1>3, <1>4 DEF TruthInv

\* A command is called: alone, or it is recorded that it is not.
LEMMA StartsKeepsTruth ==
    ASSUME NEW k \in Commands, NEW kind \in {"annotation", "resolution"}, NEW c \in Corpus,
           NEW r \in Reviewers, NEW m \in Opinions, TruthInv, report' = report,
           kind = "resolution" => Disagreed(c, file),
           Starts(k, kind, c, r, m)
    PROVE  TruthInv'
<1> DEFINE e == [case |-> c, by |-> r, mode |-> m, of |-> edition[c], at |-> turn']
           d == [stage |-> "begun", kind |-> kind, copy |-> EmptyFile, entry |-> e]
<1>1. /\ Free(k) /\ turn < MaxCommands /\ turn' = turn + 1
      /\ command' = [command EXCEPT ![k] = d]
      /\ overlapped' = (overlapped \/ \E j \in Commands : ~Free(j))
      /\ file' = file /\ edition' = edition /\ recorded' = recorded
  BY DEF Starts
<1>2. turn \in Nat /\ turn' \in Nat /\ turn' \in 1..MaxCommands /\ turn < turn'
  BY <1>1, GroundTruthConstants DEF TruthInv, TruthTypes, GroundTruthConstants
<1>3. edition[c] \in 1..MaxEdits + 1 /\ edition[c] <= edition[c]
  BY GroundTruthConstants DEF TruthInv, TruthTypes, GroundTruthConstants
<1>4. e \in Entries /\ e.case = c /\ e.at = turn' /\ e.of = edition[c]
  BY <1>2, <1>3 DEF Entries
<1> HIDE DEF e
<1>5. d \in CommandRecords /\ d.stage = "begun" /\ d.kind = kind /\ d.entry = e
  BY <1>4, EmptyFileIsOne DEF CommandRecords, CommandStages, CommandKinds, Carried
<1> HIDE DEF d
<1>6. /\ command' \in [Commands -> CommandRecords] /\ command'[k] = d
      /\ \A j \in Commands : j # k => command'[j] = command[j]
  BY <1>1, <1>5 DEF TruthInv, TruthTypes
<1>7. TruthTypes'
  <2>1. turn' \in 0..MaxCommands
    BY <1>2
  <2>2. overlapped' \in BOOLEAN
    BY <1>1 DEF TruthInv, TruthTypes
  <2>3. ASSUME NEW j \in Commands, ~(command'[j].stage = "idle")
        PROVE  command'[j].kind \in {"annotation", "resolution"} /\ command'[j].entry \in Entries
    BY <1>4, <1>5, <1>6, <2>3 DEF TruthInv, TruthTypes, Free
  <2> QED
    BY <1>1, <1>6, <2>1, <2>2, <2>3 DEF TruthInv, TruthTypes, Free
<1>8. VoiceInv'
  <2>1. ASSUME NEW j \in Commands, command'[j].stage = "read"
        PROVE  command'[j] = command[j]
    BY <1>5, <1>6, <2>1
  <2> QED
    BY <1>1, <2>1 DEF TruthInv, VoiceInv
<1>9. ASSUME ~overlapped'
      PROVE  /\ \A i, j \in Commands : command'[i].stage # "idle" /\ command'[j].stage # "idle" => i = j
             /\ \A j \in Commands : command'[j].stage = "read" => command'[j].copy = file
             /\ file = recorded /\ InOrder(file) /\ SoFar(file, turn', edition)
             /\ \A j \in Commands : command'[j].stage # "idle" =>
                  /\ Follows(command'[j].kind, command'[j].entry, file)
                  /\ Elapsed(command'[j].entry, turn', edition)
  <2>1. ~overlapped /\ \A j \in Commands : Free(j)
    BY <1>1, <1>9
  <2>2. \A j \in Commands : command'[j].stage # "idle" => j = k
    BY <1>6, <2>1 DEF Free
  <2>3. file = recorded /\ InOrder(file) /\ SoFar(file, turn, edition) /\ file \in Files
    BY <2>1 DEF TruthInv, SoloInv, TruthTypes
  <2>4. /\ \A i \in DOMAIN file.annotations :
             file.annotations[i].at \in Nat /\ Elapsed(file.annotations[i], turn, edition)
        /\ \A i \in DOMAIN file.resolutions :
             file.resolutions[i].at \in Nat /\ Elapsed(file.resolutions[i], turn, edition)
    BY <2>3, FileEntries, EntryFields DEF SoFar
  <2>5. SoFar(file, turn', edition)
    BY <1>2, <2>4 DEF SoFar, Elapsed
  <2>6. \A i \in DOMAIN file.annotations :
          /\ file.annotations[i].at < e.at
          /\ file.annotations[i].case = c => file.annotations[i].of <= e.of
    BY <1>2, <1>4, <2>4 DEF Elapsed
  <2>7. kind = "resolution" => Informed(e, file)
    BY <1>4, <2>6 DEF Informed, IndependentPair, AnnotationsOf
  <2>8. Follows(kind, e, file) /\ Elapsed(e, turn', edition)
    BY <1>2, <1>3, <1>4, <2>6, <2>7 DEF Follows, Elapsed
  <2> QED
    BY <1>5, <1>6, <2>2, <2>3, <2>5, <2>8
<1>10. SoloInv'
  BY <1>1, <1>9 DEF SoloInv, Free
<1> QED
  BY <1>7, <1>8, <1>10 DEF TruthInv

\* A command ends, without having written or refused.
LEMMA EndKeepsTruth ==
    ASSUME NEW k \in Commands, TruthInv, report' = report,
           command' = [command EXCEPT ![k] = NoCommand],
           UNCHANGED <<file, edition, turn, recorded, overlapped>>
    PROVE  TruthInv'
<1>1. /\ command' \in [Commands -> CommandRecords] /\ command'[k] = NoCommand
      /\ \A j \in Commands : j # k => command'[j] = command[j]
  BY NoCommandIsOne DEF TruthInv, TruthTypes
<1>2. \A j \in Commands : command'[j].stage # "idle" => command'[j] = command[j]
  BY <1>1, NoCommandIsOne
<1>3. TruthTypes'
  <2>1. ASSUME NEW j \in Commands, command'[j].stage # "idle"
        PROVE  command'[j].kind \in {"annotation", "resolution"} /\ command'[j].entry \in Entries
    BY <1>2, <2>1 DEF TruthInv, TruthTypes, Free
  <2> QED
    BY <1>1, <2>1 DEF TruthInv, TruthTypes, Free
<1>4. VoiceInv'
  <2>1. \A j \in Commands : command'[j].stage = "read" => command'[j] = command[j]
    BY <1>2
  <2> QED
    BY <2>1 DEF TruthInv, VoiceInv
<1>5. SoloInv'
  <2>1. \A j \in Commands : command'[j].stage = "read" => command'[j].stage # "idle"
    OBVIOUS
  <2> QED
    BY <1>2, <2>1 DEF TruthInv, SoloInv, Free
<1> QED
  BY <1>3, <1>4, <1>5 DEF TruthInv

\* A command reads: what it holds is the file, and its own voice is not in it.
LEMMA ReadFileKeepsTruth ==
    ASSUME NEW k \in Commands, TruthInv, report' = report, ReadFile(k)
    PROVE  TruthInv'
<1>1. CASE command[k].kind = "annotation" /\ Annotated(file, command[k].entry)
  BY <1>1, EndKeepsTruth DEF ReadFile
<1>2. CASE ~(command[k].kind = "annotation" /\ Annotated(file, command[k].entry))
  <2> DEFINE d == [command[k] EXCEPT !.copy = file, !.stage = "read"]
  <2>1. /\ command[k].stage = "begun" /\ command' = [command EXCEPT ![k] = d]
        /\ UNCHANGED <<file, edition, turn, recorded, overlapped>>
    BY <1>2 DEF ReadFile
  <2>2. command[k] \in CommandRecords /\ file \in Files
    BY DEF TruthInv, TruthTypes
  <2>3. /\ d \in CommandRecords /\ d.stage = "read" /\ d.copy = file
        /\ d.kind = command[k].kind /\ d.entry = command[k].entry
    BY <2>2 DEF CommandRecords, CommandStages
  <2> HIDE DEF d
  <2>4. /\ command' \in [Commands -> CommandRecords] /\ command'[k] = d
        /\ \A j \in Commands : j # k => command'[j] = command[j]
    BY <2>1, <2>3 DEF TruthInv, TruthTypes
  <2>5. \A j \in Commands :
          /\ command'[j].kind = command[j].kind /\ command'[j].entry = command[j].entry
          /\ command'[j].stage = "idle" <=> command[j].stage = "idle"
    BY <2>1, <2>3, <2>4
  <2>6. TruthTypes'
    BY <2>1, <2>4, <2>5 DEF TruthInv, TruthTypes, Free
  <2>7. VoiceInv'
    <3>1. ASSUME NEW j \in Commands, command'[j].stage = "read"
          PROVE  /\ OneVoice(command'[j].copy)
                 /\ command'[j].kind = "annotation" => ~Annotated(command'[j].copy, command'[j].entry)
      <4>1. CASE j = k
        BY <1>2, <2>3, <2>4, <4>1 DEF TruthInv, VoiceInv
      <4>2. CASE j # k
        BY <2>4, <3>1, <4>2 DEF TruthInv, VoiceInv
      <4> QED
        BY <4>1, <4>2
    <3> QED
      BY <2>1, <3>1 DEF TruthInv, VoiceInv
  <2>8. SoloInv'
    <3>1. ~overlapped => \A j \in Commands : command'[j].stage = "read" => command'[j].copy = file
      BY <2>3, <2>4 DEF TruthInv, SoloInv
    <3> QED
      BY <2>1, <2>5, <3>1 DEF TruthInv, SoloInv, Free
  <2> QED
    BY <2>6, <2>7, <2>8 DEF TruthInv
<1> QED
  BY <1>1, <1>2

\* A command writes what it read and its entry after it.
LEMMA WriteFileKeepsTruth ==
    ASSUME NEW k \in Commands, TruthInv, report' = report, WriteFile(k)
    PROVE  TruthInv'
<1> DEFINE d == command[k]
           e == command[k].entry
<1>1. /\ d.stage = "read" /\ file' = Extended(d.copy, d) /\ recorded' = Extended(recorded, d)
      /\ command' = [command EXCEPT ![k] = NoCommand]
      /\ UNCHANGED <<edition, turn, overlapped>>
  BY DEF WriteFile
<1>2. d \in CommandRecords /\ recorded \in Files
  BY DEF TruthInv, TruthTypes
<1>3. d.copy \in Files /\ ~Free(k)
  BY <1>1, <1>2 DEF CommandRecords, Free
<1>4. d.kind \in {"annotation", "resolution"} /\ e \in Entries
  BY <1>3 DEF TruthInv, TruthTypes
<1>5. /\ command' \in [Commands -> CommandRecords] /\ command'[k] = NoCommand
      /\ \A j \in Commands : j # k => command'[j] = command[j]
  BY <1>1, NoCommandIsOne DEF TruthInv, TruthTypes
<1>6. \A j \in Commands : command'[j].stage # "idle" => j # k /\ command'[j] = command[j]
  BY <1>5, NoCommandIsOne
<1> DEFINE g == Extended(d.copy, d)
<1>7. /\ g \in Files
      /\ d.kind = "annotation" =>
           Adds(d.copy.annotations, g.annotations, e) /\ g.resolutions = d.copy.resolutions
      /\ d.kind = "resolution" =>
           Adds(d.copy.resolutions, g.resolutions, e) /\ g.annotations = d.copy.annotations
  <2> HIDE DEF d
  <2> QED
    BY <1>3, <1>4, FileGrows DEF d
<1>8. Extended(recorded, d) \in Files
  <2>1. \A x : x = d => Extended(recorded, x) \in Files
    BY <1>2, <1>4, FileGrows
  <2> QED
    BY <2>1
<1> HIDE DEF g
<1>9. TruthTypes'
  <2>1. ASSUME NEW j \in Commands, command'[j].stage # "idle"
        PROVE  command'[j].kind \in {"annotation", "resolution"} /\ command'[j].entry \in Entries
    BY <1>6, <2>1 DEF TruthInv, TruthTypes, Free
  <2>2. file' \in Files /\ recorded' \in Files
    BY <1>1, <1>7, <1>8 DEF g
  <2> QED
    BY <1>1, <1>5, <2>1, <2>2 DEF TruthInv, TruthTypes, Free
<1>10. VoiceInv'
  <2>1. OneVoice(d.copy) /\ (d.kind = "annotation" => ~Annotated(d.copy, e))
    BY <1>1 DEF TruthInv, VoiceInv
  <2>2. OneVoice(g)
    <3>1. CASE d.kind = "annotation"
      BY <1>3, <1>4, <1>7, <2>1, <3>1, VoicesAreKept
    <3>2. CASE d.kind = "resolution"
      BY <1>7, <2>1, <3>2 DEF OneVoice
    <3> QED
      BY <1>4, <3>1, <3>2
  <2>3. \A j \in Commands : command'[j].stage = "read" => command'[j] = command[j]
    BY <1>6
  <2> QED
    BY <1>1, <2>2, <2>3 DEF TruthInv, VoiceInv, g
<1>11. ASSUME ~overlapped
       PROVE  /\ \A j \in Commands : command'[j].stage = "idle"
              /\ g = Extended(recorded, d) /\ InOrder(g) /\ SoFar(g, turn, edition)
  <2>1. /\ \A j \in Commands : ~Free(j) => j = k
        /\ d.copy = file /\ file = recorded /\ InOrder(file) /\ SoFar(file, turn, edition)
        /\ Follows(d.kind, e, file) /\ Elapsed(e, turn, edition)
    BY <1>1, <1>3, <1>11 DEF TruthInv, SoloInv
  <2>2. \A j \in Commands : command'[j].stage = "idle"
    BY <1>5, <1>6, <2>1 DEF Free
  <2>3. InOrder(g)
    BY <1>3, <1>4, <1>7, <2>1, OrderIsKept
  <2>4. SoFar(g, turn, edition)
    BY <1>3, <1>4, <1>7, <2>1, PastIsKept
  <2> QED
    BY <2>1, <2>2, <2>3, <2>4 DEF g
<1>12. SoloInv'
  <2>1. \A j \in Commands : command'[j].stage = "read" => command'[j].stage # "idle"
    OBVIOUS
  <2>2. file' = g /\ recorded' = Extended(recorded, d) /\ UNCHANGED <<edition, turn, overlapped>>
    BY <1>1 DEF g
  <2> QED
    BY <1>11, <2>1, <2>2 DEF SoloInv, Free
<1> QED
  BY <1>9, <1>10, <1>12 DEF TruthInv

\* A text changes: what was said before is said of an earlier one.
LEMMA EditCaseKeepsTruth ==
    ASSUME NEW c \in Corpus, TruthInv, report' = report, EditCase(c),
           UNCHANGED <<file, turn, command, recorded, overlapped>>
    PROVE  TruthInv'
<1>1. edition[c] <= MaxEdits /\ edition' = [edition EXCEPT ![c] = edition[c] + 1]
  BY DEF EditCase
<1>2. edition \in [Corpus -> 1..MaxEdits + 1] /\ MaxEdits \in Nat
  BY GroundTruthConstants DEF TruthInv, TruthTypes, GroundTruthConstants
<1>3. edition[c] + 1 \in 1..MaxEdits + 1
  BY <1>1, <1>2
<1>4. edition' \in [Corpus -> 1..MaxEdits + 1]
  BY <1>1, <1>2, <1>3
<1>5. TruthTypes'
  BY <1>4 DEF TruthInv, TruthTypes, Free
<1>6. VoiceInv'
  BY DEF TruthInv, VoiceInv
<1>7. \A b \in Corpus : edition[b] <= edition'[b] /\ edition[b] \in Nat /\ edition'[b] \in Nat
  BY <1>1, <1>2, <1>4
<1>8. ASSUME NEW e \in Entries, Elapsed(e, turn, edition)
      PROVE  Elapsed(e, turn, edition')
  <2>1. e.case \in Corpus /\ e.of \in Nat
    BY EntryFields
  <2>2. e.at <= turn /\ e.of <= edition[e.case]
    BY <1>8 DEF Elapsed
  <2>3. e.of <= edition'[e.case]
    BY <1>7, <2>1, <2>2
  <2> QED
    BY <2>2, <2>3 DEF Elapsed
<1>9. SoFar(file, turn, edition) => SoFar(file, turn, edition')
  <2>1. file \in Files
    BY DEF TruthInv, TruthTypes
  <2>2. /\ \A i \in DOMAIN file.annotations : file.annotations[i] \in Entries
        /\ \A i \in DOMAIN file.resolutions : file.resolutions[i] \in Entries
    BY <2>1, FileEntries
  <2> QED
    BY <1>8, <2>2 DEF SoFar
<1>10. \A k \in Commands : ~Free(k) => command[k].entry \in Entries
  BY DEF TruthInv, TruthTypes
<1>11. SoloInv'
  BY <1>8, <1>9, <1>10 DEF TruthInv, SoloInv, Free
<1> QED
  BY <1>5, <1>6, <1>11 DEF TruthInv

-----------------------------------------------------------------------------
\* The two dangerous outcomes, and what they say of the expectation and of the answer.
LEMMA DangerousOutcomes ==
    ASSUME NEW expected \in ExpectedModes, NEW observed \in Modes
    PROVE  /\ Correctness(expected, observed) = "critical_failure" <=>
                expected = "no_answer" /\ observed # "no_answer"
           /\ Correctness(expected, observed) = "incorrect_refusal" =>
                expected = "answer" /\ observed = "no_answer"
<1>1. CASE expected = "unlabeled"
  BY <1>1 DEF Correctness
<1>2. CASE expected = "answer"
  <2>1. CASE observed = "substantive_answer"
    BY <1>2, <2>1 DEF Correctness
  <2>2. CASE observed = "qualified_answer"
    BY <1>2, <2>2 DEF Correctness
  <2>3. CASE observed = "no_answer"
    BY <1>2, <2>3 DEF Correctness
  <2> QED
    BY <2>1, <2>2, <2>3 DEF Modes
<1>3. CASE expected = "qualified_answer"
  BY <1>3 DEF Correctness
<1>4. CASE expected = "no_answer"
  BY <1>4 DEF Correctness
<1> QED
  BY <1>1, <1>2, <1>3, <1>4 DEF ExpectedModes

\* The mode people are taken to have said is one that somebody said.
LEMMA HumanModeIsSaid ==
    ASSUME file \in Files, NEW c, AnnotationsOf(c, file) # {}, HumanMode(c, file) # "none"
    PROVE  HumanMode(c, file) \in ModesSaid(c) /\ HumanMode(c, file) \in Modes
<1>1. /\ \A i \in AnnotationsOf(c, file) : file.annotations[i].mode \in Opinions
      /\ \A i \in ResolutionsOf(c, file) : file.resolutions[i].mode \in Opinions
  BY FileEntries, EntryFields DEF AnnotationsOf, ResolutionsOf
<1>2. Opinions \subseteq Modes
  BY GroundTruthConstants DEF GroundTruthConstants
<1>3. HumanMode(c, file) \in ModesSaid(c)
  <2>1. CASE ~Disagreed(c, file)
    <3> DEFINE i == CHOOSE i \in IndependentPair(c, file) : TRUE
    <3>1. i \in IndependentPair(c, file)
      BY PairIsThere
    <3>2. HumanMode(c, file) = file.annotations[i].mode
      BY <2>1 DEF HumanMode
    <3> HIDE DEF i
    <3> QED
      BY <3>1, <3>2 DEF ModesSaid, IndependentPair
  <2>2. CASE Disagreed(c, file)
    <3>1. /\ ResolutionsOf(c, file) # {}
          /\ HumanMode(c, file) = file.resolutions[Hindmost(ResolutionsOf(c, file))].mode
      BY <2>2 DEF HumanMode
    <3>2. Hindmost(ResolutionsOf(c, file)) \in ResolutionsOf(c, file)
      <4>1. file.resolutions \in Seq(Entries) /\ ResolutionsOf(c, file) \subseteq DOMAIN file.resolutions
        BY FileEntries DEF ResolutionsOf
      <4> QED
        BY <3>1, <4>1, HindmostIsThere
    <3> QED
      BY <3>1, <3>2 DEF ModesSaid
  <2> QED
    BY <2>1, <2>2
<1>4. ModesSaid(c) \subseteq Modes
  BY <1>1, <1>2 DEF ModesSaid
<1> QED
  BY <1>3, <1>4

\* The cases that are compared, and the modes that people gave them.
LEMMA ComparedAreHeard ==
    ASSUME TruthInv, NEW results \in Results, NEW c \in Compared(results)
    PROVE  /\ c \in Corpus /\ Expected[c] \in ExpectedModes
           /\ AnnotationsOf(c, file) # {} /\ Current(c, results)
           /\ HumanMode(c, file) # "none"
           /\ HumanMode(c, file) \in ModesSaid(c) /\ HumanMode(c, file) \in Modes
<1>1. /\ c \in Corpus /\ AnnotationsOf(c, file) # {} /\ Current(c, results)
      /\ HumanMode(c, file) # "none"
  BY DEF Compared
<1>2. Expected[c] \in ExpectedModes
  BY <1>1, GroundTruthConstants DEF GroundTruthConstants
<1>3. file \in Files
  BY DEF TruthInv, TruthTypes
<1> QED
  BY <1>1, <1>2, <1>3, HumanModeIsSaid

\* Who passes for reliable has been measured on both dangerous outcomes.
LEMMA ReliabilityIsEarned ==
    ASSUME TruthInv, NEW results \in Results, Reliability(Compared(results)) = "provisional"
    PROVE  /\ Cardinality(Compared(results)) >= Floor
           /\ \E c, d \in Compared(results) :
                /\ Expected[c] = "no_answer" /\ ModesSaid(c) \ {"no_answer"} # {}
                /\ Expected[d] = "answer" /\ "no_answer" \in ModesSaid(d)
<1> DEFINE S == Compared(results)
           seen == {Correctness(Expected[c], HumanMode(c, file)) : c \in S}
<1>1. ~(Cardinality(S) < Floor) /\ {"critical_failure", "incorrect_refusal"} \subseteq seen
  BY DEF Reliability
<1>2. Cardinality(S) \in Nat /\ Floor \in Nat
  <2>1. S \subseteq Corpus
    BY DEF Compared
  <2> QED
    BY <2>1, FS_Subset, FS_CardinalityType, GroundTruthConstants DEF GroundTruthConstants
<1>3. Cardinality(S) >= Floor
  BY <1>1, <1>2
<1>4. PICK c \in S : Correctness(Expected[c], HumanMode(c, file)) = "critical_failure"
  BY <1>1
<1>5. PICK d \in S : Correctness(Expected[d], HumanMode(d, file)) = "incorrect_refusal"
  BY <1>1
<1>6. Expected[c] = "no_answer" /\ HumanMode(c, file) # "no_answer" /\ HumanMode(c, file) \in ModesSaid(c)
  BY <1>4, ComparedAreHeard, DangerousOutcomes
<1>7. Expected[d] = "answer" /\ HumanMode(d, file) = "no_answer" /\ HumanMode(d, file) \in ModesSaid(d)
  BY <1>5, ComparedAreHeard, DangerousOutcomes
<1> QED
  BY <1>3, <1>6, <1>7

\* A run that has judged a made-up answer does not end well.
LEMMA VerdictIsEarned ==
    ASSUME NEW results \in Results, NEW trials, NEW thresholds,
           Verdict(results, trials, thresholds) \in {"baseline_established", "quality_target_met"},
           NEW c \in Corpus, results[c] # "error", Expected[c] = "no_answer"
    PROVE  c \in Declining
<1> DEFINE outcomes == {Correctness(Expected[b], results[b]) : b \in {x \in Corpus : results[x] # "error"}}
<1>1. "critical_failure" \notin outcomes
  <2> DEFINE errors == Cardinality({b \in Corpus : results[b] = "error"})
                       + Cardinality({t \in Trials : trials[t] = "error"})
             cases == Cardinality(Corpus) + Cardinality(Trials)
             few == cases = 0 \/ 2 * errors > cases
             bad == \/ \E t \in Trials : trials[t] = "damaged"
                    \/ "critical_failure" \in outcomes
  <2>1. Verdict(results, trials, thresholds) =
          IF few THEN "insufficient_data"
          ELSE IF bad THEN "regression_detected"
          ELSE IF thresholds = {"calibrated"} THEN "quality_target_met"
          ELSE "baseline_established"
    BY DEF Verdict
  <2>2. bad => Verdict(results, trials, thresholds) \in {"insufficient_data", "regression_detected"}
    <3> HIDE DEF few, bad
    <3> QED
      BY <2>1
  <2> HIDE DEF few
  <2> QED
    BY <2>2
<1>2. Correctness(Expected[c], results[c]) # "critical_failure"
  BY <1>1
<1>3. results[c] \in Judgements(c)
  BY DEF Results
<1> SUFFICES ASSUME c \notin Declining
             PROVE  FALSE
  OBVIOUS
<1>4. results[c] \in {"substantive_answer", "qualified_answer"}
  BY <1>3 DEF Judgements
<1>5. results[c] \in Modes /\ results[c] # "no_answer" /\ Expected[c] \in ExpectedModes
  BY <1>4 DEF Modes, ExpectedModes
<1> QED
  BY <1>2, <1>5, DangerousOutcomes

\* While commands are run one after the other, a case that is compared was judged by
\* everybody in the text that it has.
LEMMA ComparedAreOfThisText ==
    ASSUME TruthInv, ~overlapped, NEW results \in Results, NEW c \in Compared(results)
    PROVE  /\ \A i \in AnnotationsOf(c, file) : file.annotations[i].of = edition[c]
           /\ \A r \in ResolutionsOf(c, file) : file.resolutions[r].of = edition[c]
           /\ Disagreed(c, file) =>
                \E r \in ResolutionsOf(c, file) : \A i \in IndependentPair(c, file) :
                    file.annotations[i].at < file.resolutions[r].at
<1>1. file \in Files /\ InOrder(file) /\ SoFar(file, turn, edition)
  BY DEF TruthInv, TruthTypes, SoloInv
<1>2. /\ c \in Corpus /\ AnnotationsOf(c, file) # {}
      /\ file.annotations[Foremost(AnnotationsOf(c, file))].of = edition[c]
      /\ HumanMode(c, file) # "none"
  BY ComparedAreHeard DEF Current
<1> DEFINE S == AnnotationsOf(c, file)
           first == Foremost(S)
<1>3. S \subseteq Nat /\ S \subseteq DOMAIN file.annotations
  BY <1>1, FileEntries DEF AnnotationsOf
<1>4. first \in S /\ \A j \in S : first <= j
  <2> HIDE DEF S
  <2> QED
    BY <1>2, <1>3, ForemostIsThere DEF S
<1>5. file.annotations[first].of = edition[c]
  BY <1>2
<1> HIDE DEF first
<1>6. \A i \in S : file.annotations[i].case = c
  BY DEF AnnotationsOf
<1>7. /\ \A i \in DOMAIN file.annotations : file.annotations[i].of \in Nat
      /\ \A i \in DOMAIN file.resolutions : file.resolutions[i].of \in Nat
  BY <1>1, FileEntries, EntryFields
<1>8. edition[c] \in Nat
  BY <1>3, <1>4, <1>5, <1>7
<1>9. ASSUME NEW i \in S
      PROVE  file.annotations[i].of = edition[c]
  <2>1. file.annotations[i].of <= edition[c]
    BY <1>1, <1>3, <1>6 DEF SoFar, Elapsed
  <2>2. CASE i = first
    BY <1>5, <2>2
  <2>3. CASE i # first
    <3>1. first < i
      BY <1>3, <1>4, <2>3
    <3>2. edition[c] <= file.annotations[i].of
      BY <1>1, <1>3, <1>4, <1>5, <1>6, <3>1 DEF InOrder
    <3> QED
      BY <1>3, <1>7, <1>8, <2>1, <3>2
  <2> QED
    BY <2>2, <2>3
<1>10. ASSUME NEW r \in ResolutionsOf(c, file)
       PROVE  /\ file.resolutions[r].of = edition[c]
              /\ \A i \in IndependentPair(c, file) : file.annotations[i].at < file.resolutions[r].at
  <2>1. r \in DOMAIN file.resolutions /\ file.resolutions[r].case = c
    BY DEF ResolutionsOf
  <2>2. Informed(file.resolutions[r], file)
    BY <1>1, <2>1 DEF InOrder
  <2>3. /\ Disagreed(c, file)
        /\ \A i \in IndependentPair(c, file) :
             /\ file.annotations[i].at < file.resolutions[r].at
             /\ file.annotations[i].of <= file.resolutions[r].of
    BY <2>1, <2>2 DEF Informed
  <2>4. PICK i \in IndependentPair(c, file) : TRUE
    BY <2>3 DEF Disagreed
  <2>5. edition[c] <= file.resolutions[r].of
    BY <1>9, <2>3, <2>4 DEF IndependentPair
  <2>6. file.resolutions[r].of <= edition[c]
    BY <1>1, <2>1 DEF SoFar, Elapsed
  <2> QED
    BY <1>7, <1>8, <2>1, <2>3, <2>5, <2>6
<1>11. Disagreed(c, file) => ResolutionsOf(c, file) # {}
  BY <1>2 DEF HumanMode
<1> QED
  BY <1>9, <1>10, <1>11

\* A run of the benchmark.
LEMMA BenchmarkIsEarned ==
    ASSUME TruthInv, Benchmark
    PROVE  TruthInv' /\ TruthIsEarned'
<1>1. UNCHANGED <<file, edition, turn, command, recorded, overlapped>>
  BY DEF Benchmark
<1>2. PICK results \in Results, trials \in [Trials -> TrialOutcomes \cup {"error"}],
           measured \in {"calibrated", "provisional", "insufficient_data"} :
        report' = ReportOf(results, trials, measured)
  BY DEF Benchmark
<1>3. /\ report'.compared = Compared(results) /\ Compared(results) \subseteq Corpus
      /\ report'.judged = {c \in Corpus : results[c] # "error"}
      /\ report'.reliability = Reliability(Compared(results))
      /\ report'.verdict = Verdict(results, trials,
           {measured, "insufficient_data", Reliability(Compared(results))})
  BY <1>2 DEF ReportOf, Compared
<1>4. TruthInv'
  <2>1. TruthTypes'
    BY <1>1, <1>3 DEF TruthInv, TruthTypes, Free
  <2>2. VoiceInv' /\ SoloInv'
    BY <1>1 DEF TruthInv, VoiceInv, SoloInv, Free
  <2> QED
    BY <2>1, <2>2 DEF TruthInv
<1>5. OneVoiceEach'
  BY <1>1 DEF TruthInv, VoiceInv, OneVoice, OneVoiceEach
<1>6. ~overlapped' => file' = recorded' /\ HeardOnThisText'
  <2>1. ~overlapped => file = recorded
    BY DEF TruthInv, SoloInv
  <2>2. ASSUME ~overlapped, NEW c \in Compared(results)
        PROVE  /\ \A i \in AnnotationsOf(c, file) : file.annotations[i].of = edition[c]
               /\ \A r \in ResolutionsOf(c, file) : file.resolutions[r].of = edition[c]
               /\ Disagreed(c, file) =>
                    \E r \in ResolutionsOf(c, file) : \A i \in IndependentPair(c, file) :
                        file.annotations[i].at < file.resolutions[r].at
    BY <2>2, ComparedAreOfThisText
  <2>3. ~overlapped => HeardOnThisText'
    BY <1>1, <1>3, <2>2 DEF HeardOnThisText
  <2> QED
    BY <1>1, <2>1, <2>3
<1>7. ReliableOnBothKinds'
  <2>1. \A c : ModesSaid(c)' = ModesSaid(c)
    BY <1>1 DEF ModesSaid
  <2> QED
    BY <1>3, <2>1, ReliabilityIsEarned DEF ReliableOnBothKinds
<1>8. FabricationShows'
  BY <1>3, VerdictIsEarned DEF FabricationShows
<1> QED
  BY <1>4, <1>5, <1>6, <1>7, <1>8 DEF TruthIsEarned

\* Without a report there is only the file to speak of.
Quiet == report = NoBenchmark

LEMMA QuietTruth == TruthInv /\ Quiet => TruthIsEarned
<1> SUFFICES ASSUME TruthInv, report = NoBenchmark
             PROVE  TruthIsEarned
  BY DEF Quiet
<1>1. OneVoiceEach
  BY DEF TruthInv, VoiceInv, OneVoice, OneVoiceEach
<1>2. HeardOnThisText /\ ReliableOnBothKinds /\ FabricationShows
  BY DEF NoBenchmark, HeardOnThisText, ReliableOnBothKinds, FabricationShows
<1> QED
  BY <1>1, <1>2 DEF TruthIsEarned, TruthInv, SoloInv

\* Every step.
LEMMA TruthStep == TruthInv /\ TruthIsEarned /\ [GroundTruthNext]_truthVars => (TruthInv /\ TruthIsEarned)'
<1>1. ASSUME TruthInv, report = NoBenchmark, report' = report,
             NEW k \in Commands,
             Annotate(k) \/ Resolve(k) \/ ReadFile(k) \/ WriteFile(k) \/ Interrupt(k)
      PROVE  TruthInv'
  <2>1. CASE Annotate(k)
    <3>1. PICK c \in Corpus, r \in Reviewers, m \in Opinions : Starts(k, "annotation", c, r, m)
      BY <2>1 DEF Annotate
    <3> QED
      BY <1>1, <3>1, StartsKeepsTruth
  <2>2. CASE Resolve(k)
    <3>1. PICK c \in Corpus, r \in Reviewers, m \in Opinions :
            Disagreed(c, file) /\ Starts(k, "resolution", c, r, m)
      BY <2>2 DEF Resolve
    <3> QED
      BY <1>1, <3>1, StartsKeepsTruth
  <2>3. CASE ReadFile(k)
    BY <1>1, <2>3, ReadFileKeepsTruth
  <2>4. CASE WriteFile(k)
    BY <1>1, <2>4, WriteFileKeepsTruth
  <2>5. CASE Interrupt(k)
    BY <1>1, <2>5, EndKeepsTruth DEF Interrupt
  <2> QED
    BY <1>1, <2>1, <2>2, <2>3, <2>4, <2>5
<1>2. ASSUME TruthInv, report = NoBenchmark, report' = report, NEW c \in Corpus, EditCase(c)
      PROVE  TruthInv'
  BY <1>2, EditCaseKeepsTruth DEF EditCase
<1>3. TruthInv' /\ report' = NoBenchmark => TruthIsEarned'
  <2>1. TruthInv' /\ Quiet' => TruthIsEarned'
    BY QuietTruth, PTL
  <2> QED
    BY <2>1 DEF Quiet
<1>4. ASSUME TruthInv, PutAway
      PROVE  TruthInv' /\ report' = NoBenchmark
  <2>1. report'.compared \subseteq Corpus
    BY <1>4 DEF PutAway, NoBenchmark
  <2>2. UNCHANGED <<file, edition, turn, command, recorded, overlapped>> /\ report' = NoBenchmark
    BY <1>4 DEF PutAway
  <2>3. TruthTypes'
    BY <1>4, <2>1, <2>2 DEF TruthInv, TruthTypes, Free
  <2>4. VoiceInv' /\ SoloInv'
    BY <1>4, <2>2 DEF TruthInv, VoiceInv, SoloInv, Free
  <2> QED
    BY <2>2, <2>3, <2>4 DEF TruthInv
<1>5. ASSUME TruthInv, TruthIsEarned, UNCHANGED truthVars
      PROVE  TruthInv' /\ TruthIsEarned'
  <2>1. UNCHANGED <<file, edition, turn, command, recorded, overlapped, report>>
    BY <1>5 DEF truthVars
  <2>2. TruthInv'
    BY <1>5, <2>1 DEF TruthInv, TruthTypes, VoiceInv, SoloInv, Free
  <2>3. OneVoiceEach' /\ (~overlapped' => file' = recorded' /\ HeardOnThisText')
    BY <1>5, <2>1 DEF TruthIsEarned, OneVoiceEach, HeardOnThisText
  <2>4. ReliableOnBothKinds' /\ FabricationShows'
    BY <1>5, <2>1 DEF TruthIsEarned, ReliableOnBothKinds, FabricationShows, ModesSaid
  <2> QED
    BY <2>2, <2>3, <2>4 DEF TruthIsEarned
<1> QED
  BY <1>1, <1>2, <1>3, <1>4, <1>5, BenchmarkIsEarned DEF GroundTruthNext

\* What the evaluator is measured against is what people said of the very text it
\* judged, no entry is lost while commands are run one after the other, no reviewer has
\* two voices, and neither reliability nor a good end is had without the dangerous
\* cases: for any corpus, reviewers, commands and trials.
THEOREM TruthIsAlwaysEarned == GroundTruthSpec => []TruthIsEarned
<1>1. GroundTruthInit => TruthInv /\ TruthIsEarned
  BY TruthStarts
<1>2. TruthInv /\ TruthIsEarned /\ [GroundTruthNext]_truthVars => (TruthInv /\ TruthIsEarned)'
  BY TruthStep
<1> QED
  BY <1>1, <1>2, PTL DEF GroundTruthSpec

\* The types of the benchmark's file and commands.
THEOREM TruthTypesHold == GroundTruthSpec => []GroundTruthTypeOK
<1>1. TruthInv => GroundTruthTypeOK
  BY DEF TruthInv, TruthTypes, GroundTruthTypeOK, CommandRecords, CommandStages
<1>2. GroundTruthInit => TruthInv /\ TruthIsEarned
  BY TruthStarts
<1>3. TruthInv /\ TruthIsEarned /\ [GroundTruthNext]_truthVars => (TruthInv /\ TruthIsEarned)'
  BY TruthStep
<1> QED
  BY <1>1, <1>2, <1>3, PTL DEF GroundTruthSpec
=============================================================================
