-------------------------------- MODULE Secrets --------------------------------
(***************************************************************************)
(* What the organizations entrust to the program (app/core/tenancy/        *)
(* service.py, app/shared/security): credentials of connectors and the     *)
(* secret of the single sign-on, sealed before they are stored.  A data    *)
(* key seals the text, and a key management service wraps the data key:    *)
(* a key of the process's own settings, or a vault, whose key is renewed   *)
(* and which may be out of reach.  Processes are replaced one by one when  *)
(* the settings change, so two settings are at work for a while.           *)
(***************************************************************************)
EXTENDS Naturals, FiniteSets

CONSTANTS
    Processes,    \* the API and the workers: each builds its key management service once
    Orgs,         \* organizations: each has at most one single sign-on
    Projects,
    OwnerOf,      \* [Projects -> Orgs]
    Connectors,   \* rows of connector_configs
    Registrations,\* requests that bring a secret
    LocalKeys,    \* values of connector_secret_master_key
    NoSecret,
    MaxVersions,  \* bound on the versions of the vault's key
    MaxDeploys    \* bound on changes of the settings

ASSUME SecretConstants ==
    /\ OwnerOf \in [Projects -> Orgs]
    /\ Connectors \cap Orgs = {} /\ Orgs \cap Projects = {}
    /\ MaxVersions \in Nat \ {0} /\ MaxDeploys \in Nat
    /\ NoSecret \notin Connectors \cup Orgs \cup Processes
    /\ "refused" \notin Registrations

VARIABLES
    deployed,  \* the settings a process reads when it starts
    providers, \* [Processes -> what get_kms built there, or NotBuilt]
    vault,     \* the key vault: within reach or not, and the version of its key
    secrets,   \* [Connectors \cup Orgs -> the envelope stored there]
    rows,      \* [Connectors -> organization, project, and whether it has a checkpoint]
    seals,     \* [Registrations -> what the request is doing]
    opened,    \* the last envelope that was opened, and what came out
    deploys

secretVars == <<deployed, providers, vault, secrets, rows, seals, opened, deploys>>

Holders == Connectors \cup Orgs

\* Settings, and the services made of them: "vault" has no key in the process.
Vault == [provider |-> "azure"]
Local(key) == [provider |-> "local", key |-> key]
Services == {Vault} \cup {Local(key) : key \in LocalKeys}
NotBuilt == [provider |-> "none"]

\* An envelope: the text is known by the request that brought it.  version is
\* key_version: Unversioned in the envelopes of old (v = 1); wrapped is what
\* wrapped the data key in truth.
Unversioned == 0
LocalVersion == MaxVersions + 1
Wrapping == Services \X (1..MaxVersions)
Envelope(text, version, wrapped) == [text |-> text, version |-> version, wrapped |-> wrapped]
Plaintexts == Registrations \cup {"old"}
Envelopes ==
    [text: Plaintexts, version: 0..LocalVersion, wrapped: Wrapping]
ASSUME NoSecretIsNone == NoSecret \notin Envelopes

NoRow == [organization |-> NoSecret, scope |-> NoSecret, cursor |-> FALSE]
RowsOf(o) ==
    [organization: {o}, scope: {o} \cup {p \in Projects : OwnerOf[p] = o}, cursor: BOOLEAN]

NoSeal == [stage |-> "idle", place |-> NoSecret, row |-> NoRow, process |-> NoSecret,
           envelope |-> NoSecret]
NothingOpened == [place |-> NoSecret, process |-> NoSecret, got |-> "nothing"]

\* A connector may be there from the time of the first envelopes.
SecretInit ==
    /\ deployed \in Services
    /\ providers = [p \in Processes |-> NotBuilt]
    /\ vault = [reachable |-> TRUE, version |-> 1]
    /\ \E old \in SUBSET Connectors, key \in LocalKeys, o \in Orgs :
         /\ Cardinality(old) <= 1
         /\ secrets = [s \in Holders |->
              IF s \in old THEN Envelope("old", Unversioned, <<Local(key), 1>>) ELSE NoSecret]
         /\ rows = [c \in Connectors |->
              IF c \in old THEN [organization |-> o, scope |-> o, cursor |-> FALSE] ELSE NoRow]
    /\ seals = [r \in Registrations |-> NoSeal]
    /\ opened = NothingOpened
    /\ deploys = 0

-----------------------------------------------------------------------------
\* get_kms: made of the settings at its first use in a process, and kept.
Kms(p) == IF providers[p] = NotBuilt THEN deployed ELSE providers[p]
Built(p) == [providers EXCEPT ![p] = Kms(p)]

Unreachable(service) == service = Vault /\ ~vault.reachable

\* With a plausible mistake: the vault's answer is not asked for its version.
Wrapped_First(service) == IF service = Vault THEN 1 ELSE LocalVersion

\* generate_data_key: the version that wrapped, for the vault to find it again.
Wrapped(service) == IF service = Vault THEN vault.version ELSE LocalVersion

\* encrypt_secret: a data key of its own for every secret.
Sealed(r, service) ==
    Envelope(r, Wrapped(service), <<service, IF service = Vault THEN vault.version ELSE 1>>)

\* decrypt_data_key: the vault unwraps with the version that is named, or refuses
\* what has none of its own; the local key does not look at it.
Unwraps(service, e) ==
    IF service = Vault THEN e.version \in 1..vault.version /\ e.wrapped = <<Vault, e.version>>
    ELSE e.wrapped = <<service, 1>>

\* decrypt_secret: a version that is not one of the vault's keys is refused at once.
Open(service, e) ==
    CASE service = Vault /\ e.version \notin 1..MaxVersions -> "refused"
      [] Unreachable(service) -> "unreachable"
      [] OTHER -> IF Unwraps(service, e) THEN e.text ELSE "refused"

-----------------------------------------------------------------------------
(* register_connector and configure_sso.                                   *)

\* The project is one of the organization; the actor manages it, or all of them.
BeginRegistration(r, p, c, row) ==
    /\ seals[r] = NoSeal /\ rows[c] = NoRow
    /\ \A q \in Registrations : seals[q].place # c
    /\ seals' = [seals EXCEPT ![r] = [stage |-> "seal", place |-> c, row |-> row,
                                      process |-> p, envelope |-> NoSecret]]
    /\ UNCHANGED <<deployed, providers, vault, secrets, rows, opened, deploys>>

\* One that exists is not replaced.
BeginSso(r, p, o) ==
    /\ seals[r] = NoSeal
    /\ seals' = [seals EXCEPT ![r] =
         IF secrets[o] # NoSecret THEN [NoSeal EXCEPT !.stage = "failed"]
         ELSE [stage |-> "seal", place |-> o, row |-> NoRow, process |-> p, envelope |-> NoSecret]]
    /\ UNCHANGED <<deployed, providers, vault, secrets, rows, opened, deploys>>

\* The vault is asked, or does not answer: 503, and nothing is stored.
Seal(r) ==
    LET p == seals[r].process IN
    /\ seals[r].stage = "seal"
    /\ providers' = Built(p)
    /\ seals' = [seals EXCEPT ![r] =
         IF Unreachable(Kms(p)) THEN [NoSeal EXCEPT !.stage = "failed"]
         ELSE [seals[r] EXCEPT !.stage = "store", !.envelope = Sealed(r, Kms(p))]]
    /\ UNCHANGED <<deployed, vault, secrets, rows, opened, deploys>>

\* The row and its commit: the second of two single sign-ons fails on the unique key.
Store(r) ==
    LET place == seals[r].place IN
    /\ seals[r].stage = "store"
    /\ IF secrets[place] # NoSecret
       THEN /\ seals' = [seals EXCEPT ![r] = [NoSeal EXCEPT !.stage = "failed"]]
            /\ UNCHANGED <<secrets, rows>>
       ELSE /\ seals' = [seals EXCEPT ![r] = [NoSeal EXCEPT !.stage = "done"]]
            /\ secrets' = [secrets EXCEPT ![place] = seals[r].envelope]
            /\ rows' = IF place \in Connectors
                       THEN [rows EXCEPT ![place] = seals[r].row] ELSE rows
    /\ UNCHANGED <<deployed, providers, vault, opened, deploys>>

\* checkpoint_connector_sync: the position goes into the row's config.
Checkpoint(c) ==
    /\ rows[c] # NoRow
    /\ rows' = [rows EXCEPT ![c].cursor = TRUE]
    /\ UNCHANGED <<deployed, providers, vault, secrets, seals, opened, deploys>>

-----------------------------------------------------------------------------
\* A sync opens the credential, a login the secret, for the source or the provider.
UseSecret(p, place) ==
    /\ secrets[place] # NoSecret
    /\ providers' = Built(p)
    /\ opened' = [place |-> place, process |-> p, got |-> Open(Kms(p), secrets[place])]
    /\ UNCHANGED <<deployed, vault, secrets, rows, seals, deploys>>

\* New settings; the processes that run keep what they have.
Deploy(service) ==
    /\ deploys < MaxDeploys /\ service # deployed
    /\ deployed' = service /\ deploys' = deploys + 1
    /\ UNCHANGED <<providers, vault, secrets, rows, seals, opened>>

\* A process ends and starts again: its requests are lost.
Restart(p) ==
    /\ providers[p] # NotBuilt
    /\ providers' = [providers EXCEPT ![p] = NotBuilt]
    /\ seals' = [r \in Registrations |->
         IF seals[r].process = p THEN [NoSeal EXCEPT !.stage = "failed"] ELSE seals[r]]
    /\ opened' = NothingOpened
    /\ UNCHANGED <<deployed, vault, secrets, rows, deploys>>

\* The vault is lost and found, and renews its key: the versions of old stay usable.
VaultChanges ==
    /\ \/ vault' = [vault EXCEPT !.reachable = ~@]
       \/ vault.version < MaxVersions /\ vault' = [vault EXCEPT !.version = @ + 1]
    /\ opened' = NothingOpened
    /\ UNCHANGED <<deployed, providers, secrets, rows, seals, deploys>>

SecretNext ==
    \/ \E r \in Registrations :
         \/ \E p \in Processes, c \in Connectors, o \in Orgs :
              \/ \E row \in RowsOf(o) : ~row.cursor /\ BeginRegistration(r, p, c, row)
              \/ BeginSso(r, p, o)
         \/ Seal(r) \/ Store(r)
    \/ \E c \in Connectors : Checkpoint(c)
    \/ \E p \in Processes, place \in Holders : UseSecret(p, place)
    \/ \E service \in Services : Deploy(service)
    \/ \E p \in Processes : Restart(p)
    \/ VaultChanges

SecretSpec == SecretInit /\ [][SecretNext]_secretVars
-----------------------------------------------------------------------------
SecretTypeOK ==
    /\ deployed \in Services /\ providers \in [Processes -> Services \cup {NotBuilt}]
    /\ vault \in [reachable: BOOLEAN, version: 1..MaxVersions]
    /\ secrets \in [Holders -> Envelopes \cup {NoSecret}]
    /\ rows \in [Connectors -> (UNION {RowsOf(o) : o \in Orgs}) \cup {NoRow}]
    /\ \A r \in Registrations : seals[r].stage \in {"idle", "seal", "store", "done", "failed"}
    /\ opened.place \in Holders \cup {NoSecret}

(***************************************************************************)
(* "Old ciphertext must remain decryptable" (decrypt_data_key), and a loud *)
(* failure is better than garbage (decrypt_secret): whoever opens an       *)
(* envelope gets the text that was sealed in it or is refused, and is      *)
(* refused only if another service sealed it than his own; whatever was    *)
(* renewed, restarted or out of reach since.  What is stored is whole: a   *)
(* row of a connector has its secret.                                      *)
(***************************************************************************)
SecretsOpen ==
    /\ \A c \in Connectors : rows[c] # NoRow <=> secrets[c] # NoSecret
    /\ \A place \in Holders, p \in Processes :
         secrets[place] # NoSecret /\ providers[p] # NotBuilt =>
            LET e == secrets[place] IN
            /\ Open(providers[p], e) \in {e.text, "refused", "unreachable"}
            /\ providers[p] = e.wrapped[1] /\ ~Unreachable(providers[p]) =>
                 Open(providers[p], e) = e.text
    /\ opened.got = "refused" => providers[opened.process] # secrets[opened.place].wrapped[1]
=============================================================================
