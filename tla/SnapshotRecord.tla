--------------------------- MODULE SnapshotRecord ---------------------------
(***************************************************************************)
(* A durable SubscriptionSnapshot (model/subscription_snapshot.go): its    *)
(* strict decode, the in-memory migration from schema 1 to schema 2, and   *)
(* the record's life in the core, which refreshes it, rewrites it and may  *)
(* crash before the rewrite.                                               *)
(*                                                                         *)
(* A stored document is its length and the members the decode looks at,    *)
(* each Missing or a value; "" is the empty string.  encoding/json stores  *)
(* a member under any capitals of its name, while the checks ask for the   *)
(* name as it is tagged: as holds the values under the tagged names, other *)
(* those under another spelling, and otherLast says which come last and    *)
(* so are decoded.  A body (raw) is [bytes, escaped, sealed]: its length,  *)
(* its length in an encoding, and whether it begins with "lat$".           *)
(*                                                                         *)
(* A source manifest is named by a model value and its source version is   *)
(* the manifest in a one-element sequence, so that versions tell manifests *)
(* apart; Damaged stays so when it is written.  The store, the refreshes   *)
(* and the crash are the core's: external.                                 *)
(***************************************************************************)
EXTENDS Naturals, Sequences

CONSTANTS
  Manifests,        \* valid source manifests
  Damaged,          \* source_manifest bytes that do not decode
  Missing,          \* the member is not in the document
  Bodies,           \* provider responses (raw)
  DocumentLengths,  \* the lengths of the documents found in the store
  EnvelopeBytes,    \* the members every document is written with, without raw
  MemberBytes(_),   \* what a member that may be left out adds, by its value
  MaxRaw,           \* MaxSubscriptionRawBytes
  MaxDocument       \* MaxSubscriptionSnapshotBytes

Current == 2

\* SubscriptionSourceVersion.
VersionOf(m) == <<m>>

NoVersion == <<>>

SourceVersions == {NoVersion} \cup {VersionOf(m) : m \in Manifests}
SourceManifests == {Missing, Damaged} \cup Manifests

\* The members presence is asked of.
Spellings == [version : {Missing} \cup SourceVersions, manifest : SourceManifests, stale : {Missing, TRUE, FALSE}]
Unspelled == [version |-> Missing, manifest |-> Missing, stale |-> Missing]

\* A raw is no longer than the document it is in.
Documents ==
  {d \in [schema : {1, 2, 3}, raw : Bodies, bytes : DocumentLengths, as : Spellings, other : Spellings, otherLast : BOOLEAN,
          fetchError : {Missing, "refused"}] : d.raw.bytes < d.bytes}

Snapshots ==
  [raw : Bodies, sourceVersion : SourceVersions, sourceManifest : SourceManifests,
   stale : BOOLEAN, fetchError : {Missing, "refused"}, persisted : {1, 2}]

Nothing == Missing

\* Missing and Damaged stand for no other value.
ASSUME SnapshotAssumption ==
  /\ Missing \notin Manifests /\ Damaged \notin Manifests /\ Missing # Damaged
  /\ Missing \notin BOOLEAN /\ Missing # "refused" /\ Missing # NoVersion
  /\ Missing \notin Snapshots /\ \A m \in Manifests : Missing # VersionOf(m)

ASSUME LengthAssumption ==
  /\ Bodies \subseteq [bytes : Nat, escaped : Nat, sealed : BOOLEAN]
  /\ MaxRaw \in Nat /\ MaxDocument \in Nat /\ EnvelopeBytes \in Nat \ {0} /\ DocumentLengths \subseteq Nat
  /\ \A v \in SourceVersions : MemberBytes(v) \in Nat
  /\ \A m \in SourceManifests : MemberBytes(m) \in Nat
  /\ MemberBytes("refused") \in Nat

VARIABLES
  stored,   \* the document in the store
  loaded,   \* the decoded snapshot, or Nothing
  written,  \* history: the document was written by this code
  checked,  \* history: its provenance was checked, or comes from a good fetch
  origin,   \* history: <<body, manifest>> of the last good fetch
  failing   \* history: the last refresh saved had failed

vars == <<stored, loaded, written, checked, origin, failing>>

-----------------------------------------------------------------------------
\* encoding/json: the last spelling of a member is the one that is decoded.
LastOf(d, one, two) == IF two = Missing THEN one ELSE IF one = Missing \/ d.otherLast THEN two ELSE one
DecodedVersion(d) == LET v == LastOf(d, d.as.version, d.other.version) IN IF v = Missing THEN NoVersion ELSE v
DecodedManifest(d) == LastOf(d, d.as.manifest, d.other.manifest)

\* UnmarshalJSON, schema 1: a v2-only member is refused, provenance under any
\* spelling.
AdmitsV1(d) == d.as = Unspelled /\ DecodedManifest(d) = Missing /\ DecodedVersion(d) = NoVersion

\* Schema 2: provenance named as tagged is paired, decodes, and names its own
\* version.
AdmitsV2(d) ==
  /\ d.as.version = Missing <=> d.as.manifest = Missing
  /\ d.as.version # Missing => DecodedManifest(d) \in Manifests /\ DecodedVersion(d) = VersionOf(DecodedManifest(d))

\* The two bounds come first.
Admits(d) ==
  /\ d.bytes \in 1..MaxDocument
  /\ d.raw.bytes > MaxRaw => d.raw.sealed
  /\ (d.schema = 1 /\ AdmitsV1(d)) \/ (d.schema = Current /\ AdmitsV2(d))

\* Mutant of DecodedStale: a migrated record is taken for current.
DecodedStaleV2(d) == LastOf(d, d.as.stale, d.other.stale) = TRUE

\* Schema 1 has no stale member: a failed last attempt says so.
DecodedStale(d) == IF d.schema = 1 THEN d.fetchError # Missing ELSE LastOf(d, d.as.stale, d.other.stale) = TRUE

Unmarshal(d) ==
  [raw |-> d.raw, sourceVersion |-> DecodedVersion(d), sourceManifest |-> DecodedManifest(d),
   stale |-> DecodedStale(d), fetchError |-> d.fetchError, persisted |-> d.schema]

NeedsRewrite(s) == s.persisted # Current

\* json.Marshal bounds nothing.
MarshalBytes(s) ==
  LET Optional(x, none) == IF x = none THEN 0 ELSE MemberBytes(x)
  IN EnvelopeBytes + s.raw.escaped + Optional(s.sourceVersion, NoVersion) + Optional(s.sourceManifest, Missing)
     + Optional(s.fetchError, Missing)

\* The struct's tags: provenance and fetch_error have omitempty, stale has not.
MarshalAs(s, schema) ==
  [schema |-> schema, raw |-> s.raw, bytes |-> MarshalBytes(s),
   as |-> [version |-> IF s.sourceVersion = NoVersion THEN Missing ELSE s.sourceVersion,
           manifest |-> s.sourceManifest, stale |-> s.stale],
   other |-> Unspelled, otherLast |-> FALSE, fetchError |-> s.fetchError]

\* Mutant of Marshal: the schema number of the document is kept.
MarshalPersisted(s) == MarshalAs(s, s.persisted)

\* The decoded SchemaVersion is Current.
Marshal(s) == MarshalAs(s, Current)

-----------------------------------------------------------------------------
\* A schema 1 record, a schema 2 record, or one that was damaged.
Init ==
  /\ stored \in Documents
  /\ loaded = Nothing
  /\ written = FALSE
  /\ checked = FALSE
  /\ origin = <<stored.raw, DecodedManifest(stored)>>
  /\ failing = (stored.fetchError # Missing)

-----------------------------------------------------------------------------
(***************************************************************************)
(* The core's use of the record.                                           *)
(***************************************************************************)
\* Provenance under another spelling alone is decoded and not checked.
Load ==
  /\ loaded = Nothing /\ Admits(stored)
  /\ loaded' = Unmarshal(stored)
  /\ checked' = \/ stored.schema = 1 \/ stored.as.version # Missing
                \/ stored.other.version = Missing /\ stored.other.manifest = Missing
  /\ UNCHANGED <<stored, written, origin, failing>>

Save(s) ==
  /\ stored' = Marshal(s)
  /\ written' = TRUE

\* Staged rewriting of a schema 1 record; the store reads it back.
Rewrite ==
  /\ loaded # Nothing /\ NeedsRewrite(loaded)
  /\ Save(loaded)
  /\ loaded' = Nothing
  /\ UNCHANGED <<checked, origin, failing>>

Refreshed(s, body, m) ==
  [s EXCEPT !.raw = body, !.stale = FALSE, !.fetchError = Missing,
            !.sourceManifest = m,
            !.sourceVersion = IF m = Missing THEN NoVersion ELSE VersionOf(m)]

\* A good fetch, with provenance or without.
Refresh(body, m) ==
  /\ loaded # Nothing
  /\ loaded' = Refreshed(loaded, body, m)
  /\ Save(loaded')
  /\ checked' = TRUE
  /\ origin' = <<body, m>>
  /\ failing' = FALSE

\* A failed fetch keeps the last good content in service, marked stale.
RefreshFails ==
  /\ loaded # Nothing
  /\ loaded' = [loaded EXCEPT !.stale = TRUE, !.fetchError = "refused"]
  /\ Save(loaded')
  /\ UNCHANGED <<checked, origin>>
  /\ failing' = TRUE

\* The process ends; what is stored stays.
Crash ==
  /\ loaded # Nothing
  /\ loaded' = Nothing
  /\ UNCHANGED <<stored, written, checked, origin, failing>>

Next ==
  \/ Load \/ Rewrite \/ RefreshFails \/ Crash
  \/ \E body \in Bodies, m \in Manifests \cup {Missing} : Refresh(body, m)

Spec == Init /\ [][Next]_vars

-----------------------------------------------------------------------------
\* The raw and the document within the bounds, whatever the schema.
Fits(d) == (d.raw.bytes <= MaxRaw \/ d.raw.sealed) /\ d.bytes <= MaxDocument

(***************************************************************************)
(* What this code writes it reads back, as it was, exactly when it is      *)
(* within the bounds and its provenance was checked when it was read or    *)
(* came with a good fetch: size alone makes a migrated, refreshed or       *)
(* failed record unreadable, which would leave a subscription dark         *)
(* (UnmarshalJSON refuses v1 records with v2 members and unpaired          *)
(* provenance; MarshalJSON bounds nothing).                                *)
(***************************************************************************)
ReadBack ==
  written /\ checked =>
    /\ Admits(stored) <=> Fits(stored)
    /\ ~NeedsRewrite(Unmarshal(stored))
    /\ loaded # Nothing => [Unmarshal(stored) EXCEPT !.persisted = loaded.persisted] = loaded

(***************************************************************************)
(* Content in service names the manifest it was fetched with, by the       *)
(* version of that manifest, through migration, failed refreshes and       *)
(* crashes, however the other members are spelled, unless the document had *)
(* its provenance under another spelling only: UnmarshalJSON looks for     *)
(* provenance to check by the tagged names.                                *)
(***************************************************************************)
ProvenanceHolds ==
  loaded # Nothing /\ checked =>
    /\ loaded.sourceManifest = Missing \/ loaded.sourceManifest \in Manifests
    /\ origin = <<loaded.raw, loaded.sourceManifest>>
    /\ loaded.sourceVersion =
         IF loaded.sourceManifest = Missing THEN NoVersion ELSE VersionOf(loaded.sourceManifest)

(***************************************************************************)
(* Preserved content whose last refresh failed is served as stale, also    *)
(* after the migration of a record that has no stale member, or has one    *)
(* under another spelling, and after a crash before its rewrite            *)
(* (UnmarshalJSON, schema 1).                                              *)
(***************************************************************************)
StaleTruthful == loaded # Nothing /\ (written \/ loaded.persisted = 1) => loaded.stale = failing

\* A snapshot in service says truly what it was fetched with and whether it is
\* stale, through migrations, failed refreshes and crashes (UnmarshalJSON).
Truthful == ProvenanceHolds /\ StaleTruthful
=============================================================================
