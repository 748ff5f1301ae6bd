------------------------------ MODULE KVStore ------------------------------
(***************************************************************************)
(* The key-value calls of plugin/host.go: KVGet, KVPut, KVGetWithDigest,   *)
(* KVPutIfMatch and KVDelete, made by several plugin processes on one key. *)
(*                                                                         *)
(* A stored value is a set of entries: every client reads the value and    *)
(* writes it back with its own entry added, which is what a plugin keeping *)
(* a list under one key does.  The entries of Binary are bytes a JSON      *)
(* string cannot carry: a host that answers with "value" instead of        *)
(* "value_base64" sends Junk in their place.  The digest of a value is the *)
(* value in a one-element sequence, so that digests tell values apart and  *)
(* the digest of the empty value is not NoDigest.                          *)
(*                                                                         *)
(* The host is external: it answers in its own time, it may be older than  *)
(* the compare-and-swap and be upgraded, and its answer may be lost, with  *)
(* the call still pending or already applied.                              *)
(***************************************************************************)
EXTENDS Naturals, FiniteSets

CONSTANTS Clients,       \* plugin processes, each with an entry of its own
          Binary,        \* the entries that are not valid UTF-8
          Junk,          \* what a JSON string shows of such an entry
          Absent,        \* the key does not exist
          Unconditional, \* a kv.put without the if_match field
          Malformed      \* an if_match that is no lowercase hex SHA-256

Entries == Clients \cup {Junk}

Values == SUBSET Entries

NoDigest == <<>>

\* KVValueDigest, the lowercase hex SHA-256 of the value's bytes.
Digest(v) == <<v>>

Digests == {NoDigest} \cup {Digest(v) : v \in Values}

ASSUME KVAssumption == /\ Binary \subseteq Clients
                       /\ Junk \notin Clients
                       /\ \A v \in Values : Absent # v
                       /\ Unconditional \notin Digests
                       /\ Malformed \notin Digests \cup {Unconditional}

VARIABLES stored,    \* the host's value of the key, or Absent
          cas,       \* the host reports digests and compares if_match
          phase,     \* phase[c]: where client c is
          read,      \* read[c]: the value c's last read returned
          match,     \* match[c]: the digest c holds, then the if_match it sends
          careful,   \* the clients whose last put is a KVPutIfMatch
          outcome,   \* outcome[c]: what the last call of c returned
          kept,      \* history: entries written with no unguarded write since
          fresh      \* history: clients that read a digest and saw no write since

kvVars == <<stored, cas, phase, read, match, careful, outcome, kept, fresh>>

Phases == {"idle", "get", "get_digest", "holding", "put", "refused", "answered", "left", "gone"}

Outcomes == {"none", "ok", "conflict", "error"}

Init == /\ stored \in {Absent, {}}
        /\ cas \in BOOLEAN
        /\ phase = [c \in Clients |-> "idle"]
        /\ read = [c \in Clients |-> {}]
        /\ match = [c \in Clients |-> NoDigest]
        /\ careful = {}
        /\ outcome = [c \in Clients |-> "none"]
        /\ kept = {}
        /\ fresh = {}

Goto(c, p) == phase' = [phase EXCEPT ![c] = p]

Return(c, o) == outcome' = [outcome EXCEPT ![c] = o]

----------------------------------------------------------------------------
(* Reads: KVGet and KVGetWithDigest.                                       *)

Get(c) == /\ phase[c] = "idle"
          /\ \E p \in {"get", "get_digest"} : Goto(c, p)
          /\ Return(c, "none")
          /\ UNCHANGED <<stored, cas, read, match, careful, kept, fresh>>

Reading(c) == phase[c] \in {"get", "get_digest"}

Hold(c, value, digest) == /\ Goto(c, "holding")
                          /\ read' = [read EXCEPT ![c] = value]
                          /\ match' = [match EXCEPT ![c] = digest]
                          /\ Return(c, "ok")

\* Mutant: a missing key leaves what an earlier read returned.
GotMissingStale(c) == /\ Reading(c)
                      /\ stored = Absent
                      /\ Goto(c, "holding")
                      /\ Return(c, "ok")
                      /\ fresh' = IF cas THEN fresh \cup {c} ELSE fresh \ {c}
                      /\ UNCHANGED <<stored, cas, read, match, careful, kept>>

\* A missing key: found is false and the digest empty.
GotMissing(c) == /\ Reading(c)
                 /\ stored = Absent
                 /\ Hold(c, {}, NoDigest)
                 /\ fresh' = IF cas THEN fresh \cup {c} ELSE fresh \ {c}
                 /\ UNCHANGED <<stored, cas, careful, kept>>

\* What the host sends: value_base64, or value, which a JSON string garbles.
AsText(v) == IF v \cap Binary = {} THEN v ELSE (v \ Binary) \cup {Junk}

Reported(v) == IF cas THEN Digest(v) ELSE NoDigest

\* A reported digest must be that of the value sent.
Trusted(sent, digest) == digest # NoDigest => digest = Digest(sent)

\* KVGet reads no digest; its caller has KVValueDigest for the value it got.
GotPlain(c) == /\ phase[c] = "get"
               /\ stored # Absent
               /\ \E sent \in {stored, AsText(stored)} : Hold(c, sent, Digest(sent))
               /\ fresh' = fresh \ {c}
               /\ UNCHANGED <<stored, cas, careful, kept>>

Got(c) == /\ phase[c] = "get_digest"
          /\ stored # Absent
          /\ \E sent \in {stored, AsText(stored)} :
                \/ /\ Trusted(sent, Reported(stored))
                   /\ Hold(c, sent, Reported(stored))
                   /\ fresh' = IF cas THEN fresh \cup {c} ELSE fresh \ {c}
                \/ /\ ~Trusted(sent, Reported(stored))
                   /\ Goto(c, "idle")
                   /\ Return(c, "error")
                   /\ UNCHANGED <<read, match, fresh>>
          /\ UNCHANGED <<stored, cas, careful, kept>>

----------------------------------------------------------------------------
(* Writes: KVPut, KVPutIfMatch and KVDelete.                               *)

ValidKVDigest(digest) == digest \in {Digest(v) : v \in Values}

\* Mutant: an empty if_match is left out of the payload.
IfMatchOmitEmpty(digest) == IF digest = NoDigest THEN Unconditional ELSE digest

\* KVPutIfMatch's payload carries if_match, the empty one included.
IfMatch(digest) == digest

PutIfMatch(c) ==
    /\ phase[c] = "holding"
    /\ \E digest \in {match[c], Malformed} :
          \/ /\ digest # NoDigest => ValidKVDigest(digest)
             /\ Goto(c, "put")
             /\ Return(c, "none")
             /\ match' = [match EXCEPT ![c] = IfMatch(digest)]
             /\ careful' = careful \cup {c}
          \/ /\ digest # NoDigest /\ ~ValidKVDigest(digest)
             /\ Goto(c, "idle")
             /\ Return(c, "error")
             /\ UNCHANGED <<match, careful>>
    /\ UNCHANGED <<stored, cas, read, kept, fresh>>

Put(c) == /\ phase[c] = "holding"
          /\ Goto(c, "put")
          /\ Return(c, "none")
          /\ match' = [match EXCEPT ![c] = Unconditional]
          /\ careful' = careful \ {c}
          /\ UNCHANGED <<stored, cas, read, kept, fresh>>

\* A call that was sent is at the host until it answers, its client there or not.
Pending(c) == phase[c] \in {"put", "left"}

Guarded(c) == cas /\ match[c] # Unconditional

Matches(m) == IF m = NoDigest THEN stored = Absent ELSE stored # Absent /\ m = Digest(stored)

Served(c, p) == Goto(c, IF phase[c] = "left" THEN "gone" ELSE p)

\* A host older than the compare-and-swap ignores if_match and writes.
HostWrites(c) == /\ Pending(c)
                 /\ Guarded(c) => Matches(match[c])
                 /\ stored' = read[c] \cup {c}
                 /\ kept' = (IF cas /\ c \in careful THEN kept ELSE {}) \cup {c}
                 /\ fresh' = {}
                 /\ Served(c, "answered")
                 /\ UNCHANGED <<cas, read, match, careful, outcome>>

HostRefuses(c) == /\ Pending(c)
                  /\ Guarded(c) /\ ~Matches(match[c])
                  /\ Served(c, "refused")
                  /\ UNCHANGED <<stored, cas, read, match, careful, outcome, kept, fresh>>

PutReturns(c) == /\ phase[c] = "answered"
                 /\ Goto(c, "idle")
                 /\ Return(c, "ok")
                 /\ UNCHANGED <<stored, cas, read, match, careful, kept, fresh>>

\* The host's message starts with kv_conflict: KVPutIfMatch returns ErrKVConflict.
Conflict(c) == /\ phase[c] = "refused"
               /\ Goto(c, "idle")
               /\ Return(c, "conflict")
               /\ UNCHANGED <<stored, cas, read, match, careful, kept, fresh>>

\* KVDelete, of a missing key too.
Delete(c) == /\ phase[c] = "idle"
             /\ stored' = Absent
             /\ Return(c, "ok")
             /\ kept' = {}
             /\ fresh' = {}
             /\ UNCHANGED <<cas, phase, read, match, careful>>

\* Call fails: the answer is lost, or the context ends with the call pending.
CallFails(c) == /\ phase[c] \in {"get", "get_digest", "put", "refused", "answered"}
                /\ Goto(c, IF phase[c] = "put" THEN "left" ELSE "gone")
                /\ Return(c, "error")
                /\ UNCHANGED <<stored, cas, read, match, careful, kept, fresh>>

\* The host process is replaced by one with the compare-and-swap.
HostUpgrades == /\ ~cas
                /\ cas' = TRUE
                /\ UNCHANGED <<stored, phase, read, match, careful, outcome, kept, fresh>>

Next == \/ HostUpgrades
        \/ \E c \in Clients :
              \/ Get(c) \/ GotMissing(c) \/ GotPlain(c) \/ Got(c)
              \/ PutIfMatch(c) \/ Put(c) \/ Delete(c)
              \/ HostWrites(c) \/ HostRefuses(c) \/ PutReturns(c) \/ Conflict(c)
              \/ CallFails(c)

Spec == Init /\ [][Next]_kvVars

----------------------------------------------------------------------------
(* Properties.                                                             *)

\* The type invariant of the store, its host and its clients.
TypeOK == /\ stored = Absent \/ stored \in Values
          /\ cas \in BOOLEAN
          /\ phase \in [Clients -> Phases]
          /\ read \in [Clients -> Values]
          /\ match \in [Clients -> Digests \cup {Unconditional}]
          /\ careful \subseteq Clients
          /\ outcome \in [Clients -> Outcomes]
          /\ kept \subseteq Clients
          /\ fresh \subseteq Clients

\* An entry that was written stays in the value until a KVDelete, a KVPut or a
\* host that ignores if_match overwrites it: concurrent read-modify-writes
\* through KVPutIfMatch lose no update, whatever was read, garbled or lost.
NoLostUpdate == kept # {} => stored # Absent /\ kept \subseteq stored

\* KVPutIfMatch is refused only when the value was written since it was read:
\* a client that read through a digest-reporting host and saw no write since
\* is not told of a conflict.
NoSpuriousConflict == \A c \in fresh : phase[c] # "refused"

=============================================================================
