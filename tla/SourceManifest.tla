--------------------------- MODULE SourceManifest ---------------------------
(***************************************************************************)
(* Source manifests (model/subscription_source_manifest.go): the document  *)
(* that says which lines a subscription was rendered from.  It lists roots *)
(* and, for each, the path of relays to its terminal.                      *)
(*                                                                         *)
(* A list that is nil in memory and null in JSON is Nil; every other list  *)
(* is [nil |-> FALSE, of |-> sequence].  A field check that looks at one   *)
(* value is a bit.  A document is a manifest and whether its bytes are     *)
(* spelled as json.Marshal spells them.  Text is valid UTF-8, so that it   *)
(* is the same once it was encoded and decoded, and documents are within   *)
(* MaxSubscriptionSourceManifestBytes, which is left out.                  *)
(***************************************************************************)
EXTENDS Integers, Sequences

CONSTANTS
  MaxRoots,   \* MaxSubscriptionSourceRoots
  MaxVisits   \* MaxSubscriptionSourceVisits

NoLine == ""

List(s) == [nil |-> FALSE, of |-> s]
Nil == [nil |-> TRUE, of |-> <<>>]

Distinct(s) == \A i, j \in DOMAIN s : i # j => s[i] # s[j]

\* validateSubscriptionEndpoint: texts, host, key and short id are one bit.
EndpointOK(e) == e.valid /\ Distinct(e.alpn.of) /\ \A i \in DOMAIN e.alpn.of : e.alpn.of[i] \in {"h2", "http/1.1"}

\* One edge of a path: walk is [ok, visits, visited, current].
Follow(walk, edge) ==
  [ok |-> walk.ok /\ walk.visits + 1 <= MaxVisits /\ edge.source = walk.current /\ edge.valid /\ edge.target \notin walk.visited,
   visits |-> walk.visits + 1, visited |-> walk.visited \cup {edge.target}, current |-> edge.target]

\* Mutant of Start: lines visited for an earlier root count as visited.
StartShared(walk, root) ==
  [ok |-> walk.ok /\ walk.visits + 1 <= MaxVisits, visits |-> walk.visits + 1, visited |-> walk.visited \cup {root}, current |-> root]

\* A root begins a walk of its own; the visits go on counting.
Start(walk, root) ==
  [ok |-> walk.ok /\ walk.visits + 1 <= MaxVisits, visits |-> walk.visits + 1, visited |-> {root}, current |-> root]

\* One root with its entry.
Entry(walk, root, entry, earlier) ==
  LET bound == /\ root # "bad" /\ root \notin earlier
               /\ entry.root = root /\ entry.endpoint.line = root /\ ~entry.endpoint.alpn.nil /\ ~entry.path.nil
               /\ EndpointOK(entry.endpoint)
      Along[i \in 0..Len(entry.path.of)] == IF i = 0 THEN Start(walk, root) ELSE Follow(Along[i - 1], entry.path.of[i])
      walked == Along[Len(entry.path.of)]
  IN [walked EXCEPT !.ok = @ /\ bound /\ entry.terminal.line = walked.current /\ entry.terminal.valid]

\* SubscriptionSourceManifestV1.Validate.
Validates(m) ==
  LET n == Len(m.roots.of)
      Walk[i \in 0..n] ==
        IF i = 0 THEN [ok |-> TRUE, visits |-> 0, visited |-> {}, current |-> NoLine]
        ELSE Entry(Walk[i - 1], m.roots.of[i], m.entries.of[i], {m.roots.of[j] : j \in 1..(i - 1)})
  IN /\ m.header /\ ~m.roots.nil /\ ~m.entries.nil
     /\ n \in 1..MaxRoots /\ n = Len(m.entries.of)
     /\ Walk[n].ok

-----------------------------------------------------------------------------
\* SubscriptionSourceManifestV1.Clone: no list is nil.
CloneEntry(e) ==
  [root |-> e.root, endpoint |-> [line |-> e.endpoint.line, valid |-> e.endpoint.valid, alpn |-> List(e.endpoint.alpn.of)],
   path |-> List(e.path.of), terminal |-> e.terminal]

Clone(m) ==
  [header |-> m.header, roots |-> List(m.roots.of), entries |-> List([i \in DOMAIN m.entries.of |-> CloneEntry(m.entries.of[i])])]

\* CanonicalSubscriptionSourceManifest, without the byte limit.
Canonical(m) == IF Validates(Clone(m)) THEN <<[manifest |-> Clone(m), spelled |-> TRUE]>> ELSE <<>>

\* DecodeSubscriptionSourceManifest: the bytes must be the canonical ones.
Decode(doc) == IF Canonical(doc.manifest) = <<doc>> THEN <<Clone(doc.manifest)>> ELSE <<>>

-----------------------------------------------------------------------------
\* The lines on the way from a root.
Lines(entry) == <<entry.root>> \o [i \in DOMAIN entry.path.of |-> entry.path.of[i].target]

\* A path that leads from its root over converged edges, no line twice, to its
\* terminal.
SimplePath(root, entry) ==
  LET lines == Lines(entry)
  IN /\ entry.root = root /\ entry.endpoint.line = root /\ EndpointOK(entry.endpoint)
     /\ Distinct(lines)
     /\ \A i \in DOMAIN entry.path.of : entry.path.of[i].source = lines[i] /\ entry.path.of[i].valid
     /\ entry.terminal.line = lines[Len(lines)] /\ entry.terminal.valid

\* What a manifest promises: distinct roots, each with a simple path, all of
\* them within the bounds.
Promised(m) ==
  LET Visits[i \in 0..Len(m.entries.of)] == IF i = 0 THEN 0 ELSE Visits[i - 1] + Len(Lines(m.entries.of[i]))
  IN
  /\ m.header /\ m.roots.of # <<>> /\ Len(m.roots.of) = Len(m.entries.of) /\ Len(m.roots.of) <= MaxRoots
  /\ Distinct(m.roots.of)
  /\ \A i \in DOMAIN m.roots.of : m.roots.of[i] # "bad" /\ SimplePath(m.roots.of[i], m.entries.of[i])
  /\ Visits[Len(m.entries.of)] <= MaxVisits
=============================================================================
