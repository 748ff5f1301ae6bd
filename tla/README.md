# A TLA+ model of lattice-sdk

lattice-sdk is the Go library that the Lattice server, its node agents and its
plugins share. Most of it is data types; what can go wrong lies in a few places
where goroutines, clocks, pipes and restarts meet. This directory models those
places, and the decoders, validators and canonical forms whose fast paths have
to decide as their slow ones do; it checks them with TLC on small instances and
proves the central properties with TLAPS for every value of the parameters.

## Inventory

| Part | State it keeps | Operations | What makes it correct |
|---|---|---|---|
| v2 worker (`plugin/runtime.go`) | invocation ids used, the session automaton, one diagnostics stream per invocation | `ServeV2`, `invocationStderr.Write`, `Expire`, `emitV2` | frames cross the pipe in the order the host's `V2Session.Accept` admits; nothing of an invocation follows its result |
| host-call client (`plugin/host.go`) | a lease per invocation (`expired`, `pending`) over one shared transport (`exchange`, `writeMu`, `nextID`, `poisoned`, the response stream) | `Call`, `Expire`, `Abort` | a call gets its own answer; one reader at a time; a cancelled call returns and the stream it left out of step is never used again |
| key-value calls (`plugin/host.go`) | the plugin's keys, kept by the host | `KVGetWithDigest`, `KVPutIfMatch`, `KVPut`, `KVDelete` | a conditional put replaces only what its caller read |
| beacon responder (`beacon/responder.go`) | the key table behind an atomic pointer, a state per source (nonces, allowance, last named reply), `lastAuth` | `Handle`, `SetTable`, `NewResponder` | no request is taken twice, no source exceeds its rate, refreshes reset nothing, dropped sources are dropped at once |
| nonce cache (`beacon/responder.go`) | an open-addressing hash table | `Seen`, `Insert`, `compact` | exactly the unexpired nonces are found, none is evicted, every probe ends |
| parallel loop (`model/parallel.go`) | a shared counter, the first panic | `eachIndex` | each index once; ends as a plain loop would |
| received catalogue pages (`model/line_catalogue.go`) | sizes of a page and its rows as they arrived | `ReadLineCataloguePage`, `Validate` | the bounds hold for the bytes received and for the encoding, without encoding again |
| stored records (`model/subscription_share.go`, `subscription_snapshot.go`) | one JSON object per record, read and written by several versions of the software | `UnmarshalJSON`, `MarshalJSON` | no version loses a field another wrote (members of the structs inside are lost to a version without them); what is written within the limits is read back as it was |
| task schedules (`plugin/task_schedule.go`) | none | `CronMinInterval`, `Validate` | no two runs closer than the minimum |
| strict JSON (`strictjson/`) | a pooled scanner: key slots per depth, collected members | `Valid`, `Fields`, `Elements`, `Compact`, `String` | admits nothing the token walk with `encoding/json` refuses, whatever documents the scanner read before |
| fast codecs (`plugin/frame_fast.go`, `model/subscription_methods.go`) | none | one-pass decodes, spliced encodings | the value or the refusal of the strict decode; the bytes of `json.Marshal` |
| selection plans (`model/selection_plan.go`) | none | `Validate`, `ValidateTrustingEncoding`, `EncodeSelectionPlan`, `DecodeSelectionPlan`, `ExcessClones`, `CountPlanPlaceholders` | trusting an encoding changes no verdict; what the decoder refuses of an encoded plan is known |
| catalogue rows and selectors (`model/line_catalogue.go`) | none | row checks, `LineCatalogueSelectorMatches`, `UnsupportedFields` | no credential in an accepted row; pushdown and local evaluation select the same lines |
| budgets and manifests (`plugin/budget.go`, `plugin/manifest.go`) | none | decode, encode, `ResolveInvokeBudget` | a signed document grants the same after it was read and written; resolution stays within the host |
| monitor rules, DNS checks, destinations (`model/paths.go`, `monitor_checks.go`, `monitor_dns.go`, `beacon/addr.go`) | none | canonical forms, refusals | rules, status sets, resolvers and DNS values have one stored form for one meaning, stored again as itself; an origin is that of one endpoint, though an endpoint has an origin for each form of its address and port; an address refused plainly is refused in every form |
| source manifests (`model/subscription_source_manifest.go`) | none | `Validate`, `Clone`, canonical encoding, decode | accepted exactly when each root has a simple path within the bounds; one encoding each |
| domain structs, traces, protocol contracts | none | data types | not modelled |

The parts meet in three ways. `ServeV2` and every `HostClient` lease share one
transport and its `writeMu`; the responder and its nonce caches share the
per-source state through two tables at once; the line catalogue decodes its
rows with `eachIndex`. The host process, the network, the wall clock and the
plugin's handlers are the environment.

What is hard here, and hard to test, is listed under `hazards` in
`PROJECT.json`, each at the line where it bites.

## Modules

### The v2 worker: `V2Stream`, `HostClient`, `V2Runtime`

`V2Stream` is the abstract specification: the automaton of `V2Session.Accept`
fed with every lifecycle frame in the order it crosses the pipe, and host calls
only while their own invocation is being handled.

`HostClient` models `Call`, one action per stretch no other goroutine can
observe: admission under `leaseMu` (`Admit`), the select on the exchange token
(`TakeExchange`, `GiveUpQueued`), id allocation with the second look at
`expired` (`AllocateID`), the write under `writeMu` (`WriteCall`,
`WriteCallFails`), the Scan goroutine (`StartScan`, `ScanFrame`, `ScanFails`),
the select on its result (`Finish`, or `AbortRevoke` then `AbortReading` and
`Drain`) and the deferred calls (`Release`, `Leave`). `Cancel` is a context that
ends at any moment. The host answers calls in any order, may repeat an answer
and may close the stream. A response is reduced to what correlates it (id,
invocation, ok); `Correlated` stands for all checks on its fields. A client
without a usable transport refuses every call before admission and so has no
step. A stream that ends and a frame over the limit both end `Scan` with an
error and are one case (`rx = "eof"`). `Close` on the response stream is assumed
to make a blocked `Scan` return, which is what `os.File.Close` on a pipe does.

`V2Runtime` adds `ServeV2`, its loop and exits, the two `Expire` calls and the
diagnostics writers. `ServeV2` feeds its own session with the three terminal
kinds before it emits any of them, so that session is always "ready" when the
next invoke is read and its `Accept` calls have no failing branch.

### The beacon responder: `BeaconResponder`, `NonceCache`, `NonceSet`

`BeaconResponder` splits `Handle` where a refresh can interleave: `Load` reads
the table pointer, one of the `Handle...` actions does the rest. `SetTable` is
`BuildTable` (under `setMu`) and `StoreTable`. Source states are objects in a
heap, because an old and a new table share them. The wall clock may be stepped
back and the agent may restart. The properties speak of one *stay* of a source:
the time it is in the table without a gap and without the clock being stepped
back; a new stay begins with a fresh state in the code as well.

In `BeaconResponder` a nonce cache is a function from nonces to expiry times.
`NonceCache` is the real table (seeded hash, linear probing, load factor,
compaction in place or into a new array, the `fullUntil` short cut) and
implements `NonceSet`, a bounded set of unexpired nonces. `now - sent` cannot
overflow where it is computed: a stamp before the responder's start was refused
by the first disjunct of the test.

### The parallel loop: `EachIndex`

Workers claim blocks from the atomic counter; `FnPanics`, `KeepPanic` and
`StopClaiming` are the three steps of the recovering defer, between which other
workers run. `runtime.Goexit` inside `fn` is not modelled.

### Key-value calls: `KVStore`

A value is a set of entries, and every process writes back what it read with its
own entry added. `Get` begins `KVGet` or `KVGetWithDigest`, `GotMissing`,
`GotPlain` and `Got` are their returns; `PutIfMatch`, `Put` and `Delete` are the
writes, which the host applies or refuses later (`HostWrites`, `HostRefuses`),
and `CallFails` is a lost answer or a cancelled call, after which a put may still
be applied. The history variable `kept` holds the entries written and not
overwritten by an unguarded write since, `fresh` the clients whose key was not
written since they read it. The digest is a value in a one-element sequence:
SHA-256 is taken to tell values apart.

### Received catalogue pages: `CataloguePage`

`ReadRow` sizes a row, in any order because `eachIndex` calls it; `Begin`,
`ValidateRow` and `ValidatePage` are `validatePage` with the closures of
`ReceivedLineCataloguePage.Validate`, or of `LineCatalogueResponse.Validate` on a
page without sizes. `Response` is the reference: every row encoded.
`rowReencodesWithinGrowth` is the bit `plain` of a row: a row that has it encodes
to at most `Growth` bytes more than it came with (`PageAssumption`), as the test
of that constant holds it.

### Stored records: `ShareRecord`, `SnapshotRecord`

`ShareRecord` runs binaries of several versions over one share: `UnmarshalShare`,
`Encoded` (omitempty) and `MarshalShare` are the code, the loads, edits, saves and
restarts are the core's. A field has members, because a newer version also adds
members to `ShareSource` and `ShareIcon`: `Extra` keeps the fields a binary does
not know, but nothing keeps the members of a struct it does know, as the comment
on `ShareSource` says. The history variable `dropped` holds the members whose
field was rewritten by a binary without them, and `LostOnlyNested` says that
these, and no other values, are gone from the record. The core writes the records
it reads, so names that differ only in case do not occur here.

`SnapshotRecord` decodes every document of both schemas, migrates, and lets the
core refresh, fail, rewrite and crash. `Admits` has the two size checks of
`UnmarshalJSON`; `json.Marshal` has none, so a record can be written that is not
read again, and `ReadBack` says that this happens exactly when the raw or the
document is over its limit. A member may be in a document under its tagged name
(`as`), under other capitals (`other`), or both; the decode takes the last one,
while presence is asked of the tagged name. A schema 2 document with its
provenance under other capitals alone is therefore accepted with provenance
nobody checked: the history variable `checked` is false of it until the next
good fetch, and `ReadBack` and the provenance part of `Truthful` speak of the
others.

### Task schedules: `CronSchedule`

`Validate` parses an expression and computes the interval; `Tick` runs the
schedule minute by minute. The clock is the server's and is not stepped: a jump
of local time can bring two runs closer than any interval computed from the
expression.

### Strict JSON: `StrictJSON`, `TokenWalk`, `Unquote`

`TokenWalk` is the specification: the walk of a document with `json.Decoder`
that refuses a key its object has had. It may give up at any token, because the
callers of `strictjson` run the slow walk on what the scanner refuses.
`StrictJSON` is the scanner, one action per token; its document is chosen as it
is read. `slots` are the arrays behind the key slices: an object that is closed
resets the length of its slice (`used`) and leaves the keys, the pool clears them
between documents (`Cleared`), and any entry point may take the scanner next
(`Again`).
A token is its kind, its spelling and its meaning, so that two spellings of one
key, and numbers that overflow a float64, occur. What `Fields` and `Elements`
should answer is read off the document by itself: the values between the
separators of the top-level value (`TopValues`). `Unquote` is the decoding of a
string literal over units that cover every branch of it.

### Values without state: `Validation`, `PureInputs` and `MCValidation`

The remaining modules are operators. `Validation` asks them questions: a state is
a question and at most one answer, a step answers. `Inputs` are the families of
inputs asked about, and `InputAssumption` says what an input of each kind may be:
sequences of any length, numbers of any size. `MCValidation` takes the families
from `PureInputs`; each holds the values on both sides of each test of its module
and combines those that one decision looks at together. `Checks` is the shape of
a validator in Go: checks in their order, the first that fails is the error.

* `PlainDecode`: the one-pass decodes of invoke frames, host responses, call
  payloads, plans and convert requests beside the strict decode. Members come in
  any order and spelling, repeated, unknown, null or of the wrong form.
* `SelectionPlan`, `SplicedEncoding`: validation with and without the pass over
  each node; the clones beyond the limit; placeholders; the convert request and
  the `invoke_result` frame with raw values spliced in. An encoding is the
  sequence of its parts and their lengths. A plan has the length of the document
  it came in and that of its own encoding, and a step what it adds to the chain
  before and after `json.Marshal`, which escapes `<`, `>` and `&` and drops white
  space: a plan that `EncodeSelectionPlan` accepts is refused by
  `DecodeSelectionPlan` for a chain the escapes took over the limit, or for a key
  repeated in a step's arguments, and for nothing else (`PlanAnswered`).
* `LineSelector`, `CatalogueRow`: a core that evaluates any part of a selector;
  the checks of a row in their order and the walk through `Extra`, on bytes
  rather than on the decoded value. A JSON value is the sequence of its nodes, each
  with the place of the one around it. The order of a Go map is the order in which
  the entries of `Extra` are given, and all orders are given.
* `InvokeBudget`: budgets, and the two JSON forms of an interface contract.
* `MonitorRules`, `DNSCheck`, `Destinations`: the stored form of degraded rules
  and status sets, of resolvers, origins and DNS values; the refused ranges.
  A number of a rule counts tenths of its last decimal place, so that rounding
  is rounding to a multiple of ten. `MonitorOrigin` puts scheme and host in lower
  case and writes the port, and that is all: another form of an IPv6 address and a
  port with zeros before it give other origins, and the text of an origin with a
  zone does not parse. `OneOrigin` says so. A URL for clients is compared with the
  policy for checks, a list of ranges of its own: what `publicAddress` lets
  through and a check is refused lies in the ranges `OnlyChecksRefuse` names
  (0.0.0.0/8, 240.0.0.0/4, the relay anycast range, translated, 6to4 and Teredo
  addresses and their like). `numericAddressName` looks at the last label after an
  ASCII dot; full-width digits and ideographic dots, which a browser maps to
  ASCII, pass it as a name (`last = "wide"`), and `DestinationsRefused` does not
  speak of them.
* `SourceManifest`: the walk from root to terminal over every small manifest.

Operators whose comment starts with "Mutant" are plausible bugs of the
definition that follows them; `PROJECT.json` names the property each one breaks.

## Runs

| Run | Bounds | Shows |
|---|---|---|
| `v2_safety` | 2 invocations, 2 callers, 1 diagnostics writer, ids up to 2, 1 repeated answer, 1 chunk | all safety properties of the worker and the refinement of `V2Stream`. Two invocations let a goroutine outlive its invocation; two callers queue behind one another; ids run out |
| `v2_liveness` | 1 invocation, 2 callers | a cancelled call returns though the host never answers; with an answering host, both `Expire` calls come back |
| `responder` | 1 source, cache of 1, window 1, interval 2. With 2 nonces: clock up to 3, 1 step back. With 1 nonce: a source that returns, up to 2 states per life and restart together, clock up to 2, 1 restart | safety of `Handle` beside refreshes. The clock passes the window, the nonce's expiry and the reply interval; a source leaves the table and returns, and the agent restarts, in the middle of `Handle` and of a refresh |
| `restart_replay`, `full_cache_replay`, `authenticated_verdict` | as small as the counterexample | three comments of `responder.go` that the code does not keep (see Findings) |
| `nonce_cache` | 4 nonces, cache of 3, 2 to 8 slots, hashes 0, 1 and 7 | the table against `NonceSet`. Hashes collide, wrap around and change their slot when the table grows |
| `each_index` | n up to 6, blocks of 2, 3 workers, threshold 4 | all properties of `eachIndex`, the last block cut short included |
| `kv_store` | 2 processes, one with bytes that are no text | the compare-and-swap end to end, with an upgrade of the host, lost answers and calls left pending. A second writer is all it takes to lose an update |
| `records` | shares: 3 versions, 4 fields, two of them structs that get a member one version later, 1 value beside zero; snapshots: 2 manifests, 4 bodies on both sides of the raw limit of 2, one sealed and one whose escapes fill the document, document limit 6, every document; schedules: a day of 3 hours of 4 minutes, minimum 3, 2 days and one more; pages: up to 2 rows (and 3, one too many), row bound 5, growth 1, page bound 13 | upgrades, rollbacks and edits of a share in any order; decode, migration, refreshes and crashes of a snapshot; the interval against the runs, through two midnights; the verdict on every page with lengths on both sides of every bound |
| `strict_json` | documents of up to 10 tokens, depth 2, map from the third key on | the scanner against the token walk, past the depth limit and past the switch from list to map, each document after another |
| `validation` | limits of 1 to 8 in place of the code's (`MCValidation.cfg`), and inputs on both sides of each | 19 kinds of question about values without state, some 350,000 inputs (707,188 states) |

`MCRecords` holds four modules that share nothing; its variable `part` says which
of them takes steps, so that the state space is the sum of the four and not
their product. `MCBeaconResponder` does the same with two sets of bounds: the
variable `nonces` is the set in use, and a step may not leave the bounds that go
with it.

The limits of the code (64 keys before the map, nesting of 512, sizes in mebibytes) are constants
of the models with small values: each is only compared with a count, so what
matters is that counts below, at and above it occur.

Sources are not permuted in the responder runs because there is only one: the
states of different sources share nothing but `lastAuth`.

### Fairness

`FairSpec` of the worker gives weak fairness to `ServeV2`, to every admitted
diagnostics write and to every step of a call in progress: goroutines that can
run do run. Handlers, contexts and the host get none, so `CancelUnblocks` holds
against a silent host. `InvocationEnds` is stated for a host that answers each
call (`HostIsFair`, an antecedent of the property): without one, `Expire` waits
for ever unless the call is cancelled, which is what the code does. In
`EachIndex` every worker keeps running and every call of `fn` ends. Weak fairness
of the steps that write a frame also assumes that a write to the pipe returns: a
host that no longer reads its end blocks the writer, which holds `writeMu`, and
neither liveness property is about that host.

## Findings

* `NewResponder` says that a request captured before a restart cannot be
  replayed. It can if it was stamped ahead of the responder's clock
  (`restart_replay`).
* `LastAuthenticated` says that a captured request replayed later cannot keep it
  fresh. It can while the nonce cache is full, because the store precedes the
  insert (`full_cache_replay`).
* `Verdict.Authenticated` says that it is what "last authenticated request seen"
  counts. Stale, retired and replayed requests are authenticated and not counted
  (`authenticated_verdict`).

## Proofs

All proofs are for arbitrary constants that satisfy the named assumptions
(`HostAssumption`, `RuntimeAssumption`, `ResponderAssumption`,
`CacheAssumption`, `WorkersAssumption`, `KVAssumption`, `ShareAssumption`,
`SnapshotAssumption`, `LengthAssumption`, `ScheduleAssumption`, `PageAssumption`,
`StrictAssumption`, `BudgetAssumption`, `RuleAssumption`, `InputAssumption`,
`ValidationAssumption`). They give constants
their types and say what the code fixes: that a table of `SlotsMax` slots, a power
of two times `SlotsMin`, holds a full cache at six tenths; that a field of a cron
expression admits something; that a short number fits a float64. Every safety
property and refinement of the passing runs is a theorem. The type invariants of
the worker, the responder, the nonce cache and the key-value calls are theorems
and are not repeated in the runs.

`V2RuntimeProofs`. The properties are not inductive: that no late frame is
written needs to know that whoever holds or may still take `writeMu` is counted
in the `pending` set of its invocation, and that this set was empty when the
result was emitted. The invariant says, in named parts: which callers are
inside a call and where its resources are (`ActiveInv`, `ExchangeInv`), which
invocation is current (`CurInv`), which leases can still have callers
(`LeaseInv`), what the frames already written imply about their invocation
(`ResultInv`), how ids, positions and answers relate (`IDInv`, `AnswerInv`) and
what an abandoned call leaves behind (`AbandonInv`). From it follow type
correctness, `NoLateFrames`, `SingleReader`, `OwnAnswer`, `CallIDsIncrease`,
`AbandonedNeverCompletes`, the action property `NoCallAfterAbandoned` and the
refinement of `V2Stream`.

`BeaconResponderProofs`. `TakenOnce` rests on: a table in use and the tables
being built point to existing states, and a source keeps its state for the
length of a stay (`TableInv`, `StayInv`); every request taken in a stay is still
held, in the state of that stay, until it is no longer fresh (`CacheInv`). What is
said of the history of a stay needs more (`HistoryInv`): the last named reply is
the one the state remembers (`NamedInv`, for `NamedSpacing`); the allowance that
is left and the answers since any moment are paid for by the initial allowance
and the time that passed, so the answers between any two moments are too
(`RateInv`, for `RateBound`); and a table that is in use holds the epochs of the
last refresh, so that a request loaded after it is answered with these alone and
at most the one in `Handle` during the refresh is not (`LateInv`, for
`DroppedAtOnce`).

`NonceCacheProofs`. A table finds a nonce if all slots of its probe before its
own are occupied. The invariant says that this holds of every nonce in the table,
that none is there twice, that at most six tenths of the slots are occupied, so
that every probe ends (`TableInv`), and that `CacheSize` nonces last until
`fullUntil` (`FullInv`). Insertion keeps the probes of the others; `compact` is a
loop over the old slots, here a recursive function, and what it builds is shown
by induction on the slots done: a table of the unexpired nonces, each with its
expiry. From this follow `TableSound` and the refinement of `NonceSet`.

`EachIndexProofs`. Blocks in progress are disjoint and below the counter, what
is above the counter was never called, and as long as nothing panicked
everything below it was called or is in a block.

`KVStoreProofs`. A conditional put that is pending carries the digest of the
value its caller read (`Based`), so a put the host applies contains all that was
stored; what a client holds whose key was not written since still matches
(`Current`), so its put is not refused.

`RecordProofs`. Shares: that only nested members are lost needs to know what a
loaded share holds: of the members its version knows the value that still stands
unless it was edited, of all other fields the standing values in `Extra`
(`LoadedShare`). Snapshots: the store holds what is in service, the schema number
aside, `failing` is what the document says of its last refresh, and provenance
that was checked is paired (`StoredSnapshot`, `LoadedSnapshot`). The step that
writes rests on `RoundTrip`: what `json.Marshal` makes of a snapshot decodes to
it, and passes the checks of its provenance when that is paired; what remains of
`Admits` are the two limits.
Schedules: for hours and days of any length, two minutes that are due are at
least the computed interval apart, whatever midnights lie between (`Apart`), and
when every day is selected two runs with none between them are exactly that far
apart (`IntervalSeen`); so no accepted schedule runs too often and none is
refused for a gap it does not have (`IntervalExact`). Pages: what `validatePage` has
added up after k rows is at least the encoded size of these rows, and equal to it
as long as every row was measured (`WalkInv`); so the verdict on the bytes
received is the verdict on the encoding, for any rows and bounds
(`PageVerdict`).

`StrictJSONProofs`. The keys noted at a depth point into the document being read,
a scanner at rest has none, and the places of the scan go with their depths
(`ScanInv`). Then the names held at a depth, in the slice or in the map, are the
keys the walk has seen there, so each token the scanner passes is a step of
`TokenWalk` (`WalkImplemented`) and each one it refuses is refused for cause
(`RefusedForCause`), for any depth, any number of keys compared one by one and
any documents before. That `Fields` and `Elements` answer the members there are
(`MembersExact`) needs a second invariant, `MemberInv`: the depth is the level
the brackets of the document add up to, and what has been collected at each
place is the values up to the last separator, with the one just ended, if any,
spanning what is solid since (`Between`, `Keyed`, `Valued`, `Within`, `Done`).
One lemma for each kind of token says how a document that grows by it passes
from one of these to the next.

`ValidationProofs`. The state machine adds little: an answer is the operator
applied to its question (`AnswersHold`). What there is to prove is about the
operators, for every input `InputAssumption` admits and every limit.

Most of them recur, as recursive functions over an interval or as folds. The
prover cannot instantiate the induction theorems of the library for this, so the
module starts with its own, stated for sets: a set of numbers without a least
element is empty (from the well-foundedness of `<`), so a set that is closed
upwards or downwards contains an interval (`IntervalUp`, `IntervalDown`), and a
function whose value at an index is computed from those at lower, or at higher,
indices exists (`RecursionUp`, `RecursionDown`). Each recursion is then handled
the same way: the function exists, is the one the operator chooses, and its
values follow along the interval.

* Destinations: an address is refused with the one inside it, in every form; an
  address `publicAddress` lets through is one a check may use or lies in a range
  only checks refuse; what an endpoint dials is what was judged
  (`RefusesByWhatIsReached`).
* Budgets and contracts: a clamped budget is within the maxima, and the default
  that fills a zero is clamped too, whatever defaults the caller brings
  (`ResolvesWithinHost`); a budget that decodes reads back as itself and, if it is
  valid, resolves to its own numbers (`BudgetsMeanWhatTheySay`); a contract of any
  length grants the same after it was written and read (`ManifestsReadBack`).
* Canonical forms: rounding lands on a multiple of ten and crosses none, and
  bounds and defaults are multiples of ten; so the stored rule is valid, is stored
  again as itself and is in force as it was written
  (`StoredRulesKeepTheirMeaning`). Factors of at least one keep a path at its own
  baseline from being degraded (`BaselineNeverDegraded`). The sorted status ranges
  are a permutation in order, merging keeps the codes named so far and leaves
  ranges that do not touch, and such a list sorts and merges to itself
  (`StatusSetsKeepTheirCodes`). With resolvers, origins and DNS values this is
  `CanonicalFormsKeep`.
* Encodings: a raw value that passes for canonical is what `json.Marshal` makes of
  it, so that parts and lengths agree (`SplicingIsEncoding`).
* Plans: of a list of checks only the first that fails counts, and the checks that
  trusting an encoding leaves out cannot fail on one; an encoded plan differs from
  the plan in its lengths alone, so that of all checks only the total of the chain
  can come out otherwise (`PlanSent`); excess clones and placeholders are counted
  by cardinality (`PlansAnsweredRight`).
* Selectors: filtering twice is filtering by the conjunction, and listing lines
  commutes with filtering (`ListedKept`), so any division of a selector selects
  the same lines in the same order (`PushdownIsSelection`).
* Source manifests: the walk along a path has visited exactly its lines and fails
  at the first one met twice (`AlongRun`); over the roots, the visits add up
  (`WalkRun`). So validation is the promise, and a copy keeps it
  (`PathsAreSimple`).
* Catalogue rows: where no key is repeated every node is the last of its key, so
  the screen sees all that the bytes carry, at any depth; and no other check has
  the screen's error (`NoCredentialPasses`).
* Decoders: where the one pass answers, keys are exact and distinct, so each member
  is stored into a field that is still zero; the struct after any number of
  members is known in closed form, for the outer struct and the ones in it. A
  string literal is followed from its end: what `String` makes of the rest is what
  `json.Unmarshal` makes of it, the second half of a surrogate pair aside, where
  `String` never stands (`DecodersAgree`).

Only model-checked: the liveness properties (`CancelUnblocks`, `InvocationEnds`,
`Terminates`), which the prover does not take. The runs that expect a violation
have nothing to prove.

## Not modelled

* Byte layouts, HMAC and key derivation of the beacon: `Handle` is modelled from
  the authenticated request on.
* The v1 `Serve` loop: it reads a request, runs the handler and writes the
  response, and nothing lives from one request to the next.
* Traces, connection records, domain structs, agent mirrors and the `.proto`
  files: data types and predicates on one value.
* Validators of single fields (`FetchReply`, `SubscriptionFlow`, `RenderReply`,
  `ConvertReply`, `ShareIcon`, most of `Manifest`) and the decode of
  `LineCatalogueRequest`: lengths and character classes. Inside the modelled
  validators such a check is one bit.
* The wrappers over `Call` that only encode and decode.
* A list member spelled twice in `PlainDecode`: `encoding/json` then decodes into
  the elements that are already there.
* In a URL handed to clients a 6to4 address counts as the global unicast address
  it is; only checks look at the IPv4 address inside it. What a client makes of a
  host written in other than ASCII digits and dots is not modelled.
* Text that is not valid UTF-8, which `json.Marshal` replaces, in plans, source
  manifests and rows; the byte limit of a source manifest; `operator_target_fields`
  of a contract's methods.
* `plugin/json.go`: `decodeStrict` and `rawJSON` are `encoding/json` with a check
  or a copy, part of the decodes that call them.

## State of the work

Modelled, checked and, where the prover reaches, proved: everything in the table
of modules above. Left: a rotation with two epochs in the responder run (its
state space has to shrink first), and in `PlainDecode` documents that nest deeper
than the structs they are decoded into: a value inside a raw or an unknown member
is one leaf.
