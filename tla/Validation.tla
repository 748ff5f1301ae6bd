----------------------------- MODULE Validation -----------------------------
(***************************************************************************)
(* The decoders, validators and canonical forms that keep no state.  A     *)
(* question is a kind and an input, an answer what the code makes of it;   *)
(* the properties compare the answers with what each function stands for.  *)
(***************************************************************************)
EXTENDS InvokeBudget, MonitorRules

CONSTANTS
  MaxNodes, MaxClones, MaxFailures, MaxSteps, MaxChain, MaxPlan, MaxConvert,  \* SplicedEncoding
  MaxLines, MaxValues, MaxDays, MaxHours,                                     \* LineSelector
  MaxRowBytes, MaxExtra, MaxParams,                                           \* CatalogueRow
  MaxRoots, MaxVisits                                                         \* SourceManifest

CONSTANTS
  Inputs(_),    \* the families of inputs asked about, by kind
  OwnDefaults,  \* the budgets a host may have set instead of its own defaults
  MethodNames,  \* the methods a server looks up in a contract
  Bodies,       \* what makes a placeholder after its prefix
  Bases         \* the baselines of a path

VARIABLES
  question,  \* [kind, of]
  answer     \* at most one

Plain == INSTANCE PlainDecode
Literal == INSTANCE Unquote
Enc == INSTANCE SplicedEncoding
Lines == INSTANCE LineSelector
Row == INSTANCE CatalogueRow
DNS == INSTANCE DNSCheck
Dest == INSTANCE Destinations
Source == INSTANCE SourceManifest

-----------------------------------------------------------------------------
(***************************************************************************)
(* What an input of each kind may be.                                      *)
(***************************************************************************)
AtMostOne(S) == {s \in Seq(S) : Len(s) <= 1}

AnyMember(values) == [key : STRING, exact : BOOLEAN, val : values]
AnyValue(ins) == [form : STRING, id : STRING, in : ins]
AnyLeaf == AnyValue({<<>>})
AnyObject == [form : {"object"}, id : STRING, in : Seq(AnyMember(AnyLeaf))]
AnyListed == [form : {"list"}, id : STRING, in : Seq(AnyLeaf \cup AnyObject)]
AnyDocument ==
  [shape : STRING, members : Seq(AnyMember(AnyLeaf \cup AnyObject \cup AnyListed)), trailing : BOOLEAN, deep : BOOLEAN]

AnyJSON == [open : BOOLEAN, json : BOOLEAN, repeats : BOOLEAN]
AnyHolder == [at : STRING, line : STRING, field : STRING, whole : BOOLEAN]
AnyPlanNode == [node : AnyJSON, provider : BOOLEAN, line : STRING, placeholders : SUBSET AnyHolder]
AnyStep == [source : BOOLEAN, name : BOOLEAN, arguments : SUBSET AnyJSON, bytes : Nat, encoded : Nat]
AnyPlan ==
  [kind : STRING, document : BOOLEAN, nodes : Seq(AnyPlanNode), selection : AtMostOne([version : BOOLEAN, lines : Seq(STRING)]),
   policy : AtMostOne([failures : Int, bytes : Int]), chain : Seq(AnyStep), deep : BOOLEAN, bytes : Nat, encoded : Nat \ {0}]

AnyRaw == [open : BOOLEAN, json : BOOLEAN, repeats : BOOLEAN, spaced : BOOLEAN, escapes : BOOLEAN, bytes : Nat]
AnyConvert ==
  [uris : BOOLEAN, raw : BOOLEAN, target : BOOLEAN, nodes : Seq(AnyRaw),
   document : AtMostOne([content : BOOLEAN, substitutions : SUBSET [placeholder : BOOLEAN, credential : BOOLEAN]]),
   chain : Seq([source : BOOLEAN, name : BOOLEAN, arguments : SUBSET AnyJSON, bytes : Nat, slot : BOOLEAN])]
AnyResult ==
  [ok : BOOLEAN, plan : SUBSET STRING, message : SUBSET STRING, result : SUBSET AnyRaw, error : SUBSET STRING, warnings : SUBSET STRING]

AnyText == STRING \X {"lower", "upper"}
AnyPlaces == AtMostOne([countries : AnyText, regions : AnyText])
AnyRow ==
  [line : STRING, geo : AnyPlaces, exit : AnyPlaces, unresolved : BOOLEAN, protocols : AnyText, transports : AnyText,
   service_states : AnyText, chain_roles : AnyText, node_tags : SUBSET AnyText, group_ids : SUBSET AnyText,
   renewal : AtMostOne(Int), probe : AtMostOne([pass : BOOLEAN, at : Int])]
AnySelector ==
  [countries : SUBSET AnyText, regions : SUBSET AnyText, protocols : SUBSET AnyText, transports : SUBSET AnyText,
   service_states : SUBSET AnyText, node_tags : SUBSET AnyText, group_ids : SUBSET AnyText, chain_roles : SUBSET AnyText,
   line_uuids : Seq(STRING), renewal_within_days : AtMostOne(Int), probe_passed_within_hours : AtMostOne(Int)]
AnySelection == [rows : Seq(AnyRow), sel : AnySelector, advertised : SUBSET STRING, now : Int]

\* A template names its first failing check by a word of its own.
AnyNode == [up : Nat, key : Seq(STRING), form : {"text", "number", "list", "object"}, text : Seq(STRING)]
AnyTree == {v \in Seq(AnyNode) : \A i \in DOMAIN v : i > 1 => v[i].up \in 1..(i - 1)}
AnyCatalogueRow ==
  [bad : SUBSET STRING, chain : [role : STRING, path : STRING, downstream : STRING, service : STRING],
   probe : AtMostOne([verdict : STRING, failures : Int, coldP50 : Int, vantage : STRING]), usage : AtMostOne([id : BOOLEAN, bytes : Int]),
   template : AtMostOne([head : STRING \ {"screen"}, dropped : BOOLEAN,
                         params : Seq([reserved : BOOLEAN, kept : BOOLEAN, valid : BOOLEAN, text : Seq(STRING)])]),
   extra : Seq([key : Seq(STRING), lower : BOOLEAN, bytes : Nat, val : AnyTree]), encoded : Nat]

BudgetDoc(d) == DOMAIN d.given \subseteq Fields /\ d.given \in [DOMAIN d.given -> Int] /\ d.nulls \subseteq Fields /\ d.unknown \in BOOLEAN
AnyContract ==
  [methods : Seq(STRING), specs : Seq([name : STRING, effect : STRING, scopes : SUBSET STRING, budget : AtMostOne(Budgets)]),
   scopes : SUBSET STRING, typed : BOOLEAN, backing : STRING]

AnyRule == AtMostOne(Numbers)
AnyStatusList == Seq([lo : Int, hi : Int, range : BOOLEAN])

\* Only an IPv6 address has brackets, a zone or more than one form.
AnyHost ==
  [kind : {"name", "ip4", "bad"}, id : STRING, upper : BOOLEAN, form : {DNS!AsNetip}, dot : BOOLEAN, zone : {FALSE}, brackets : {FALSE}]
  \cup [kind : {"ip6"}, id : STRING, upper : BOOLEAN, form : STRING, dot : BOOLEAN, zone : BOOLEAN, brackets : BOOLEAN]
AnyTarget ==
  [scheme : STRING, upper : BOOLEAN, opaque : BOOLEAN, extras : BOOLEAN, host : AnyHost, port : Int, zeros : Nat, path : STRING]

\* A short form ends in a number, however it is written.
AnyURLHost ==
  [kind : {"literal", "name"}, addr : Dest!Addresses, dot : BOOLEAN, odd : BOOLEAN, local : BOOLEAN, last : {"digits", "hex", "letters", "wide"}]
  \cup [kind : {"short"}, addr : Dest!Addresses, dot : BOOLEAN, odd : BOOLEAN, local : BOOLEAN, last : {"digits", "hex", "wide"}]
AnyHeader ==
  [name : STRING, value : BOOLEAN, hours : Int, url : [short : BOOLEAN, https : BOOLEAN, user : BOOLEAN, host : AnyURLHost]]

AnyList(S) == {l \in [nil : BOOLEAN, of : Seq(S)] : l.nil => l.of = <<>>}
AnyEntry ==
  [root : STRING, endpoint : [line : STRING, valid : BOOLEAN, alpn : AnyList(STRING)],
   path : AnyList([source : STRING, target : STRING, valid : BOOLEAN]), terminal : [line : STRING, valid : BOOLEAN]]
AnyManifest == [header : BOOLEAN, roots : AnyList(STRING), entries : AnyList(AnyEntry)]

Kinds ==
  {"document", "literal", "plan", "clones", "text", "convert", "result", "select", "row", "characters", "budget", "contract",
   "rule", "status", "targets", "values", "address", "header", "manifest"}

AllIn(kind, set) == \A family \in Inputs(kind) : family \subseteq set

ASSUME InputAssumption ==
  /\ AllIn("document", AnyDocument)
  /\ AllIn("literal", Seq(Literal!Units))
  /\ AllIn("plan", AnyPlan)
  /\ AllIn("clones", Seq([line : STRING]))
  /\ AllIn("text", Seq(STRING))
  /\ AllIn("convert", AnyConvert)
  /\ AllIn("result", AnyResult)
  /\ AllIn("select", AnySelection)
  /\ AllIn("row", AnyCatalogueRow)
  /\ AllIn("characters", Seq(STRING))
  /\ \A family \in Inputs("budget") : \A d \in family : BudgetDoc(d)
  /\ AllIn("contract", AnyContract)
  /\ AllIn("rule", AnyRule)
  /\ AllIn("status", AnyStatusList)
  /\ AllIn("targets", [one : AnyTarget, two : AnyTarget])
  /\ AllIn("values", [typ : STRING, one : AnyHost, two : AnyHost])
  /\ AllIn("address", Dest!Addresses)
  /\ AllIn("header", AnyHeader)
  /\ AllIn("manifest", [manifest : AnyManifest, spelled : BOOLEAN])

ASSUME ValidationAssumption ==
  /\ MaxNodes \in Nat /\ MaxClones \in Nat /\ MaxRoots \in Nat /\ MaxVisits \in Nat
  /\ OwnDefaults \subseteq Budgets
  /\ Bodies \subseteq STRING \ {"prefix", "text"}
  /\ Bases \subseteq Nat

-----------------------------------------------------------------------------
Init == answer = <<>> /\ \E k \in Kinds : \E family \in Inputs(k) : \E x \in family : question = [kind |-> k, of |-> x]

Asked(kind) == question.kind = kind /\ answer = <<>>
Answer(value) == answer' = <<value>> /\ UNCHANGED question

Next ==
  LET q == question.of
  IN \/ Asked("document") /\ Answer(Plain!Decode(q))
     \/ Asked("literal") /\ Answer(Literal!String(q))
     \/ Asked("plan") /\ Answer([full |-> Enc!Validate(q, FALSE), trusting |-> Enc!ValidateTrustingEncoding(q),
                                decoded |-> Enc!DecodeSelectionPlan(q), sent |-> Enc!Sent(q)])
     \/ Asked("clones") /\ Answer(Enc!ExcessClones(q))
     \/ Asked("text") /\ Answer([body \in Bodies |-> Enc!CountPlanPlaceholders(q, body)])
     \/ Asked("convert") /\ Answer(Enc!EncodeConvertRequest(q))
     \/ Asked("result") /\ Answer(Enc!InvokeResult(q))
     \/ Asked("select") /\ Answer(Lines!Pushed(q.rows, q.sel, q.advertised, q.now))
     \/ Asked("row") /\ Answer([full |-> Row!RowError(q, 0), trusting |-> Row!RowError(q, q.encoded)])
     \/ Asked("characters") /\ Answer([key |-> Row!ContainsPrivateKey(q), control |-> Row!ContainsControl(q)])
     \/ Asked("budget") /\ Answer(Decode(q))
     \/ Asked("contract") /\ Answer(UnmarshalContract(MarshalContract(q)))
     \/ Asked("rule") /\ Answer(IF ValidateDegradedRule(q) THEN CanonicalDegradedRule(q) ELSE "refused")
     \/ Asked("status") /\ Answer(ParseMonitorStatusSet(q))
     \/ Asked("targets") /\ Answer(<<DNS!ParseDNSResolver(q.one), DNS!MonitorOrigin(q.one)>>)
     \/ Asked("values") /\ Answer(DNS!CanonicalDNSValue(q.typ, q.one))
     \/ Asked("address") /\ Answer(Dest!MonitorDestinationRefused(q))
     \/ Asked("header") /\ Answer([header |-> Dest!ResponseHeader(q, 1, 3), endpoint |-> Dest!ParseEndpoint(q.url.host, 1)])
     \/ Asked("manifest") /\ Answer(Source!Decode(q))

Spec == Init /\ [][Next]_<<question, answer>>

-----------------------------------------------------------------------------
Answered(kind) == question.kind = kind /\ answer # <<>>

(***************************************************************************)
(* The one-pass decoders answer what the strict decode of encoding/json    *)
(* answers: the same value or a refusal, for any spelling of the members,  *)
(* repeated, unknown, null and misplaced ones (decodeInvokeV2,             *)
(* HostClient.Call, CallPayload, DecodeSelectionPlan,                      *)
(* DecodeConvertRequest), and a string decodes to the same text            *)
(* (strictjson.String).                                                    *)
(***************************************************************************)
DecodedStrictly ==
  /\ Answered("document") => answer[1] = Plain!Strict(question.of)
  /\ Answered("literal") => answer[1] = Literal!Unmarshalled(question.of)

(***************************************************************************)
(* Validation that trusts an encoding says what the full validation says;  *)
(* a document decodes exactly when its size is within bounds, no raw value *)
(* in it repeats a key and the full validation accepts its plan; a plan    *)
(* that was encoded is refused by the decoder only for a repeated key in a *)
(* step's arguments or when json.Marshal's escapes took its chain over the *)
(* limit; the clones beyond the limit are those with MaxPlanClonesPerLine  *)
(* of their line before them; every placeholder of a document is counted   *)
(* once (ValidateTrustingEncoding, DecodeSelectionPlan,                    *)
(* EncodeSelectionPlan, ExcessClones, CountPlanPlaceholders).              *)
(***************************************************************************)
PlanAnswered ==
  LET q == question.of
      Unrepeated == \A r \in Enc!Raws(q) : ~r.repeats
      Adjacent(body) == {i \in 1..(Len(q) - 1) : q[i] = "prefix" /\ q[i + 1] = body}
  IN /\ Answered("plan") /\ Enc!Encodable(q) =>
          /\ answer[1].trusting = answer[1].full
          /\ answer[1].decoded = "" <=> q.bytes # 0 /\ ~(q.bytes > MaxPlan) /\ Unrepeated /\ answer[1].full = ""
          /\ \A i \in DOMAIN answer[1].sent : answer[1].sent[i] = "" <=> Unrepeated /\ Enc!ChainFits(Enc!ChainWritten(q.chain))
     /\ Answered("clones") =>
          answer[1] = {i \in DOMAIN q : q[i].line # "" /\ Cardinality({j \in 1..(i - 1) : q[j].line = q[i].line}) >= MaxClones}
     /\ Answered("text") => \A body \in Bodies : answer[1][body] = Cardinality(Adjacent(body))

(***************************************************************************)
(* Raw JSON spliced into an invoke_result frame or a convert request makes *)
(* the bytes json.Marshal makes, and a request is refused with the error   *)
(* and at the size it is refused with when it is encoded plainly           *)
(* (appendInvokeResultFrame, EncodeConvertRequest).                        *)
(***************************************************************************)
SplicedAsEncoded ==
  /\ Answered("convert") => answer[1] = Enc!Plainly(question.of)
  /\ Answered("result") => answer[1] = Enc!EncodedResult(question.of)

(***************************************************************************)
(* Whatever part of a valid selector the core advertises, the lines it     *)
(* pages and the plugin filters further are those of the whole selector,   *)
(* in its order, and no line whose exit is unknown is among those selected *)
(* for a country or region (UnsupportedFields,                             *)
(* LineCatalogueSelectorMatches).                                          *)
(***************************************************************************)
PushdownSelects ==
  LET q == question.of
  IN Answered("select") /\ Lines!Validates(q.sel) =>
       /\ answer[1] = Lines!Selected(q.rows, q.sel, q.now)
       /\ \A i \in DOMAIN answer[1] : ~Lines!ExitUnknown(answer[1][i], q.sel)

(***************************************************************************)
(* No row that is accepted carries a credential in the bytes of its Extra, *)
(* under a repeated key either; one is screened only when it does;         *)
(* trusting the row's own encoding changes nothing; and the two searches   *)
(* that stop at the first byte beyond ASCII miss nothing after it          *)
(* (validateLineCatalogueExtra, containsPrivateKey, containsControl).      *)
(***************************************************************************)
NothingHidden ==
  LET q == question.of
      carrying == \E i \in DOMAIN q.extra : Row!Carries(q.extra[i].key, q.extra[i].val)
  IN /\ Answered("row") =>
          /\ answer[1].full = "" => ~carrying
          /\ answer[1].full = "screen" => carrying
          /\ answer[1].trusting = answer[1].full
     /\ Answered("characters") =>
          /\ answer[1].key <=> Row!HasPart([i \in DOMAIN q |-> Row!ToUpper(q[i])], Row!Marker)
          /\ answer[1].control <=> \E i \in DOMAIN q : Row!Control(q[i])

(***************************************************************************)
(* A signed manifest grants after it was written and read what it granted  *)
(* before: scopes, effects, backing and budgets; a budget means what its   *)
(* document says, and resolves within the host's maxima whatever it says   *)
(* (InterfaceContract.MarshalJSON and UnmarshalJSON, InvokeBudgetSpec,     *)
(* ResolveInvokeBudget).                                                   *)
(***************************************************************************)
ManifestReadBack ==
  LET q == question.of
  IN /\ Answered("budget") => \A d \in OwnDefaults : MeansWhatItSays(q, d) /\ WithinHost(Resolve(answer[1], d))
     /\ Answered("contract") /\ (\A i \in DOMAIN q.specs : \A j \in DOMAIN q.specs[i].budget : Positive(q.specs[i].budget[j])) =>
          /\ answer[1] # <<>>
          /\ Grants(answer[1][1], MethodNames, Default) = Grants(q, MethodNames, Default)

(***************************************************************************)
(* A stored rule, status set, resolver or DNS value is in force as it was  *)
(* written, is stored again as itself, and has one form for all the        *)
(* spellings of one meaning; an origin stands for one endpoint, and for    *)
(* every spelling of it that keeps the form of its address and port; a     *)
(* path at its baseline is not degraded by any valid rule                  *)
(* (CanonicalDegradedRule, ParseMonitorStatusSet, ParseDNSResolver,        *)
(* MonitorOrigin, CanonicalDNSValue).                                      *)
(***************************************************************************)
CanonicalKept ==
  LET q == question.of
  IN /\ Answered("rule") => KeepsRule(q) /\ \A base \in Bases : BaselineHealthy(q, base)
     /\ Answered("status") => KeepsCodes(q)
     /\ Answered("targets") => DNS!OneText(q.one, q.two) /\ DNS!OneOrigin(q.one, q.two)
     /\ Answered("values") => DNS!OneValue(q.typ, q.one, q.two)

(***************************************************************************)
(* A check is refused an address exactly when it is refused the IPv4       *)
(* address that is reached through it; a URL for clients that spells an    *)
(* address in ASCII, in full, mapped or short, names no zone and none a    *)
(* check is refused but for the ranges publicAddress leaves to checks; a   *)
(* beacon endpoint is dialled as the address that was judged               *)
(* (MonitorDestinationRefused, validatePublicHTTPSURL, ParseEndpoint).     *)
(***************************************************************************)
DestinationsRefused ==
  LET q == question.of
  IN /\ Answered("address") => \A r \in Dest!Reaches(q) : answer[1] <=> Dest!MonitorDestinationRefused(r)
     /\ Answered("header") =>
          /\ answer[1].header /\ q.name = "profile-web-page-url" /\ q.url.host.kind # "name" /\ q.url.host.last # "wide" =>
               /\ ~q.url.host.addr.zone
               /\ Dest!MonitorDestinationRefused(Dest!Dials(q.url.host)) => Dest!OnlyChecksRefuse(Dest!Dials(q.url.host))
          /\ answer[1].endpoint => Dest!Dials(q.url.host) = q.url.host.addr /\ ~Dest!AddressRefused(q.url.host.addr)

(***************************************************************************)
(* A manifest is accepted exactly when every root has a simple path to its *)
(* terminal within the bounds, and a manifest that decodes has one         *)
(* encoding only, the one it was decoded from                              *)
(* (SubscriptionSourceManifestV1.Validate,                                 *)
(* DecodeSubscriptionSourceManifest).                                      *)
(***************************************************************************)
SourcePaths ==
  LET m == question.of.manifest
  IN Answered("manifest") =>
       /\ Source!Validates(Source!Clone(m)) <=> Source!Promised(m)
       /\ answer[1] # <<>> => Source!Canonical(answer[1][1]) = <<question.of>>
       /\ \A i \in DOMAIN Source!Canonical(m) : Source!Decode(Source!Canonical(m)[i]) # <<>>
=============================================================================
