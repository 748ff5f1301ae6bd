----------------------------- MODULE PureInputs -----------------------------
(***************************************************************************)
(* The inputs the pure functions are asked about.  Each set holds the      *)
(* values on both sides of every test in its module, and combines those    *)
(* that one decision looks at together.                                    *)
(***************************************************************************)
EXTENDS Integers, Sequences, FiniteSets, SequencesExt

UpTo(set, n) == UNION {[1..k -> set] : k \in 0..n}

-----------------------------------------------------------------------------
(***************************************************************************)
(* PlainDecode: two members, one of them with an object or a list of one.  *)
(***************************************************************************)
V(form, id, in) == [form |-> form, id |-> id, in |-> in]
M(keys, vals) == [key : keys, exact : BOOLEAN, val : vals]

OuterKeys(shape) ==
  CASE shape = "invoke" -> <<"kind", "generation", "request">>
    [] shape = "host_response" -> <<"kind", "generation", "host_response">>
    [] shape = "call" -> <<"service", "method", "payload">>
    [] shape = "plan" -> <<"kind", "selection", "nodes">>
    [] OTHER -> <<"target", "nodes", "document">>

InnerKey(shape) ==
  CASE shape = "invoke" -> "action" [] shape = "host_response" -> "ok" [] shape = "plan" -> "line_uuid" [] OTHER -> "content"

Scalars == {V("null", "", <<>>), V("text", "a", <<>>), V("number", "1", <<>>), V("list", "", <<>>)}

\* Objects with one known and one unknown name, in any order and spelling.
Objects(shape) == {V("object", "", o) : o \in UpTo(M({InnerKey(shape), "other"}, {V("null", "", <<>>), V("text", "a", <<>>)}), 2)}

Rich(shape) == Objects(shape) \cup {V("list", "", <<o>>) : o \in Objects(shape) \cup Scalars}

\* A list is not spelled twice.
ListOnce(members) == \A i, j \in DOMAIN members : i # j /\ members[i].key = members[j].key => members[i].key # "nodes"

Documents(shape) ==
  LET keys == OuterKeys(shape)
      plain == M(Range(keys) \cup {"other"}, Scalars)
      rich == M({keys[3]} \cup (IF shape = "plan" THEN {"selection"} ELSE {}), Rich(shape))
      members == UpTo(plain, 1) \cup {<<r>> : r \in rich} \cup {<<p, r>> : p \in plain, r \in rich} \cup {<<r, p>> : p \in plain, r \in rich}
                 \cup {<<r, s>> : r \in rich, s \in M({keys[3]}, {V("object", "", <<[key |-> InnerKey(shape), exact |-> TRUE, val |-> V("text", "b", <<>>)]>>)})}
  IN {[shape |-> shape, members |-> m, trailing |-> FALSE, deep |-> FALSE] : m \in {x \in members : ListOnce(x)}}
     \cup {[shape |-> shape, members |-> <<r>>, trailing |-> t, deep |-> ~t] : r \in rich, t \in BOOLEAN}

-----------------------------------------------------------------------------
(***************************************************************************)
(* SelectionPlan and SplicedEncoding.                                      *)
(***************************************************************************)
Raw(open, json, repeats) == [open |-> open, json |-> json, repeats |-> repeats]
RawNodes == {Raw(TRUE, TRUE, FALSE), Raw(TRUE, TRUE, TRUE), Raw(TRUE, FALSE, FALSE), Raw(FALSE, TRUE, FALSE)}

Holder(line, field) == [at |-> "password", line |-> line, field |-> field, whole |-> TRUE]

PlanNodes ==
  [node : RawNodes, provider : BOOLEAN, line : {"", "a", "bad"},
   placeholders : {{}, {Holder("a", "password")}, {Holder("b", "password")}, {Holder("a", "uuid")}, {[Holder("a", "password") EXCEPT !.whole = FALSE]}}]

SomeNodes == {n \in PlanNodes : n.placeholders = {} /\ n.line # "bad" /\ (n.provider => n.line = "") /\ n.node.json}

\* A step without arguments is written as it is.
Steps == {s \in [source : BOOLEAN, name : {TRUE}, arguments : {{}, {Raw(TRUE, TRUE, FALSE)}, {Raw(TRUE, TRUE, TRUE)}, {Raw(FALSE, TRUE, FALSE)}}, bytes : {1, 2}, encoded : {1, 2}] : s.arguments = {} => s.encoded = s.bytes}

Selections == {<<>>} \cup {<<[version |-> v, lines |-> l]>> : v \in BOOLEAN, l \in UpTo({"a", "b", "bad"}, 3)}
Policies == {<<>>} \cup {<<[failures |-> f, bytes |-> b]>> : f \in {-1, 0, 1, 2, 3}, b \in {-1, 0, 1}}

PlanOf(kind, document, nodes, selection, policy, chain, deep) ==
  [kind |-> kind, document |-> document, nodes |-> nodes, selection |-> selection, policy |-> policy, chain |-> chain, deep |-> deep,
   bytes |-> 2, encoded |-> 2]

Plans ==
  {PlanOf(k, d, n, <<>>, <<>>, <<>>, x) : k \in {"nodes", "document", "odd"}, d \in BOOLEAN, n \in UpTo(PlanNodes, 1) \cup UpTo(SomeNodes, 3), x \in BOOLEAN}
  \cup {PlanOf("nodes", FALSE, <<>>, s, p, <<>>, FALSE) : s \in Selections, p \in Policies}
  \cup {[PlanOf("nodes", FALSE, n, <<>>, <<>>, c, x) EXCEPT !.bytes = b[1], !.encoded = b[2]] :
          n \in UpTo(SomeNodes, 1), c \in UpTo(Steps, 1) \cup {<<s, s, s>> : s \in Steps}, x \in BOOLEAN, b \in {<<2, 2>>, <<2, 3>>, <<3, 2>>}}
  \cup {PlanOf("nodes", FALSE, <<>>, <<>>, <<>>, <<s, t>>, FALSE) : s, t \in Steps}
  \cup {[PlanOf("", FALSE, <<>>, <<>>, <<>>, <<>>, FALSE) EXCEPT !.bytes = 0]}

Clones == UpTo({[line |-> "a"], [line |-> "b"], [line |-> ""]}, 6)

Texts == UpTo({"prefix", "x", "y", "text"}, 5)

Raws == [open : BOOLEAN, json : BOOLEAN, repeats : BOOLEAN, spaced : BOOLEAN, escapes : BOOLEAN, bytes : {2, 4}]

Converts ==
  LET arguments == [open |-> TRUE, json |-> TRUE, repeats |-> FALSE]
      step(slot, source) == [source |-> source, name |-> TRUE, arguments |-> {arguments}, bytes |-> 1, slot |-> slot]
      document(ok) == [content |-> ok, substitutions |-> {[placeholder |-> TRUE, credential |-> ok]}]
      some == {r \in Raws : r.open /\ r.json /\ ~r.repeats}
  IN [uris : {FALSE}, raw : {FALSE}, target : {TRUE}, nodes : UpTo(Raws, 1) \cup UpTo(some, 3), document : {<<>>},
      chain : {<<>>, <<step(FALSE, TRUE)>>, <<step(TRUE, TRUE)>>, <<step(FALSE, FALSE)>>}]
     \cup [uris : BOOLEAN, raw : BOOLEAN, target : BOOLEAN, nodes : UpTo(some, 1), document : {<<>>, <<document(TRUE)>>, <<document(FALSE)>>}, chain : {<<>>}]

Results == [ok : BOOLEAN, plan : {{}, {"p"}}, message : {{}, {"m"}}, result : {{}} \cup {{r} : r \in {x \in Raws : x.json}}, error : {{}, {"e"}}, warnings : {{}, {"w"}}]

-----------------------------------------------------------------------------
(***************************************************************************)
(* LineSelector: selectors with one or two fields set, over two rows.      *)
(***************************************************************************)
ListNames == {"countries", "regions", "protocols", "transports", "service_states", "node_tags", "group_ids", "chain_roles"}
AllUnset == [f \in ListNames |-> {}] @@ [line_uuids |-> <<>>, renewal_within_days |-> <<>>, probe_passed_within_hours |-> <<>>]

Text(letters) == <<letters, "lower">>

Settings ==
  {<<f, {<<"x", c>>}>> : f \in ListNames \ {"chain_roles"}, c \in {"lower", "upper"}}
  \cup {<<"chain_roles", {Text("relay")}>>, <<"line_uuids", <<"b", "a">>>>, <<"line_uuids", <<"b", "b">>>>, <<"countries", {Text("")}>>}
  \cup {<<"renewal_within_days", <<d>>>> : d \in {0, 1}} \cup {<<"probe_passed_within_hours", <<h>>>> : h \in {1, 9}}

Selectors == {[[AllUnset EXCEPT ![s[1]] = s[2]] EXCEPT ![t[1]] = t[2]] : s, t \in Settings}

Place(country) == [countries |-> Text(country), regions |-> Text("x")]

BaseRow ==
  [line |-> "a", geo |-> <<Place("x")>>, exit |-> <<>>, unresolved |-> FALSE, protocols |-> <<"x", "upper">>, transports |-> Text(""),
   service_states |-> Text("x"), chain_roles |-> Text("relay"), node_tags |-> {Text("x")}, group_ids |-> {}, renewal |-> <<1>>,
   probe |-> <<[pass |-> TRUE, at |-> 1]>>]

SelectorRows ==
  {BaseRow, [BaseRow EXCEPT !.unresolved = TRUE], [BaseRow EXCEPT !.exit = <<Place("y")>>], [BaseRow EXCEPT !.geo = <<Place("y")>>, !.exit = <<Place("x")>>, !.renewal = <<>>],
   [BaseRow EXCEPT !.renewal = <<2>>, !.probe = <<>>], [BaseRow EXCEPT !.renewal = <<3>>, !.probe = <<[pass |-> FALSE, at |-> 1]>>, !.chain_roles = Text("exit")],
   [BaseRow EXCEPT !.probe = <<[pass |-> TRUE, at |-> 0]>>, !.geo = <<>>]}

SelectorUses ==
  {[rows |-> <<r, [s EXCEPT !.line = "b"]>>, sel |-> sel, advertised |-> adv, now |-> 1] : r, s \in SelectorRows, sel \in Selectors,
     adv \in {{}, ListNames, {"line_uuids", "countries"}, {"renewal_within_days", "probe_passed_within_hours", "regions"}}}

-----------------------------------------------------------------------------
(***************************************************************************)
(* CatalogueRow.                                                           *)
(***************************************************************************)
Node(up, key, form, text) == [up |-> up, key |-> key, form |-> form, text |-> text]
Leaf(text) == <<Node(0, <<>>, IF text = <<>> THEN "number" ELSE "text", text)>>
Leaves == {Leaf(<<>>), Leaf(<<"x">>), Leaf(<<"dotless", "k">>)}

\* Values of up to four nodes, the first around all others.
Trees ==
  LET Inside(ups, forms) == {Node(u, k, f[1], f[2]) : u \in ups, k \in {<<"mtu">>, <<"private", "_", "Key">>}, f \in forms}
      Plain == {<<"number", <<>>>>, <<"text", <<"x">>>>, <<"text", <<"dotless", "k">>>>}
      Around == {<<"object", <<>>>>, <<"list", <<>>>>}
      Roots == {Node(0, <<>>, f[1], f[2]) : f \in Around}
      Well(v) == \A i \in DOMAIN v : i > 1 => v[v[i].up].form \in {"object", "list"}
  IN Leaves \cup {<<r>> : r \in Roots} \cup {<<r, a>> : r \in Roots, a \in Inside({1}, Plain)}
     \cup {<<r, a, b>> : r \in Roots, a \in Inside({1}, Plain \cup Around), b \in Inside({1}, Plain)}
     \cup {v \in {<<r, a, b, c>> : r \in Roots, a \in Inside({1}, Around), b \in Inside({1, 2}, Plain \cup Around), c \in Inside({1, 2, 3}, Plain)} : Well(v)}

GoodRow ==
  [bad |-> {}, chain |-> [role |-> "relay", path |-> "", downstream |-> "", service |-> "running"], probe |-> <<>>, usage |-> <<>>, template |-> <<>>,
   extra |-> <<>>, encoded |-> 3]

Extra(key, lower, bytes, val) == [key |-> key, lower |-> lower, bytes |-> bytes, val |-> val]
Param(text) == [reserved |-> FALSE, kept |-> TRUE, valid |-> TRUE, text |-> text]
Template(head, params, dropped) == [head |-> head, params |-> params, dropped |-> dropped]

CatalogueRows ==
  {[GoodRow EXCEPT !.extra = <<Extra(<<"kind">>, TRUE, 2, v)>>] : v \in Trees}
  \cup {[GoodRow EXCEPT !.extra = <<Extra(k, l, b, v), Extra(<<"kind">>, TRUE, 2, v)>>, !.encoded = e] :
          k \in {<<"mtu">>, <<"id">>}, l \in BOOLEAN, b \in {1, 2, 3}, v \in Leaves, e \in {3, 4}}
  \cup {[GoodRow EXCEPT !.bad = b, !.chain.role = r, !.encoded = e] : b \in {{}, {"line_uuid"}, {"ddns name"}}, r \in {"relay", "odd"}, e \in {3, 4}}
  \cup {[GoodRow EXCEPT !.chain = c, !.usage = u] : c \in [role : {"exit"}, path : {"", "busy", "odd"}, downstream : {"", "bad"}, service : {"", "odd"}],
          u \in {<<>>, <<[id |-> TRUE, bytes |-> -1]>>, <<[id |-> TRUE, bytes |-> 0]>>}}
  \cup {[GoodRow EXCEPT !.probe = <<p>>] : p \in [verdict : {"pass", "odd"}, failures : {-1, 0}, coldP50 : {0, -1}, vantage : {"", "bad"}]}
  \cup {[GoodRow EXCEPT !.template = <<Template(h, p, d)>>] : h \in {"", "host"}, d \in BOOLEAN,
          p \in UpTo({Param(<<"x">>), Param(<<"i", "K">>), [Param(<<"x">>) EXCEPT !.reserved = TRUE], [Param(<<"x">>) EXCEPT !.kept = FALSE]}, 2)}

Characters == UpTo({"i", "I", "k", "dotless", "accent", "next", "lf", "://", "lat$"}, 3)

-----------------------------------------------------------------------------
(***************************************************************************)
(* InvokeBudget: maxima of 3, defaults of 1 and 2.                         *)
(***************************************************************************)
Given(timeout, calls, http) ==
  [f \in {"stdout_bytes", "stderr_bytes"} |-> 1] @@ [f \in (IF timeout = {} THEN {} ELSE {"timeout_ms"}) |-> CHOOSE x \in timeout : TRUE]
  @@ [f \in (IF calls = {} THEN {} ELSE {"host_calls"}) |-> CHOOSE x \in calls : TRUE] @@ [f \in (IF http = {} THEN {} ELSE {"http_response_bytes"}) |-> CHOOSE x \in http : TRUE]

Optional == {{}} \cup {{x} : x \in {-1, 0, 1, 3, 4}}

BudgetDocs ==
  {[given |-> Given(t, c, h), nulls |-> n, unknown |-> u] : t, c, h \in Optional, n \in {{}, {"http_response_bytes"}}, u \in BOOLEAN}

Whole(timeout, calls, http) == [timeout_ms |-> timeout, stdout_bytes |-> 1, stderr_bytes |-> 4, host_calls |-> calls, http_response_bytes |-> http]

MethodSpecs == [name : {"m", "n"}, effect : {"read", "write"}, scopes : {{}, {"s"}}, budget : {<<>>, <<Whole(2, 0, 0)>>, <<Whole(4, 1, 3)>>, <<Whole(1, 0, -1)>>}]

Contracts ==
  [methods : UpTo({"m", "n"}, 2), specs : UpTo(MethodSpecs, 1) \cup {<<s, t>> : s \in MethodSpecs, t \in {x \in MethodSpecs : x.effect = "read"}},
   scopes : {{}, {"r"}}, typed : {FALSE}, backing : {"", "core"}]

-----------------------------------------------------------------------------
(***************************************************************************)
(* MonitorRules and DNSCheck.                                              *)
(***************************************************************************)
StatusParts == [lo : 1..5, hi : 1..5, range : {TRUE}] \cup [lo : 0..6, hi : {0}, range : {FALSE}]
StatusLists == UpTo(StatusParts, 3) \cup {<<p, p, p, p>> : p \in StatusParts}

Hosts ==
  [kind : {"name"}, id : {"a", "b"}, upper : BOOLEAN, form : {"netip"}, dot : BOOLEAN, zone : {FALSE}, brackets : {FALSE}]
  \cup [kind : {"ip4"}, id : {"1"}, upper : {FALSE}, form : {"netip"}, dot : BOOLEAN, zone : {FALSE}, brackets : {FALSE}]
  \cup [kind : {"ip6"}, id : {"1"}, upper : BOOLEAN, form : {"netip", "long"}, dot : {FALSE}, zone : BOOLEAN, brackets : BOOLEAN]
  \cup [kind : {"bad"}, id : {""}, upper : {FALSE}, form : {"netip"}, dot : {FALSE}, zone : {FALSE}, brackets : {FALSE}]

\* A port that is written has no zeros before it, or one.
Targets ==
  [scheme : {"https", "udp", "http"}, upper : BOOLEAN, opaque : {FALSE}, extras : {FALSE}, host : Hosts, port : {-1, 1, 3}, zeros : {0}, path : {"", "/q"}]
  \cup [scheme : {"https", "udp", "http"}, upper : {FALSE}, opaque : {FALSE}, extras : {FALSE}, host : Hosts, port : {1, 3}, zeros : {1}, path : {"", "/q"}]
  \cup [scheme : {"tls", "odd"}, upper : {FALSE}, opaque : BOOLEAN, extras : BOOLEAN, host : {h \in Hosts : h.kind = "ip4"}, port : -2..4, zeros : {0}, path : {"", "/"}]

\* Any target next to one that is spelled as it is stored.
TargetPairs ==
  {[one |-> t, two |-> u] : t \in Targets,
     u \in {x \in Targets : ~x.upper /\ ~x.host.upper /\ ~x.extras /\ ~x.opaque /\ x.zeros = 0 /\ x.port \in {-1, 1}
                            /\ x.scheme \in {"https", "udp"} /\ (x.scheme = "https" <=> x.path = "/q") /\ x.host.kind # "bad"}}

ValuePairs == [typ : {"A", "AAAA", "CNAME", "TXT", "SOA"}, one : Hosts, two : Hosts]

-----------------------------------------------------------------------------
(***************************************************************************)
(* Destinations: hosts that stand for any address, and the headers and     *)
(* endpoints that name them.                                               *)
(***************************************************************************)
Headers(addresses) ==
  LET four == {a \in addresses : a.form = "v4"}
      host == [kind : {"literal"}, addr : addresses, dot : BOOLEAN, odd : BOOLEAN, local : {FALSE}, last : {"digits"}]
              \cup [kind : {"literal"}, addr : addresses \ four, dot : {FALSE}, odd : BOOLEAN, local : {TRUE}, last : {"digits", "letters"}]
              \cup [kind : {"short"}, addr : four, dot : BOOLEAN, odd : {TRUE}, local : BOOLEAN, last : {"digits", "hex", "wide"}]
              \cup [kind : {"name"}, addr : {a \in four : a.class = "public"}, dot : BOOLEAN, odd : {FALSE}, local : BOOLEAN, last : {"letters", "hex", "wide"}]
      url == [short : BOOLEAN, https : {TRUE}, user : {FALSE}, host : host] \cup [short : {TRUE}, https : BOOLEAN, user : BOOLEAN, host : host]
  IN [name : {"profile-web-page-url"}, value : {TRUE}, hours : {-1}, url : url]
     \cup [name : {"profile-update-interval", "plan-name", "x-odd"}, value : BOOLEAN, hours : -1..4, url : {CHOOSE u \in url : TRUE}]

-----------------------------------------------------------------------------
(***************************************************************************)
(* SourceManifest: one root with a path of up to two edges, or two roots   *)
(* with one.                                                               *)
(***************************************************************************)
Listed(s) == [nil |-> FALSE, of |-> s]
NoList == [nil |-> TRUE, of |-> <<>>]
Edges == [source : {"r", "s", "x"}, target : {"r", "s", "x"}, valid : {TRUE}]
PathOf(n) == {Listed(p) : p \in UpTo(Edges, n)}
SourceEndpoint(line, alpn) == [line |-> line, valid |-> TRUE, alpn |-> alpn]
Ends == [line : {"r", "s", "x"}, valid : {TRUE}]
EntryOf(root, line, alpn, path, end) == [root |-> root, endpoint |-> SourceEndpoint(line, alpn), path |-> path, terminal |-> end]
OneAlpn == Listed(<<"h2">>)

ManifestOf(roots, entries) == [header |-> TRUE, roots |-> roots, entries |-> entries]

Manifests ==
  {ManifestOf(Listed(<<"r">>), Listed(<<EntryOf("r", "r", OneAlpn, p, e)>>)) : p \in PathOf(2), e \in Ends}
  \cup {ManifestOf(Listed(<<r, s>>), Listed(<<EntryOf("r", "r", OneAlpn, p, e), EntryOf(s, s, OneAlpn, q, f)>>)) :
          r \in {"r"}, s \in {"r", "s", "bad"}, p, q \in PathOf(1), e, f \in Ends}
  \cup {ManifestOf(Listed(<<"r">>), Listed(<<EntryOf(a, b, l, p, [line |-> "s", valid |-> v])>>)) : a, b \in {"r", "s"},
          l \in {NoList, Listed(<<>>), OneAlpn, Listed(<<"h2", "h2">>), Listed(<<"h3">>)}, p \in PathOf(1) \cup {NoList, Listed(<<[source |-> "r", target |-> "s", valid |-> FALSE]>>)}, v \in BOOLEAN}
  \cup {ManifestOf(Listed(<<"r", "s", "x">>), Listed([i \in 1..3 |-> EntryOf(<<"r", "s", "x">>[i], <<"r", "s", "x">>[i], OneAlpn, Listed(<<>>), [line |-> <<"r", "s", "x">>[i], valid |-> TRUE])])),
        ManifestOf(NoList, NoList), ManifestOf(Listed(<<"r">>), Listed(<<>>)), ManifestOf(Listed(<<>>), NoList)}

ManifestDocs == [manifest : Manifests, spelled : BOOLEAN]
=============================================================================
