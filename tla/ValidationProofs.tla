-------------------------- MODULE ValidationProofs --------------------------
(***************************************************************************)
(* The answers of the validators and decoders that keep no state, for      *)
(* inputs of any length: every property the specification's run checks on  *)
(* small families of inputs is an invariant for every family allowed by    *)
(* InputAssumption. Recursive definitions are handled as the functions     *)
(* they define: such a function exists (RecursionUp, RecursionDown, or a   *)
(* closed form given as a witness), and what it returns follows along its  *)
(* interval (IntervalUp, IntervalDown).                                    *)
(***************************************************************************)
EXTENDS Validation, TLAPS, FiniteSetTheorems, NaturalsInduction, WellFoundedInduction

-----------------------------------------------------------------------------
(***************************************************************************)
(* Induction along intervals, and functions defined by recursion.          *)
(***************************************************************************)
\* A set of natural numbers has a least element.
LEMMA LeastNatural ==
  ASSUME NEW T \in SUBSET Nat, T # {}
  PROVE  \E n \in T : \A m \in T : n <= m
<1>1. PICK x \in T : \A y \in T : ~(<<y, x>> \in OpToRel(<, Nat))
  BY NatLessThanWellFounded, WFMin
<1>2. ASSUME NEW n \in Nat, NEW m \in Nat, m < n
      PROVE  <<m, n>> \in OpToRel(<, Nat)
  <2>1. <<m, n>> \in Nat \X Nat /\ <<m, n>>[1] < <<m, n>>[2]
    BY <1>2
  <2> QED
    BY <2>1 DEF OpToRel
<1>3. \A y \in T : x \in Nat /\ y \in Nat
  OBVIOUS
<1>4. \A y \in T : ~(y < x)
  BY <1>1, <1>2, <1>3, Zenon
<1> QED
  BY <1>3, <1>4

\* Induction over the natural numbers, for a set.
LEMMA SetInduction ==
  ASSUME NEW T \in SUBSET Nat, 0 \in T, \A n \in T : n + 1 \in T
  PROVE  T = Nat
<1> SUFFICES ASSUME T # Nat PROVE FALSE
  OBVIOUS
<1>1. PICK n \in Nat \ T : \A m \in Nat \ T : n <= m
  BY LeastNatural
<1>2. n - 1 \in Nat /\ ~(n <= n - 1)
  BY <1>1
<1>3. n - 1 \in T
  BY <1>1, <1>2
<1> QED
  BY <1>1, <1>2, <1>3

\* Induction along an interval, upwards and downwards.
LEMMA IntervalUp ==
  ASSUME NEW a \in Int, NEW b \in Int, NEW T, a \in T, \A i \in a..(b - 1) : i \in T => i + 1 \in T
  PROVE  a..b \subseteq T
<1> DEFINE S == {m \in Nat : a + m <= b => a + m \in T}
<1>1. 0 \in S
  OBVIOUS
<1>2. ASSUME NEW m \in S PROVE m + 1 \in S
  <2>1. CASE a + (m + 1) <= b
    <3>1. a + m \in a..(b - 1) /\ a + m \in T /\ (a + m) + 1 = a + (m + 1)
      BY <2>1
    <3> QED
      BY <3>1
  <2> QED
    BY <2>1
<1>3. S = Nat
  BY <1>1, <1>2, SetInduction
<1>4. ASSUME NEW i \in a..b PROVE i \in T
  <2>1. i - a \in Nat /\ a + (i - a) = i
    OBVIOUS
  <2>2. i - a \in S
    BY <1>3, <2>1
  <2> QED
    BY <2>1, <2>2
<1> QED
  BY <1>4

LEMMA IntervalDown ==
  ASSUME NEW a \in Int, NEW b \in Int, NEW T, b \in T, \A i \in (a + 1)..b : i \in T => i - 1 \in T
  PROVE  a..b \subseteq T
<1> DEFINE S == {m \in Nat : b - m >= a => b - m \in T}
<1>1. 0 \in S
  OBVIOUS
<1>2. ASSUME NEW m \in S PROVE m + 1 \in S
  <2>1. CASE b - (m + 1) >= a
    <3>1. b - m \in (a + 1)..b /\ b - m \in T /\ (b - m) - 1 = b - (m + 1)
      BY <2>1
    <3> QED
      BY <3>1
  <2> QED
    BY <2>1
<1>3. S = Nat
  BY <1>1, <1>2, SetInduction
<1>4. ASSUME NEW i \in a..b PROVE i \in T
  <2>1. b - i \in Nat /\ b - (b - i) = i
    OBVIOUS
  <2>2. b - i \in S
    BY <1>3, <2>1
  <2> QED
    BY <2>1, <2>2
<1> QED
  BY <1>4

\* A function whose value at an index is computed from its values at lower
\* ones exists.
LooksUp(next, a, b, V) ==
  /\ V # {} /\ next \in [a..b -> [[a..b -> V] -> V]]
  /\ \A i \in a..b : \A g, h \in [a..b -> V] : (\A j \in a..(i - 1) : g[j] = h[j]) => next[i][g] = next[i][h]

LEMMA RecursionUp ==
  ASSUME NEW a \in Int, NEW b \in Int, NEW V, NEW next, LooksUp(next, a, b, V)
  PROVE  \E g \in [a..b -> V] : \A i \in a..b : g[i] = next[i][g]
<1> USE DEF LooksUp
<1> DEFINE T == {m \in Nat : \E g \in [a..b -> V] : \A i \in a..b : i < a + m => g[i] = next[i][g]}
<1>1. 0 \in T
  <2>1. PICK v \in V : TRUE
    OBVIOUS
  <2>2. PICK g \in [a..b -> V] : g = [i \in a..b |-> v]
    OBVIOUS
  <2>3. \A i \in a..b : ~(i < a + 0)
    OBVIOUS
  <2>4. \A i \in a..b : i < a + 0 => g[i] = next[i][g]
    BY <2>3
  <2> QED
    BY <2>4
<1>2. ASSUME NEW m \in T PROVE m + 1 \in T
  <2>0. m \in Nat
    OBVIOUS
  <2>1. PICK g \in [a..b -> V] : \A i \in a..b : i < a + m => g[i] = next[i][g]
    OBVIOUS
  <2>2. CASE a + m \notin a..b
    <3>1. \A i \in a..b : i < a + m
      BY <2>0, <2>2
    <3>2. \A i \in a..b : i < a + (m + 1) => g[i] = next[i][g]
      BY <2>1, <3>1
    <3> QED
      BY <2>0, <3>2
  <2>3. CASE a + m \in a..b
    <3> DEFINE k == a + m
               h == [i \in a..b |-> IF i = k THEN next[k][g] ELSE g[i]]
    <3>1. next[k][g] \in V
      BY <2>3
    <3>2. h \in [a..b -> V] /\ h[k] = next[k][g] /\ \A i \in a..b : i # k => h[i] = g[i]
      BY <2>3, <3>1
    <3> HIDE DEF h
    <3>3. ASSUME NEW i \in a..b, i < a + (m + 1) PROVE h[i] = next[i][h]
      <4>1. \A j \in a..(i - 1) : g[j] = h[j]
        BY <2>0, <3>2, <3>3
      <4>2. next[i][g] = next[i][h]
        BY <3>2, <4>1
      <4>3. i = k \/ i < a + m
        BY <2>0, <3>3
      <4> QED
        BY <2>1, <3>2, <4>2, <4>3
    <3> QED
      BY <2>0, <3>2, <3>3
  <2> QED
    BY <2>2, <2>3
<1>3. T = Nat
  <2> HIDE DEF T
  <2>1. T \in SUBSET Nat
    BY DEF T
  <2> QED
    BY <1>1, <1>2, <2>1, SetInduction
<1>4. CASE a <= b
  <2>1. b - a + 1 \in Nat /\ \A i \in a..b : i < a + (b - a + 1)
    BY <1>4
  <2>2. PICK g \in [a..b -> V] : \A i \in a..b : i < a + (b - a + 1) => g[i] = next[i][g]
    BY <1>3, <2>1
  <2> QED
    BY <2>1, <2>2
<1>5. CASE ~(a <= b)
  <2>1. a..b = {}
    BY <1>5
  <2>2. PICK g \in [a..b -> V] : \A i \in a..b : i < a + 0 => g[i] = next[i][g]
    BY <1>1
  <2> QED
    BY <2>1, <2>2
<1> QED
  BY <1>4, <1>5

LooksDown(next, a, b, V) ==
  /\ V # {} /\ next \in [a..b -> [[a..b -> V] -> V]]
  /\ \A i \in a..b : \A g, h \in [a..b -> V] : (\A j \in (i + 1)..b : g[j] = h[j]) => next[i][g] = next[i][h]

LEMMA RecursionDown ==
  ASSUME NEW a \in Int, NEW b \in Int, NEW V, NEW next, LooksDown(next, a, b, V)
  PROVE  \E g \in [a..b -> V] : \A i \in a..b : g[i] = next[i][g]
<1> USE DEF LooksDown
<1> DEFINE T == {m \in Nat : \E g \in [a..b -> V] : \A i \in a..b : i > b - m => g[i] = next[i][g]}
<1>1. 0 \in T
  <2>1. PICK v \in V : TRUE
    OBVIOUS
  <2>2. PICK g \in [a..b -> V] : g = [i \in a..b |-> v]
    OBVIOUS
  <2>3. \A i \in a..b : ~(i > b - 0)
    OBVIOUS
  <2>4. \A i \in a..b : i > b - 0 => g[i] = next[i][g]
    BY <2>3
  <2> QED
    BY <2>4
<1>2. ASSUME NEW m \in T PROVE m + 1 \in T
  <2>0. m \in Nat
    OBVIOUS
  <2>1. PICK g \in [a..b -> V] : \A i \in a..b : i > b - m => g[i] = next[i][g]
    OBVIOUS
  <2>2. CASE b - m \notin a..b
    <3>1. \A i \in a..b : i > b - m
      BY <2>0, <2>2
    <3>2. \A i \in a..b : i > b - (m + 1) => g[i] = next[i][g]
      BY <2>1, <3>1
    <3> QED
      BY <2>0, <3>2
  <2>3. CASE b - m \in a..b
    <3> DEFINE k == b - m
               h == [i \in a..b |-> IF i = k THEN next[k][g] ELSE g[i]]
    <3>1. next[k][g] \in V
      BY <2>3
    <3>2. h \in [a..b -> V] /\ h[k] = next[k][g] /\ \A i \in a..b : i # k => h[i] = g[i]
      BY <2>3, <3>1
    <3> HIDE DEF h
    <3>3. ASSUME NEW i \in a..b, i > b - (m + 1) PROVE h[i] = next[i][h]
      <4>1. \A j \in (i + 1)..b : g[j] = h[j]
        BY <2>0, <3>2, <3>3
      <4>2. next[i][g] = next[i][h]
        BY <3>2, <4>1
      <4>3. i = k \/ i > b - m
        BY <2>0, <3>3
      <4> QED
        BY <2>1, <3>2, <4>2, <4>3
    <3> QED
      BY <2>0, <3>2, <3>3
  <2> QED
    BY <2>2, <2>3
<1>3. T = Nat
  <2> HIDE DEF T
  <2>1. T \in SUBSET Nat
    BY DEF T
  <2> QED
    BY <1>1, <1>2, <2>1, SetInduction
<1>4. CASE a <= b
  <2>1. b - a + 1 \in Nat /\ \A i \in a..b : i > b - (b - a + 1)
    BY <1>4
  <2>2. PICK g \in [a..b -> V] : \A i \in a..b : i > b - (b - a + 1) => g[i] = next[i][g]
    BY <1>3, <2>1
  <2> QED
    BY <2>1, <2>2
<1>5. CASE ~(a <= b)
  <2>1. a..b = {}
    BY <1>5
  <2>2. PICK g \in [a..b -> V] : \A i \in a..b : i > b - 0 => g[i] = next[i][g]
    BY <1>1
  <2> QED
    BY <2>1, <2>2
<1> QED
  BY <1>4, <1>5

-----------------------------------------------------------------------------
(***************************************************************************)
(* The invariant: the answer, when there is one, is the operator applied   *)
(* to the question, whatever the question.                                 *)
(***************************************************************************)
Put(qu, an, kind, value) == qu.kind = kind /\ an # <<>> => an = <<value>>

From(kind, x) == \E family \in Inputs(kind) : x \in family

RightAnswer(qu, an) ==
  LET q == qu.of
  IN /\ qu.kind \in Kinds /\ From(qu.kind, q)
     /\ Put(qu, an, "document", Plain!Decode(q))
     /\ Put(qu, an, "literal", Literal!String(q))
     /\ Put(qu, an, "plan", [full |-> Enc!Validate(q, FALSE), trusting |-> Enc!ValidateTrustingEncoding(q), decoded |-> Enc!DecodeSelectionPlan(q), sent |-> Enc!Sent(q)])
     /\ Put(qu, an, "clones", Enc!ExcessClones(q))
     /\ Put(qu, an, "text", [body \in Bodies |-> Enc!CountPlanPlaceholders(q, body)])
     /\ Put(qu, an, "convert", Enc!EncodeConvertRequest(q))
     /\ Put(qu, an, "result", Enc!InvokeResult(q))
     /\ Put(qu, an, "select", Lines!Pushed(q.rows, q.sel, q.advertised, q.now))
     /\ Put(qu, an, "row", [full |-> Row!RowError(q, 0), trusting |-> Row!RowError(q, q.encoded)])
     /\ Put(qu, an, "characters", [key |-> Row!ContainsPrivateKey(q), control |-> Row!ContainsControl(q)])
     /\ Put(qu, an, "budget", Decode(q))
     /\ Put(qu, an, "contract", UnmarshalContract(MarshalContract(q)))
     /\ Put(qu, an, "targets", <<DNS!ParseDNSResolver(q.one), DNS!MonitorOrigin(q.one)>>)
     /\ Put(qu, an, "address", Dest!MonitorDestinationRefused(q))
     /\ Put(qu, an, "header", [header |-> Dest!ResponseHeader(q, 1, 3), endpoint |-> Dest!ParseEndpoint(q.url.host, 1)])
     /\ Put(qu, an, "manifest", Source!Decode(q))

Answers == RightAnswer(question, answer)

LEMMA AnswersHold == Spec => []Answers
<1>1. Init => Answers
  <2> SUFFICES ASSUME Init PROVE Answers
    OBVIOUS
  <2>1. PICK k \in Kinds : \E family \in Inputs(k) : \E x \in family : question = [kind |-> k, of |-> x]
    BY DEF Init
  <2>2. PICK family \in Inputs(k) : \E x \in family : question = [kind |-> k, of |-> x]
    BY <2>1
  <2>3. PICK x \in family : question = [kind |-> k, of |-> x]
    BY <2>2
  <2> QED
    BY <2>2, <2>3 DEF Init, Answers, RightAnswer, Put, From
<1>2. Answers /\ [Next]_<<question, answer>> => Answers'
  <2> SUFFICES ASSUME Answers, [Next]_<<question, answer>> PROVE Answers'
    OBVIOUS
  <2>1. CASE UNCHANGED <<question, answer>>
    BY <2>1 DEF Answers
  <2> DEFINE q == question.of
  <2>2. CASE Asked("document") /\ Answer(Plain!Decode(q))
    BY <2>2 DEF Answers, RightAnswer, Put, From, Asked, Answer
  <2>3. CASE Asked("literal") /\ Answer(Literal!String(q))
    BY <2>3 DEF Answers, RightAnswer, Put, From, Asked, Answer
  <2>4. CASE Asked("plan") /\ Answer([full |-> Enc!Validate(q, FALSE), trusting |-> Enc!ValidateTrustingEncoding(q), decoded |-> Enc!DecodeSelectionPlan(q), sent |-> Enc!Sent(q)])
    BY <2>4 DEF Answers, RightAnswer, Put, From, Asked, Answer
  <2>5. CASE Asked("clones") /\ Answer(Enc!ExcessClones(q))
    BY <2>5 DEF Answers, RightAnswer, Put, From, Asked, Answer
  <2>6. CASE Asked("text") /\ Answer([body \in Bodies |-> Enc!CountPlanPlaceholders(q, body)])
    BY <2>6 DEF Answers, RightAnswer, Put, From, Asked, Answer
  <2>7. CASE Asked("convert") /\ Answer(Enc!EncodeConvertRequest(q))
    BY <2>7 DEF Answers, RightAnswer, Put, From, Asked, Answer
  <2>8. CASE Asked("result") /\ Answer(Enc!InvokeResult(q))
    BY <2>8 DEF Answers, RightAnswer, Put, From, Asked, Answer
  <2>9. CASE Asked("select") /\ Answer(Lines!Pushed(q.rows, q.sel, q.advertised, q.now))
    BY <2>9 DEF Answers, RightAnswer, Put, From, Asked, Answer
  <2>10. CASE Asked("row") /\ Answer([full |-> Row!RowError(q, 0), trusting |-> Row!RowError(q, q.encoded)])
    BY <2>10 DEF Answers, RightAnswer, Put, From, Asked, Answer
  <2>11. CASE Asked("characters") /\ Answer([key |-> Row!ContainsPrivateKey(q), control |-> Row!ContainsControl(q)])
    BY <2>11 DEF Answers, RightAnswer, Put, From, Asked, Answer
  <2>12. CASE Asked("budget") /\ Answer(Decode(q))
    BY <2>12 DEF Answers, RightAnswer, Put, From, Asked, Answer
  <2>13. CASE Asked("contract") /\ Answer(UnmarshalContract(MarshalContract(q)))
    BY <2>13 DEF Answers, RightAnswer, Put, From, Asked, Answer
  <2>14. CASE Asked("rule") /\ Answer(IF ValidateDegradedRule(q) THEN CanonicalDegradedRule(q) ELSE "refused")
    BY <2>14 DEF Answers, RightAnswer, Put, From, Asked, Answer
  <2>15. CASE Asked("status") /\ Answer(ParseMonitorStatusSet(q))
    BY <2>15 DEF Answers, RightAnswer, Put, From, Asked, Answer
  <2>16. CASE Asked("targets") /\ Answer(<<DNS!ParseDNSResolver(q.one), DNS!MonitorOrigin(q.one)>>)
    BY <2>16 DEF Answers, RightAnswer, Put, From, Asked, Answer
  <2>17. CASE Asked("values") /\ Answer(DNS!CanonicalDNSValue(q.typ, q.one))
    BY <2>17 DEF Answers, RightAnswer, Put, From, Asked, Answer
  <2>18. CASE Asked("address") /\ Answer(Dest!MonitorDestinationRefused(q))
    BY <2>18 DEF Answers, RightAnswer, Put, From, Asked, Answer
  <2>19. CASE Asked("header") /\ Answer([header |-> Dest!ResponseHeader(q, 1, 3), endpoint |-> Dest!ParseEndpoint(q.url.host, 1)])
    BY <2>19 DEF Answers, RightAnswer, Put, From, Asked, Answer
  <2>20. CASE Asked("manifest") /\ Answer(Source!Decode(q))
    BY <2>20 DEF Answers, RightAnswer, Put, From, Asked, Answer
  <2> QED
    BY <2>1, <2>2, <2>3, <2>4, <2>5, <2>6, <2>7, <2>8, <2>9, <2>10, <2>11, <2>12, <2>13, <2>14, <2>15, <2>16, <2>17, <2>18, <2>19, <2>20 DEF Next
<1> QED
  BY <1>1, <1>2, PTL DEF Spec

-----------------------------------------------------------------------------
(***************************************************************************)
(* Addresses and endpoints.                                                *)
(***************************************************************************)
\* What an answered question was about.
LEMMA InputsTyped ==
  ASSUME NEW kind, NEW set, AllIn(kind, set), NEW x, From(kind, x) PROVE x \in set
BY DEF AllIn, From

LEMMA Given ==
  ASSUME NEW kind, NEW set, AllIn(kind, set), Answers, question.kind = kind PROVE question.of \in set
<1>1. From(kind, question.of)
  BY DEF Answers, RightAnswer
<1> QED
  BY <1>1, InputsTyped

LEMMA FourOnly ==
  ASSUME NEW a \in Dest!Addresses, a.form = "v4" PROVE a = [form |-> "v4", class |-> a.class, zone |-> FALSE]
<1>1. a \in [form : {"v4"}, class : Dest!V4, zone : {FALSE}]
  BY DEF Dest!Addresses, Dest!Embeds
<1>2. a = [form |-> a.form, class |-> a.class, zone |-> a.zone]
  BY <1>1
<1>3. a.zone = FALSE
  BY <1>1, Zenon
<1> QED
  BY <1>2, <1>3

LEMMA Unmapped ==
  ASSUME NEW a \in Dest!Addresses
  PROVE  /\ a.form \in {"v4", "mapped"} => Dest!Unmap(a) = [form |-> "v4", class |-> a.class, zone |-> FALSE]
         /\ a.form # "mapped" => Dest!Unmap(a) = a
<1>1. a.form = "mapped" => Dest!Unmap(a) = [form |-> "v4", class |-> a.class, zone |-> FALSE]
  BY DEF Dest!Addresses, Dest!Unmap, Dest!Embeds
<1>2. a.form # "mapped" => Dest!Unmap(a) = a
  BY DEF Dest!Unmap
<1> QED
  BY <1>1, <1>2, FourOnly

LEMMA AddressReached ==
  ASSUME NEW a \in Dest!Addresses, NEW r \in Dest!Reaches(a)
  PROVE  Dest!MonitorDestinationRefused(a) <=> Dest!MonitorDestinationRefused(r)
<1> DEFINE v4 == [form |-> "v4", class |-> a.class, zone |-> FALSE]
<1>1. r = v4 /\ a.form # "v6"
  BY DEF Dest!Reaches
<1>2. a.class \in Dest!V4 /\ (a.form = "v4" \/ a.form \in Dest!Embeds)
  BY <1>1 DEF Dest!Addresses
<1>3. Dest!NoZone(Dest!Unmap(v4)) = v4
  <2>1. Dest!Unmap(v4) = v4
    BY DEF Dest!Unmap
  <2>2. Dest!NoZone(v4) = v4
    BY DEF Dest!NoZone
  <2> QED
    BY <2>1, <2>2
<1>4. Dest!Embedded(v4) = {}
  BY DEF Dest!Embedded
<1>5. Dest!MonitorDestinationRefused(r) <=> Dest!NetIP(v4) \/ Dest!MonitorPrefixes(v4)
  BY <1>1, <1>3, <1>4, Zenon DEF Dest!MonitorDestinationRefused
<1>6. CASE a.form \in {"v4", "mapped"}
  <2>1. Dest!Unmap(a) = v4 /\ Dest!Unmap(v4) = v4
    BY <1>6, Unmapped DEF Dest!Unmap
  <2>2. Dest!NoZone(Dest!Unmap(a)) = v4
    BY <1>3, <2>1
  <2> QED
    BY <1>4, <1>5, <2>2, Zenon DEF Dest!MonitorDestinationRefused
<1>7. CASE a.form \in {"nat64", "translated", "sixtofour"}
  <2> DEFINE b == Dest!NoZone(Dest!Unmap(a))
  <2>1. b.form = a.form /\ b.class = a.class
    BY <1>7, Unmapped DEF Dest!NoZone
  <2>2. ~Dest!NetIP(b) /\ ~Dest!MonitorPrefixes(b)
    BY <1>7, <2>1 DEF Dest!NetIP, Dest!MonitorPrefixes
  <2>3. Dest!Embedded(b) = {v4}
    BY <1>7, <2>1 DEF Dest!Embedded
  <2> QED
    BY <1>5, <2>2, <2>3, Zenon DEF Dest!MonitorDestinationRefused
<1> QED
  BY <1>2, <1>6, <1>7 DEF Dest!Embeds

\* A literal publicAddress accepts is refused to a check only in the ranges
\* that are left to checks.
LEMMA PublicJudged ==
  ASSUME NEW a \in Dest!Addresses, a.form # "mapped", Dest!PublicAddress(a), Dest!MonitorDestinationRefused(a)
  PROVE  Dest!OnlyChecksRefuse(a)
<1>1. a.form \in {"v4", "v6", "nat64", "translated", "sixtofour"}
  BY DEF Dest!Addresses, Dest!Embeds
<1>2. CASE a.form \in {"v4", "v6"}
  <2> DEFINE b == Dest!NoZone(a)
  <2>1. Dest!Unmap(a) = a
    BY <1>2 DEF Dest!Unmap
  <2>2. b.form = a.form /\ b.class = a.class
    BY DEF Dest!NoZone
  <2>3. Dest!Embedded(b) = {}
    BY <1>2, <2>2 DEF Dest!Embedded
  <2> HIDE DEF b
  <2>4. Dest!NetIP(b) \/ Dest!MonitorPrefixes(b)
    BY <2>1, <2>3, Zenon DEF Dest!MonitorDestinationRefused, b
  <2>5. ~Dest!NetIP(b)
    BY <2>2 DEF Dest!NetIP, Dest!PublicAddress
  <2>6. Dest!MonitorPrefixes(b)
    BY <2>4, <2>5
  <2>7. CASE a.form = "v4"
    <3>1. a.class \in {"zero", "this", "cgnat", "ietf", "relay", "bench", "reserved", "broadcast"}
      BY <2>2, <2>6, <2>7 DEF Dest!MonitorPrefixes
    <3>2. a.class \notin {"zero", "cgnat", "bench", "broadcast"}
      BY <2>7 DEF Dest!PublicAddress, Dest!NetIP
    <3> QED
      BY <2>7, <3>1, <3>2 DEF Dest!OnlyChecksRefuse
  <2>8. CASE a.form = "v6"
    <3>1. a.class \in {"localnat", "compat", "zero", "loopback", "site", "teredo", "discard"}
      BY <2>2, <2>6, <2>8 DEF Dest!MonitorPrefixes
    <3>2. a.class \notin {"localnat", "zero", "loopback"}
      BY <2>8 DEF Dest!PublicAddress, Dest!NetIP
    <3> QED
      BY <2>8, <3>1, <3>2 DEF Dest!OnlyChecksRefuse
  <2> QED
    BY <1>2, <2>7, <2>8
<1>3. CASE a.form \in {"nat64", "translated", "sixtofour"}
  BY <1>3 DEF Dest!PublicAddress, Dest!OnlyChecksRefuse
<1> QED
  BY <1>1, <1>2, <1>3

LEMMA PublicHost ==
  ASSUME NEW host \in AnyURLHost, Dest!HostAccepted(host), host.kind # "name", host.last # "wide"
  PROVE  /\ ~host.addr.zone
         /\ Dest!MonitorDestinationRefused(Dest!Dials(host)) => Dest!OnlyChecksRefuse(Dest!Dials(host))
<1> DEFINE a == host.addr
<1>0. a \in Dest!Addresses /\ host.kind \in {"literal", "short", "name"}
  BY DEF AnyURLHost
<1>1. CASE host.kind = "literal" /\ ~host.dot
  <2>1. Dest!PublicAddress(Dest!Unmap(a)) /\ ~a.zone
    BY <1>1 DEF Dest!HostAccepted
  <2>2. Dest!Unmap(a) = Dest!Dials(host)
    BY <1>0, Unmapped DEF Dest!Dials
  <2>3. Dest!Unmap(a) \in Dest!Addresses /\ Dest!Unmap(a).form # "mapped"
    <3>1. CASE a.form = "mapped"
      <4>1. Dest!Unmap(a) = [form |-> "v4", class |-> a.class, zone |-> FALSE]
        BY <1>0, <3>1, <2>2 DEF Dest!Dials
      <4>2. a.class \in Dest!V4
        BY <1>0, <3>1 DEF Dest!Addresses
      <4> QED
        BY <4>1, <4>2 DEF Dest!Addresses
    <3>2. CASE a.form # "mapped"
      BY <1>0, <3>2 DEF Dest!Unmap
    <3> QED
      BY <3>1, <3>2
  <2> QED
    BY <2>1, <2>2, <2>3, PublicJudged
<1>2. CASE ~(host.kind = "literal" /\ ~host.dot)
  <2>1. ~host.dot /\ ~Dest!NumericAddressName(host)
    BY <1>2 DEF Dest!HostAccepted
  <2>2. host.kind = "short"
    BY <1>0, <1>2, <2>1
  <2>3. host.last \in {"digits", "hex"}
    BY <2>2 DEF AnyURLHost
  <2> QED
    BY <2>1, <2>3 DEF Dest!NumericAddressName
<1> QED
  BY <1>1, <1>2

LEMMA EndpointDialled ==
  ASSUME NEW host \in AnyURLHost, Dest!ParseEndpoint(host, 1)
  PROVE  Dest!Dials(host) = host.addr /\ ~Dest!AddressRefused(host.addr)
<1>1. ~Dest!AddressRefused(host.addr) /\ host.addr \in Dest!Addresses
  BY DEF Dest!ParseEndpoint, AnyURLHost
<1>2. host.addr.form = "v4"
  BY <1>1 DEF Dest!AddressRefused
<1> QED
  BY <1>1, <1>2, FourOnly DEF Dest!Dials

LEMMA HeaderFields == ASSUME NEW h, NEW e, NEW r, r = [header |-> h, endpoint |-> e] PROVE r.header = h /\ r.endpoint = e
OBVIOUS

\* A check is refused an address exactly when it is refused the IPv4 address
\* reached through it; a URL for clients that spells an address in ASCII names
\* none a check is refused but for the ranges left to checks; and a beacon
\* endpoint is dialled as the address that was judged
\* (MonitorDestinationRefused, validatePublicHTTPSURL, ParseEndpoint).
THEOREM RefusesByWhatIsReached == Spec => []DestinationsRefused
<1>1. Answers => DestinationsRefused
  <2> SUFFICES ASSUME Answers PROVE DestinationsRefused
    OBVIOUS
  <2> DEFINE q == question.of
  <2>1. ASSUME Answered("address"), NEW r \in Dest!Reaches(q) PROVE answer[1] <=> Dest!MonitorDestinationRefused(r)
    <3>1. q \in Dest!Addresses
      BY <2>1, InputAssumption, Given DEF Answered
    <3>2. answer[1] = Dest!MonitorDestinationRefused(q)
      BY <2>1 DEF Answers, RightAnswer, Put, Answered
    <3> HIDE DEF q
    <3> QED
      BY <2>1, <3>1, <3>2, AddressReached, Zenon
  <2>2. ASSUME Answered("header") PROVE
          /\ answer[1].header /\ q.name = "profile-web-page-url" /\ q.url.host.kind # "name" /\ q.url.host.last # "wide" =>
               /\ ~q.url.host.addr.zone
               /\ Dest!MonitorDestinationRefused(Dest!Dials(q.url.host)) => Dest!OnlyChecksRefuse(Dest!Dials(q.url.host))
          /\ answer[1].endpoint => Dest!Dials(q.url.host) = q.url.host.addr /\ ~Dest!AddressRefused(q.url.host.addr)
    <3>1. q \in AnyHeader
      BY <2>2, InputAssumption, Given DEF Answered
    <3>2. q.url.host \in AnyURLHost
      BY <3>1 DEF AnyHeader
    <3>3. answer[1] = [header |-> Dest!ResponseHeader(q, 1, 3), endpoint |-> Dest!ParseEndpoint(q.url.host, 1)]
      BY <2>2 DEF Answers, RightAnswer, Put, Answered
    <3>4. answer[1].header = Dest!ResponseHeader(q, 1, 3) /\ answer[1].endpoint = Dest!ParseEndpoint(q.url.host, 1)
      BY <3>3, HeaderFields
    <3> HIDE DEF q
    <3>5. ASSUME answer[1].header, q.name = "profile-web-page-url", q.url.host.kind # "name", q.url.host.last # "wide"
          PROVE  /\ ~q.url.host.addr.zone
                 /\ Dest!MonitorDestinationRefused(Dest!Dials(q.url.host)) => Dest!OnlyChecksRefuse(Dest!Dials(q.url.host))
      <4>1. Dest!HostAccepted(q.url.host)
        BY <3>4, <3>5, Zenon DEF Dest!ResponseHeader, Dest!PublicHTTPSURL
      <4> QED
        BY <3>2, <3>5, <4>1, PublicHost
    <3>6. ASSUME answer[1].endpoint PROVE Dest!Dials(q.url.host) = q.url.host.addr /\ ~Dest!AddressRefused(q.url.host.addr)
      <4>1. Dest!ParseEndpoint(q.url.host, 1)
        BY <3>4, <3>6, Zenon
      <4> QED
        BY <3>2, <4>1, EndpointDialled
    <3> QED
      BY <3>5, <3>6
  <2> QED
    BY <2>1, <2>2 DEF DestinationsRefused
<1> QED
  BY <1>1, AnswersHold, PTL

-----------------------------------------------------------------------------
(***************************************************************************)
(* Invoke budgets and contracts.                                           *)
(***************************************************************************)
LEMMA FieldFacts == HTTP \in Fields /\ HTTP \notin Required /\ Calls \in Required /\ Required \subseteq Fields /\ HTTP # Calls
BY DEF Fields, Required, HTTP, Calls

LEMMA DecodedIsBudget ==
  ASSUME NEW doc, BudgetDoc(doc) PROVE Decoded(doc) \in Budgets
BY DEF Decoded, Budgets, BudgetDoc

\* A budget is cut to the maxima, then a field left at zero gets its default,
\* which is within them too.
LEMMA FilledWithin ==
  ASSUME NEW b \in Budgets PROVE Clamp(b) \in Budgets /\ WithinHost(Filled(Clamp(b)))
<1>1. Clamp(b) \in Budgets /\ \A f \in Fields : Clamp(b)[f] <= HostMax[f]
  BY BudgetAssumption DEF Clamp, Budgets
<1>2. ASSUME NEW f \in Fields PROVE Filled(Clamp(b))[f] <= HostMax[f] /\ (IF f = Calls THEN Filled(Clamp(b))[f] >= 0 ELSE Filled(Clamp(b))[f] > 0)
  <2>0. Clamp(b)[f] \in Int /\ HostMax[f] \in Nat \ {0} /\ Default[f] \in Nat \ {0} /\ Default[f] <= HostMax[f]
    BY <1>1, BudgetAssumption DEF Budgets
  <2>1. CASE f = Calls
    <3>1. Filled(Clamp(b))[f] = IF Clamp(b)[f] < 0 THEN 0 ELSE Clamp(b)[f]
      BY <2>1 DEF Filled
    <3> QED
      BY <1>1, <2>0, <2>1, <3>1
  <2>2. CASE f # Calls
    <3>1. Filled(Clamp(b))[f] = IF Clamp(b)[f] <= 0 THEN Default[f] ELSE Clamp(b)[f]
      BY <2>2 DEF Filled
    <3> QED
      BY <1>1, <2>0, <2>2, <3>1
  <2> QED
    BY <2>1, <2>2
<1> QED
  BY <1>1, <1>2 DEF WithinHost

(***************************************************************************)
(* Whatever a method declares and whatever defaults a host hands in, an    *)
(* invocation runs within the host's maxima and with something of          *)
(* everything but host calls (ResolveInvokeBudget).                        *)
(***************************************************************************)
THEOREM ResolvesWithinHost ==
  ASSUME NEW spec \in Seq(Budgets), NEW defaults \in Budgets
  PROVE  WithinHost(Resolve(spec, defaults))
<1> DEFINE b == IF spec = <<>> THEN defaults ELSE spec[1]
<1>1. b \in Budgets
  OBVIOUS
<1> QED
  BY <1>1, FilledWithin DEF Resolve

\* A budget with no negative http_response_bytes is written and read as itself.
LEMMA BudgetReadBack ==
  ASSUME NEW b \in Budgets, b[HTTP] >= 0
  PROVE  Decodes(Encode(b)) /\ Decoded(Encode(b)) = b /\ Decode(Encode(b)) = <<b>>
<1> DEFINE T == IF b[HTTP] = 0 THEN Required ELSE Fields
<1>0. b[HTTP] \in Int
  BY FieldFacts DEF Budgets
<1>1. /\ Encode(b).given = [f \in T |-> b[f]] /\ Encode(b).unknown = FALSE
  BY DEF Encode
<1>2. Decodes(Encode(b))
  BY <1>0, <1>1, FieldFacts DEF Decodes
<1>3. Decoded(Encode(b)) = [f \in Fields |-> IF f \in T THEN b[f] ELSE 0]
  BY <1>1, FieldFacts DEF Decoded
<1>4. \A f \in Fields : f \in T \/ (f = HTTP /\ b[f] = 0)
  BY DEF Fields
<1>5. Decoded(Encode(b)) = b
  BY <1>3, <1>4 DEF Budgets
<1> QED
  BY <1>2, <1>5 DEF Decode

(***************************************************************************)
(* A budget that decodes is read back as itself after it was written, and  *)
(* one that validates resolves to the numbers its document gives, an       *)
(* explicit zero of host calls included (InvokeBudgetSpec.UnmarshalJSON,   *)
(* MarshalJSON, ResolveInvokeBudget).                                      *)
(***************************************************************************)
THEOREM BudgetsMeanWhatTheySay ==
  ASSUME NEW doc, BudgetDoc(doc), NEW defaults \in Budgets
  PROVE  MeansWhatItSays(doc, defaults)
<1> SUFFICES ASSUME Decodes(doc) PROVE
      /\ Decode(Encode(Decoded(doc))) = <<Decoded(doc)>>
      /\ Validates(Decoded(doc)) => \A f \in DOMAIN doc.given : Resolve(<<Decoded(doc)>>, defaults)[f] = doc.given[f]
  BY DEF MeansWhatItSays
<1> DEFINE b == Decoded(doc)
           S == DOMAIN doc.given
<1>0. S \subseteq Fields /\ doc.given \in [S -> Int]
  BY DEF BudgetDoc
<1>1. b \in Budgets /\ \A f \in Fields : b[f] = IF f \in S THEN doc.given[f] ELSE 0
  BY <1>0, DecodedIsBudget DEF Decoded
<1>2. Required \subseteq S /\ (HTTP \in S => b[HTTP] > 0) /\ (HTTP \notin S => b[HTTP] = 0)
  BY <1>0, <1>1, FieldFacts DEF Decodes
<1> HIDE DEF b
<1>3. Decode(Encode(b)) = <<b>>
  <2>1. b[HTTP] >= 0
    BY <1>1, <1>2, FieldFacts DEF Budgets
  <2> QED
    BY <1>1, <2>1, BudgetReadBack
<1>4. ASSUME Validates(b), NEW f \in DOMAIN doc.given PROVE Resolve(<<b>>, defaults)[f] = doc.given[f]
  <2>1. f \in Fields /\ f \in S /\ b[f] = doc.given[f] /\ b[f] \in Int
    BY <1>0, <1>1, <1>4 DEF Budgets
  <2>2. \A g \in Fields : b[g] <= HostMax[g] /\ b[g] \in Int /\ HostMax[g] \in Nat
    BY <1>1, <1>4, BudgetAssumption DEF Validates, Budgets
  <2>3. Clamp(b)[f] = b[f]
    BY <2>1, <2>2 DEF Clamp
  <2>4. IF f = Calls THEN b[f] >= 0 ELSE b[f] > 0
    BY <1>2, <1>4, <2>1, FieldFacts DEF Validates, Positive
  <2>5. Resolve(<<b>>, defaults)[f] = Filled(Clamp(b))[f]
    BY DEF Resolve
  <2>6. Filled(Clamp(b))[f] = b[f]
    <3>1. CASE f = Calls
      BY <2>1, <2>3, <2>4, <3>1 DEF Filled
    <3>2. CASE f # Calls
      BY <2>1, <2>3, <2>4, <3>2 DEF Filled
    <3> QED
      BY <3>1, <3>2
  <2> QED
    BY <2>1, <2>5, <2>6
<1> QED
  BY <1>3, <1>4 DEF b

\* The server asks a contract for its methods, its scopes and its backing only.
LEMMA GrantsFollow ==
  ASSUME NEW c, NEW d, NEW names, NEW defaults,
         MethodContracts(c) = MethodContracts(d), c.scopes = d.scopes, c.backing = d.backing
  PROVE  Grants(c, names, defaults) = Grants(d, names, defaults)
<1>1. \A n : MethodContract(c, n) = MethodContract(d, n)
  BY DEF MethodContract
<1>2. \A n : EffectiveMethodScopes(c, n) = EffectiveMethodScopes(d, n)
  BY <1>1 DEF EffectiveMethodScopes
<1>3. EffectiveBacking(c) = EffectiveBacking(d)
  BY Zenon DEF EffectiveBacking
<1> QED
  BY <1>1, <1>2, <1>3 DEF Grants

AnySpec == [name : STRING, effect : STRING, scopes : SUBSET STRING, budget : AtMostOne(Budgets)]

\* A method specification with positive budgets, written and read.
LEMMA SpecReadBack ==
  ASSUME NEW m \in AnySpec, \A j \in DOMAIN m.budget : Positive(m.budget[j])
  PROVE  /\ \A j \in DOMAIN Encoded(m).budget : Decodes(Encoded(m).budget[j])
         /\ [Encoded(m) EXCEPT !.budget = [j \in DOMAIN @ |-> Decoded(@[j])]] = m
<1> DEFINE e == [i \in DOMAIN m.budget |-> Encode(m.budget[i])]
<1>1. m.budget \in Seq(Budgets)
  BY DEF AnySpec, AtMostOne
<1>2. \A j \in DOMAIN m.budget : Decodes(Encode(m.budget[j])) /\ Decoded(Encode(m.budget[j])) = m.budget[j]
  BY <1>1, FieldFacts, BudgetReadBack DEF Positive, Budgets
<1>3. Encoded(m) = [name |-> m.name, effect |-> m.effect, scopes |-> m.scopes, budget |-> e]
  BY DEF Encoded, AnySpec
<1>4. Encoded(m).budget = e /\ DOMAIN e = DOMAIN m.budget
  BY <1>3
<1>5. [j \in DOMAIN e |-> Decoded(e[j])] = m.budget
  <2>1. m.budget \in [DOMAIN m.budget -> Budgets]
    BY <1>1
  <2>2. \A j \in DOMAIN m.budget : Decoded(e[j]) = m.budget[j]
    BY <1>2
  <2> HIDE DEF e
  <2> QED
    BY <1>4, <2>1, <2>2
<1>6. [Encoded(m) EXCEPT !.budget = [j \in DOMAIN @ |-> Decoded(@[j])]] = [name |-> m.name, effect |-> m.effect, scopes |-> m.scopes, budget |-> m.budget]
  BY <1>3, <1>4, <1>5
<1>7. m = [name |-> m.name, effect |-> m.effect, scopes |-> m.scopes, budget |-> m.budget]
  BY DEF AnySpec
<1> QED
  BY <1>2, <1>4, <1>6, <1>7

LEMMA ContractReadBack ==
  ASSUME NEW c \in AnyContract, \A i \in DOMAIN c.specs : \A j \in DOMAIN c.specs[i].budget : Positive(c.specs[i].budget[j])
  PROVE  LET r == UnmarshalContract(MarshalContract(c))
         IN r # <<>> /\ MethodContracts(r[1]) = MethodContracts(c) /\ r[1].scopes = c.scopes /\ r[1].backing = c.backing
<1> DEFINE doc == MarshalContract(c)
           names == doc.kind = "names" \/ doc.methods = <<>>
           contract == [methods |-> IF names THEN doc.methods ELSE [i \in DOMAIN doc.methods |-> doc.methods[i].name],
                        specs |-> IF names THEN <<>>
                                  ELSE [i \in DOMAIN doc.methods |->
                                          [doc.methods[i] EXCEPT !.budget = [j \in DOMAIN @ |-> Decoded(@[j])]]],
                        scopes |-> doc.scopes, typed |-> ~names, backing |-> doc.backing]
<1>0. c.specs \in Seq(AnySpec) /\ c.methods \in Seq(STRING) /\ c.typed \in BOOLEAN
  BY DEF AnyContract, AnySpec
<1>1. doc.scopes = c.scopes /\ doc.backing = c.backing
  BY DEF MarshalContract
<1>2. contract.scopes = c.scopes /\ contract.backing = c.backing
  BY <1>1
<1>3. CASE ~TypedMethods(c)
  <2>1. doc.methods = c.methods /\ doc.kind = "names"
    BY <1>3 DEF MarshalContract
  <2>2. UnmarshalContract(doc) = <<contract>>
    BY <2>1 DEF UnmarshalContract
  <2>3. contract.methods = c.methods /\ contract.specs = <<>> /\ contract.typed = FALSE
    BY <2>1
  <2> HIDE DEF contract, doc
  <2>4. ~TypedMethods(contract)
    BY <2>3, Zenon DEF TypedMethods
  <2>5. MethodContracts(contract) = MethodContracts(c)
    BY <1>2, <1>3, <2>3, <2>4 DEF MethodContracts
  <2> QED
    BY <1>2, <2>2, <2>5 DEF contract, doc
<1>4. CASE TypedMethods(c)
  <2>1. doc.methods = [i \in DOMAIN c.specs |-> Encoded(c.specs[i])] /\ doc.kind = "typed"
    BY <1>4 DEF MarshalContract
  <2>2. CASE c.specs = <<>>
    <3>1. doc.methods = <<>>
      BY <2>1, <2>2
    <3>2. UnmarshalContract(doc) = <<contract>>
      BY <3>1 DEF UnmarshalContract
    <3>3. contract.methods = <<>> /\ contract.specs = <<>> /\ contract.typed = FALSE
      BY <3>1
    <3> HIDE DEF contract, doc
    <3>4. ~TypedMethods(contract)
      BY <3>3, Zenon DEF TypedMethods
    <3>5. MethodContracts(contract) = <<>>
      BY <3>3, <3>4 DEF MethodContracts
    <3>6. MethodContracts(c) = <<>>
      BY <1>4, <2>2 DEF MethodContracts
    <3> QED
      BY <1>2, <3>2, <3>5, <3>6 DEF contract, doc
  <2>3. CASE c.specs # <<>>
    <3>1. \A i \in DOMAIN c.specs : c.specs[i] \in AnySpec /\ \A j \in DOMAIN c.specs[i].budget : Positive(c.specs[i].budget[j])
      BY <1>0
    <3>2. DOMAIN doc.methods = DOMAIN c.specs /\ \A i \in DOMAIN c.specs : doc.methods[i] = Encoded(c.specs[i])
      BY <2>1
    <3>3. doc.methods # <<>> /\ ~names
      BY <1>0, <2>1, <2>3, <3>2
    <3>4. \A i \in DOMAIN doc.methods :
            /\ \A j \in DOMAIN doc.methods[i].budget : Decodes(doc.methods[i].budget[j])
            /\ [doc.methods[i] EXCEPT !.budget = [j \in DOMAIN @ |-> Decoded(@[j])]] = c.specs[i]
      BY <3>1, <3>2, SpecReadBack
    <3>5. UnmarshalContract(doc) = <<contract>>
      BY <3>4 DEF UnmarshalContract
    <3>6. contract.specs = [i \in DOMAIN doc.methods |-> [doc.methods[i] EXCEPT !.budget = [j \in DOMAIN @ |-> Decoded(@[j])]]]
      BY <3>3
    <3>7. contract.specs = c.specs
      <4>1. c.specs \in [DOMAIN c.specs -> AnySpec]
        BY <1>0
      <4>2. contract.specs = [i \in DOMAIN c.specs |-> c.specs[i]]
        BY <3>2, <3>4, <3>6
      <4> HIDE DEF contract
      <4> QED
        BY <4>1, <4>2
    <3> HIDE DEF contract, doc
    <3>8. MethodContracts(contract) = c.specs /\ MethodContracts(c) = c.specs
      BY <1>4, <2>3, <3>7 DEF MethodContracts, TypedMethods
    <3> QED
      BY <1>2, <3>5, <3>8 DEF contract, doc
  <2> QED
    BY <2>2, <2>3
<1> QED
  BY <1>3, <1>4

(***************************************************************************)
(* A signed manifest grants after it was written and read what it granted  *)
(* before, for every contract whose budgets validate, and every budget     *)
(* means what its document says and resolves within the host's maxima      *)
(* (InterfaceContract.MarshalJSON and UnmarshalJSON, ResolveInvokeBudget). *)
(***************************************************************************)
THEOREM ManifestsReadBack == Spec => []ManifestReadBack
<1>1. Answers => ManifestReadBack
  <2> SUFFICES ASSUME Answers PROVE ManifestReadBack
    OBVIOUS
  <2> DEFINE q == question.of
  <2>1. ASSUME Answered("budget"), NEW d \in OwnDefaults PROVE MeansWhatItSays(q, d) /\ WithinHost(Resolve(answer[1], d))
    <3>1. From("budget", q)
      BY <2>1 DEF Answers, RightAnswer, Answered
    <3>2. BudgetDoc(q)
      BY <3>1, InputAssumption DEF From
    <3>3. answer[1] = Decode(q)
      BY <2>1 DEF Answers, RightAnswer, Put, Answered
    <3> HIDE DEF q
    <3>4. Decode(q) \in Seq(Budgets)
      BY <3>2, DecodedIsBudget DEF Decode
    <3>5. d \in Budgets
      BY ValidationAssumption
    <3> QED
      BY <3>2, <3>3, <3>4, <3>5, BudgetsMeanWhatTheySay, ResolvesWithinHost
  <2>2. ASSUME Answered("contract"), \A i \in DOMAIN q.specs : \A j \in DOMAIN q.specs[i].budget : Positive(q.specs[i].budget[j])
        PROVE  answer[1] # <<>> /\ Grants(answer[1][1], MethodNames, Default) = Grants(q, MethodNames, Default)
    <3>1. q \in AnyContract
      BY <2>2, InputAssumption, Given DEF Answered
    <3>2. answer[1] = UnmarshalContract(MarshalContract(q))
      BY <2>2 DEF Answers, RightAnswer, Put, Answered
    <3> HIDE DEF q
    <3> QED
      BY <2>2, <3>1, <3>2, ContractReadBack, GrantsFollow
  <2> QED
    BY <2>1, <2>2 DEF ManifestReadBack
<1> QED
  BY <1>1, AnswersHold, PTL

-----------------------------------------------------------------------------
(***************************************************************************)
(* Names, URLs and methods in canonical form.                              *)
(***************************************************************************)
LEMMA LowerFields ==
  ASSUME NEW h, NEW f, NEW d, NEW b
  PROVE  LET l == DNS!Lower(h, f, d, b)
         IN l.kind = h.kind /\ l.id = h.id /\ l.form = f /\ l.dot = d /\ l.zone = h.zone /\ l.brackets = b
BY DEF DNS!Lower

LEMMA LowerSame ==
  ASSUME NEW h, NEW f, NEW d, NEW b, NEW g, g.kind = h.kind, g.id = h.id, g.zone = h.zone
  PROVE  DNS!Lower(h, f, d, b) = DNS!Lower(g, f, d, b)
BY DEF DNS!Lower

LEMMA LowerApart ==
  ASSUME NEW h, NEW f, NEW d, NEW b, NEW g, NEW k, NEW e, NEW c, DNS!Lower(h, f, d, b) = DNS!Lower(g, k, e, c)
  PROVE  g.kind = h.kind /\ g.id = h.id /\ g.zone = h.zone /\ f = k /\ d = e /\ b = c
BY DEF DNS!Lower

LEMMA CanonicalFields ==
  ASSUME NEW h
  PROVE  LET l == DNS!Canonical(h)
         IN l.kind = h.kind /\ l.id = h.id /\ l.form = DNS!AsNetip /\ ~l.dot /\ l.zone = h.zone /\ ~l.brackets
<1>1. PICK f : f = FALSE
  BY Zenon
<1> DEFINE l == DNS!Lower(h, DNS!AsNetip, f, f)
<1>2. DNS!Canonical(h) = l
  BY <1>1, Zenon DEF DNS!Canonical
<1>3. l.dot = f /\ l.brackets = f
  BY LowerFields
<1>4. ~l.dot /\ ~l.brackets
  BY <1>1, <1>3, Zenon
<1> QED
  BY <1>2, <1>4, LowerFields

LEMMA CanonicalSame ==
  ASSUME NEW h, NEW g PROVE DNS!Canonical(g) = DNS!Canonical(h) <=> g.kind = h.kind /\ g.id = h.id /\ g.zone = h.zone
<1>1. PICK f : f = FALSE
  BY Zenon
<1>2. DNS!Canonical(h) = DNS!Lower(h, DNS!AsNetip, f, f) /\ DNS!Canonical(g) = DNS!Lower(g, DNS!AsNetip, f, f)
  BY <1>1, Zenon DEF DNS!Canonical
<1> QED
  BY <1>2, LowerSame, LowerApart

LEMMA InURLFields ==
  ASSUME NEW h
  PROVE  LET l == DNS!InURL(h)
         IN l.kind = h.kind /\ l.id = h.id /\ l.form = h.form /\ l.dot = h.dot /\ l.zone = h.zone /\ (l.brackets <=> h.kind = "ip6")
<1>1. PICK f : f = (h.kind = "ip6")
  BY Zenon
<1>2. DNS!InURL(h) = DNS!Lower(h, h.form, h.dot, f)
  BY <1>1, Zenon DEF DNS!InURL
<1>3. DNS!Lower(h, h.form, h.dot, f).brackets = f
  BY LowerFields
<1>4. DNS!Lower(h, h.form, h.dot, f).brackets <=> h.kind = "ip6"
  BY <1>1, <1>3, Zenon
<1> QED
  BY <1>2, <1>4, LowerFields

LEMMA InURLSame ==
  ASSUME NEW h, NEW g
  PROVE  DNS!InURL(g) = DNS!InURL(h) <=> g.kind = h.kind /\ g.id = h.id /\ g.zone = h.zone /\ g.form = h.form /\ g.dot = h.dot
<1>1. PICK f : f = (h.kind = "ip6")
  BY Zenon
<1>2. DNS!InURL(h) = DNS!Lower(h, h.form, h.dot, f)
  BY <1>1, Zenon DEF DNS!InURL
<1>3. PICK e : e = (g.kind = "ip6")
  BY Zenon
<1>4. DNS!InURL(g) = DNS!Lower(g, g.form, g.dot, e)
  BY <1>3, Zenon DEF DNS!InURL
<1>5. g.kind = h.kind => e = f
  BY <1>1, <1>3, Zenon
<1> QED
  BY <1>2, <1>4, <1>5, LowerSame, LowerApart

\* Writing a host in lower case changes nothing but its spelling.
LEMMA HostForms ==
  ASSUME NEW h
  PROVE  /\ DNS!Canonical(DNS!Canonical(h)) = DNS!Canonical(h)
         /\ DNS!Canonical(DNS!InURL(h)) = DNS!Canonical(h)
         /\ DNS!InURL(DNS!InURL(h)) = DNS!InURL(h)
BY CanonicalFields, CanonicalSame, InURLFields, InURLSame

LEMMA OnlySixHasZone == ASSUME NEW h \in AnyHost PROVE h.zone \in BOOLEAN /\ (h.kind # "ip6" => h.zone = FALSE)
BY DEF AnyHost

LEMMA NormalizedName ==
  ASSUME NEW h
  PROVE  /\ DNS!NormalizeDNSName(h) # DNS!Failed <=> h.kind \in {"name", "ip4"}
         /\ h.kind \in {"name", "ip4"} => DNS!NormalizeDNSName(h) = <<DNS!Canonical(h)>>
BY DEF DNS!NormalizeDNSName, DNS!Failed

LEMMA ResolverHosts ==
  ASSUME NEW h \in AnyHost, DNS!ResolverHost(h) # DNS!Failed
  PROVE  /\ DNS!ResolverHost(h) = <<DNS!Canonical(h)>> /\ h.zone = FALSE
         /\ DNS!ResolverHost(DNS!InURL(DNS!Canonical(h))) = <<DNS!Canonical(h)>>
<1> DEFINE c == DNS!InURL(DNS!Canonical(h))
<1>1. DNS!ResolverHost(h) = <<DNS!Canonical(h)>>
  BY NormalizedName DEF DNS!ResolverHost, DNS!Unbracketed
<1>2. h.kind \in {"name", "ip4", "ip6"}
  BY NormalizedName DEF DNS!ResolverHost, DNS!Unbracketed
<1>3. ~h.zone
  BY OnlySixHasZone, NormalizedName DEF DNS!ResolverHost, DNS!Unbracketed
<1>4. h.zone = FALSE
  BY <1>3, OnlySixHasZone, Zenon
<1>5. c.kind = h.kind /\ c.zone = h.zone /\ (c.brackets <=> h.kind = "ip6") /\ c.dot = DNS!Canonical(h).dot
  BY CanonicalFields, InURLFields
<1>6. ~DNS!Canonical(h).dot
  BY CanonicalFields
<1>7. DNS!Canonical(c) = DNS!Canonical(h)
  BY HostForms
<1> HIDE DEF c
<1>8. ~c.dot /\ ~c.zone
  BY <1>3, <1>5, <1>6
<1>9. DNS!ResolverHost(c) = <<DNS!Canonical(h)>>
  BY <1>2, <1>5, <1>7, <1>8, NormalizedName DEF DNS!ResolverHost, DNS!Unbracketed
<1> QED
  BY <1>1, <1>4, <1>9 DEF c

-----------------------------------------------------------------------------
PortOf(t) == IF t.port = DNS!None THEN DNS!DefaultPort(t.scheme) ELSE t.port
PathOf(t) == IF t.scheme = "https" THEN t.path ELSE DNS!NoPath
ResolverOf(t) == [transport |-> t.scheme, host |-> DNS!Canonical(t.host), port |-> PortOf(t), path |-> PathOf(t)]

Resolves(t) ==
  /\ ~t.opaque /\ ~DNS!Nameless(t.host) /\ t.scheme \in {"https", "tls", "udp", "tcp"} /\ ~t.extras
  /\ t.port = DNS!None \/ t.port \in 1..DNS!MaxPort
  /\ DNS!ResolverHost(t.host) = <<DNS!Canonical(t.host)>>
  /\ t.scheme = "https" <=> ~DNS!Bare(t.path)

LEMMA ResolverParsed ==
  ASSUME NEW t
  PROVE  /\ Resolves(t) => DNS!ParseDNSResolver(t) = <<ResolverOf(t)>>
         /\ t.host \in AnyHost /\ DNS!ParseDNSResolver(t) # DNS!Failed => Resolves(t)
<1>1. Resolves(t) => DNS!ParseDNSResolver(t) = <<ResolverOf(t)>>
  <2> SUFFICES ASSUME Resolves(t) PROVE DNS!ParseDNSResolver(t) = <<ResolverOf(t)>>
    OBVIOUS
  <2>1. DNS!ResolverHost(t.host) = <<DNS!Canonical(t.host)>> /\ DNS!ResolverHost(t.host) # DNS!Failed /\ DNS!ResolverHost(t.host)[1] = DNS!Canonical(t.host)
    BY DEF Resolves, DNS!Failed
  <2>2. t.port # DNS!Empty /\ (t.port = DNS!None \/ t.port \in 1..DNS!MaxPort)
    BY DEF Resolves, DNS!Empty, DNS!MaxPort, DNS!None
  <2>3. ~((t.scheme = "https") # ~DNS!Bare(t.path))
    BY Zenon DEF Resolves
  <2> QED
    BY <2>1, <2>2, <2>3, Zenon DEF Resolves, DNS!ParseDNSResolver, ResolverOf, PortOf, PathOf
<1>2. ASSUME t.host \in AnyHost, DNS!ParseDNSResolver(t) # DNS!Failed PROVE Resolves(t)
  <2>1. /\ ~t.opaque /\ ~DNS!Nameless(t.host) /\ t.scheme \in {"https", "tls", "udp", "tcp"} /\ ~t.extras
        /\ t.port = DNS!None \/ t.port \in 1..DNS!MaxPort
        /\ DNS!ResolverHost(t.host) # DNS!Failed
        /\ t.scheme = "https" <=> ~DNS!Bare(t.path)
    BY <1>2, Zenon DEF DNS!ParseDNSResolver
  <2> QED
    BY <1>2, <2>1, ResolverHosts DEF Resolves
<1> QED
  BY <1>1, <1>2

LEMMA TextFields ==
  ASSUME NEW r
  PROVE  LET s == DNS!String(r)
         IN /\ s.scheme = r.transport /\ s.host = DNS!InURL(r.host) /\ s.path = r.path /\ ~s.opaque /\ ~s.extras
            /\ s.port = IF r.port = DNS!DefaultPort(r.transport) THEN DNS!None ELSE r.port
<1>1. PICK f : f = FALSE
  BY Zenon
<1> DEFINE port == IF r.port = DNS!DefaultPort(r.transport) THEN DNS!None ELSE r.port
           s == [scheme |-> r.transport, upper |-> f, opaque |-> f, extras |-> f, host |-> DNS!InURL(r.host), port |-> port, zeros |-> 0, path |-> r.path]
<1>2. DNS!String(r) = s
  BY <1>1, Zenon DEF DNS!String
<1>3. s.scheme = r.transport /\ s.host = DNS!InURL(r.host) /\ s.path = r.path /\ s.opaque = f /\ s.extras = f /\ s.port = port
  OBVIOUS
<1>4. ~s.opaque /\ ~s.extras
  BY <1>1, <1>3, Zenon
<1> QED
  BY <1>2, <1>3, <1>4

LEMMA TextSame ==
  ASSUME NEW r, NEW s, DNS!InURL(r.host) = DNS!InURL(s.host), r.transport = s.transport, r.port = s.port, r.path = s.path
  PROVE  DNS!String(r) = DNS!String(s)
BY Zenon DEF DNS!String

LEMMA PortsBelow == ASSUME NEW scheme PROVE DNS!DefaultPort(scheme) \in 1..DNS!MaxPort /\ DNS!None \notin 1..DNS!MaxPort
BY DEF DNS!DefaultPort, DNS!MaxPort, DNS!None

LEMMA BarePath == DNS!Bare(DNS!NoPath)
BY Zenon DEF DNS!Bare, DNS!NoPath

LEMMA ResolverFields ==
  ASSUME NEW t
  PROVE  LET r == ResolverOf(t) IN r.transport = t.scheme /\ r.host = DNS!Canonical(t.host) /\ r.port = PortOf(t) /\ r.path = PathOf(t)
BY DEF ResolverOf

LEMMA OneTextHolds == ASSUME NEW t \in AnyTarget, NEW u \in AnyTarget PROVE DNS!OneText(t, u)
<1>0. t.host \in AnyHost /\ u.host \in AnyHost /\ t.port \in Int /\ u.port \in Int
  BY DEF AnyTarget
<1>1. ASSUME DNS!ParseDNSResolver(t) # DNS!Failed PROVE DNS!ParseDNSResolver(DNS!String(DNS!ParseDNSResolver(t)[1])) = DNS!ParseDNSResolver(t)
  <2>1. Resolves(t) /\ DNS!ParseDNSResolver(t) = <<ResolverOf(t)>>
    BY <1>0, <1>1, ResolverParsed
  <2> DEFINE r == ResolverOf(t)
             s == DNS!String(r)
  <2>2. s.scheme = t.scheme /\ s.host = DNS!InURL(DNS!Canonical(t.host)) /\ s.path = PathOf(t) /\ ~s.opaque /\ ~s.extras
    BY TextFields, ResolverFields
  <2>3. s.port = IF PortOf(t) = DNS!DefaultPort(t.scheme) THEN DNS!None ELSE PortOf(t)
    BY TextFields, ResolverFields
  <2>4. PortOf(t) \in 1..DNS!MaxPort
    BY <2>1, PortsBelow DEF Resolves, PortOf
  <2>5. s.port = DNS!None \/ s.port \in 1..DNS!MaxPort
    BY <2>3, <2>4
  <2> HIDE DEF r, s
  <2>6. DNS!ResolverHost(s.host) = <<DNS!Canonical(t.host)>> /\ DNS!Canonical(s.host) = DNS!Canonical(t.host)
    <3>1. DNS!ResolverHost(t.host) # DNS!Failed
      BY <2>1 DEF Resolves, DNS!Failed
    <3>2. DNS!Canonical(DNS!InURL(DNS!Canonical(t.host))) = DNS!Canonical(t.host)
      BY HostForms
    <3> QED
      BY <1>0, <2>2, <3>1, <3>2, ResolverHosts
  <2>7. DNS!Nameless(s.host) <=> DNS!Nameless(t.host)
    <3>1. s.host.id = t.host.id
      BY <2>2, CanonicalFields, InURLFields
    <3> QED
      BY <3>1, Zenon DEF DNS!Nameless
  <2>8. s.scheme = "https" <=> ~DNS!Bare(s.path)
    BY <2>1, <2>2, BarePath DEF Resolves, PathOf
  <2>9. Resolves(s)
    BY <2>1, <2>2, <2>5, <2>6, <2>7, <2>8 DEF Resolves
  <2>10. PortOf(s) = PortOf(t) /\ PathOf(s) = PathOf(t)
    BY <2>2, <2>3, <2>4, PortsBelow DEF PortOf, PathOf
  <2>11. ResolverOf(s) = ResolverOf(t)
    BY <2>2, <2>6, <2>10 DEF ResolverOf
  <2> QED
    BY <2>1, <2>9, <2>11, ResolverParsed DEF r, s
<1>2. ASSUME DNS!ParseDNSResolver(t) # DNS!Failed, DNS!ParseDNSResolver(u) # DNS!Failed
      PROVE  DNS!String(DNS!ParseDNSResolver(t)[1]) = DNS!String(DNS!ParseDNSResolver(u)[1]) <=> DNS!Endpoint(t) = DNS!Endpoint(u)
  <2>1. Resolves(t) /\ DNS!ParseDNSResolver(t) = <<ResolverOf(t)>> /\ Resolves(u) /\ DNS!ParseDNSResolver(u) = <<ResolverOf(u)>>
    BY <1>0, <1>2, ResolverParsed
  <2>2. PortOf(t) \in 1..DNS!MaxPort /\ PortOf(u) \in 1..DNS!MaxPort
    BY <2>1, PortsBelow DEF Resolves, PortOf
  <2>3. t.host.zone = u.host.zone
    <3>1. DNS!ResolverHost(t.host) # DNS!Failed /\ DNS!ResolverHost(u.host) # DNS!Failed
      BY <2>1 DEF Resolves, DNS!Failed
    <3>2. t.host.zone = FALSE
      BY <1>0, <3>1, ResolverHosts
    <3>3. u.host.zone = FALSE
      BY <1>0, <3>1, ResolverHosts
    <3> QED
      BY <3>2, <3>3, Zenon
  <2>4. DNS!Endpoint(t) = DNS!Endpoint(u) <=> t.scheme = u.scheme /\ t.host.kind = u.host.kind /\ t.host.id = u.host.id /\ PortOf(t) = PortOf(u) /\ PathOf(t) = PathOf(u)
    BY DEF DNS!Endpoint, PortOf, PathOf
  <2>5. DNS!InURL(DNS!Canonical(t.host)) = DNS!InURL(DNS!Canonical(u.host)) <=> t.host.kind = u.host.kind /\ t.host.id = u.host.id
    <3>1. DNS!Canonical(t.host) = DNS!Canonical(u.host) <=> t.host.kind = u.host.kind /\ t.host.id = u.host.id
      BY <2>3, CanonicalSame
    <3>2. DNS!InURL(DNS!Canonical(t.host)) = DNS!InURL(DNS!Canonical(u.host)) => t.host.kind = u.host.kind /\ t.host.id = u.host.id
      BY InURLSame, CanonicalFields
    <3> QED
      BY <3>1, <3>2
  <2> DEFINE r == ResolverOf(t)
             s == ResolverOf(u)
  <2>6. ASSUME DNS!String(r) = DNS!String(s) PROVE DNS!Endpoint(t) = DNS!Endpoint(u)
    <3>1. t.scheme = u.scheme /\ DNS!InURL(DNS!Canonical(t.host)) = DNS!InURL(DNS!Canonical(u.host)) /\ PathOf(t) = PathOf(u)
      <4>1. DNS!String(r).scheme = DNS!String(s).scheme /\ DNS!String(r).host = DNS!String(s).host /\ DNS!String(r).path = DNS!String(s).path
        BY <2>6
      <4>2. DNS!String(r).scheme = t.scheme /\ DNS!String(r).host = DNS!InURL(DNS!Canonical(t.host)) /\ DNS!String(r).path = PathOf(t)
        BY TextFields, ResolverFields
      <4>3. DNS!String(s).scheme = u.scheme /\ DNS!String(s).host = DNS!InURL(DNS!Canonical(u.host)) /\ DNS!String(s).path = PathOf(u)
        BY TextFields, ResolverFields
      <4> QED
        BY <4>1, <4>2, <4>3
    <3>2. (IF PortOf(t) = DNS!DefaultPort(t.scheme) THEN DNS!None ELSE PortOf(t)) = (IF PortOf(u) = DNS!DefaultPort(u.scheme) THEN DNS!None ELSE PortOf(u))
      <4>1. DNS!String(r).port = DNS!String(s).port
        BY <2>6
      <4>2. DNS!String(r).port = IF PortOf(t) = DNS!DefaultPort(t.scheme) THEN DNS!None ELSE PortOf(t)
        BY TextFields, ResolverFields
      <4>3. DNS!String(s).port = IF PortOf(u) = DNS!DefaultPort(u.scheme) THEN DNS!None ELSE PortOf(u)
        BY TextFields, ResolverFields
      <4> QED
        BY <4>1, <4>2, <4>3
    <3>3. PortOf(t) = PortOf(u)
      BY <2>2, <3>1, <3>2, PortsBelow
    <3> QED
      BY <2>4, <2>5, <3>1, <3>3
  <2>7. ASSUME DNS!Endpoint(t) = DNS!Endpoint(u) PROVE DNS!String(r) = DNS!String(s)
    BY <2>4, <2>5, <2>7, TextSame, ResolverFields
  <2> QED
    BY <2>1, <2>6, <2>7
<1> QED
  BY <1>1, <1>2, Zenon DEF DNS!OneText

-----------------------------------------------------------------------------
OriginOf(t) == [scheme |-> t.scheme, host |-> DNS!InURL(t.host), port |-> DNS!OriginPort(t), zeros |-> DNS!OriginZeros(t)]
HasOrigin(t) == ~t.opaque /\ ~DNS!Unbracketed(t.host) /\ t.scheme \in {"http", "https"} /\ ~DNS!Nameless(t.host)

LEMMA OriginParsed ==
  ASSUME NEW t
  PROVE  /\ DNS!MonitorOrigin(t) # DNS!Failed <=> HasOrigin(t)
         /\ HasOrigin(t) => DNS!MonitorOrigin(t) = <<OriginOf(t)>>
<1>1. DNS!MonitorOrigin(t) = IF HasOrigin(t) THEN <<OriginOf(t)>> ELSE DNS!Failed
  BY Zenon DEF DNS!MonitorOrigin, HasOrigin, OriginOf
<1>2. <<OriginOf(t)>> # DNS!Failed
  BY DEF DNS!Failed
<1> QED
  BY <1>1, <1>2

LEMMA OriginFields ==
  ASSUME NEW o
  PROVE  LET s == DNS!OriginText(o) IN s.scheme = o.scheme /\ s.host = o.host /\ s.port = o.port /\ s.zeros = o.zeros /\ ~s.opaque
<1>1. PICK f : f = FALSE
  BY Zenon
<1> DEFINE s == [scheme |-> o.scheme, upper |-> f, opaque |-> f, extras |-> f, host |-> o.host, port |-> o.port, zeros |-> o.zeros, path |-> DNS!NoPath]
<1>2. DNS!OriginText(o) = s
  BY <1>1, Zenon DEF DNS!OriginText
<1>3. s.scheme = o.scheme /\ s.host = o.host /\ s.port = o.port /\ s.zeros = o.zeros /\ s.opaque = f
  OBVIOUS
<1>4. ~s.opaque
  BY <1>1, <1>3, Zenon
<1> QED
  BY <1>2, <1>3, <1>4

LEMMA OneOriginHolds == ASSUME NEW t \in AnyTarget, NEW u \in AnyTarget PROVE DNS!OneOrigin(t, u)
<1>1. ASSUME HasOrigin(t) PROVE DNS!MonitorOrigin(DNS!OriginText(DNS!MonitorOrigin(t)[1])) = DNS!MonitorOrigin(t)
  <2> DEFINE s == DNS!OriginText(OriginOf(t))
  <2>1. s.scheme = t.scheme /\ s.host = DNS!InURL(t.host) /\ s.port = DNS!OriginPort(t) /\ s.zeros = DNS!OriginZeros(t) /\ ~s.opaque
    <3>1. OriginOf(t).scheme = t.scheme /\ OriginOf(t).host = DNS!InURL(t.host) /\ OriginOf(t).port = DNS!OriginPort(t) /\ OriginOf(t).zeros = DNS!OriginZeros(t)
      BY DEF OriginOf
    <3> QED
      BY <3>1, OriginFields
  <2>2. DNS!OriginPort(t) \notin {DNS!None, DNS!Empty}
    BY DEF DNS!OriginPort, DNS!Portless, DNS!None, DNS!Empty
  <2> HIDE DEF s
  <2>3. DNS!OriginPort(s) = DNS!OriginPort(t) /\ DNS!OriginZeros(s) = DNS!OriginZeros(t)
    <3>1. ~DNS!Portless(s)
      BY <2>1, <2>2, Zenon DEF DNS!Portless
    <3> QED
      BY <2>1, <3>1, Zenon DEF DNS!OriginPort, DNS!OriginZeros
  <2>4. (DNS!Nameless(s.host) <=> DNS!Nameless(t.host)) /\ ~DNS!Unbracketed(s.host)
    <3>1. s.host.id = t.host.id /\ s.host.kind = t.host.kind /\ (s.host.brackets <=> t.host.kind = "ip6")
      BY <2>1, InURLFields
    <3> QED
      BY <3>1, Zenon DEF DNS!Nameless, DNS!Unbracketed
  <2>5. HasOrigin(s)
    BY <1>1, <2>1, <2>4, Zenon DEF HasOrigin
  <2>6. DNS!InURL(s.host) = DNS!InURL(t.host)
    BY <2>1, HostForms
  <2>7. OriginOf(s) = OriginOf(t)
    BY <2>1, <2>3, <2>6, Zenon DEF OriginOf
  <2>8. DNS!MonitorOrigin(t) = <<OriginOf(t)>> /\ DNS!MonitorOrigin(s) = <<OriginOf(s)>>
    BY <1>1, <2>5, OriginParsed
  <2> QED
    BY <2>7, <2>8 DEF s
<1>2. ASSUME HasOrigin(t), HasOrigin(u)
      PROVE  DNS!MonitorOrigin(t) = DNS!MonitorOrigin(u) <=> DNS!Reached(t) = DNS!Reached(u) /\ DNS!Spelled(t) = DNS!Spelled(u)
  <2>1. DNS!MonitorOrigin(t) = <<OriginOf(t)>> /\ DNS!MonitorOrigin(u) = <<OriginOf(u)>>
    BY <1>2, OriginParsed
  <2>2. OriginOf(t) = OriginOf(u)
        <=> /\ t.scheme = u.scheme /\ DNS!InURL(t.host) = DNS!InURL(u.host)
            /\ DNS!OriginPort(t) = DNS!OriginPort(u) /\ DNS!OriginZeros(t) = DNS!OriginZeros(u)
    BY DEF OriginOf
  <2>3. DNS!InURL(t.host) = DNS!InURL(u.host)
        <=> t.host.kind = u.host.kind /\ t.host.id = u.host.id /\ t.host.zone = u.host.zone /\ t.host.form = u.host.form /\ t.host.dot = u.host.dot
    BY InURLSame
  <2>4. DNS!Reached(t) = DNS!Reached(u)
        <=> /\ t.scheme = u.scheme /\ t.host.kind = u.host.kind /\ t.host.id = u.host.id /\ t.host.dot = u.host.dot
            /\ t.host.zone = u.host.zone /\ DNS!OriginPort(t) = DNS!OriginPort(u)
    BY DEF DNS!Reached
  <2>5. DNS!Spelled(t) = DNS!Spelled(u) <=> t.host.form = u.host.form /\ DNS!OriginZeros(t) = DNS!OriginZeros(u)
    BY DEF DNS!Spelled
  <2>6. <<OriginOf(t)>> = <<OriginOf(u)>> <=> OriginOf(t) = OriginOf(u)
    OBVIOUS
  <2> QED
    BY <2>1, <2>2, <2>3, <2>4, <2>5, <2>6, Zenon
<1> QED
  BY <1>1, <1>2, OriginParsed, Zenon DEF DNS!OneOrigin

-----------------------------------------------------------------------------
\* What each record type takes, of an address or a name.
ValueTaken(typ, v) ==
  \/ typ = "A" /\ v.kind = "ip4" /\ ~v.dot /\ ~v.zone
  \/ typ = "AAAA" /\ v.kind = "ip6" /\ ~v.dot /\ ~v.zone
  \/ typ \in {"CNAME", "MX", "NS"} /\ v.kind \in {"name", "ip4"}

LEMMA ValueCanonical ==
  ASSUME NEW typ, NEW v, typ # "TXT"
  PROVE  DNS!CanonicalDNSValue(typ, v) = IF ValueTaken(typ, v) THEN <<DNS!Canonical(v)>> ELSE DNS!Failed
<1>1. CASE typ = "A"
  BY <1>1 DEF DNS!CanonicalDNSValue, ValueTaken
<1>2. CASE typ = "AAAA"
  BY <1>2 DEF DNS!CanonicalDNSValue, ValueTaken
<1>3. CASE typ \in {"CNAME", "MX", "NS"}
  BY <1>3 DEF DNS!CanonicalDNSValue, ValueTaken, DNS!NormalizeDNSName
<1>4. CASE typ \notin {"A", "AAAA", "CNAME", "MX", "NS"}
  BY <1>4 DEF DNS!CanonicalDNSValue, ValueTaken
<1> QED
  BY <1>1, <1>2, <1>3, <1>4

LEMMA TextValue == ASSUME NEW v PROVE DNS!CanonicalDNSValue("TXT", v) = IF DNS!Nameless(v) THEN DNS!Failed ELSE <<v>>
BY DEF DNS!CanonicalDNSValue

LEMMA OneValueHolds == ASSUME NEW typ \in STRING, NEW v \in AnyHost, NEW w \in AnyHost PROVE DNS!OneValue(typ, v, w)
<1>1. ASSUME DNS!CanonicalDNSValue(typ, v) # DNS!Failed
      PROVE  DNS!CanonicalDNSValue(typ, DNS!CanonicalDNSValue(typ, v)[1]) = DNS!CanonicalDNSValue(typ, v)
  <2>1. CASE typ = "TXT"
    BY <1>1, <2>1, TextValue
  <2>2. CASE typ # "TXT"
    <3> DEFINE c == DNS!Canonical(v)
    <3>1. ValueTaken(typ, v) /\ DNS!CanonicalDNSValue(typ, v) = <<c>>
      BY <1>1, <2>2, ValueCanonical
    <3>2. c.kind = v.kind /\ c.zone = v.zone /\ ~c.dot
      BY CanonicalFields
    <3>3. DNS!Canonical(c) = c
      BY HostForms
    <3> HIDE DEF c
    <3>4. ValueTaken(typ, c)
      BY <3>1, <3>2 DEF ValueTaken
    <3> QED
      BY <2>2, <3>1, <3>3, <3>4, ValueCanonical
  <2> QED
    BY <2>1, <2>2
<1>2. ASSUME DNS!CanonicalDNSValue(typ, v) # DNS!Failed, DNS!CanonicalDNSValue(typ, w) # DNS!Failed, typ # "TXT"
      PROVE  DNS!CanonicalDNSValue(typ, v) = DNS!CanonicalDNSValue(typ, w) <=> v.kind = w.kind /\ v.id = w.id
  <2>1. /\ ValueTaken(typ, v) /\ DNS!CanonicalDNSValue(typ, v) = <<DNS!Canonical(v)>>
        /\ ValueTaken(typ, w) /\ DNS!CanonicalDNSValue(typ, w) = <<DNS!Canonical(w)>>
    BY <1>2, ValueCanonical
  <2>2. ~v.zone /\ ~w.zone
    BY <2>1, OnlySixHasZone DEF ValueTaken
  <2>3. v.zone = w.zone
    BY <2>2, OnlySixHasZone, Zenon
  <2> QED
    BY <2>1, <2>3, CanonicalSame
<1> QED
  BY <1>1, <1>2, Zenon DEF DNS!OneValue

-----------------------------------------------------------------------------
(***************************************************************************)
(* Status ranges: merging.                                                 *)
(***************************************************************************)
Ranges == [lo : Int, hi : Int]
Lists == {s \in Seq(Ranges) : Len(s) > 0}

LEMMA RangeFields == ASSUME NEW r \in Ranges PROVE r.lo \in Int /\ r.hi \in Int /\ r = [lo |-> r.lo, hi |-> r.hi]
BY DEF Ranges

LEMMA ListFacts ==
  ASSUME NEW s \in Lists
  PROVE  /\ s \in Seq(Ranges) /\ Len(s) \in Nat /\ Len(s) > 0 /\ DOMAIN s = 1..Len(s)
         /\ \A i \in 1..Len(s) : s[i] \in Ranges /\ s[i].lo \in Int /\ s[i].hi \in Int
<1>1. s \in Seq(Ranges) /\ Len(s) \in Nat /\ Len(s) > 0 /\ DOMAIN s = 1..Len(s)
  BY DEF Lists
<1>2. \A i \in 1..Len(s) : s[i] \in Ranges
  BY <1>1
<1> QED
  BY <1>1, <1>2, RangeFields

LEMMA OneRange == ASSUME NEW r \in Ranges PROVE <<r>> \in Lists /\ Len(<<r>>) = 1 /\ <<r>>[1] = r /\ DOMAIN <<r>> = 1..1
BY DEF Lists

LEMMA BelowLast == ASSUME NEW L \in Nat, NEW j \in 1..L, j # L PROVE j \in 1..(L - 1) /\ j + 1 \in 1..L
OBVIOUS

Joined(done, r) ==
  LET last == done[Len(done)]
  IN IF r.lo <= last.hi + 1 THEN [done EXCEPT ![Len(done)] = Widen(last, r)] ELSE Append(done, r)

MergeStep(ordered, g, i) == IF i = 1 THEN <<ordered[1]>> ELSE Joined(g[i - 1], ordered[i])

LEMMA WidenIs ==
  ASSUME NEW last \in Ranges, NEW r \in Ranges
  PROVE  Widen(last, r) = [lo |-> last.lo, hi |-> IF r.hi > last.hi THEN r.hi ELSE last.hi]
BY DEF Widen, Ranges

LEMMA WidenRange == ASSUME NEW last \in Ranges, NEW r \in Ranges PROVE Widen(last, r) \in Ranges
<1>1. last.lo \in Int /\ last.hi \in Int /\ r.hi \in Int
  BY RangeFields
<1>2. PICK h \in Int : h = IF r.hi > last.hi THEN r.hi ELSE last.hi
  BY <1>1
<1>3. Widen(last, r) = [lo |-> last.lo, hi |-> h]
  BY <1>2, WidenIs
<1> QED
  BY <1>1, <1>3 DEF Ranges

\* A range that begins in or next to another one covers no code between them.
LEMMA Glued ==
  ASSUME NEW a \in Int, NEW b \in Int, NEW x \in Int, NEW y \in Int, NEW c \in Int, a <= x, x <= b + 1, x <= y, a <= b
  PROVE  (a <= c /\ c <= (IF y > b THEN y ELSE b)) <=> (a <= c /\ c <= b) \/ (x <= c /\ c <= y)
OBVIOUS

LEMMA JoinedIs ==
  ASSUME NEW done \in Lists, NEW r \in Ranges
  PROVE  /\ Joined(done, r) \in Lists
         /\ r.lo <= done[Len(done)].hi + 1 =>
              /\ Len(Joined(done, r)) = Len(done)
              /\ \A k \in 1..(Len(done) - 1) : Joined(done, r)[k] = done[k]
              /\ Joined(done, r)[Len(done)] = Widen(done[Len(done)], r)
         /\ ~(r.lo <= done[Len(done)].hi + 1) => Joined(done, r) = Append(done, r)
<1>1. done \in Seq(Ranges) /\ Len(done) \in Nat /\ Len(done) > 0 /\ done[Len(done)] \in Ranges
  BY DEF Lists
<1>2. Widen(done[Len(done)], r) \in Ranges
  BY <1>1, WidenRange
<1>3. CASE r.lo <= done[Len(done)].hi + 1
  <2>1. Joined(done, r) = [done EXCEPT ![Len(done)] = Widen(done[Len(done)], r)]
    BY <1>3 DEF Joined
  <2> QED
    BY <1>1, <1>2, <1>3, <2>1 DEF Lists
<1>4. CASE ~(r.lo <= done[Len(done)].hi + 1)
  <2>1. Joined(done, r) = Append(done, r)
    BY <1>4 DEF Joined
  <2> QED
    BY <1>1, <1>4, <2>1 DEF Lists
<1> QED
  BY <1>3, <1>4

LEMMA MergeExists ==
  ASSUME NEW o \in Lists
  PROVE  \E g : g = [i \in 1..Len(o) |-> MergeStep(o, g, i)]
<1>n. PICK n \in Nat : n = Len(o)
  BY ListFacts
<1> DEFINE F == [1..n -> Lists]
           next == [i \in 1..n |-> [g \in F |-> MergeStep(o, g, i)]]
<1>0. n \in Nat /\ n > 0 /\ \A i \in 1..n : o[i] \in Ranges
  BY <1>n, ListFacts
<1>1. ASSUME NEW i \in 1..n, NEW g \in F PROVE MergeStep(o, g, i) \in Lists
  <2>1. CASE i = 1
    BY <1>0, <2>1 DEF MergeStep, Lists
  <2>2. CASE i # 1
    <3>1. g[i - 1] \in Lists /\ o[i] \in Ranges
      BY <1>0, <2>2
    <3> QED
      BY <2>2, <3>1, JoinedIs DEF MergeStep
  <2> QED
    BY <2>1, <2>2
<1>2. next \in [1..n -> [F -> Lists]]
  BY <1>1
<1>3. ASSUME NEW i \in 1..n, NEW g \in F, NEW h \in F, \A j \in 1..(i - 1) : g[j] = h[j] PROVE next[i][g] = next[i][h]
  <2>1. i # 1 => i - 1 \in 1..(i - 1)
    BY <1>0
  <2>2. MergeStep(o, g, i) = MergeStep(o, h, i)
    BY <1>3, <2>1 DEF MergeStep
  <2> QED
    BY <2>2
<1>3a. \A i \in 1..n : \A g, h \in F : (\A j \in 1..(i - 1) : g[j] = h[j]) => next[i][g] = next[i][h]
  BY <1>3
<1>4. Lists # {}
  BY DEF Lists
<1> HIDE DEF next
<1>5. PICK g \in F : \A i \in 1..n : g[i] = next[i][g]
  <2>1. LooksUp(next, 1, n, Lists)
    BY <1>2, <1>3a, <1>4 DEF LooksUp
  <2> QED
    BY <2>1, RecursionUp
<1>6. \A i \in 1..n : g[i] = MergeStep(o, g, i)
  BY <1>5 DEF next
<1>7. g = [i \in 1..n |-> g[i]]
  OBVIOUS
<1>8. g = [i \in 1..n |-> MergeStep(o, g, i)]
  BY <1>6, <1>7, Zenon
<1> QED
  BY <1>n, <1>8

\* The lists Merged goes through.
LEMMA MergeRun ==
  ASSUME NEW o \in Lists
  PROVE  \E g \in [1..Len(o) -> Lists] :
           /\ Merged(o) = g[Len(o)] /\ g[1] = <<o[1]>>
           /\ \A i \in 2..Len(o) : g[i] = Joined(g[i - 1], o[i])
<1>n. PICK n \in Nat : n = Len(o)
  BY ListFacts
<1>0. n \in Nat /\ n > 0 /\ \A i \in 1..n : o[i] \in Ranges
  BY <1>n, ListFacts
<1>1. PICK g : g = CHOOSE f : f = [i \in 1..n |-> MergeStep(o, f, i)]
  OBVIOUS
<1>2. g = [i \in 1..n |-> MergeStep(o, g, i)]
  BY <1>n, <1>1, MergeExists, Zenon
<1>3. Merged(o) = g[n]
  BY <1>n, <1>1, Zenon DEF Merged, MergeStep, Joined
<1>4. \A i \in 1..n : g[i] = MergeStep(o, g, i)
  BY <1>2
<1>5. g[1] = <<o[1]>> /\ \A i \in 2..n : g[i] = Joined(g[i - 1], o[i])
  BY <1>0, <1>4 DEF MergeStep
<1> DEFINE T == {i \in 1..n : g[i] \in Lists}
<1>6. 1 \in T
  BY <1>0, <1>5, OneRange
<1>7. ASSUME NEW i \in 1..(n - 1), i \in T PROVE i + 1 \in T
  <2>1. i + 1 \in 2..n /\ (i + 1) - 1 = i /\ i + 1 \in 1..n
    BY <1>0
  <2>2. g[i + 1] = Joined(g[i], o[i + 1]) /\ o[i + 1] \in Ranges /\ g[i] \in Lists
    BY <1>0, <1>5, <1>7, <2>1
  <2> QED
    BY <2>1, <2>2, JoinedIs
<1>8. 1..n \subseteq T
  <2> HIDE DEF T
  <2> QED
    BY <1>6, <1>7, IntervalUp
<1>9. \A i \in 1..n : g[i] \in Lists
  BY <1>8
<1>10. g \in [1..n -> Lists]
  BY <1>2, <1>9
<1> QED
  BY <1>n, <1>3, <1>5, <1>10

\* What is known of the ranges merged so far.
Proper(s) == \A i \in DOMAIN s : s[i].lo <= s[i].hi
Ascending(s) == \A i, j \in DOMAIN s : i <= j => s[i].lo <= s[j].lo
Separate(s) == \A i \in 1..(Len(s) - 1) : s[i].hi + 1 < s[i + 1].lo
Within(s, lo, hi) == \A i \in DOMAIN s : lo <= s[i].lo /\ s[i].hi <= hi
Names(s, m, c) == \E j \in 1..m : s[j].lo <= c /\ c <= s[j].hi

MergedSoFar(o, i, done, lo, hi) ==
  /\ done \in Lists /\ Proper(done) /\ Separate(done) /\ Within(done, lo, hi)
  /\ Len(done) <= i /\ done[Len(done)].lo <= o[i].lo
  /\ \A c \in Int : Names(done, Len(done), c) <=> Names(o, i, c)

LEMMA JoinKeeps ==
  ASSUME NEW o \in Lists, Proper(o), Ascending(o), NEW lo \in Int, NEW hi \in Int, Within(o, lo, hi),
         NEW i \in 2..Len(o), NEW done, MergedSoFar(o, i - 1, done, lo, hi)
  PROVE  MergedSoFar(o, i, Joined(done, o[i]), lo, hi)
<1>n. PICK L \in Nat : L = Len(done)
  BY ListFacts DEF MergedSoFar
<1> DEFINE r == o[i]
           last == done[L]
           new == Joined(done, r)
<1>1. o \in Seq(Ranges) /\ Len(o) \in Nat /\ DOMAIN o = 1..Len(o) /\ \A j \in 1..Len(o) : o[j] \in Ranges /\ o[j].lo \in Int /\ o[j].hi \in Int
  BY ListFacts
<1>2. done \in Seq(Ranges) /\ L \in Nat /\ L > 0 /\ DOMAIN done = 1..L /\ \A j \in 1..L : done[j] \in Ranges /\ done[j].lo \in Int /\ done[j].hi \in Int
  BY <1>n, ListFacts DEF MergedSoFar
<1>3. /\ \A j \in 1..L : done[j].lo <= done[j].hi /\ lo <= done[j].lo /\ done[j].hi <= hi
      /\ \A j \in 1..(L - 1) : done[j].hi + 1 < done[j + 1].lo
      /\ L <= i - 1 /\ last.lo <= o[i - 1].lo
  BY <1>n, <1>2 DEF MergedSoFar, Proper, Separate, Within
<1>4. r \in Ranges /\ r.lo \in Int /\ r.hi \in Int /\ r.lo <= r.hi /\ lo <= r.lo /\ r.hi <= hi
  BY <1>1 DEF Proper, Within
<1>5. last.lo <= r.lo
  <2>1. i - 1 \in 1..Len(o) /\ i \in 1..Len(o) /\ i - 1 <= i
    BY <1>1
  <2>2. o[i - 1].lo <= r.lo
    BY <1>1, <2>1 DEF Ascending
  <2> QED
    BY <1>1, <1>2, <1>3, <1>4, <2>1, <2>2, SMTT(30)
<1>6. \A c \in Int : Names(o, i, c) <=> Names(o, i - 1, c) \/ (r.lo <= c /\ c <= r.hi)
  <2>1. \A j : j \in 1..i <=> j \in 1..(i - 1) \/ j = i
    BY <1>1
  <2> QED
    BY <2>1 DEF Names
<1>7. \A c \in Int : Names(done, L, c) <=> Names(o, i - 1, c)
  BY <1>n DEF MergedSoFar
<1>8. \A c : Names(done, L, c) <=> (\E j \in 1..(L - 1) : done[j].lo <= c /\ c <= done[j].hi) \/ (last.lo <= c /\ c <= last.hi)
  <2>1. \A j : j \in 1..L <=> j \in 1..(L - 1) \/ j = L
    BY <1>2
  <2> QED
    BY <2>1 DEF Names
<1>9. CASE r.lo <= last.hi + 1
  <2> DEFINE h == IF r.hi > last.hi THEN r.hi ELSE last.hi
  <2>1. new \in Lists /\ Len(new) = L /\ (\A k \in 1..(L - 1) : new[k] = done[k]) /\ new[L] = Widen(last, r)
    BY <1>2, <1>4, <1>9, <1>n, JoinedIs DEF MergedSoFar
  <2>2. new[L].lo = last.lo /\ new[L].hi = h /\ last \in Ranges
    BY <1>2, <1>4, <2>1, WidenIs
  <2>3. DOMAIN new = 1..L
    BY <2>1, ListFacts
  <2> HIDE DEF new
  <2>4. last.lo \in Int /\ last.hi \in Int /\ h \in Int /\ last.lo <= h /\ h <= hi /\ lo <= last.lo /\ L \in 1..L
    BY <1>2, <1>3, <1>4
  <2>5. Proper(new) /\ Within(new, lo, hi)
    <3>1. ASSUME NEW j \in 1..L PROVE new[j].lo <= new[j].hi /\ lo <= new[j].lo /\ new[j].hi <= hi
      <4>1. CASE j = L
        BY <2>2, <2>4, <4>1
      <4>2. CASE j # L
        <5>1. j \in 1..(L - 1)
          BY <4>2, BelowLast
        <5> QED
          BY <1>3, <2>1, <5>1
      <4> QED
        BY <4>1, <4>2
    <3> QED
      BY <2>3, <3>1 DEF Proper, Within
  <2>6. Separate(new)
    <3>1. ASSUME NEW j \in 1..(L - 1) PROVE new[j].hi + 1 < new[j + 1].lo
      <4>1. new[j] = done[j] /\ done[j].hi + 1 < done[j + 1].lo /\ j + 1 \in 1..L
        BY <1>2, <1>3, <2>1
      <4>2. new[j + 1].lo = done[j + 1].lo
        <5>1. CASE j + 1 = L
          BY <2>2, <5>1
        <5>2. CASE j + 1 # L
          <6>1. j + 1 \in 1..(L - 1)
            BY <4>1, <5>2, BelowLast
          <6> QED
            BY <2>1, <6>1
        <5> QED
          BY <5>1, <5>2
      <4> QED
        BY <4>1, <4>2
    <3> QED
      BY <2>1, <3>1 DEF Separate
  <2>7. ASSUME NEW c \in Int PROVE Names(new, Len(new), c) <=> Names(o, i, c)
    <3>1. Names(new, L, c) <=> (\E j \in 1..(L - 1) : new[j].lo <= c /\ c <= new[j].hi) \/ (new[L].lo <= c /\ c <= new[L].hi)
      <4>1. \A j : j \in 1..L <=> j \in 1..(L - 1) \/ j = L
        BY <1>2
      <4> QED
        BY <4>1 DEF Names
    <3>2. (\E j \in 1..(L - 1) : new[j].lo <= c /\ c <= new[j].hi) <=> (\E j \in 1..(L - 1) : done[j].lo <= c /\ c <= done[j].hi)
      BY <2>1
    <3>3. (last.lo <= c /\ c <= h) <=> (last.lo <= c /\ c <= last.hi) \/ (r.lo <= c /\ c <= r.hi)
      BY <1>2, <1>3, <1>4, <1>5, <1>9, <2>4, Glued
    <3> HIDE DEF h
    <3> QED
      BY <1>6, <1>7, <1>8, <2>1, <2>2, <3>1, <3>2, <3>3
  <2>8. Len(new) <= i /\ new[Len(new)].lo <= o[i].lo
    BY <1>1, <1>2, <1>3, <1>5, <2>1, <2>2
  <2> QED
    BY <2>1, <2>5, <2>6, <2>7, <2>8 DEF MergedSoFar, new
<1>10. CASE ~(r.lo <= last.hi + 1)
  <2>1. new \in Lists /\ new = Append(done, r)
    BY <1>2, <1>4, <1>10, <1>n, JoinedIs DEF MergedSoFar
  <2>2. Len(new) = L + 1 /\ (\A k \in 1..L : new[k] = done[k]) /\ new[L + 1] = r
    BY <1>2, <1>4, <1>n, <2>1
  <2>3. DOMAIN new = 1..(L + 1)
    BY <2>1, <2>2, ListFacts
  <2> HIDE DEF new
  <2>5. Proper(new) /\ Within(new, lo, hi)
    <3>1. ASSUME NEW j \in 1..(L + 1) PROVE new[j].lo <= new[j].hi /\ lo <= new[j].lo /\ new[j].hi <= hi
      <4>1. CASE j = L + 1
        BY <1>4, <2>2, <4>1
      <4>2. CASE j # L + 1
        <5>1. j \in 1..L
          BY <4>2, BelowLast
        <5> QED
          BY <1>3, <2>2, <5>1
      <4> QED
        BY <4>1, <4>2
    <3> QED
      BY <2>3, <3>1 DEF Proper, Within
  <2>6. Separate(new)
    <3>1. ASSUME NEW j \in 1..L PROVE new[j].hi + 1 < new[j + 1].lo
      <4>1. CASE j = L
        BY <1>2, <1>4, <1>10, <2>2, <4>1
      <4>2. CASE j # L
        <5>1. j \in 1..(L - 1) /\ j + 1 \in 1..L
          BY <4>2, BelowLast
        <5> QED
          BY <1>3, <2>2, <5>1
      <4> QED
        BY <4>1, <4>2
    <3>2. Len(new) - 1 = L
      BY <1>2, <2>2
    <3> QED
      BY <3>1, <3>2 DEF Separate
  <2>7. ASSUME NEW c \in Int PROVE Names(new, Len(new), c) <=> Names(o, i, c)
    <3>1. Names(new, L + 1, c) <=> (\E j \in 1..L : new[j].lo <= c /\ c <= new[j].hi) \/ (new[L + 1].lo <= c /\ c <= new[L + 1].hi)
      <4>1. \A j : j \in 1..(L + 1) <=> j \in 1..L \/ j = L + 1
        BY <1>2
      <4> QED
        BY <4>1 DEF Names
    <3>2. (\E j \in 1..L : new[j].lo <= c /\ c <= new[j].hi) <=> Names(done, L, c)
      BY <2>2 DEF Names
    <3> QED
      BY <1>6, <1>7, <2>2, <3>1, <3>2
  <2>8. Len(new) <= i /\ new[Len(new)].lo <= o[i].lo
    BY <1>1, <1>2, <1>3, <1>4, <2>2
  <2> QED
    BY <2>1, <2>5, <2>6, <2>7, <2>8 DEF MergedSoFar, new
<1> QED
  BY <1>9, <1>10

LEMMA MergedKeeps ==
  ASSUME NEW o \in Lists, Proper(o), Ascending(o), NEW lo \in Int, NEW hi \in Int, Within(o, lo, hi)
  PROVE  MergedSoFar(o, Len(o), Merged(o), lo, hi)
<1>n. PICK n \in Nat : n = Len(o)
  BY ListFacts
<1>0. n \in Nat /\ n > 0 /\ DOMAIN o = 1..n /\ \A i \in 1..n : o[i] \in Ranges /\ o[i].lo \in Int /\ o[i].hi \in Int
  BY <1>n, ListFacts
<1>1. PICK g \in [1..n -> Lists] :
        Merged(o) = g[n] /\ g[1] = <<o[1]>> /\ \A i \in 2..n : g[i] = Joined(g[i - 1], o[i])
  BY <1>n, MergeRun
<1> DEFINE T == {i \in 1..n : MergedSoFar(o, i, g[i], lo, hi)}
<1>2. 1 \in T
  <2> DEFINE d == <<o[1]>>
  <2>1. o[1] \in Ranges /\ 1 \in 1..n
    BY <1>0
  <2>2. d \in Lists /\ Len(d) = 1 /\ d[1] = o[1] /\ DOMAIN d = 1..1
    BY <2>1, OneRange
  <2> HIDE DEF d
  <2>3. Proper(d) /\ Within(d, lo, hi) /\ Separate(d)
    BY <1>0, <2>1, <2>2 DEF Proper, Within, Separate
  <2>4. \A c \in Int : Names(d, Len(d), c) <=> Names(o, 1, c)
    BY <2>2 DEF Names
  <2>5. Len(d) <= 1 /\ d[Len(d)].lo <= o[1].lo
    BY <1>0, <2>1, <2>2
  <2>6. MergedSoFar(o, 1, d, lo, hi)
    BY <2>2, <2>3, <2>4, <2>5 DEF MergedSoFar
  <2> QED
    BY <1>1, <2>1, <2>6 DEF d
<1>3. ASSUME NEW i \in 1..(n - 1), i \in T PROVE i + 1 \in T
  <2>1. i + 1 \in 2..n /\ (i + 1) - 1 = i /\ i + 1 \in 1..n
    BY <1>0
  <2>2. g[i + 1] = Joined(g[i], o[i + 1]) /\ MergedSoFar(o, (i + 1) - 1, g[i], lo, hi)
    BY <1>1, <1>3, <2>1
  <2>3. MergedSoFar(o, i + 1, g[i + 1], lo, hi)
    BY <1>n, <2>1, <2>2, JoinKeeps
  <2> QED
    BY <2>1, <2>3
<1>4. 1..n \subseteq T
  <2> HIDE DEF T
  <2> QED
    BY <1>2, <1>3, IntervalUp
<1> QED
  BY <1>0, <1>1, <1>4, <1>n

\* Ranges that are separate already are left alone.
LEMMA MergedStays ==
  ASSUME NEW o \in Lists, Proper(o), Separate(o)
  PROVE  Merged(o) = o
<1>n. PICK n \in Nat : n = Len(o)
  BY ListFacts
<1>0. n \in Nat /\ n > 0 /\ DOMAIN o = 1..n /\ \A i \in 1..n : o[i] \in Ranges /\ o[i].lo \in Int /\ o[i].hi \in Int
  BY <1>n, ListFacts
<1>1. PICK g \in [1..n -> Lists] :
        Merged(o) = g[n] /\ g[1] = <<o[1]>> /\ \A i \in 2..n : g[i] = Joined(g[i - 1], o[i])
  BY <1>n, MergeRun
<1> DEFINE Begins(s, i) == Len(s) = i /\ \A j \in 1..i : s[j] = o[j]
           T == {i \in 1..n : Begins(g[i], i)}
<1>2. 1 \in T
  <2>1. o[1] \in Ranges /\ 1 \in 1..n
    BY <1>0
  <2>2. Begins(g[1], 1)
    BY <1>1, <2>1, OneRange
  <2> QED
    BY <2>1, <2>2
<1>3. ASSUME NEW i \in 1..(n - 1), i \in T PROVE i + 1 \in T
  <2>1. i + 1 \in 2..n /\ (i + 1) - 1 = i /\ i + 1 \in 1..n /\ i \in 1..n /\ i \in 1..i
    BY <1>0
  <2>2. g[i + 1] = Joined(g[i], o[i + 1]) /\ g[i] \in Lists /\ Begins(g[i], i) /\ o[i + 1] \in Ranges
    BY <1>0, <1>1, <1>3, <2>1
  <2>3. g[i][Len(g[i])] = o[i]
    BY <2>1, <2>2
  <2>4. ~(o[i + 1].lo <= o[i].hi + 1)
    BY <1>0, <1>n, <2>1 DEF Separate
  <2>5. g[i + 1] = Append(g[i], o[i + 1])
    BY <2>2, <2>3, <2>4, JoinedIs
  <2>6. g[i] \in Seq(Ranges)
    BY <2>2 DEF Lists
  <2>7. Begins(g[i + 1], i + 1)
    BY <1>0, <2>2, <2>5, <2>6
  <2> QED
    BY <2>1, <2>7
<1>4. 1..n \subseteq T
  <2> HIDE DEF T
  <2> QED
    BY <1>2, <1>3, IntervalUp
<1>5. g[n] \in Seq(Ranges) /\ o \in Seq(Ranges) /\ Len(g[n]) = n /\ \A j \in 1..n : g[n][j] = o[j]
  BY <1>0, <1>1, <1>4, ListFacts
<1>6. g[n] = o
  BY <1>5, <1>n
<1> QED
  BY <1>1, <1>6

-----------------------------------------------------------------------------
(***************************************************************************)
(* Status ranges: sorting.                                                 *)
(***************************************************************************)
BeforeIn(r, i) == {j \in DOMAIN r : r[j].lo < r[i].lo \/ (r[j].lo = r[i].lo /\ j <= i)}
Rank(r, i) == Cardinality(BeforeIn(r, i))

LEMMA CountTo == ASSUME NEW m \in Nat PROVE IsFiniteSet(1..m) /\ Cardinality(1..m) = m
<1>1. IsFiniteSet(1..m)
  BY FS_Interval
<1>2. Cardinality(1..m) = m
  BY FS_Interval
<1> QED
  BY <1>1, <1>2

LEMMA RankFacts ==
  ASSUME NEW r \in Lists, NEW n \in Nat, n = Len(r)
  PROVE  /\ \A i \in 1..n : Rank(r, i) \in 1..n
         /\ \A i, j \in 1..n : i # j /\ i \in BeforeIn(r, j) => Rank(r, i) < Rank(r, j)
         /\ \A i, j \in 1..n : i \in BeforeIn(r, j) \/ j \in BeforeIn(r, i)
<1>1. DOMAIN r = 1..n /\ \A i \in 1..n : r[i].lo \in Int
  BY ListFacts
<1>2. \A i \in 1..n : BeforeIn(r, i) \in SUBSET (1..n) /\ i \in BeforeIn(r, i)
  BY <1>1 DEF BeforeIn
<1>3. IsFiniteSet(1..n) /\ Cardinality(1..n) = n
  BY CountTo
<1>4. \A i \in 1..n : IsFiniteSet(BeforeIn(r, i)) /\ Cardinality(BeforeIn(r, i)) <= n
  BY <1>2, <1>3, FS_Subset
<1>5. \A i \in 1..n : Rank(r, i) \in Nat /\ Rank(r, i) # 0
  <2>1. \A i \in 1..n : Cardinality(BeforeIn(r, i)) \in Nat
    BY <1>4, FS_CardinalityType
  <2>2. \A i \in 1..n : Cardinality(BeforeIn(r, i)) # 0
    BY <1>2, <1>4, FS_EmptySet
  <2> QED
    BY <2>1, <2>2 DEF Rank
<1>6. ASSUME NEW i \in 1..n, NEW j \in 1..n, i # j, i \in BeforeIn(r, j) PROVE Rank(r, i) < Rank(r, j)
  <2>1. r[i].lo < r[j].lo \/ (r[i].lo = r[j].lo /\ i <= j)
    BY <1>6 DEF BeforeIn
  <2>2. BeforeIn(r, i) \subseteq BeforeIn(r, j)
    BY <1>1, <2>1 DEF BeforeIn
  <2>3. j \notin BeforeIn(r, i)
    BY <1>1, <1>6, <2>1 DEF BeforeIn
  <2>4. BeforeIn(r, i) # BeforeIn(r, j)
    BY <1>2, <2>3
  <2>5. Cardinality(BeforeIn(r, i)) <= Cardinality(BeforeIn(r, j)) /\ Cardinality(BeforeIn(r, j)) # Cardinality(BeforeIn(r, i))
    BY <1>4, <2>2, <2>4, FS_Subset
  <2> QED
    BY <1>5, <2>5 DEF Rank
<1>7. \A i, j \in 1..n : i \in BeforeIn(r, j) \/ j \in BeforeIn(r, i)
  BY <1>1 DEF BeforeIn
<1>8. \A i \in 1..n : Rank(r, i) \in 1..n
  BY <1>4, <1>5 DEF Rank
<1> QED
  BY <1>6, <1>7, <1>8

\* The place each rank is found at.
LEMMA RankPlaces ==
  ASSUME NEW r \in Lists, NEW n \in Nat, n = Len(r)
  PROVE  \E p \in [1..n -> 1..n] :
           /\ \A k \in 1..n : Rank(r, p[k]) = k /\ Sorted(r)[k] = r[p[k]]
           /\ \A i \in 1..n : p[Rank(r, i)] = i
           /\ Sorted(r) \in [1..n -> Ranges]
<1> DEFINE f == [i \in 1..n |-> Rank(r, i)]
<1>0. DOMAIN r = 1..n /\ \A i \in 1..n : r[i] \in Ranges
  BY ListFacts
<1>1. \A i, j \in 1..n : Rank(r, i) = Rank(r, j) => i = j
  <2>1. \A i \in 1..n : Rank(r, i) \in Int
    BY RankFacts
  <2> QED
    BY <2>1, RankFacts
<1>2. f \in Injection(1..n, 1..n)
  <2>1. f \in [1..n -> 1..n]
    BY RankFacts
  <2>2. \A i, j \in 1..n : f[i] = f[j] => i = j
    BY <1>1
  <2> HIDE DEF f
  <2> QED
    BY <2>1, <2>2 DEF Injection, IsInjective
<1>3. IsFiniteSet(1..n)
  BY FS_Interval
<1> HIDE DEF f
<1>4. f \in Surjection(1..n, 1..n)
  BY <1>2, <1>3, FS_Injection
<1>5. \A k \in 1..n : \E i \in 1..n : f[i] = k
  BY <1>4 DEF Surjection
<1>6. \A k \in 1..n : \E i \in 1..n : Rank(r, i) = k
  BY <1>5 DEF f
<1>7. PICK p : p = [k \in DOMAIN r |-> CHOOSE i \in DOMAIN r : Rank(r, i) = k]
  OBVIOUS
<1>8. ASSUME NEW k \in 1..n PROVE p[k] \in 1..n /\ Rank(r, p[k]) = k
  <2>1. p[k] = CHOOSE i \in DOMAIN r : Rank(r, i) = k
    BY <1>0, <1>7
  <2>2. \E i \in DOMAIN r : Rank(r, i) = k
    BY <1>0, <1>6
  <2>3. p[k] \in DOMAIN r /\ Rank(r, p[k]) = k
    BY <2>1, <2>2, Zenon
  <2> QED
    BY <1>0, <2>3
<1>9. Sorted(r) = [k \in DOMAIN r |-> r[CHOOSE i \in DOMAIN r : Rank(r, i) = k]]
  BY Zenon DEF Sorted, Rank, BeforeIn
<1>10. \A k \in DOMAIN r : p[k] = CHOOSE i \in DOMAIN r : Rank(r, i) = k
  BY <1>7
<1>11. Sorted(r) = [k \in DOMAIN r |-> r[p[k]]]
  BY <1>9, <1>10, Zenon
<1>12. p \in [1..n -> 1..n]
  BY <1>0, <1>7, <1>8
<1>13. ASSUME NEW i \in 1..n PROVE p[Rank(r, i)] = i
  <2>1. Rank(r, i) \in 1..n
    BY RankFacts
  <2> QED
    BY <1>1, <1>8, <2>1
<1>14. Sorted(r) \in [1..n -> Ranges] /\ \A k \in 1..n : Sorted(r)[k] = r[p[k]]
  BY <1>0, <1>11, <1>12
<1> QED
  BY <1>8, <1>12, <1>13, <1>14

\* Sorting keeps the ranges and puts them in order.
LEMMA SortedIs ==
  ASSUME NEW r \in Lists, Proper(r), NEW lo \in Int, NEW hi \in Int, Within(r, lo, hi)
  PROVE  /\ Sorted(r) \in Lists /\ Len(Sorted(r)) = Len(r)
         /\ Proper(Sorted(r)) /\ Ascending(Sorted(r)) /\ Within(Sorted(r), lo, hi)
         /\ \A c \in Int : Names(Sorted(r), Len(r), c) <=> Names(r, Len(r), c)
<1>1. PICK n \in Nat : n = Len(r)
  BY ListFacts
<1>2. PICK p \in [1..n -> 1..n] :
        /\ \A k \in 1..n : Rank(r, p[k]) = k /\ Sorted(r)[k] = r[p[k]]
        /\ \A i \in 1..n : p[Rank(r, i)] = i
        /\ Sorted(r) \in [1..n -> Ranges]
  BY <1>1, RankPlaces
<1>3. n > 0 /\ DOMAIN r = 1..n /\ \A i \in 1..n : r[i].lo \in Int
  BY <1>1, ListFacts
<1>4. PICK s : s = Sorted(r)
  OBVIOUS
<1>5. s \in [1..n -> Ranges] /\ s \in Seq(Ranges) /\ Len(s) = n /\ DOMAIN s = 1..n
  BY <1>2, <1>4
<1>6. s \in Lists
  BY <1>3, <1>5 DEF Lists
<1>7. \A k \in 1..n : p[k] \in 1..n /\ s[k] = r[p[k]] /\ Rank(r, p[k]) = k
  BY <1>2, <1>4
<1>8. Proper(s) /\ Within(s, lo, hi)
  BY <1>3, <1>5, <1>7 DEF Proper, Within
<1>9. Ascending(s)
  <2>1. ASSUME NEW k \in 1..n, NEW l \in 1..n, k <= l PROVE s[k].lo <= s[l].lo
    <3>1. CASE k = l
      BY <1>3, <1>7, <3>1
    <3>2. CASE k # l
      <4>1. ~(Rank(r, p[l]) < Rank(r, p[k]))
        BY <1>7, <2>1, <3>2
      <4>2. p[l] \notin BeforeIn(r, p[k]) \/ p[l] = p[k]
        BY <1>1, <1>7, <4>1, RankFacts
      <4>3. p[k] \in BeforeIn(r, p[l])
        BY <1>1, <1>7, <4>2, RankFacts
      <4>4. r[p[k]].lo <= r[p[l]].lo
        <5>1. PICK a \in 1..n, b \in 1..n : a = p[k] /\ b = p[l]
          BY <1>7
        <5>2. a \in BeforeIn(r, b)
          BY <4>3, <5>1
        <5>3. r[a].lo < r[b].lo \/ r[a].lo = r[b].lo
          BY <5>2 DEF BeforeIn
        <5>4. r[a].lo \in Int /\ r[b].lo \in Int
          BY <1>3
        <5>5. r[a].lo <= r[b].lo
          BY <5>3, <5>4
        <5> QED
          BY <5>1, <5>5
      <4> QED
        BY <1>7, <4>4
    <3> QED
      BY <3>1, <3>2
  <2> QED
    BY <1>5, <2>1 DEF Ascending
<1>10. ASSUME NEW c \in Int PROVE Names(s, n, c) <=> Names(r, n, c)
  <2>1. \A i \in 1..n : Rank(r, i) \in 1..n /\ s[Rank(r, i)] = r[i]
    BY <1>1, <1>2, <1>4, RankFacts
  <2> QED
    BY <1>7, <2>1 DEF Names
<1> QED
  BY <1>1, <1>4, <1>5, <1>6, <1>8, <1>9, <1>10

\* Separate ranges are in order already.
LEMMA SeparateOrder ==
  ASSUME NEW r \in Lists, Proper(r), Separate(r), NEW n \in Nat, n = Len(r)
  PROVE  \A i, j \in 1..n : i < j => r[i].lo < r[j].lo
<1>1. DOMAIN r = 1..n /\ \A i \in 1..n : r[i].lo \in Int /\ r[i].hi \in Int
  BY ListFacts
<1> DEFINE T == {j \in 1..n : \A i \in 1..n : i < j => r[i].lo < r[j].lo}
<1>2. CASE n = 0
  BY <1>2
<1>3. CASE n # 0
  <2>1. 1 \in T
    BY <1>3
  <2>2. ASSUME NEW j \in 1..(n - 1), j \in T PROVE j + 1 \in T
    <3>1. j \in 1..n /\ j + 1 \in 1..n
      OBVIOUS
    <3>2. r[j].hi + 1 < r[j + 1].lo /\ r[j].lo <= r[j].hi
      BY <1>1, <3>1 DEF Separate, Proper
    <3>3. r[j].lo < r[j + 1].lo
      BY <1>1, <3>1, <3>2
    <3>4. ASSUME NEW i \in 1..n, i < j + 1 PROVE r[i].lo < r[j + 1].lo
      <4>1. i = j \/ i < j
        BY <3>4
      <4>2. i < j => r[i].lo < r[j].lo
        BY <2>2
      <4> QED
        BY <1>1, <3>1, <3>3, <4>1, <4>2
    <3> QED
      BY <3>1, <3>4
  <2> HIDE DEF T
  <2>3. 1..n \subseteq T
    BY <2>1, <2>2, IntervalUp, SMTT(30)
  <2> QED
    BY <2>3 DEF T
<1> QED
  BY <1>2, <1>3

LEMMA SortedStays ==
  ASSUME NEW r \in Lists, Proper(r), Separate(r)
  PROVE  Sorted(r) = r
<1>1. PICK n \in Nat : n = Len(r)
  BY ListFacts
<1>2. PICK p \in [1..n -> 1..n] :
        /\ \A k \in 1..n : Rank(r, p[k]) = k /\ Sorted(r)[k] = r[p[k]]
        /\ \A i \in 1..n : p[Rank(r, i)] = i
        /\ Sorted(r) \in [1..n -> Ranges]
  BY <1>1, RankPlaces
<1>3. DOMAIN r = 1..n /\ (\A i \in 1..n : r[i] \in Ranges /\ r[i].lo \in Int) /\ r \in Seq(Ranges)
  BY <1>1, ListFacts
<1>4. ASSUME NEW i \in 1..n PROVE Rank(r, i) = i
  <2>1. \A a, b \in 1..n : a < b => r[a].lo < r[b].lo
    BY <1>1, SeparateOrder
  <2>2. ASSUME NEW j \in 1..n PROVE j <= i <=> j \in BeforeIn(r, i)
    <3>0. r[i].lo \in Int /\ r[j].lo \in Int
      BY <1>3
    <3>1. j \in BeforeIn(r, i) <=> r[j].lo < r[i].lo \/ (r[j].lo = r[i].lo /\ j <= i)
      BY <1>3, Zenon DEF BeforeIn
    <3>2. CASE j < i
      <4>1. r[j].lo < r[i].lo
        BY <2>1, <3>2, Zenon
      <4> QED
        BY <3>1, <3>2, <4>1
    <3>3. CASE j = i
      BY <3>1, <3>3
    <3>4. CASE i < j
      <4>1. r[i].lo < r[j].lo
        BY <2>1, <3>4, Zenon
      <4> QED
        BY <3>0, <3>1, <3>4, <4>1
    <3> QED
      BY <3>2, <3>3, <3>4
  <2>3. BeforeIn(r, i) \subseteq 1..n
    BY <1>3 DEF BeforeIn
  <2>4. BeforeIn(r, i) = 1..i
    <3>1. \A j : j \in 1..i <=> j \in 1..n /\ j <= i
      OBVIOUS
    <3>2. \A j : j \in 1..i <=> j \in BeforeIn(r, i)
      BY <2>2, <2>3, <3>1
    <3> QED
      BY <3>2
  <2>5. Cardinality(1..i) = i
    BY FS_Interval
  <2> QED
    BY <2>4, <2>5 DEF Rank
<1>5. \A k \in 1..n : Sorted(r)[k] = r[k]
  BY <1>2, <1>4
<1>6. r \in [1..n -> Ranges]
  BY <1>1, <1>3
<1> QED
  BY <1>2, <1>5, <1>6

-----------------------------------------------------------------------------
(***************************************************************************)
(* Canonical forms and stored rules.                                       *)
(***************************************************************************)
LEMMA AtMostOneIs == ASSUME NEW S, NEW s \in AtMostOne(S) PROVE s = <<>> \/ \E x \in S : s = <<x>>
<1>1. s \in Seq(S) /\ Len(s) <= 1
  BY DEF AtMostOne
<1>2. PICK n \in Nat : n = Len(s)
  BY <1>1
<1>3. n = 0 \/ n = 1
  BY <1>1, <1>2
<1>4. CASE n = 0
  <2>1. Len(s) = 0
    BY <1>2, <1>4
  <2> QED
    BY <1>1, <2>1
<1>5. CASE n = 1
  <2>1. Len(s) = 1
    BY <1>2, <1>5
  <2>2. s[1] \in S
    BY <1>1, <2>1
  <2>3. s = <<s[1]>>
    BY <1>1, <2>1
  <2> QED
    BY <2>2, <2>3
<1> QED
  BY <1>3, <1>4, <1>5

\* Rounding lands on a multiple of ten, changes none, and crosses none.
LEMMA RoundFacts ==
  ASSUME NEW v \in Nat
  PROVE  /\ Round(v) \in Nat /\ Round(v) % 10 = 0
         /\ Round(Round(v)) = Round(v)
         /\ \A b \in Nat : b % 10 = 0 => (b <= v => b <= Round(v)) /\ (v <= b => Round(v) <= b)
<1>1. Round(v) \in Nat /\ Round(v) % 10 = 0
  BY DEF Round
<1>2. Round(Round(v)) = Round(v)
  BY DEF Round
<1>3. ASSUME NEW b \in Nat, b % 10 = 0 PROVE (b <= v => b <= Round(v)) /\ (v <= b => Round(v) <= b)
  BY <1>3 DEF Round
<1> QED
  BY <1>1, <1>2, <1>3

LEMMA RoundExact == ASSUME NEW b \in Nat, b % 10 = 0 PROVE Round(b) = b
BY DEF Round

\* One field of a valid rule.
LEMMA StoredFacts ==
  ASSUME NEW f \in RuleFields, NEW v \in Int \cup {NaN}, FieldValid(f, v)
  PROVE  /\ v \in Nat /\ Stored(f, v) \in Nat
         /\ FieldValid(f, Stored(f, v))
         /\ Stored(f, Stored(f, v)) = Stored(f, v)
         /\ (IF Stored(f, v) = 0 THEN Def[f] ELSE Stored(f, v)) = Round(IF v = 0 THEN Def[f] ELSE v)
<1>1. /\ Lo[f] \in Nat /\ Hi[f] \in Nat /\ Def[f] \in Nat
      /\ Lo[f] % 10 = 0 /\ Hi[f] % 10 = 0 /\ Def[f] % 10 = 0
      /\ 0 < Lo[f] /\ Lo[f] <= Def[f] /\ Def[f] <= Hi[f]
      /\ NaN \notin Int
  BY RuleAssumption
<1>2. v \in Nat /\ v # NaN /\ (v = 0 \/ (Lo[f] <= v /\ v <= Hi[f]))
  BY <1>1 DEF FieldValid
<1>3. CASE v = 0
  <2>1. Round(v) = 0 /\ Round(0) = 0
    BY <1>3, RoundExact
  <2>2. Stored(f, v) = 0
    BY <1>1, <2>1 DEF Stored
  <2>3. Stored(f, 0) = 0 /\ FieldValid(f, 0)
    BY <1>1, <2>1 DEF Stored, FieldValid
  <2>4. Round(Def[f]) = Def[f]
    BY <1>1, RoundExact
  <2> QED
    BY <1>2, <1>3, <2>2, <2>3, <2>4
<1>4. CASE v # 0
  <2>1. Lo[f] <= Round(v) /\ Round(v) <= Hi[f] /\ Round(v) \in Nat /\ Round(Round(v)) = Round(v)
    BY <1>1, <1>2, <1>4, RoundFacts
  <2>2. CASE Round(v) = Def[f]
    <3>1. Stored(f, v) = 0
      BY <2>2 DEF Stored
    <3>2. Round(0) = 0
      BY RoundExact
    <3>3. Stored(f, 0) = 0 /\ FieldValid(f, 0)
      BY <1>1, <3>2 DEF Stored, FieldValid
    <3> QED
      BY <1>2, <1>4, <2>2, <3>1, <3>3
  <2>3. CASE Round(v) # Def[f]
    <3>1. Stored(f, v) = Round(v) /\ Round(v) # 0
      BY <1>1, <2>1, <2>3 DEF Stored
    <3>2. Stored(f, Round(v)) = Round(v)
      BY <2>1, <2>3 DEF Stored
    <3>3. FieldValid(f, Round(v))
      BY <1>1, <2>1 DEF FieldValid
    <3> QED
      BY <1>2, <1>4, <2>1, <3>1, <3>2, <3>3
  <2> QED
    BY <2>2, <2>3
<1> QED
  BY <1>3, <1>4

LEMMA EffectiveDefault == ASSUME NEW f \in RuleFields PROVE Effective(<<>>)[f] = Def[f] /\ Round(Def[f]) = Def[f]
BY RuleAssumption, RoundExact DEF Effective

(***************************************************************************)
(* A valid rule is stored as a valid rule, which is stored again as        *)
(* itself, and every threshold in force is the one that was written,       *)
(* rounded, whether it was written out, left at its default or rounds to   *)
(* it (CanonicalDegradedRule, MonitorDegradedRule.Effective).              *)
(***************************************************************************)
THEOREM StoredRulesKeepTheirMeaning == \A r \in AnyRule : KeepsRule(r)
<1> SUFFICES ASSUME NEW r \in AnyRule, ValidateDegradedRule(r)
             PROVE  /\ ValidateDegradedRule(CanonicalDegradedRule(r))
                    /\ CanonicalDegradedRule(CanonicalDegradedRule(r)) = CanonicalDegradedRule(r)
                    /\ \A f \in RuleFields : Effective(CanonicalDegradedRule(r))[f] = Round(Effective(r)[f])
  BY DEF KeepsRule
<1>0. ValidateDegradedRule(<<>>) /\ CanonicalDegradedRule(<<>>) = <<>>
  BY DEF ValidateDegradedRule, CanonicalDegradedRule
<1>1. CASE r = <<>>
  BY <1>0, <1>1, EffectiveDefault
<1>2. CASE r # <<>>
  <2>1. PICK n \in Numbers : r = <<n>>
    BY <1>2, AtMostOneIs DEF AnyRule
  <2>2. r[1] = n /\ \A f \in RuleFields : n[f] \in Int \cup {NaN} /\ FieldValid(f, n[f])
    BY <1>2, <2>1 DEF ValidateDegradedRule, Numbers
  <2> DEFINE s == [f \in RuleFields |-> Stored(f, n[f])]
  <2>3. \A f \in RuleFields :
          /\ s[f] \in Nat /\ FieldValid(f, s[f]) /\ Stored(f, s[f]) = s[f]
          /\ (IF s[f] = 0 THEN Def[f] ELSE s[f]) = Round(IF n[f] = 0 THEN Def[f] ELSE n[f])
    BY <2>2, StoredFacts
  <2>4. \A f \in RuleFields : Effective(r)[f] = IF n[f] = 0 THEN Def[f] ELSE n[f]
    BY <1>2, <2>2 DEF Effective
  <2>5. CASE \A f \in RuleFields : s[f] = 0
    <3>1. CanonicalDegradedRule(r) = <<>>
      BY <2>2, <2>5 DEF CanonicalDegradedRule
    <3>2. \A f \in RuleFields : Def[f] = Round(Effective(r)[f])
      BY <2>3, <2>4, <2>5
    <3> QED
      BY <1>0, <3>1, <3>2, EffectiveDefault
  <2>6. CASE ~\A f \in RuleFields : s[f] = 0
    <3>1. CanonicalDegradedRule(r) = <<s>>
      BY <1>2, <2>2, <2>6 DEF CanonicalDegradedRule
    <3>2. <<s>> # <<>> /\ <<s>>[1] = s
      OBVIOUS
    <3>3. ValidateDegradedRule(<<s>>)
      BY <2>3, <3>2 DEF ValidateDegradedRule
    <3>4. [f \in RuleFields |-> Stored(f, s[f])] = s
      BY <2>3
    <3>5. CanonicalDegradedRule(<<s>>) = <<[f \in RuleFields |-> Stored(f, s[f])]>>
      BY <2>3, <2>6, <3>2 DEF CanonicalDegradedRule
    <3>6. \A f \in RuleFields : Effective(<<s>>)[f] = IF s[f] = 0 THEN Def[f] ELSE s[f]
      BY <3>2 DEF Effective
    <3> QED
      BY <2>3, <2>4, <3>1, <3>3, <3>4, <3>5, <3>6
  <2> QED
    BY <2>5, <2>6
<1> QED
  BY <1>1, <1>2

LEMMA FactorGrows == ASSUME NEW k \in Nat, k >= 100, NEW base \in Nat PROVE k * base >= 100 * base
<1>1. (k - 100) * base >= 0
  BY SMT
<1> QED
  BY <1>1, SMT

(***************************************************************************)
(* No valid rule calls a path degraded that loses no more and is no slower *)
(* than its own baseline, an idle one included (DegradedLossTrigger,       *)
(* DegradedLatencyTrigger).                                                *)
(***************************************************************************)
THEOREM BaselineNeverDegraded == \A r \in AnyRule, base \in Nat : BaselineHealthy(r, base)
<1> SUFFICES ASSUME NEW r \in AnyRule, NEW base \in Nat, ValidateDegradedRule(r)
             PROVE  100 * base <= LossTrigger(r, base) /\ 100 * base < LatencyTrigger(r, base)
  BY DEF BaselineHealthy
<1>1. \A f \in RuleFields : Effective(r)[f] \in Nat /\ Effective(r)[f] >= Lo[f] /\ Lo[f] \in Nat /\ Lo[f] > 0
  <2>1. CASE r = <<>>
    BY <2>1, RuleAssumption DEF Effective
  <2>2. CASE r # <<>>
    <3>1. PICK n \in Numbers : r = <<n>>
      BY <2>2, AtMostOneIs DEF AnyRule
    <3>2. \A f \in RuleFields : n[f] \in Int \cup {NaN} /\ FieldValid(f, n[f]) /\ r[1][f] = n[f]
      BY <2>2, <3>1 DEF ValidateDegradedRule, Numbers
    <3>3. \A f \in RuleFields : n[f] \in Nat /\ (n[f] # 0 => n[f] >= Lo[f])
      BY <3>2, RuleAssumption DEF FieldValid
    <3>4. \A f \in RuleFields : Effective(r)[f] = IF n[f] = 0 THEN Def[f] ELSE n[f]
      BY <2>2, <3>2 DEF Effective
    <3> QED
      BY <3>3, <3>4, RuleAssumption
  <2> QED
    BY <2>1, <2>2
<1>2. /\ Effective(r)[LossPercent] \in Nat /\ Effective(r)[LatencyMargin] \in Nat /\ Effective(r)[LatencyMargin] > 0
      /\ Effective(r)[LossFactor] \in Nat /\ Effective(r)[LossFactor] >= 100
      /\ Effective(r)[LatencyFactor] \in Nat /\ Effective(r)[LatencyFactor] >= 100
  BY <1>1, RuleAssumption
<1>3. Effective(r)[LossFactor] * base >= 100 * base /\ Effective(r)[LossFactor] * base \in Nat
  BY <1>2, FactorGrows
<1>4. 100 * base <= LossTrigger(r, base)
  BY <1>2, <1>3 DEF LossTrigger, Greater
<1>5. 100 * base < 100 * (base + Effective(r)[LatencyMargin])
  BY <1>2
<1>6. Effective(r)[LatencyFactor] * base \in Nat
  BY <1>2
<1>7. 100 * base < LatencyTrigger(r, base)
  BY <1>2, <1>5, <1>6 DEF LatencyTrigger, Greater
<1> QED
  BY <1>4, <1>7

-----------------------------------------------------------------------------
Parts == [lo : Int, hi : Int, range : BOOLEAN]
PartsOf(list) == IF list = <<>> THEN <<[lo |-> DefaultLo, hi |-> DefaultHi, range |-> TRUE]>> ELSE list
RangesOf(parts) == [i \in DOMAIN parts |-> PartRange(parts[i])]
Taken(parts) == Len(parts) <= MaxParts /\ \A i \in DOMAIN parts : PartValid(parts[i])

LEMMA StatusParsed ==
  ASSUME NEW list \in AnyStatusList
  PROVE  /\ ParseMonitorStatusSet(list) = IF Taken(PartsOf(list)) THEN <<Merged(Sorted(RangesOf(PartsOf(list))))>> ELSE <<>>
         /\ PartsOf(list) \in Seq(Parts) /\ Len(PartsOf(list)) > 0
<1>1. list \in Seq(Parts)
  BY DEF AnyStatusList, Parts
<1>2. PartsOf(list) \in Seq(Parts) /\ Len(PartsOf(list)) > 0
  <2>1. CASE list = <<>>
    <3> DEFINE p == [lo |-> DefaultLo, hi |-> DefaultHi, range |-> TRUE]
    <3>1. p \in Parts
      BY RuleAssumption DEF Parts
    <3>2. PartsOf(list) = <<p>>
      BY <2>1 DEF PartsOf
    <3> HIDE DEF p
    <3> QED
      BY <3>1, <3>2
  <2>2. CASE list # <<>>
    <3>1. PartsOf(list) = list
      BY <2>2 DEF PartsOf
    <3> QED
      BY <1>1, <2>2, <3>1
  <2> QED
    BY <2>1, <2>2
<1> DEFINE parts == PartsOf(list)
<1>3. ParseMonitorStatusSet(list) = IF Len(parts) > MaxParts \/ (\E i \in DOMAIN parts : ~PartValid(parts[i])) THEN <<>> ELSE <<Merged(Sorted(RangesOf(parts)))>>
  BY Zenon DEF ParseMonitorStatusSet, PartsOf, RangesOf
<1>4. (Len(parts) > MaxParts \/ (\E i \in DOMAIN parts : ~PartValid(parts[i]))) <=> ~Taken(parts)
  <2>1. Len(parts) \in Nat /\ MaxParts \in Nat
    BY <1>2, RuleAssumption
  <2> HIDE DEF parts
  <2> QED
    BY <2>1 DEF Taken
<1> QED
  BY <1>2, <1>3, <1>4

LEMMA PartRangeIs ==
  ASSUME NEW p \in Parts, PartValid(p)
  PROVE  /\ PartRange(p) \in Ranges /\ PartRange(p).lo <= PartRange(p).hi
         /\ MinCode <= PartRange(p).lo /\ PartRange(p).hi <= MaxCode
<1>1. p.lo \in Int /\ p.hi \in Int /\ MinCode \in Int /\ MaxCode \in Int
  BY RuleAssumption DEF Parts
<1>2. PICK h : h = IF p.range THEN p.hi ELSE p.lo
  OBVIOUS
<1>3. PartRange(p) = [lo |-> p.lo, hi |-> h]
  BY <1>2 DEF PartRange
<1>4. h \in Int /\ MinCode <= p.lo /\ p.lo <= h /\ h <= MaxCode
  BY <1>1, <1>2 DEF PartValid, Code
<1>5. PartRange(p).lo = p.lo /\ PartRange(p).hi = h
  BY <1>3
<1> QED
  BY <1>1, <1>3, <1>4, <1>5 DEF Ranges

LEMMA RangesTaken ==
  ASSUME NEW parts \in Seq(Parts), Len(parts) > 0, Taken(parts)
  PROVE  /\ RangesOf(parts) \in Lists /\ Len(RangesOf(parts)) = Len(parts)
         /\ Proper(RangesOf(parts)) /\ Within(RangesOf(parts), MinCode, MaxCode)
<1>1. PICK n \in Nat : n = Len(parts)
  OBVIOUS
<1>2. DOMAIN parts = 1..n /\ n > 0 /\ \A i \in 1..n : parts[i] \in Parts /\ PartValid(parts[i])
  BY <1>1 DEF Taken
<1>3. PICK r : r = RangesOf(parts)
  OBVIOUS
<1>4. r = [i \in 1..n |-> PartRange(parts[i])]
  BY <1>2, <1>3 DEF RangesOf
<1>5. \A i \in 1..n : r[i] \in Ranges /\ r[i].lo <= r[i].hi /\ MinCode <= r[i].lo /\ r[i].hi <= MaxCode
  BY <1>2, <1>4, PartRangeIs
<1>6. r \in Seq(Ranges) /\ Len(r) = n /\ DOMAIN r = 1..n
  BY <1>4, <1>5
<1> QED
  BY <1>1, <1>2, <1>3, <1>5, <1>6 DEF Lists, Proper, Within

LEMMA TextParts ==
  ASSUME NEW set \in Lists, Proper(set), Within(set, MinCode, MaxCode), Len(set) <= MaxParts
  PROVE  /\ String(set) \in AnyStatusList /\ PartsOf(String(set)) = String(set)
         /\ Taken(String(set)) /\ RangesOf(String(set)) = set
<1>1. PICK n \in Nat : n = Len(set)
  BY ListFacts
<1>2. n > 0 /\ DOMAIN set = 1..n /\ set \in Seq(Ranges) /\ \A i \in 1..n : set[i] \in Ranges /\ set[i].lo \in Int /\ set[i].hi \in Int
  BY <1>1, ListFacts
<1>3. \A i \in 1..n : set[i].lo <= set[i].hi /\ MinCode <= set[i].lo /\ set[i].hi <= MaxCode
  BY <1>2 DEF Proper, Within
<1>4. PICK s : s = String(set)
  OBVIOUS
<1>5. s = [i \in 1..n |-> [lo |-> set[i].lo, hi |-> set[i].hi, range |-> set[i].lo # set[i].hi]]
  BY <1>2, <1>4, Zenon DEF String
<1>6. ASSUME NEW i \in 1..n
      PROVE  s[i] \in Parts /\ s[i].lo = set[i].lo /\ s[i].hi = set[i].hi /\ (s[i].range <=> set[i].lo # set[i].hi)
  <2>1. PICK b \in BOOLEAN : b <=> set[i].lo # set[i].hi
    OBVIOUS
  <2>2. s[i] = [lo |-> set[i].lo, hi |-> set[i].hi, range |-> b]
    BY <1>5, <2>1
  <2> QED
    BY <1>2, <2>1, <2>2 DEF Parts
<1>7. s \in Seq(Parts) /\ Len(s) = n /\ DOMAIN s = 1..n
  BY <1>5, <1>6
<1>8. ASSUME NEW i \in 1..n PROVE PartValid(s[i]) /\ PartRange(s[i]) = set[i]
  <2>1. MinCode \in Int /\ MaxCode \in Int
    BY RuleAssumption
  <2>2. PartValid(s[i])
    BY <1>2, <1>3, <1>6, <2>1 DEF PartValid, Code
  <2>3. (IF s[i].range THEN s[i].hi ELSE s[i].lo) = set[i].hi
    BY <1>6
  <2>4. PartRange(s[i]) = [lo |-> set[i].lo, hi |-> set[i].hi]
    BY <1>6, <2>3 DEF PartRange
  <2>5. set[i] = [lo |-> set[i].lo, hi |-> set[i].hi]
    BY <1>2, RangeFields
  <2> QED
    BY <2>2, <2>4, <2>5
<1>9. RangesOf(s) = [i \in 1..n |-> set[i]]
  BY <1>7, <1>8 DEF RangesOf
<1>10. set \in [1..n -> Ranges]
  BY <1>1, <1>2
<1>11. RangesOf(s) = set
  BY <1>9, <1>10
<1>12. Taken(s)
  BY <1>1, <1>7, <1>8 DEF Taken
<1>13. s \in AnyStatusList /\ s # <<>>
  BY <1>2, <1>7 DEF AnyStatusList, Parts
<1> QED
  BY <1>4, <1>11, <1>12, <1>13 DEF PartsOf

(***************************************************************************)
(* A status set passes exactly the codes its list names, no two of its     *)
(* ranges could be one, and its text reads back as the same set, for every *)
(* list an operator can write (ParseMonitorStatusSet,                      *)
(* MonitorStatusSet.Contains, String).                                     *)
(***************************************************************************)
THEOREM StatusSetsKeepTheirCodes == \A list \in AnyStatusList : KeepsCodes(list)
<1> SUFFICES ASSUME NEW list \in AnyStatusList, ParseMonitorStatusSet(list) # <<>> PROVE KeepsCodes(list)
  BY Zenon DEF KeepsCodes
<1>1. PICK parts \in Seq(Parts) : parts = PartsOf(list) /\ Len(parts) > 0
  BY StatusParsed
<1>2. Taken(parts) /\ ParseMonitorStatusSet(list) = <<Merged(Sorted(RangesOf(parts)))>>
  BY <1>1, StatusParsed
<1>3. PICK r \in Lists : r = RangesOf(parts) /\ Len(r) = Len(parts) /\ Proper(r) /\ Within(r, MinCode, MaxCode)
  BY <1>1, <1>2, RangesTaken
<1>4. MinCode \in Int /\ MaxCode \in Int /\ MaxParts \in Int
  BY RuleAssumption
<1>5. PICK s \in Lists : s = Sorted(r) /\ Len(s) = Len(r) /\ Proper(s) /\ Ascending(s) /\ Within(s, MinCode, MaxCode)
                         /\ \A c \in Int : Names(s, Len(r), c) <=> Names(r, Len(r), c)
  BY <1>3, <1>4, SortedIs
<1>6. PICK set : set = Merged(s)
  OBVIOUS
<1>7. MergedSoFar(s, Len(s), set, MinCode, MaxCode)
  BY <1>4, <1>5, <1>6, MergedKeeps
<1>8. set \in Lists /\ Proper(set) /\ Separate(set) /\ Within(set, MinCode, MaxCode) /\ Len(set) <= Len(s)
  BY <1>7 DEF MergedSoFar
<1>9. \A c \in Int : Names(set, Len(set), c) <=> Names(r, Len(r), c)
  BY <1>5, <1>7 DEF MergedSoFar
<1>10. ParseMonitorStatusSet(list)[1] = set /\ ParseMonitorStatusSet(list) = <<set>>
  BY <1>2, <1>3, <1>5, <1>6
<1>11. ASSUME NEW c \in MinCode..MaxCode
       PROVE  InSet(set, c) <=> IF list = <<>> THEN c \in DefaultLo..DefaultHi
                                ELSE \E i \in DOMAIN list : c \in PartRange(list[i]).lo..PartRange(list[i]).hi
  <2>1. c \in Int
    BY <1>4
  <2>2. InSet(set, c) <=> Names(set, Len(set), c)
    <3>1. DOMAIN set = 1..Len(set) /\ \A i \in 1..Len(set) : set[i].lo \in Int /\ set[i].hi \in Int
      BY <1>8, ListFacts
    <3> QED
      BY <2>1, <3>1 DEF InSet, Names
  <2>3. DOMAIN parts = 1..Len(parts) /\ DOMAIN r = DOMAIN parts /\ \A i \in DOMAIN parts : r[i] = PartRange(parts[i])
    BY <1>1, <1>3 DEF RangesOf
  <2>4. Names(r, Len(r), c) <=> \E i \in DOMAIN parts : c \in PartRange(parts[i]).lo..PartRange(parts[i]).hi
    <3>1. \A i \in 1..Len(r) : r[i].lo \in Int /\ r[i].hi \in Int
      BY <1>3, ListFacts
    <3>2. \A i \in 1..Len(r) : c \in r[i].lo..r[i].hi <=> r[i].lo <= c /\ c <= r[i].hi
      BY <2>1, <3>1
    <3>3. Names(r, Len(r), c) <=> \E i \in 1..Len(r) : c \in r[i].lo..r[i].hi
      BY <3>2 DEF Names
    <3> QED
      BY <1>3, <2>3, <3>3
  <2>5. CASE list = <<>>
    <3> DEFINE p == [lo |-> DefaultLo, hi |-> DefaultHi, range |-> TRUE]
    <3>1. parts = <<p>>
      BY <1>1, <2>5 DEF PartsOf
    <3>2. DOMAIN parts = {1} /\ parts[1] = p
      BY <3>1
    <3>3. PartRange(p).lo = DefaultLo /\ PartRange(p).hi = DefaultHi
      BY DEF PartRange
    <3> HIDE DEF p
    <3>4. (\E i \in DOMAIN parts : c \in PartRange(parts[i]).lo..PartRange(parts[i]).hi) <=> c \in DefaultLo..DefaultHi
      BY <3>2, <3>3
    <3> QED
      BY <1>9, <2>1, <2>2, <2>4, <2>5, <3>4
  <2>6. CASE list # <<>>
    <3>1. parts = list
      BY <1>1, <2>6 DEF PartsOf
    <3> QED
      BY <1>9, <2>1, <2>2, <2>4, <2>6, <3>1
  <2> QED
    BY <2>5, <2>6
<1>12. \A i \in 1..(Len(set) - 1) : set[i].hi + 1 < set[i + 1].lo
  BY <1>8 DEF Separate
<1>13. ParseMonitorStatusSet(String(set)) = <<set>>
  <2>1. Len(set) <= MaxParts
    <3>1. Len(parts) \in Int /\ Len(parts) <= MaxParts /\ Len(set) \in Int
      BY <1>1, <1>2, <1>8, ListFacts DEF Taken
    <3> QED
      BY <1>3, <1>4, <1>5, <1>8, <3>1
  <2>2. String(set) \in AnyStatusList /\ PartsOf(String(set)) = String(set) /\ Taken(String(set)) /\ RangesOf(String(set)) = set
    BY <1>8, <2>1, TextParts
  <2>3. ParseMonitorStatusSet(String(set)) = <<Merged(Sorted(set))>>
    BY <2>2, StatusParsed
  <2> QED
    BY <1>8, <2>3, SortedStays, MergedStays
<1> QED
  BY <1>10, <1>11, <1>12, <1>13, Zenon DEF KeepsCodes

(***************************************************************************)
(* What an operator writes for a check is stored in one form for all the   *)
(* spellings of one meaning, in force as written and stored again as       *)
(* itself; no path at its baseline is degraded by a valid rule             *)
(* (CanonicalDegradedRule, ParseMonitorStatusSet, ParseDNSResolver,        *)
(* MonitorOrigin, CanonicalDNSValue).                                      *)
(***************************************************************************)
THEOREM CanonicalFormsKeep == Spec => []CanonicalKept
<1>1. Answers => CanonicalKept
  <2> SUFFICES ASSUME Answers PROVE CanonicalKept
    OBVIOUS
  <2> DEFINE q == question.of
  <2>1. ASSUME Answered("rule") PROVE KeepsRule(q) /\ \A base \in Bases : BaselineHealthy(q, base)
    <3>1. q \in AnyRule
      BY <2>1, InputAssumption, Given DEF Answered
    <3> QED
      BY <3>1, ValidationAssumption, StoredRulesKeepTheirMeaning, BaselineNeverDegraded
  <2>2. ASSUME Answered("status") PROVE KeepsCodes(q)
    <3>1. q \in AnyStatusList
      BY <2>2, InputAssumption, Given DEF Answered
    <3> QED
      BY <3>1, StatusSetsKeepTheirCodes
  <2>3. ASSUME Answered("targets") PROVE DNS!OneText(q.one, q.two) /\ DNS!OneOrigin(q.one, q.two)
    <3>1. q \in [one : AnyTarget, two : AnyTarget]
      BY <2>3, InputAssumption, Given DEF Answered
    <3>2. q.one \in AnyTarget /\ q.two \in AnyTarget
      BY <3>1
    <3> QED
      BY <3>2, OneTextHolds, OneOriginHolds
  <2>4. ASSUME Answered("values") PROVE DNS!OneValue(q.typ, q.one, q.two)
    <3>1. q \in [typ : STRING, one : AnyHost, two : AnyHost]
      BY <2>4, InputAssumption, Given DEF Answered
    <3>2. q.typ \in STRING /\ q.one \in AnyHost /\ q.two \in AnyHost
      BY <3>1
    <3> QED
      BY <3>2, OneValueHolds
  <2> QED
    BY <2>1, <2>2, <2>3, <2>4 DEF CanonicalKept
<1> QED
  BY <1>1, AnswersHold, PTL

-----------------------------------------------------------------------------
(***************************************************************************)
(* The first of some checks that fails.                                    *)
(***************************************************************************)
Errors ==
  {"content", "key", "credential", "source", "name", "arguments", "chain size", "steps", "inputs", "target", "nodes", "node",
   "version", "lines", "line_uuid", "line twice", "failures", "bytes", "provider", "placeholders", "placeholder",
   "duplicate", "fleet only", "kind", "document", "no document",
   "screen", "size", "role", "path state", "downstream", "service state", "verdict", "counters", "vantage",
   "param", "reserved", "not kept", "sensitive", "params", "dropped", "usage",
   "line_hash_id", "node_id", "protocol", "enum", "text", "tag", "public_port", "address", "ddns name", "ddns target"}
Words == STRING \cup Errors \cup {Enc!OK}

LEMMA SameOK == Row!OK = Enc!OK /\ Enc!OK = ""
BY Zenon DEF Enc!OK, Row!OK

LEMMA SameFirst == ASSUME NEW s PROVE Row!First(s) = Enc!First(s)
<1>1. Row!OK = Enc!OK
  BY SameOK, Zenon
<1> QED
  BY <1>1, SMT DEF Row!First, Enc!First

LEMMA IfWord == ASSUME NEW c, NEW e \in Errors PROVE Enc!If(c, e) \in Words
BY Zenon DEF Enc!If, Words

LEMMA OKWord == Enc!OK \in Words
BY DEF Words

LEMMA OneOf == ASSUME NEW S, NEW e \in S PROVE <<e>> \in Seq(S) /\ Len(<<e>>) = 1 /\ DOMAIN <<e>> = 1..1 /\ <<e>>[1] = e
OBVIOUS

LEMMA FirstAt ==
  ASSUME NEW s \in Seq(Words), NEW k \in DOMAIN s, s[k] # Enc!OK, \A j \in 1..(k - 1) : s[j] = Enc!OK
  PROVE  Enc!First(s) = s[k]
<1>n. PICK n \in Nat : n = Len(s) /\ DOMAIN s = 1..n
  OBVIOUS
<1> DEFINE bad == {i \in DOMAIN s : s[i] # Enc!OK}
<1>1. k \in bad /\ bad # {}
  OBVIOUS
<1>2. ASSUME NEW i \in bad, \A j \in bad : i <= j PROVE i = k
  <2>1. i \in 1..n /\ k \in 1..n /\ i <= k
    BY <1>n, <1>1, <1>2
  <2>2. ~(i \in 1..(k - 1))
    OBVIOUS
  <2> QED
    BY <2>1, <2>2
<1>3. \A j \in bad : k <= j
  <2> SUFFICES ASSUME NEW j \in bad PROVE k <= j
    OBVIOUS
  <2>1. j \in 1..n /\ k \in 1..n /\ ~(j \in 1..(k - 1))
    BY <1>n
  <2> QED
    BY <2>1
<1>4. PICK c : c = CHOOSE i \in bad : \A j \in bad : i <= j
  OBVIOUS
<1>5. c = k
  <2>1. c \in bad /\ \A j \in bad : c <= j
    BY <1>1, <1>3, <1>4, Zenon
  <2> QED
    BY <1>2, <2>1
<1> HIDE DEF bad
<1>6. Enc!First(s) = IF bad = {} THEN Enc!OK ELSE s[c]
  BY <1>4, SMT DEF Enc!First, bad
<1> QED
  BY <1>1, <1>5, <1>6

LEMMA FirstNone == ASSUME NEW s, \A i \in DOMAIN s : s[i] = Enc!OK PROVE Enc!First(s) = Enc!OK
<1>1. {i \in DOMAIN s : s[i] # Enc!OK} = {}
  OBVIOUS
<1> QED
  BY <1>1, Zenon DEF Enc!First

LEMMA FirstIs ==
  ASSUME NEW s \in Seq(Words)
  PROVE  \/ Enc!First(s) = Enc!OK /\ \A i \in DOMAIN s : s[i] = Enc!OK
         \/ \E k \in DOMAIN s : Enc!First(s) = s[k] /\ s[k] # Enc!OK /\ \A j \in 1..(k - 1) : s[j] = Enc!OK
<1>n. PICK n \in Nat : n = Len(s) /\ DOMAIN s = 1..n
  OBVIOUS
<1>1. CASE \A i \in DOMAIN s : s[i] = Enc!OK
  BY <1>1, FirstNone
<1>2. CASE ~\A i \in DOMAIN s : s[i] = Enc!OK
  <2> DEFINE bad == {i \in DOMAIN s : s[i] # Enc!OK}
  <2>1. bad \in SUBSET Nat /\ bad # {}
    BY <1>n, <1>2
  <2>2. PICK k \in bad : \A j \in bad : k <= j
    BY <2>1, LeastNatural
  <2>3. ASSUME NEW j \in 1..(k - 1) PROVE s[j] = Enc!OK
    <3>1. k \in 1..n
      BY <1>n
    <3>2. j \in 1..n /\ ~(k <= j)
      BY <3>1
    <3> QED
      BY <1>n, <2>2, <3>2
  <2>4. k \in DOMAIN s /\ s[k] # Enc!OK
    OBVIOUS
  <2>5. Enc!First(s) = s[k]
    BY <2>3, <2>4, FirstAt
  <2> QED
    BY <2>3, <2>4, <2>5
<1> QED
  BY <1>1, <1>2

LEMMA FirstWord == ASSUME NEW s \in Seq(Words) PROVE Enc!First(s) \in Words
<1>1. \A i \in DOMAIN s : s[i] \in Words
  OBVIOUS
<1> QED
  BY <1>1, FirstIs, OKWord

LEMMA FirstCat ==
  ASSUME NEW s \in Seq(Words), NEW t \in Seq(Words)
  PROVE  /\ s \o t \in Seq(Words)
         /\ Enc!First(s \o t) = IF Enc!First(s) # Enc!OK THEN Enc!First(s) ELSE Enc!First(t)
<1>n. PICK n \in Nat : n = Len(s) /\ DOMAIN s = 1..n
  OBVIOUS
<1>m. PICK m \in Nat : m = Len(t) /\ DOMAIN t = 1..m
  OBVIOUS
<1> DEFINE u == s \o t
<1>0. /\ u \in Seq(Words) /\ DOMAIN u = 1..(n + m)
      /\ \A i \in 1..n : u[i] = s[i]
      /\ \A i \in 1..m : u[n + i] = t[i]
  BY <1>n, <1>m
<1> HIDE DEF u
<1>1. ASSUME NEW k \in DOMAIN s, Enc!First(s) = s[k], s[k] # Enc!OK, \A j \in 1..(k - 1) : s[j] = Enc!OK
      PROVE  Enc!First(u) = Enc!First(s)
  <2>1. k \in 1..n /\ k \in 1..(n + m)
    BY <1>n
  <2>2. ASSUME NEW j \in 1..(k - 1) PROVE u[j] = Enc!OK
    <3>1. j \in 1..n
      BY <2>1
    <3> QED
      BY <1>0, <1>1, <3>1
  <2> QED
    BY <1>0, <1>1, <2>1, <2>2, FirstAt
<1>2. ASSUME \A i \in DOMAIN s : s[i] = Enc!OK, NEW k \in DOMAIN t, Enc!First(t) = t[k], t[k] # Enc!OK, \A j \in 1..(k - 1) : t[j] = Enc!OK
      PROVE  Enc!First(u) = Enc!First(t)
  <2>1. k \in 1..m /\ n + k \in 1..(n + m)
    BY <1>m
  <2>2. ASSUME NEW j \in 1..((n + k) - 1) PROVE u[j] = Enc!OK
    <3>1. j \in 1..n \/ (j - n \in 1..(k - 1) /\ j - n \in 1..m /\ j = n + (j - n))
      BY <2>1
    <3>2. j \in 1..n => u[j] = Enc!OK
      BY <1>0, <1>n, <1>2
    <3>3. ASSUME NEW i \in 1..(k - 1), i \in 1..m PROVE u[n + i] = Enc!OK
      BY <1>0, <1>2, <3>3
    <3> QED
      BY <3>1, <3>2, <3>3
  <2>3. u[n + k] = t[k]
    BY <1>0, <2>1
  <2> QED
    BY <1>0, <1>2, <2>1, <2>2, <2>3, FirstAt
<1>3. ASSUME \A i \in DOMAIN s : s[i] = Enc!OK, \A i \in DOMAIN t : t[i] = Enc!OK PROVE Enc!First(u) = Enc!OK
  <2>1. ASSUME NEW j \in 1..(n + m) PROVE u[j] = Enc!OK
    <3>1. j \in 1..n \/ (j - n \in 1..m /\ j = n + (j - n))
      OBVIOUS
    <3>2. j \in 1..n => u[j] = Enc!OK
      BY <1>0, <1>n, <1>3
    <3>3. ASSUME NEW i \in 1..m PROVE u[n + i] = Enc!OK
      BY <1>0, <1>m, <1>3
    <3> QED
      BY <3>1, <3>2, <3>3
  <2> QED
    BY <1>0, <2>1, FirstNone
<1>4. \/ Enc!First(s) = Enc!OK /\ \A i \in DOMAIN s : s[i] = Enc!OK
      \/ \E k \in DOMAIN s : Enc!First(s) = s[k] /\ s[k] # Enc!OK /\ \A j \in 1..(k - 1) : s[j] = Enc!OK
  BY FirstIs
<1>5. \/ Enc!First(t) = Enc!OK /\ \A i \in DOMAIN t : t[i] = Enc!OK
      \/ \E k \in DOMAIN t : Enc!First(t) = t[k] /\ t[k] # Enc!OK /\ \A j \in 1..(k - 1) : t[j] = Enc!OK
  BY FirstIs
<1>6. Enc!First(u) = IF Enc!First(s) # Enc!OK THEN Enc!First(s) ELSE Enc!First(t)
  BY <1>1, <1>2, <1>3, <1>4, <1>5
<1> QED
  BY <1>0, <1>6 DEF u

LEMMA FirstOne == ASSUME NEW e \in Words PROVE <<e>> \in Seq(Words) /\ Enc!First(<<e>>) = e
<1>1. <<e>> \in Seq(Words) /\ DOMAIN <<e>> = 1..1 /\ <<e>>[1] = e
  BY OneOf
<1>2. CASE e = Enc!OK
  BY <1>1, <1>2, FirstNone
<1>3. CASE e # Enc!OK
  <2>1. 1 \in DOMAIN <<e>> /\ \A j \in 1..(1 - 1) : <<e>>[j] = Enc!OK
    BY <1>1
  <2> QED
    BY <1>1, <1>3, <2>1, FirstAt
<1> QED
  BY <1>1, <1>2, <1>3

-----------------------------------------------------------------------------
(***************************************************************************)
(* Spliced encodings.                                                      *)
(***************************************************************************)
LEMMA CanonicalStays == ASSUME NEW r \in AnyRaw, Enc!CanonicalRaw(r) PROVE Enc!Marshalled(r) = r
<1>0. r.bytes \in Nat
  BY DEF AnyRaw
<1>1. ~r.spaced /\ ~r.escapes
  BY DEF Enc!CanonicalRaw, Enc!Compact
<1>2. r.spaced = FALSE /\ r.escapes = FALSE
  BY <1>1, Zenon DEF AnyRaw
<1>3. r.bytes - (IF r.spaced THEN 1 ELSE 0) + (IF r.escapes THEN 5 ELSE 0) = r.bytes
  BY <1>0, <1>1
<1>4. Enc!Marshalled(r) = [r EXCEPT !.spaced = r.spaced, !.escapes = r.escapes, !.bytes = r.bytes]
  BY <1>2, <1>3, Zenon DEF Enc!Marshalled
<1>5. r = [i \in {"open", "json", "repeats", "spaced", "escapes", "bytes"} |-> r[i]]
  BY DEF AnyRaw
<1> QED
  BY <1>4, <1>5, Zenon

LEMMA ResultSpliced == ASSUME NEW q \in AnyResult PROVE Enc!InvokeResult(q) = Enc!EncodedResult(q)
<1>1. CASE \A r \in q.result : Enc!CanonicalRaw(r)
  <2>1. q.result \in SUBSET AnyRaw
    BY DEF AnyResult
  <2>2. \A r \in q.result : Enc!Marshalled(r) = r
    BY <1>1, <2>1, CanonicalStays
  <2>3. {Enc!Marshalled(r) : r \in q.result} = q.result
    BY <2>2
  <2> QED
    BY <1>1, <2>3, Zenon DEF Enc!InvokeResult, Enc!EncodedResult
<1>2. CASE ~\A r \in q.result : Enc!CanonicalRaw(r)
  BY <1>2, Zenon DEF Enc!InvokeResult
<1> QED
  BY <1>1, <1>2

LEMMA ThreeWords == ASSUME NEW a \in Words, NEW b \in Words, NEW c \in Words PROVE <<a, b, c>> \in Seq(Words)
OBVIOUS

LEMMA FourWords == ASSUME NEW a \in Words, NEW b \in Words, NEW c \in Words, NEW d \in Words PROVE <<a, b, c, d>> \in Seq(Words)
OBVIOUS

LEMMA ThreeChecks ==
  ASSUME NEW a, NEW x \in Errors, NEW b, NEW y \in Errors, NEW c, NEW z \in Errors
  PROVE  <<Enc!If(a, x), Enc!If(b, y), Enc!If(c, z)>> \in Seq(Words)
BY IfWord, ThreeWords, Zenon

LEMMA FourChecks ==
  ASSUME NEW a, NEW x \in Errors, NEW b, NEW y \in Errors, NEW c, NEW z \in Errors, NEW d, NEW w \in Errors
  PROVE  <<Enc!If(a, x), Enc!If(b, y), Enc!If(c, z), Enc!If(d, w)>> \in Seq(Words)
BY IfWord, FourWords, Zenon

LEMMA DocumentWord == ASSUME NEW d PROVE Enc!DocumentError(d) \in Words
<1>1. "content" \in Errors /\ "key" \in Errors /\ "credential" \in Errors
  BY DEF Errors
<1>2. <<Enc!If(~d.content, "content"), Enc!If(\E s \in d.substitutions : ~s.placeholder, "key"),
        Enc!If(\E s \in d.substitutions : ~s.credential, "credential")>> \in Seq(Words)
  BY <1>1, ThreeChecks, Zenon
<1> QED
  BY <1>2, FirstWord, Zenon DEF Enc!DocumentError

LEMMA StepWord == ASSUME NEW s, NEW i PROVE Enc!StepError(s, i) \in Words
<1>1. "source" \in Errors /\ "name" \in Errors /\ "arguments" \in Errors /\ "chain size" \in Errors
  BY DEF Errors
<1>2. <<Enc!If(~s[i].source, "source"), Enc!If(~s[i].name, "name"),
        Enc!If(s[i].arguments # {} /\ ~\A a \in s[i].arguments : Enc!IsJSONObject(a), "arguments"),
        Enc!If(Enc!ChainBytes(s, i) > MaxChain, "chain size")>> \in Seq(Words)
  BY <1>1, FourChecks, Zenon
<1> QED
  BY <1>2, FirstWord, Zenon DEF Enc!StepError

LEMMA ChainWord == ASSUME NEW S, NEW s \in Seq(S) PROVE Enc!ChainError(s) \in Words
<1> DEFINE f == [i \in DOMAIN s |-> Enc!StepError(s, i)]
<1>1. PICK n \in Nat : n = Len(s) /\ DOMAIN s = 1..n
  OBVIOUS
<1>2. \A i \in 1..n : f[i] \in Words
  BY <1>1, StepWord
<1>3. f \in Seq(Words)
  BY <1>1, <1>2
<1> HIDE DEF f
<1>4. Enc!First(f) \in Words
  BY <1>3, FirstWord
<1>5. Enc!ChainError(s) = IF Len(s) > MaxSteps THEN "steps" ELSE Enc!First(f)
  BY Zenon DEF Enc!ChainError, f
<1>6. "steps" \in Words
  BY DEF Words, Errors
<1> QED
  BY <1>4, <1>5, <1>6

\* The checks of a convert request but those of its nodes.
HeadChecks(r) ==
  <<Enc!If(Enc!Set(r.uris) + Enc!Set(r.raw) + Enc!Set(r.nodes # <<>>) + Enc!Set(r.document # <<>>) # 1, "inputs"),
    Enc!If(r.document = <<>> /\ ~r.target, "target"),
    Enc!If(Len(r.nodes) > MaxNodes, "nodes")>>
NodeChecks(r) == [i \in DOMAIN r.nodes |-> Enc!If(~Enc!IsJSONObject(r.nodes[i]), "node")]
DocumentChecks(r) == [i \in DOMAIN r.document |-> Enc!DocumentError(r.document[i])]

LEMMA HeadWords == ASSUME NEW r PROVE HeadChecks(r) \in Seq(Words)
<1>1. "inputs" \in Errors /\ "target" \in Errors /\ "nodes" \in Errors
  BY DEF Errors
<1> QED
  BY <1>1, ThreeChecks, Zenon DEF HeadChecks

LEMMA NodeWords == ASSUME NEW r, NEW S, r.nodes \in Seq(S) PROVE NodeChecks(r) \in Seq(Words)
<1> DEFINE f == NodeChecks(r)
<1>1. PICK n \in Nat : n = Len(r.nodes) /\ DOMAIN r.nodes = 1..n
  OBVIOUS
<1>2. \A i \in 1..n : Enc!If(~Enc!IsJSONObject(r.nodes[i]), "node") \in Words
  <2>1. "node" \in Errors
    BY DEF Errors
  <2> QED
    BY <2>1, IfWord, Zenon
<1>3. f = [i \in 1..n |-> Enc!If(~Enc!IsJSONObject(r.nodes[i]), "node")]
  BY <1>1, Zenon DEF NodeChecks
<1>4. f \in [1..n -> Words]
  BY <1>2, <1>3, Zenon
<1> QED
  BY <1>4

LEMMA DocumentWords == ASSUME NEW r, NEW S, r.document \in Seq(S) PROVE DocumentChecks(r) \in Seq(Words)
<1> DEFINE f == DocumentChecks(r)
<1>1. PICK n \in Nat : n = Len(r.document) /\ DOMAIN r.document = 1..n
  OBVIOUS
<1>2. \A i \in 1..n : Enc!DocumentError(r.document[i]) \in Words
  BY DocumentWord, Zenon
<1>3. f = [i \in 1..n |-> Enc!DocumentError(r.document[i])]
  BY <1>1, Zenon DEF DocumentChecks
<1>4. f \in [1..n -> Words]
  BY <1>2, <1>3, Zenon
<1> QED
  BY <1>4

LEMMA RequestErrorIs ==
  ASSUME NEW r, NEW A, NEW B, NEW C, r.nodes \in Seq(A), r.document \in Seq(B), r.chain \in Seq(C)
  PROVE  Enc!RequestError(r) =
           IF Enc!First(HeadChecks(r)) # Enc!OK THEN Enc!First(HeadChecks(r))
           ELSE IF Enc!First(NodeChecks(r)) # Enc!OK THEN Enc!First(NodeChecks(r))
           ELSE IF Enc!First(DocumentChecks(r)) # Enc!OK THEN Enc!First(DocumentChecks(r))
           ELSE Enc!ChainError(r.chain)
<1>1. PICK h \in Seq(Words) : h = HeadChecks(r)
  BY HeadWords
<1>2. PICK n \in Seq(Words) : n = NodeChecks(r)
  BY NodeWords
<1>3. PICK d \in Seq(Words) : d = DocumentChecks(r)
  BY DocumentWords
<1>4. PICK c \in Words : c = Enc!ChainError(r.chain)
  BY ChainWord
<1>5. Enc!RequestError(r) = Enc!First(h \o n \o d \o <<c>>)
  BY <1>1, <1>2, <1>3, <1>4, Zenon DEF Enc!RequestError, HeadChecks, NodeChecks, DocumentChecks
<1>6. h \o n \in Seq(Words) /\ Enc!First(h \o n) = IF Enc!First(h) # Enc!OK THEN Enc!First(h) ELSE Enc!First(n)
  BY FirstCat
<1>7. h \o n \o d \in Seq(Words) /\ Enc!First(h \o n \o d) = IF Enc!First(h \o n) # Enc!OK THEN Enc!First(h \o n) ELSE Enc!First(d)
  BY <1>6, FirstCat
<1>8. <<c>> \in Seq(Words) /\ Enc!First(<<c>>) = c
  BY FirstOne
<1>9. Enc!First(h \o n \o d \o <<c>>) = IF Enc!First(h \o n \o d) # Enc!OK THEN Enc!First(h \o n \o d) ELSE c
  BY <1>7, <1>8, FirstCat
<1> QED
  BY <1>1, <1>2, <1>3, <1>4, <1>5, <1>6, <1>7, <1>9, Zenon
LEMMA ConvertFields ==
  ASSUME NEW r \in AnyConvert
  PROVE  /\ r.nodes \in Seq(AnyRaw)
         /\ \E B : r.document \in Seq(B)
         /\ \E C : r.chain \in Seq(C)
BY DEF AnyConvert, AtMostOne

LEMMA NodesReplaced ==
  ASSUME NEW r \in AnyConvert, NEW x, NEW s, s = [r EXCEPT !.nodes = x]
  PROVE  s.uris = r.uris /\ s.raw = r.raw /\ s.target = r.target /\ s.nodes = x /\ s.document = r.document /\ s.chain = r.chain
<1>1. r = [i \in {"uris", "raw", "target", "nodes", "document", "chain"} |-> r[i]]
  BY DEF AnyConvert
<1> QED
  BY <1>1, SMT

\* Spliced nodes all pass the check of the nodes.
LEMMA SplicedNodes ==
  ASSUME NEW r, NEW A, r.nodes \in Seq(A), \A i \in DOMAIN r.nodes : r.nodes[i].open /\ Enc!CanonicalRaw(r.nodes[i])
  PROVE  Enc!First(NodeChecks(r)) = Enc!OK
<1>1. ASSUME NEW i \in DOMAIN r.nodes PROVE NodeChecks(r)[i] = Enc!OK
  <2>1. NodeChecks(r)[i] = Enc!If(~Enc!IsJSONObject(r.nodes[i]), "node")
    BY Zenon DEF NodeChecks
  <2>2. Enc!IsJSONObject(r.nodes[i])
    BY Zenon DEF Enc!IsJSONObject, Enc!CanonicalRaw, Enc!Compact
  <2> QED
    BY <2>1, <2>2, Zenon DEF Enc!If
<1>2. DOMAIN NodeChecks(r) = DOMAIN r.nodes
  BY Zenon DEF NodeChecks
<1> QED
  BY <1>1, <1>2, FirstNone

LEMMA RequestSpliced ==
  ASSUME NEW r \in AnyConvert, r.nodes # <<>>, Len(r.nodes) <= MaxNodes,
         \A i \in DOMAIN r.nodes : r.nodes[i].open /\ Enc!CanonicalRaw(r.nodes[i])
  PROVE  Enc!RequestError([r EXCEPT !.nodes = <<Enc!EmptyNode>>]) = Enc!RequestError(r)
<1> DEFINE one == <<Enc!EmptyNode>>
<1>1. PICK s : s = [r EXCEPT !.nodes = one]
  OBVIOUS
<1>2. s.uris = r.uris /\ s.raw = r.raw /\ s.target = r.target /\ s.nodes = one /\ s.document = r.document /\ s.chain = r.chain
  BY <1>1, NodesReplaced
<1>3. r.nodes \in Seq(AnyRaw) /\ \E B : r.document \in Seq(B) /\ \E C : r.chain \in Seq(C)
  BY ConvertFields
<1>4. PICK e : e = Enc!EmptyNode
  OBVIOUS
<1>5. s.nodes \in Seq({e}) /\ s.nodes # <<>> /\ Len(s.nodes) = 1 /\ DOMAIN s.nodes = 1..1 /\ s.nodes[1] = e
  <2>1. s.nodes = <<e>>
    BY <1>2, <1>4
  <2> QED
    BY <2>1
<1>6. e.open /\ Enc!CanonicalRaw(e)
  BY <1>4, Zenon DEF Enc!EmptyNode, Enc!CanonicalRaw, Enc!Compact
<1>7. Len(r.nodes) \in Nat /\ Len(r.nodes) > 0 /\ MaxNodes \in Nat
  BY <1>3, ValidationAssumption
<1>8. ~(Len(r.nodes) > MaxNodes) /\ ~(Len(s.nodes) > MaxNodes)
  BY <1>5, <1>7
<1>9. HeadChecks(s) = HeadChecks(r)
  <2>1. Enc!If(Len(r.nodes) > MaxNodes, "nodes") = Enc!OK /\ Enc!If(Len(s.nodes) > MaxNodes, "nodes") = Enc!OK
    BY <1>8, Zenon DEF Enc!If
  <2>2. Enc!Set(r.nodes # <<>>) = 1 /\ Enc!Set(s.nodes # <<>>) = 1
    BY <1>5, Zenon DEF Enc!Set
  <2> QED
    BY <1>2, <2>1, <2>2, Zenon DEF HeadChecks
<1>10. Enc!First(NodeChecks(s)) = Enc!OK /\ Enc!First(NodeChecks(r)) = Enc!OK
  <2>1. \A i \in DOMAIN s.nodes : s.nodes[i].open /\ Enc!CanonicalRaw(s.nodes[i])
    <3>1. \A i \in DOMAIN s.nodes : s.nodes[i] = e
      BY <1>5
    <3> QED
      BY <1>6, <3>1, Zenon
  <2> QED
    BY <1>3, <1>5, <2>1, SplicedNodes
<1>11. DocumentChecks(s) = DocumentChecks(r)
  BY <1>2, Zenon DEF DocumentChecks
<1>12. PICK B, C : r.document \in Seq(B) /\ r.chain \in Seq(C) /\ s.document \in Seq(B) /\ s.chain \in Seq(C)
  BY <1>2, <1>3
<1>13. Enc!RequestError(s) = Enc!RequestError(r)
  BY <1>2, <1>3, <1>5, <1>9, <1>10, <1>11, <1>12, RequestErrorIs, Zenon
<1> QED
  BY <1>1, <1>13

LEMMA ConvertSpliced == ASSUME NEW r \in AnyConvert PROVE Enc!EncodeConvertRequest(r) = Enc!Plainly(r)
<1> DEFINE left == r.nodes = <<>> \/ (\E i \in DOMAIN r.nodes : ~(r.nodes[i].open /\ Enc!CanonicalRaw(r.nodes[i]))) \/ Len(r.nodes) > MaxNodes
           error == Enc!RequestError([r EXCEPT !.nodes = <<Enc!EmptyNode>>])
           parts == [error |-> Enc!OK, parts |-> r.nodes]
<1>0. Enc!Spliced(r) = IF left THEN <<>> ELSE IF error # Enc!OK THEN <<Enc!Failing(error)>> ELSE IF Enc!Slots(r) # 1 THEN <<>> ELSE <<parts>>
  BY Zenon DEF Enc!Spliced
<1>1. ASSUME Enc!Spliced(r) = <<>> PROVE Enc!EncodeConvertRequest(r) = Enc!Plainly(r)
  BY <1>1 DEF Enc!EncodeConvertRequest
<1>2. ASSUME NEW x, Enc!Spliced(r) = <<x>>
      PROVE  Enc!EncodeConvertRequest(r) = IF x.error = Enc!OK THEN Enc!Bounded(x.parts) ELSE x
  BY <1>2 DEF Enc!EncodeConvertRequest
<1>3. CASE left \/ (error = Enc!OK /\ Enc!Slots(r) # 1)
  BY <1>0, <1>1, <1>3, Zenon
<1>4. CASE ~left /\ error # Enc!OK
  <2>1. error = Enc!RequestError(r)
    <3>1. Len(r.nodes) \in Nat /\ MaxNodes \in Nat
      BY ConvertFields, ValidationAssumption
    <3>2. Len(r.nodes) <= MaxNodes
      BY <1>4, <3>1
    <3> QED
      BY <1>4, <3>2, RequestSpliced
  <2>2. Enc!Spliced(r) = <<Enc!Failing(error)>>
    BY <1>0, <1>4, Zenon
  <2>3. Enc!Failing(error).error = error
    BY DEF Enc!Failing
  <2>4. Enc!EncodeConvertRequest(r) = Enc!Failing(error)
    BY <1>2, <1>4, <2>2, <2>3, Zenon
  <2> QED
    BY <1>4, <2>1, <2>4, Zenon DEF Enc!Plainly
<1>5. CASE ~left /\ error = Enc!OK /\ ~(Enc!Slots(r) # 1)
  <2>1. error = Enc!RequestError(r)
    <3>1. Len(r.nodes) \in Nat /\ MaxNodes \in Nat
      BY ConvertFields, ValidationAssumption
    <3>2. Len(r.nodes) <= MaxNodes
      BY <1>5, <3>1
    <3> QED
      BY <1>5, <3>2, RequestSpliced
  <2>2. Enc!Spliced(r) = <<parts>>
    BY <1>0, <1>5, Zenon
  <2>3. parts.error = Enc!OK /\ parts.parts = r.nodes
    OBVIOUS
  <2>4. Enc!EncodeConvertRequest(r) = Enc!Bounded(r.nodes)
    BY <1>2, <2>2, <2>3, Zenon
  <2>5. Enc!Marshal(r) = r.nodes
    <3>1. r.nodes \in Seq(AnyRaw)
      BY ConvertFields
    <3>2. \A i \in DOMAIN r.nodes : Enc!Marshalled(r.nodes[i]) = r.nodes[i]
      <4>1. \A i \in DOMAIN r.nodes : r.nodes[i] \in AnyRaw
        BY <3>1
      <4> QED
        BY <1>5, <4>1, CanonicalStays
    <3>3. Enc!Marshal(r) = [i \in DOMAIN r.nodes |-> r.nodes[i]]
      BY <3>2, Zenon DEF Enc!Marshal
    <3> QED
      BY <3>1, <3>3
  <2> QED
    BY <1>5, <2>1, <2>4, <2>5, Zenon DEF Enc!Plainly
<1> QED
  BY <1>3, <1>4, <1>5

\* Splicing raw JSON into an invoke_result frame or a convert request makes
\* what encoding it plainly makes, whatever the response or the request
\* (appendInvokeResultFrame, EncodeConvertRequest).
THEOREM SplicingIsEncoding == Spec => []SplicedAsEncoded
<1>1. Answers => SplicedAsEncoded
  <2> SUFFICES ASSUME Answers PROVE SplicedAsEncoded
    OBVIOUS
  <2>1. ASSUME Answered("convert") PROVE answer[1] = Enc!Plainly(question.of)
    <3>1. question.of \in AnyConvert
      BY <2>1, InputAssumption, Given DEF Answered
    <3>2. answer[1] = Enc!EncodeConvertRequest(question.of)
      BY <2>1 DEF Answers, RightAnswer, Put, Answered
    <3> QED
      BY <3>1, <3>2, ConvertSpliced
  <2>2. ASSUME Answered("result") PROVE answer[1] = Enc!EncodedResult(question.of)
    <3>1. question.of \in AnyResult
      BY <2>2, InputAssumption, Given DEF Answered
    <3>2. answer[1] = Enc!InvokeResult(question.of)
      BY <2>2 DEF Answers, RightAnswer, Put, Answered
    <3> QED
      BY <3>1, <3>2, ResultSpliced
  <2> QED
    BY <2>1, <2>2 DEF SplicedAsEncoded
<1> QED
  BY <1>1, AnswersHold, PTL

-----------------------------------------------------------------------------
(***************************************************************************)
(* Selection plans.                                                        *)
(***************************************************************************)
LEMMA NodeTrusted ==
  ASSUME NEW n, n.node.json PROVE Enc!NodeError(n, TRUE) = Enc!NodeError(n, FALSE)
<1>1. Enc!If(~(IF TRUE THEN Enc!OpensObject(n.node) ELSE Enc!IsJSONObject(n.node)), "node")
      = Enc!If(~(IF FALSE THEN Enc!OpensObject(n.node) ELSE Enc!IsJSONObject(n.node)), "node")
  BY Zenon DEF Enc!If, Enc!OpensObject, Enc!IsJSONObject
<1> QED
  BY <1>1, Zenon DEF Enc!NodeError

LEMMA PlanNodeTrusted ==
  ASSUME NEW p, NEW i, p.nodes[i].node.json, ~p.nodes[i].node.repeats
  PROVE  Enc!PlanNodeError(p, i, TRUE) = Enc!PlanNodeError(p, i, FALSE)
<1>1. Enc!If(~TRUE /\ p.nodes[i].node.repeats, "duplicate") = Enc!If(~FALSE /\ p.nodes[i].node.repeats, "duplicate")
  BY Zenon DEF Enc!If
<1>2. Enc!NodeError(p.nodes[i], TRUE) = Enc!NodeError(p.nodes[i], FALSE)
  BY NodeTrusted, Zenon
<1> QED
  BY <1>1, <1>2, Zenon DEF Enc!PlanNodeError

LEMMA PlanTrusted ==
  ASSUME NEW p, Enc!Encodable(p), \A r \in Enc!Raws(p) : ~r.repeats PROVE Enc!Validate(p, TRUE) = Enc!Validate(p, FALSE)
<1>1. \A i \in DOMAIN p.nodes : Enc!PlanNodeError(p, i, TRUE) = Enc!PlanNodeError(p, i, FALSE)
  <2> SUFFICES ASSUME NEW i \in DOMAIN p.nodes PROVE Enc!PlanNodeError(p, i, TRUE) = Enc!PlanNodeError(p, i, FALSE)
    OBVIOUS
  <2>1. p.nodes[i].node \in Enc!Raws(p)
    BY Zenon DEF Enc!Raws
  <2>2. p.nodes[i].node.json /\ ~p.nodes[i].node.repeats
    BY <2>1, Zenon DEF Enc!Encodable
  <2> QED
    BY <2>2, PlanNodeTrusted
<1>2. [i \in DOMAIN p.nodes |-> Enc!PlanNodeError(p, i, TRUE)] = [i \in DOMAIN p.nodes |-> Enc!PlanNodeError(p, i, FALSE)]
  BY <1>1, Zenon
<1> QED
  BY <1>2, Zenon DEF Enc!Validate

LEMMA PlanAnswers ==
  ASSUME NEW p, Enc!Encodable(p)
  PROVE  /\ Enc!ValidateTrustingEncoding(p) = Enc!Validate(p, FALSE)
         /\ Enc!DecodeSelectionPlan(p) = Enc!OK
            <=> p.bytes # 0 /\ ~(p.bytes > MaxPlan) /\ (\A r \in Enc!Raws(p) : ~r.repeats) /\ Enc!Validate(p, FALSE) = Enc!OK
<1>1. "duplicate" # Enc!OK /\ "size" # Enc!OK
  BY Zenon DEF Enc!OK
<1>2. CASE \A r \in Enc!Raws(p) : ~r.repeats
  BY <1>1, <1>2, PlanTrusted, Zenon DEF Enc!ValidateTrustingEncoding, Enc!DecodeSelectionPlan
<1>3. CASE ~\A r \in Enc!Raws(p) : ~r.repeats
  BY <1>1, <1>3, Zenon DEF Enc!ValidateTrustingEncoding, Enc!DecodeSelectionPlan, Enc!RawValid
<1> QED
  BY <1>2, <1>3

-----------------------------------------------------------------------------
\* A validation accepts when none of its checks fails.
LEMMA AllOK == ASSUME NEW s \in Seq(Words) PROVE Enc!First(s) = Enc!OK <=> \A i \in DOMAIN s : s[i] = Enc!OK
BY FirstIs

IsFour(s, a, b, c, d) == s = <<a, b, c, d>>

LEMMA FourOK ==
  ASSUME NEW a \in Words, NEW b \in Words, NEW c \in Words, NEW d \in Words, NEW s, IsFour(s, a, b, c, d)
  PROVE  Enc!First(s) = Enc!OK <=> a = Enc!OK /\ b = Enc!OK /\ c = Enc!OK /\ d = Enc!OK
<1>1. s \in Seq(Words)
  BY FourWords, Zenon DEF IsFour
<1>2. DOMAIN s = 1..4 /\ s[1] = a /\ s[2] = b /\ s[3] = c /\ s[4] = d
  BY DEF IsFour
<1>3. (\A i \in DOMAIN s : s[i] = Enc!OK) <=> a = Enc!OK /\ b = Enc!OK /\ c = Enc!OK /\ d = Enc!OK
  <2>1. \A i \in 1..4 : i = 1 \/ i = 2 \/ i = 3 \/ i = 4
    OBVIOUS
  <2>2. 1 \in 1..4 /\ 2 \in 1..4 /\ 3 \in 1..4 /\ 4 \in 1..4
    OBVIOUS
  <2> QED
    BY <1>2, <2>1, <2>2, Zenon
<1> QED
  BY <1>1, <1>3, AllOK, Zenon

LEMMA StepOK ==
  ASSUME NEW s, NEW i
  PROVE  Enc!StepError(s, i) = Enc!OK
         <=> /\ s[i].source /\ s[i].name
             /\ s[i].arguments # {} => \A a \in s[i].arguments : Enc!IsJSONObject(a)
             /\ ~(Enc!ChainBytes(s, i) > MaxChain)
<1>1. "source" \in Errors /\ "name" \in Errors /\ "arguments" \in Errors /\ "chain size" \in Errors
  BY DEF Errors
<1>2. "source" # Enc!OK /\ "name" # Enc!OK /\ "arguments" # Enc!OK /\ "chain size" # Enc!OK
  BY Zenon DEF Enc!OK
<1>3. PICK args \in BOOLEAN : args = (s[i].arguments # {} /\ ~\A a \in s[i].arguments : Enc!IsJSONObject(a))
  BY Zenon
<1>5. PICK a \in Words : a = Enc!If(~s[i].source, "source")
  BY <1>1, IfWord, Zenon
<1>6. PICK b \in Words : b = Enc!If(~s[i].name, "name")
  BY <1>1, IfWord, Zenon
<1>7. PICK c \in Words : c = Enc!If(args, "arguments")
  BY <1>1, IfWord, Zenon
<1>8. PICK d \in Words : d = Enc!If(Enc!ChainBytes(s, i) > MaxChain, "chain size")
  BY <1>1, IfWord, Zenon
<1>0. PICK e : IsFour(e, a, b, c, d)
  BY DEF IsFour
<1>9. Enc!StepError(s, i) = Enc!First(e)
  BY <1>0, <1>3, <1>5, <1>6, <1>7, <1>8, Zenon DEF Enc!StepError, IsFour
<1>10. (a = Enc!OK <=> s[i].source) /\ (b = Enc!OK <=> s[i].name) /\ (c = Enc!OK <=> ~args) /\ (d = Enc!OK <=> ~(Enc!ChainBytes(s, i) > MaxChain))
  BY <1>2, <1>5, <1>6, <1>7, <1>8, Zenon DEF Enc!If
<1>11. Enc!First(e) = Enc!OK <=> a = Enc!OK /\ b = Enc!OK /\ c = Enc!OK /\ d = Enc!OK
  BY <1>0, FourOK, Zenon
<1> QED
  BY <1>3, <1>9, <1>10, <1>11, Zenon

LEMMA ChainOK ==
  ASSUME NEW S, NEW s \in Seq(S)
  PROVE  Enc!ChainError(s) = Enc!OK <=> ~(Len(s) > MaxSteps) /\ \A i \in DOMAIN s : Enc!StepError(s, i) = Enc!OK
<1> DEFINE f == [i \in DOMAIN s |-> Enc!StepError(s, i)]
<1>1. PICK n \in Nat : n = Len(s) /\ DOMAIN s = 1..n
  OBVIOUS
<1>2. \A i \in 1..n : f[i] \in Words
  BY <1>1, StepWord
<1>3. f \in Seq(Words)
  BY <1>1, <1>2
<1>4. DOMAIN f = DOMAIN s /\ \A i \in DOMAIN s : f[i] = Enc!StepError(s, i)
  OBVIOUS
<1> HIDE DEF f
<1>5. Enc!First(f) = Enc!OK <=> \A i \in DOMAIN s : Enc!StepError(s, i) = Enc!OK
  BY <1>3, <1>4, AllOK, Zenon
<1>6. Enc!ChainError(s) = IF Len(s) > MaxSteps THEN "steps" ELSE Enc!First(f)
  BY Zenon DEF Enc!ChainError, f
<1>7. "steps" # Enc!OK
  BY Zenon DEF Enc!OK
<1> QED
  BY <1>5, <1>6, <1>7, Zenon

\* A chain json.Marshal has written differs in what it adds up to only.
LEMMA WrittenChain ==
  ASSUME NEW s \in Seq(AnyStep)
  PROVE  LET w == Enc!ChainWritten(s)
         IN /\ w \in Seq(AnyStep) /\ Len(w) = Len(s) /\ DOMAIN w = DOMAIN s
            /\ \A i \in DOMAIN s : (w[i].source <=> s[i].source) /\ (w[i].name <=> s[i].name) /\ w[i].arguments = s[i].arguments
<1> DEFINE w == Enc!ChainWritten(s)
<1>1. PICK n \in Nat : n = Len(s) /\ DOMAIN s = 1..n
  OBVIOUS
<1>2. w = [i \in 1..n |-> [s[i] EXCEPT !.bytes = s[i].encoded]]
  BY <1>1, Zenon DEF Enc!ChainWritten
<1>3. ASSUME NEW i \in 1..n
      PROVE  /\ [s[i] EXCEPT !.bytes = s[i].encoded] \in AnyStep
             /\ LET t == [s[i] EXCEPT !.bytes = s[i].encoded] IN t.source = s[i].source /\ t.name = s[i].name /\ t.arguments = s[i].arguments
  <2>1. s[i] \in AnyStep
    BY <1>1
  <2> QED
    BY <2>1 DEF AnyStep
<1>4. w \in Seq(AnyStep) /\ Len(w) = n /\ DOMAIN w = 1..n
  BY <1>2, <1>3
<1>5. ASSUME NEW i \in 1..n PROVE w[i].source = s[i].source /\ w[i].name = s[i].name /\ w[i].arguments = s[i].arguments
  <2>1. w[i] = [s[i] EXCEPT !.bytes = s[i].encoded]
    BY <1>2, Zenon
  <2> QED
    BY <1>3, <2>1
<1> HIDE DEF w
<1>6. \A i \in DOMAIN s : (w[i].source <=> s[i].source) /\ (w[i].name <=> s[i].name) /\ w[i].arguments = s[i].arguments
  BY <1>1, <1>5, Zenon
<1> QED
  BY <1>1, <1>4, <1>6 DEF w

LEMMA ResentChain ==
  ASSUME NEW s \in Seq(AnyStep), Enc!ChainError(s) = Enc!OK
  PROVE  Enc!ChainError(Enc!ChainWritten(s)) = Enc!OK <=> Enc!ChainFits(Enc!ChainWritten(s))
<1>1. PICK w \in Seq(AnyStep) : w = Enc!ChainWritten(s)
  BY WrittenChain
<1>2. /\ Len(w) = Len(s) /\ DOMAIN w = DOMAIN s
      /\ \A i \in DOMAIN s : (w[i].source <=> s[i].source) /\ (w[i].name <=> s[i].name) /\ w[i].arguments = s[i].arguments
  BY <1>1, WrittenChain, Zenon
<1>3. ~(Len(s) > MaxSteps) /\ \A i \in DOMAIN s : Enc!StepError(s, i) = Enc!OK
  BY ChainOK, Zenon
<1>4. ASSUME NEW i \in DOMAIN s PROVE Enc!StepError(w, i) = Enc!OK <=> ~(Enc!ChainBytes(w, i) > MaxChain)
  <2>1. s[i].source /\ s[i].name /\ (s[i].arguments # {} => \A a \in s[i].arguments : Enc!IsJSONObject(a))
    BY <1>3, StepOK, Zenon
  <2>2. w[i].source /\ w[i].name /\ (w[i].arguments # {} => \A a \in w[i].arguments : Enc!IsJSONObject(a))
    BY <1>2, <2>1, Zenon
  <2> QED
    BY <2>2, StepOK, Zenon
<1>5. Enc!ChainError(w) = Enc!OK <=> \A i \in DOMAIN s : ~(Enc!ChainBytes(w, i) > MaxChain)
  <2>1. Enc!ChainError(w) = Enc!OK <=> ~(Len(w) > MaxSteps) /\ \A i \in DOMAIN w : Enc!StepError(w, i) = Enc!OK
    BY ChainOK, Zenon
  <2> QED
    BY <1>2, <1>3, <1>4, <2>1, Zenon
<1> QED
  BY <1>1, <1>2, <1>5, Zenon DEF Enc!ChainFits

-----------------------------------------------------------------------------
\* The checks of a plan.
PlanHead(p) ==
  <<Enc!If(p.kind \notin {"nodes", "document"}, "kind"),
    Enc!If(p.kind = "nodes" /\ p.document, "document"),
    Enc!If(p.kind = "document" /\ ~p.document, "no document"),
    Enc!If(Len(p.nodes) > MaxNodes, "nodes")>>
PlanNodeChecks(p, k) == [i \in DOMAIN p.nodes |-> Enc!PlanNodeError(p, i, k)]
SelectionChecks(p) == [i \in DOMAIN p.selection |-> Enc!SelectionError(p.selection[i])]
PolicyChecks(p) == [i \in DOMAIN p.policy |-> Enc!PolicyError(p.policy[i])]

LEMMA AtIndex == ASSUME NEW S, NEW s \in Seq(S), NEW i \in DOMAIN s PROVE s[i] \in S
OBVIOUS

LEMMA WordsOf == ASSUME NEW S, NEW s \in Seq(S), NEW f, f \in [DOMAIN s -> Words] PROVE f \in Seq(Words)
<1>1. PICK n \in Nat : n = Len(s) /\ DOMAIN s = 1..n
  OBVIOUS
<1>2. f \in [1..n -> Words]
  BY <1>1, Zenon
<1> QED
  BY <1>2

LEMMA PlanHeadWords == ASSUME NEW p PROVE PlanHead(p) \in Seq(Words)
<1>1. "kind" \in Errors /\ "document" \in Errors /\ "no document" \in Errors /\ "nodes" \in Errors
  BY DEF Errors
<1> QED
  BY <1>1, FourChecks, Zenon DEF PlanHead

LEMMA NodeErrorWord == ASSUME NEW n, NEW k PROVE Enc!NodeError(n, k) \in Words
<1>1. "node" \in Errors /\ "provider" \in Errors /\ "placeholders" \in Errors /\ "line_uuid" \in Errors /\ "placeholder" \in Errors
  BY DEF Errors
<1>2. PICK a \in Words : a = Enc!If(~(IF k THEN Enc!OpensObject(n.node) ELSE Enc!IsJSONObject(n.node)), "node")
  BY <1>1, IfWord, Zenon
<1>3. PICK b \in Words : b = Enc!If(n.provider /\ (n.line # "" \/ n.placeholders # {}), "provider")
  BY <1>1, IfWord, Zenon
<1>4. PICK c \in Words : c = Enc!If(~n.provider /\ n.line = "" /\ n.placeholders # {}, "placeholders")
  BY <1>1, IfWord, Zenon
<1>5. PICK d \in Words : d = Enc!If(~n.provider /\ n.line = "bad", "line_uuid")
  BY <1>1, IfWord, Zenon
<1>6. PICK e \in Words : e = Enc!If(~n.provider /\ \E p \in n.placeholders : ~p.whole \/ p.line # n.line \/ p.field # p.at, "placeholder")
  BY <1>1, IfWord, Zenon
<1>7. Enc!NodeError(n, k) = Enc!First(<<a, b, c, d, e>>)
  BY <1>2, <1>3, <1>4, <1>5, <1>6, Zenon DEF Enc!NodeError
<1>8. <<a, b, c, d, e>> \in Seq(Words)
  OBVIOUS
<1> QED
  BY <1>7, <1>8, FirstWord, Zenon

LEMMA PlanNodeWords == ASSUME NEW p, NEW S, p.nodes \in Seq(S), NEW k PROVE PlanNodeChecks(p, k) \in Seq(Words)
<1>1. "duplicate" \in Errors /\ "fleet only" \in Errors
  BY DEF Errors
<1>2. ASSUME NEW i \in DOMAIN p.nodes PROVE Enc!PlanNodeError(p, i, k) \in Words
  <2>1. PICK a \in Words : a = Enc!NodeError(p.nodes[i], k)
    BY NodeErrorWord, Zenon
  <2>2. PICK b \in Words : b = Enc!If(~k /\ p.nodes[i].node.repeats, "duplicate")
    BY <1>1, IfWord, Zenon
  <2>3. PICK c \in Words : c = Enc!If(p.kind = "document" /\ p.nodes[i].provider, "fleet only")
    BY <1>1, IfWord, Zenon
  <2>4. Enc!PlanNodeError(p, i, k) = Enc!First(<<a, b, c>>)
    BY <2>1, <2>2, <2>3, Zenon DEF Enc!PlanNodeError
  <2> QED
    BY <2>4, ThreeWords, FirstWord, Zenon
<1>3. PlanNodeChecks(p, k) \in [DOMAIN p.nodes -> Words]
  BY <1>2, Zenon DEF PlanNodeChecks
<1> QED
  BY <1>3, WordsOf

LEMMA SelectionWord == ASSUME NEW s, s.lines \in Seq(STRING) PROVE Enc!SelectionError(s) \in Words
<1>1. "version" \in Errors /\ "lines" \in Errors /\ "line_uuid" \in Errors /\ "line twice" \in Errors
  BY DEF Errors
<1>2. "line_uuid" \in Words
  BY <1>1 DEF Words
<1> DEFINE Line(i) == IF s.lines[i] = "bad" THEN "line_uuid" ELSE Enc!If(\E j \in 1..(i - 1) : s.lines[j] = s.lines[i], "line twice")
           f == [i \in DOMAIN s.lines |-> Line(i)]
<1>3. \A i \in DOMAIN s.lines : Line(i) \in Words
  BY <1>1, <1>2, IfWord, Zenon
<1>4. f \in [DOMAIN s.lines -> Words]
  BY <1>3, Zenon
<1>5. f \in Seq(Words)
  BY <1>4, WordsOf
<1>6. PICK h \in Seq(Words) : h = <<Enc!If(~s.version, "version"), Enc!If(Len(s.lines) > MaxNodes, "lines")>>
  <2>1. PICK a \in Words : a = Enc!If(~s.version, "version")
    BY <1>1, IfWord, Zenon
  <2>2. PICK b \in Words : b = Enc!If(Len(s.lines) > MaxNodes, "lines")
    BY <1>1, IfWord, Zenon
  <2>3. <<a, b>> \in Seq(Words)
    OBVIOUS
  <2> QED
    BY <2>1, <2>2, <2>3, Zenon
<1>7. Enc!SelectionError(s) = Enc!First(h \o f)
  BY <1>6, Zenon DEF Enc!SelectionError
<1> HIDE DEF f
<1>8. h \o f \in Seq(Words)
  BY <1>5, FirstCat
<1> QED
  BY <1>7, <1>8, FirstWord, Zenon

LEMMA PolicyWord == ASSUME NEW p PROVE Enc!PolicyError(p) \in Words
<1>1. "failures" \in Errors /\ "bytes" \in Errors
  BY DEF Errors
<1>2. PICK a \in Words : a = Enc!If(p.failures # -1 /\ p.failures \notin 1..MaxFailures, "failures")
  BY <1>1, IfWord, Zenon
<1>3. PICK b \in Words : b = Enc!If(p.bytes # -1 /\ p.bytes <= 0, "bytes")
  BY <1>1, IfWord, Zenon
<1>4. Enc!PolicyError(p) = Enc!First(<<a, b>>)
  BY <1>2, <1>3, Zenon DEF Enc!PolicyError
<1>5. <<a, b>> \in Seq(Words)
  OBVIOUS
<1> QED
  BY <1>4, <1>5, FirstWord, Zenon

\* What a plan is made of, when its chain is any chain of steps.
PlanParts(p) ==
  /\ p.nodes \in Seq(AnyPlanNode) /\ p.chain \in Seq(AnyStep)
  /\ p.selection \in Seq([version : BOOLEAN, lines : Seq(STRING)]) /\ p.policy \in Seq([failures : Int, bytes : Int])

LEMMA ValidateOK ==
  ASSUME NEW p, PlanParts(p), NEW k
  PROVE  Enc!Validate(p, k) = Enc!OK
         <=> /\ Enc!First(PlanHead(p)) = Enc!OK /\ Enc!First(PlanNodeChecks(p, k)) = Enc!OK
             /\ Enc!First(SelectionChecks(p)) = Enc!OK /\ Enc!First(PolicyChecks(p)) = Enc!OK
             /\ Enc!ChainError(p.chain) = Enc!OK
<1>1. PICK h \in Seq(Words) : h = PlanHead(p)
  BY PlanHeadWords
<1>2. PICK n \in Seq(Words) : n = PlanNodeChecks(p, k)
  BY PlanNodeWords DEF PlanParts
<1>3. PICK s \in Seq(Words) : s = SelectionChecks(p)
  <2>1. ASSUME NEW i \in DOMAIN p.selection PROVE Enc!SelectionError(p.selection[i]) \in Words
    <3>1. PICK q \in Seq([version : BOOLEAN, lines : Seq(STRING)]) : q = p.selection
      BY DEF PlanParts
    <3>2. q[i] \in [version : BOOLEAN, lines : Seq(STRING)]
      BY <2>1, <3>1, AtIndex, Zenon
    <3>3. p.selection[i].lines \in Seq(STRING)
      BY <3>1, <3>2
    <3> QED
      BY <3>3, SelectionWord
  <2>2. SelectionChecks(p) \in [DOMAIN p.selection -> Words]
    BY <2>1, Zenon DEF SelectionChecks
  <2> QED
    BY <2>2, WordsOf DEF PlanParts
<1>4. PICK o \in Seq(Words) : o = PolicyChecks(p)
  <2>1. PolicyChecks(p) \in [DOMAIN p.policy -> Words]
    BY PolicyWord, Zenon DEF PolicyChecks
  <2> QED
    BY <2>1, WordsOf DEF PlanParts
<1>5. PICK c \in Words : c = Enc!ChainError(p.chain)
  BY ChainWord DEF PlanParts
<1>6. Enc!Validate(p, k) = Enc!First(h \o n \o s \o o \o <<c>>)
  BY <1>1, <1>2, <1>3, <1>4, <1>5, Zenon DEF Enc!Validate, PlanHead, PlanNodeChecks, SelectionChecks, PolicyChecks
<1>7. h \o n \in Seq(Words) /\ Enc!First(h \o n) = IF Enc!First(h) # Enc!OK THEN Enc!First(h) ELSE Enc!First(n)
  BY FirstCat
<1>8. h \o n \o s \in Seq(Words) /\ Enc!First(h \o n \o s) = IF Enc!First(h \o n) # Enc!OK THEN Enc!First(h \o n) ELSE Enc!First(s)
  BY <1>7, FirstCat
<1>9. h \o n \o s \o o \in Seq(Words) /\ Enc!First(h \o n \o s \o o) = IF Enc!First(h \o n \o s) # Enc!OK THEN Enc!First(h \o n \o s) ELSE Enc!First(o)
  BY <1>8, FirstCat
<1>10. <<c>> \in Seq(Words) /\ Enc!First(<<c>>) = c
  BY FirstOne
<1>11. Enc!First(h \o n \o s \o o \o <<c>>) = IF Enc!First(h \o n \o s \o o) # Enc!OK THEN Enc!First(h \o n \o s \o o) ELSE c
  BY <1>9, <1>10, FirstCat
<1>12. Enc!First(h \o n \o s \o o \o <<c>>) = Enc!OK <=> Enc!First(h) = Enc!OK /\ Enc!First(n) = Enc!OK /\ Enc!First(s) = Enc!OK /\ Enc!First(o) = Enc!OK /\ c = Enc!OK
  BY <1>7, <1>8, <1>9, <1>11, Zenon
<1> QED
  BY <1>1, <1>2, <1>3, <1>4, <1>5, <1>6, <1>12, Zenon

LEMMA MarshalFields ==
  ASSUME NEW p \in AnyPlan
  PROVE  LET m == Enc!MarshalPlan(p)
         IN /\ m.kind = p.kind /\ m.document = p.document /\ m.nodes = p.nodes /\ m.selection = p.selection /\ m.policy = p.policy
            /\ m.chain = Enc!ChainWritten(p.chain) /\ m.bytes = p.encoded
<1>1. PICK c : c = Enc!ChainWritten(p.chain)
  OBVIOUS
<1>2. Enc!MarshalPlan(p) = [p EXCEPT !.bytes = p.encoded, !.chain = c]
  BY <1>1, Zenon DEF Enc!MarshalPlan
<1>3. LET m == [p EXCEPT !.bytes = p.encoded, !.chain = c]
      IN /\ m.kind = p.kind /\ m.document = p.document /\ m.nodes = p.nodes /\ m.selection = p.selection /\ m.policy = p.policy
         /\ m.chain = c /\ m.bytes = p.encoded
  BY DEF AnyPlan
<1> QED
  BY <1>1, <1>2, <1>3

LEMMA PlanIsParts == ASSUME NEW p \in AnyPlan PROVE PlanParts(p) /\ p.encoded # 0
BY DEF AnyPlan, PlanParts, AtMostOne

\* json.Marshal changes no raw value but its length, and no check but that of
\* the chain's size.
LEMMA MarshalKeeps ==
  ASSUME NEW p \in AnyPlan
  PROVE  /\ Enc!Raws(Enc!MarshalPlan(p)) = Enc!Raws(p)
         /\ Enc!Validate(p, FALSE) = Enc!OK =>
              (Enc!Validate(Enc!MarshalPlan(p), FALSE) = Enc!OK <=> Enc!ChainFits(Enc!ChainWritten(p.chain)))
<1>1. PICK m : m = Enc!MarshalPlan(p)
  OBVIOUS
<1>2. PICK w : w = Enc!ChainWritten(p.chain)
  OBVIOUS
<1>3. /\ m.kind = p.kind /\ m.document = p.document /\ m.nodes = p.nodes /\ m.selection = p.selection /\ m.policy = p.policy
      /\ m.chain = w
  BY <1>1, <1>2, MarshalFields
<1>4. PlanParts(p)
  BY PlanIsParts
<1>5. /\ w \in Seq(AnyStep) /\ DOMAIN w = DOMAIN p.chain
      /\ \A i \in DOMAIN p.chain : w[i].arguments = p.chain[i].arguments
  BY <1>2, <1>4, WrittenChain, Zenon DEF PlanParts
<1>6. Enc!Raws(m) = Enc!Raws(p)
  <2>1. {w[i].arguments : i \in DOMAIN w} = {p.chain[i].arguments : i \in DOMAIN p.chain}
    BY <1>5, Zenon
  <2> QED
    BY <1>3, <2>1, Zenon DEF Enc!Raws
<1>7. PlanParts(m)
  BY <1>3, <1>4, <1>5, Zenon DEF PlanParts
<1>8. /\ PlanHead(m) = PlanHead(p) /\ PlanNodeChecks(m, FALSE) = PlanNodeChecks(p, FALSE)
      /\ SelectionChecks(m) = SelectionChecks(p) /\ PolicyChecks(m) = PolicyChecks(p)
  <2>1. PlanHead(m) = PlanHead(p)
    BY <1>3, Zenon DEF PlanHead
  <2>2. PlanNodeChecks(m, FALSE) = PlanNodeChecks(p, FALSE)
    BY <1>3, Zenon DEF PlanNodeChecks, Enc!PlanNodeError
  <2>3. SelectionChecks(m) = SelectionChecks(p) /\ PolicyChecks(m) = PolicyChecks(p)
    BY <1>3, Zenon DEF SelectionChecks, PolicyChecks
  <2> QED
    BY <2>1, <2>2, <2>3
<1>9. ASSUME Enc!Validate(p, FALSE) = Enc!OK PROVE Enc!Validate(m, FALSE) = Enc!OK <=> Enc!ChainFits(w)
  <2>1. /\ Enc!First(PlanHead(p)) = Enc!OK /\ Enc!First(PlanNodeChecks(p, FALSE)) = Enc!OK
        /\ Enc!First(SelectionChecks(p)) = Enc!OK /\ Enc!First(PolicyChecks(p)) = Enc!OK
        /\ Enc!ChainError(p.chain) = Enc!OK
    BY <1>4, <1>9, ValidateOK, Zenon
  <2>2. Enc!ChainError(w) = Enc!OK <=> Enc!ChainFits(w)
    BY <1>2, <1>4, <2>1, ResentChain, Zenon DEF PlanParts
  <2>3. Enc!Validate(m, FALSE) = Enc!OK
         <=> /\ Enc!First(PlanHead(m)) = Enc!OK /\ Enc!First(PlanNodeChecks(m, FALSE)) = Enc!OK
             /\ Enc!First(SelectionChecks(m)) = Enc!OK /\ Enc!First(PolicyChecks(m)) = Enc!OK
             /\ Enc!ChainError(m.chain) = Enc!OK
    BY <1>7, ValidateOK, Zenon
  <2> QED
    BY <1>3, <1>8, <2>1, <2>2, <2>3, Zenon
<1> QED
  BY <1>1, <1>2, <1>6, <1>9, Zenon

LEMMA PlanSent ==
  ASSUME NEW p \in AnyPlan, Enc!Encodable(p), NEW i \in DOMAIN Enc!Sent(p)
  PROVE  Enc!Sent(p)[i] = Enc!OK <=> (\A r \in Enc!Raws(p) : ~r.repeats) /\ Enc!ChainFits(Enc!ChainWritten(p.chain))
<1>1. PICK m : m = Enc!MarshalPlan(p)
  OBVIOUS
<1>2. PICK e : e = Enc!EncodeSelectionPlan(p)
  OBVIOUS
<1>3. e = <<>> \/ (e = <<m>> /\ Enc!Validate(p, FALSE) = Enc!OK /\ ~(p.encoded > MaxPlan))
  <2>1. PICK none, one : none = <<>> /\ one = <<m>>
    OBVIOUS
  <2>2. e = IF Enc!Validate(p, FALSE) # Enc!OK THEN none ELSE IF p.encoded > MaxPlan THEN none ELSE one
    BY <1>1, <1>2, <2>1, Zenon DEF Enc!EncodeSelectionPlan
  <2>3. e = none \/ (e = one /\ Enc!Validate(p, FALSE) = Enc!OK /\ ~(p.encoded > MaxPlan))
    BY <2>2, Zenon
  <2> QED
    BY <2>1, <2>3, Zenon
<1>4. Enc!Sent(p) = [j \in DOMAIN e |-> Enc!DecodeSelectionPlan(e[j])]
  BY <1>2, Zenon DEF Enc!Sent
<1>5. i \in DOMAIN e /\ Enc!Sent(p)[i] = Enc!DecodeSelectionPlan(e[i])
  BY <1>4, Zenon
<1>6. e = <<m>> /\ e[i] = m
  <2>1. e = <<>> \/ e = <<m>>
    BY <1>3, Zenon
  <2>2. i \in DOMAIN e
    BY <1>5, Zenon
  <2>3. e = <<m>>
    BY <2>1, <2>2
  <2> QED
    BY <2>2, <2>3
<1>7. Enc!Validate(p, FALSE) = Enc!OK /\ ~(p.encoded > MaxPlan)
  BY <1>3, <1>6
<1>8. m.bytes = p.encoded /\ p.encoded # 0
  BY <1>1, MarshalFields, PlanIsParts
<1>9. Enc!Raws(m) = Enc!Raws(p)
  BY <1>1, MarshalKeeps, Zenon
<1>10. Enc!Encodable(m)
  BY <1>9, Zenon DEF Enc!Encodable
<1>11. Enc!DecodeSelectionPlan(m) = Enc!OK
       <=> m.bytes # 0 /\ ~(m.bytes > MaxPlan) /\ (\A r \in Enc!Raws(m) : ~r.repeats) /\ Enc!Validate(m, FALSE) = Enc!OK
  BY <1>10, PlanAnswers, Zenon
<1>12. Enc!Validate(m, FALSE) = Enc!OK <=> Enc!ChainFits(Enc!ChainWritten(p.chain))
  BY <1>1, <1>7, MarshalKeeps, Zenon
<1> QED
  BY <1>5, <1>6, <1>7, <1>8, <1>9, <1>11, <1>12, Zenon

\* The clones counted so far.
Counts(lines) == [seen : [lines -> Nat], out : SUBSET Nat]
Counted(done, i, line) ==
  [seen |-> [done.seen EXCEPT ![line] = @ + 1],
   out |-> IF Enc!Excess(done.seen[line] + 1) THEN done.out \cup {i} ELSE done.out]
CloneStep(nodes, lines, none, g, i) ==
  IF i = 0 THEN [seen |-> [l \in lines |-> 0], out |-> {}]
  ELSE IF nodes[i].line = none THEN g[i - 1] ELSE Counted(g[i - 1], i, nodes[i].line)

CloneFn(g, nodes, n, lines, none) == g = [i \in 0..n |-> CloneStep(nodes, lines, none, g, i)]
LinesOf(nodes, n, lines) == \A i \in 1..n : nodes[i].line \in lines

LEMMA CountedIs ==
  ASSUME NEW lines, NEW done \in Counts(lines), NEW i \in Nat, NEW line \in lines
  PROVE  /\ Counted(done, i, line) \in Counts(lines)
         /\ \A l \in lines : Counted(done, i, line).seen[l] = IF l = line THEN done.seen[l] + 1 ELSE done.seen[l]
         /\ done.seen[line] >= MaxClones => Counted(done, i, line).out = done.out \cup {i}
         /\ ~(done.seen[line] >= MaxClones) => Counted(done, i, line).out = done.out
<1>1. done.seen \in [lines -> Nat] /\ done.out \in SUBSET Nat /\ done.seen[line] \in Nat
  BY DEF Counts
<1>2. PICK s \in [lines -> Nat] : s = [done.seen EXCEPT ![line] = @ + 1]
  <2>1. PICK f \in [lines -> Nat] : f = done.seen
    BY <1>1
  <2>2. [f EXCEPT ![line] = f[line] + 1] \in [lines -> Nat]
    OBVIOUS
  <2> QED
    BY <2>1, <2>2
<1>3. Enc!Excess(done.seen[line] + 1) <=> done.seen[line] >= MaxClones
  BY <1>1, ValidationAssumption DEF Enc!Excess
<1>4. PICK o \in SUBSET Nat : o = IF Enc!Excess(done.seen[line] + 1) THEN done.out \cup {i} ELSE done.out
  BY <1>1
<1>5. Counted(done, i, line) = [seen |-> s, out |-> o]
  BY <1>2, <1>4, Zenon DEF Counted
<1>6. Counted(done, i, line) \in Counts(lines) /\ Counted(done, i, line).seen = s /\ Counted(done, i, line).out = o
  BY <1>5 DEF Counts
<1>7. \A l \in lines : s[l] = IF l = line THEN done.seen[l] + 1 ELSE done.seen[l]
  BY <1>1, <1>2
<1> QED
  BY <1>3, <1>4, <1>6, <1>7

LEMMA CloneExists ==
  ASSUME NEW nodes, NEW n \in Nat, NEW lines, NEW none, LinesOf(nodes, n, lines)
  PROVE  \E g : CloneFn(g, nodes, n, lines, none)
<1> DEFINE V == Counts(lines)
           F == [0..n -> V]
           next == [i \in 0..n |-> [g \in F |-> CloneStep(nodes, lines, none, g, i)]]
<1>0. CloneStep(nodes, lines, none, <<>>, 0) \in V
  BY DEF CloneStep, Counts
<1>1. ASSUME NEW i \in 0..n, NEW g \in F PROVE CloneStep(nodes, lines, none, g, i) \in V
  <2>1. CASE i = 0
    BY <2>1 DEF CloneStep, Counts
  <2>2. CASE i # 0
    <3>1. g[i - 1] \in V /\ i \in 1..n
      BY <2>2
    <3>2. nodes[i].line \in lines /\ i \in Nat
      BY <3>1 DEF LinesOf
    <3> QED
      BY <2>2, <3>1, <3>2, CountedIs DEF CloneStep
  <2> QED
    BY <2>1, <2>2
<1>2. next \in [0..n -> [F -> V]]
  BY <1>1
<1>3. ASSUME NEW i \in 0..n, NEW g \in F, NEW h \in F, \A j \in 0..(i - 1) : g[j] = h[j] PROVE next[i][g] = next[i][h]
  <2>1. i # 0 => i - 1 \in 0..(i - 1)
    OBVIOUS
  <2>2. CloneStep(nodes, lines, none, g, i) = CloneStep(nodes, lines, none, h, i)
    BY <1>3, <2>1 DEF CloneStep
  <2> QED
    BY <2>2
<1>4. \A i \in 0..n : \A g, h \in F : (\A j \in 0..(i - 1) : g[j] = h[j]) => next[i][g] = next[i][h]
  BY <1>3
<1> HIDE DEF next, V
<1>5. PICK g \in F : \A i \in 0..n : g[i] = next[i][g]
  <2>1. LooksUp(next, 0, n, V)
    BY <1>0, <1>2, <1>4 DEF LooksUp
  <2> QED
    BY <2>1, RecursionUp
<1>6. \A i \in 0..n : g[i] = CloneStep(nodes, lines, none, g, i)
  BY <1>5 DEF next
<1>7. g = [i \in 0..n |-> g[i]]
  OBVIOUS
<1> QED
  BY <1>6, <1>7, Zenon DEF CloneFn

\* How many of the first i nodes are of a line.
At(nodes, i, line) == {j \in 1..i : nodes[j].line = line}

LEMMA AtStep ==
  ASSUME NEW nodes, NEW i \in Nat, NEW line
  PROVE  /\ Cardinality(At(nodes, i, line)) \in Nat
         /\ Cardinality(At(nodes, i + 1, line)) = Cardinality(At(nodes, i, line)) + (IF nodes[i + 1].line = line THEN 1 ELSE 0)
<1>1. ASSUME NEW k \in Nat PROVE IsFiniteSet(At(nodes, k, line)) /\ Cardinality(At(nodes, k, line)) \in Nat
  <2>1. At(nodes, k, line) \subseteq 1..k
    BY DEF At
  <2> QED
    BY <2>1, CountTo, FS_Subset, FS_CardinalityType
<1>2. CASE nodes[i + 1].line = line
  <2>1. At(nodes, i + 1, line) = At(nodes, i, line) \cup {i + 1} /\ i + 1 \notin At(nodes, i, line)
    BY <1>2 DEF At
  <2> QED
    BY <1>1, <1>2, <2>1, FS_AddElement
<1>3. CASE nodes[i + 1].line # line
  <2>1. At(nodes, i + 1, line) = At(nodes, i, line)
    BY <1>3 DEF At
  <2> QED
    BY <1>1, <1>3, <2>1
<1> QED
  BY <1>1, <1>2, <1>3

LEMMA AtNone == ASSUME NEW nodes, NEW line PROVE Cardinality(At(nodes, 0, line)) = 0
<1>1. At(nodes, 0, line) = {}
  BY DEF At
<1> QED
  BY <1>1, FS_EmptySet

Beyond(nodes, i, none) == {j \in 1..i : nodes[j].line # none /\ Cardinality(At(nodes, j - 1, nodes[j].line)) >= MaxClones}

LEMMA CloneRun ==
  ASSUME NEW nodes, NEW n \in Nat, NEW lines, NEW none, LinesOf(nodes, n, lines),
         NEW g, CloneFn(g, nodes, n, lines, none)
  PROVE  g[n].out = Beyond(nodes, n, none)
<1>5. \A i \in 0..n : g[i] = CloneStep(nodes, lines, none, g, i)
  BY DEF CloneFn
<1> DEFINE Right(i) == /\ g[i] \in Counts(lines) /\ g[i].out = Beyond(nodes, i, none)
                       /\ \A l \in lines : l # none => g[i].seen[l] = Cardinality(At(nodes, i, l))
           T == {i \in 0..n : Right(i)}
<1>6. 0 \in T
  <2>1. g[0] = [seen |-> [l \in lines |-> 0], out |-> {}]
    BY <1>5 DEF CloneStep
  <2>2. g[0] \in Counts(lines) /\ g[0].out = {} /\ \A l \in lines : g[0].seen[l] = 0
    BY <2>1 DEF Counts
  <2>3. Beyond(nodes, 0, none) = {}
    BY DEF Beyond
  <2>4. 0 \in 0..n /\ \A l \in lines : g[0].seen[l] = Cardinality(At(nodes, 0, l))
    BY <2>2, AtNone
  <2> QED
    BY <2>2, <2>3, <2>4
<1>7. ASSUME NEW i \in 0..(n - 1), i \in T PROVE i + 1 \in T
  <2>0. i \in Nat /\ i + 1 \in 0..n /\ i + 1 \in 1..n /\ i + 1 # 0 /\ (i + 1) - 1 = i
    OBVIOUS
  <2>1. PICK line \in lines : line = nodes[i + 1].line
    BY <2>0 DEF LinesOf
  <2>2. PICK done \in Counts(lines) : done = g[i]
    BY <1>7
  <2>3. g[i + 1] = IF line = none THEN done ELSE Counted(done, i + 1, line)
    BY <1>5, <2>0, <2>1, <2>2 DEF CloneStep
  <2>4. done.out = Beyond(nodes, i, none) /\ \A l \in lines : l # none => done.seen[l] = Cardinality(At(nodes, i, l))
    BY <1>7, <2>2
  <2>5. \A l : Cardinality(At(nodes, i + 1, l)) = Cardinality(At(nodes, i, l)) + (IF line = l THEN 1 ELSE 0) /\ Cardinality(At(nodes, i, l)) \in Nat
    BY <2>0, <2>1, AtStep
  <2>6. Beyond(nodes, i + 1, none) = IF line # none /\ Cardinality(At(nodes, i, line)) >= MaxClones THEN Beyond(nodes, i, none) \cup {i + 1} ELSE Beyond(nodes, i, none)
    <3>1. 1..(i + 1) = 1..i \cup {i + 1}
      BY <2>0
    <3> QED
      BY <2>0, <2>1, <3>1 DEF Beyond
  <2>7. CASE line = none
    <3>1. g[i + 1] = done
      BY <2>3, <2>7
    <3>2. \A l \in lines : l # none => done.seen[l] = Cardinality(At(nodes, i + 1, l))
      BY <2>4, <2>5, <2>7
    <3> QED
      BY <2>0, <2>4, <2>6, <2>7, <3>1, <3>2
  <2>8. CASE line # none
    <3>0. PICK c : c = Counted(done, i + 1, line)
      OBVIOUS
    <3>1. g[i + 1] = c
      BY <2>3, <2>8, <3>0
    <3>2. /\ c \in Counts(lines)
          /\ \A l \in lines : c.seen[l] = IF l = line THEN done.seen[l] + 1 ELSE done.seen[l]
          /\ done.seen[line] >= MaxClones => c.out = done.out \cup {i + 1}
          /\ ~(done.seen[line] >= MaxClones) => c.out = done.out
      <4>1. PICK k \in Nat : k = i + 1
        BY <2>0
      <4>2. Counted(done, k, line) \in Counts(lines)
        BY CountedIs
      <4>3. \A l \in lines : Counted(done, k, line).seen[l] = IF l = line THEN done.seen[l] + 1 ELSE done.seen[l]
        BY CountedIs
      <4>4. done.seen[line] >= MaxClones => Counted(done, k, line).out = done.out \cup {k}
        BY CountedIs
      <4>5. ~(done.seen[line] >= MaxClones) => Counted(done, k, line).out = done.out
        BY CountedIs
      <4> QED
        BY <3>0, <4>1, <4>2, <4>3, <4>4, <4>5
    <3>3. c.out = Beyond(nodes, i + 1, none)
      BY <2>4, <2>6, <2>8, <3>2
    <3>4. ASSUME NEW l \in lines, l # none PROVE c.seen[l] = Cardinality(At(nodes, i + 1, l))
      <4>1. PICK f \in [lines -> Nat] : f = done.seen
        BY DEF Counts
      <4>2. c.seen[l] = IF l = line THEN f[l] + 1 ELSE f[l]
        BY <3>2, <4>1
      <4>3. f[l] = Cardinality(At(nodes, i, l)) /\ f[l] \in Nat
        BY <2>4, <3>4, <4>1
      <4>4. Cardinality(At(nodes, i + 1, l)) = Cardinality(At(nodes, i, l)) + (IF line = l THEN 1 ELSE 0)
        BY <2>5
      <4> QED
        BY <4>2, <4>3, <4>4
    <3> QED
      BY <2>0, <3>1, <3>2, <3>3, <3>4
  <2> QED
    BY <2>7, <2>8
<1>8. 0..n \subseteq T
  <2> HIDE DEF T
  <2> QED
    BY <1>6, <1>7, IntervalUp
<1>9. n \in T
  BY <1>8
<1> QED
  BY <1>9

LEMMA ClonesCounted ==
  ASSUME NEW nodes \in Seq([line : STRING])
  PROVE  Enc!ExcessClones(nodes) = {i \in DOMAIN nodes : nodes[i].line # "" /\ Cardinality({j \in 1..(i - 1) : nodes[j].line = nodes[i].line}) >= MaxClones}
<1>n. PICK n \in Nat : n = Len(nodes) /\ DOMAIN nodes = 1..n
  OBVIOUS
<1>0. PICK lines : lines = {nodes[i].line : i \in DOMAIN nodes}
  OBVIOUS
<1>1. LinesOf(nodes, n, lines)
  BY <1>n, <1>0 DEF LinesOf
<1>2. ASSUME NEW none PROVE \E g : g = (CHOOSE f : CloneFn(f, nodes, n, lines, none)) /\ g[n].out = Beyond(nodes, n, none)
  <2>1. PICK g : g = CHOOSE f : CloneFn(f, nodes, n, lines, none)
    OBVIOUS
  <2>2. CloneFn(g, nodes, n, lines, none)
    BY <1>1, <2>1, CloneExists, Zenon
  <2>3. g[n].out = Beyond(nodes, n, none)
    BY <1>1, <2>2, CloneRun
  <2> QED
    BY <2>1, <2>3, Zenon
<1>3. PICK g : g = (CHOOSE f : CloneFn(f, nodes, n, lines, "")) /\ g[n].out = Beyond(nodes, n, "")
  BY <1>2, Zenon
<1>4. Enc!ExcessClones(nodes) = g[n].out
  <2>1. Enc!ExcessClones(nodes) = (CHOOSE f : CloneFn(f, nodes, Len(nodes), {nodes[i].line : i \in DOMAIN nodes}, ""))[Len(nodes)].out
    BY Zenon DEF Enc!ExcessClones, CloneFn, CloneStep, Counted
  <2> QED
    BY <1>n, <1>0, <1>3, <2>1, Zenon
<1> QED
  BY <1>n, <1>3, <1>4, Zenon DEF Beyond, At

\* The placeholders of a body from a piece on.
Holders(text, n, i, body) == {j \in i..(n - 1) : text[j] = "prefix" /\ text[j + 1] = body}
TextStep(text, n, body, g, i) ==
  IF i > n THEN 0
  ELSE IF text[i] # "prefix" THEN g[i + 1]
  ELSE LET match == i < n /\ text[i + 1] \notin {"prefix", "text"}
       IN (IF match /\ text[i + 1] = body THEN 1 ELSE 0) + g[Enc!Rest(i, match)]
TextFn(g, text, n, body) == g = [i \in 1..(n + 2) |-> TextStep(text, n, body, g, i)]

\* By what a document has at i.
LEMMA TextStepIs ==
  ASSUME NEW text, NEW n \in Nat, NEW body, NEW g, NEW i \in 1..(n + 2)
  PROVE  /\ i > n => TextStep(text, n, body, g, i) = 0
         /\ i <= n /\ text[i] # "prefix" => TextStep(text, n, body, g, i) = g[i + 1]
         /\ i < n /\ text[i] = "prefix" /\ text[i + 1] \notin {"prefix", "text"} =>
              TextStep(text, n, body, g, i) = (IF text[i + 1] = body THEN 1 ELSE 0) + g[i + 2]
         /\ i <= n /\ text[i] = "prefix" /\ ~(i < n /\ text[i + 1] \notin {"prefix", "text"}) =>
              TextStep(text, n, body, g, i) = 0 + g[i + 1]
<1>1. i > n => TextStep(text, n, body, g, i) = 0
  BY Zenon DEF TextStep
<1>2. ASSUME i <= n, text[i] # "prefix" PROVE TextStep(text, n, body, g, i) = g[i + 1]
  <2>1. ~(i > n)
    BY <1>2
  <2> QED
    BY <1>2, <2>1, Zenon DEF TextStep
<1>3. ASSUME i < n, text[i] = "prefix", text[i + 1] \notin {"prefix", "text"} 
      PROVE  TextStep(text, n, body, g, i) = (IF text[i + 1] = body THEN 1 ELSE 0) + g[i + 2]
  <2>1. ~(i > n)
    BY <1>3
  <2> QED
    BY <1>3, <2>1, Zenon DEF TextStep, Enc!Rest
<1>4. ASSUME i <= n, text[i] = "prefix", ~(i < n /\ text[i + 1] \notin {"prefix", "text"}) 
      PROVE  TextStep(text, n, body, g, i) = 0 + g[i + 1]
  <2>1. ~(i > n)
    BY <1>4
  <2> QED
    BY <1>4, <2>1, Zenon DEF TextStep, Enc!Rest
<1> QED
  BY <1>1, <1>2, <1>3, <1>4

LEMMA TextStepLooks ==
  ASSUME NEW text, NEW n \in Nat, NEW body, NEW i \in 1..(n + 2), NEW g, NEW h, i > n \/ (g[i + 1] = h[i + 1] /\ g[i + 2] = h[i + 2])
  PROVE  TextStep(text, n, body, g, i) = TextStep(text, n, body, h, i)
<1>1. CASE i > n
  BY <1>1, TextStepIs
<1>2. CASE ~(i > n) /\ text[i] # "prefix"
  BY <1>2, TextStepIs
<1>3. CASE ~(i > n) /\ text[i] = "prefix" /\ i < n /\ text[i + 1] \notin {"prefix", "text"}
  BY <1>3, TextStepIs
<1>4. CASE ~(i > n) /\ text[i] = "prefix" /\ ~(i < n /\ text[i + 1] \notin {"prefix", "text"})
  BY <1>4, TextStepIs
<1> QED
  BY <1>1, <1>2, <1>3, <1>4

LEMMA TextStepType ==
  ASSUME NEW text, NEW n \in Nat, NEW body, NEW i \in 1..(n + 2), NEW g, i > n \/ (g[i + 1] \in Nat /\ g[i + 2] \in Nat)
  PROVE  TextStep(text, n, body, g, i) \in Nat
<1>1. CASE i > n
  BY <1>1, TextStepIs
<1>2. CASE ~(i > n) /\ text[i] # "prefix"
  BY <1>2, TextStepIs
<1>3. CASE ~(i > n) /\ text[i] = "prefix" /\ i < n /\ text[i + 1] \notin {"prefix", "text"}
  BY <1>3, TextStepIs
<1>4. CASE ~(i > n) /\ text[i] = "prefix" /\ ~(i < n /\ text[i + 1] \notin {"prefix", "text"})
  BY <1>4, TextStepIs
<1> QED
  BY <1>1, <1>2, <1>3, <1>4

LEMMA TextExists ==
  ASSUME NEW text, NEW n \in Nat, NEW body PROVE \E g : TextFn(g, text, n, body)
<1> DEFINE F == [1..(n + 2) -> Nat]
           next == [i \in 1..(n + 2) |-> [g \in F |-> TextStep(text, n, body, g, i)]]
<1>1. ASSUME NEW i \in 1..(n + 2), NEW g \in F PROVE TextStep(text, n, body, g, i) \in Nat
  <2>1. i > n \/ (g[i + 1] \in Nat /\ g[i + 2] \in Nat)
    OBVIOUS
  <2> HIDE DEF F, next
  <2> QED
    BY <2>1, TextStepType
<1>2. next \in [1..(n + 2) -> [F -> Nat]]
  BY <1>1
<1>3. ASSUME NEW i \in 1..(n + 2), NEW g \in F, NEW h \in F, \A j \in (i + 1)..(n + 2) : g[j] = h[j] PROVE next[i][g] = next[i][h]
  <2>1. i > n \/ (g[i + 1] = h[i + 1] /\ g[i + 2] = h[i + 2])
    BY <1>3
  <2>2. TextStep(text, n, body, g, i) = TextStep(text, n, body, h, i)
    BY <2>1, TextStepLooks
  <2> QED
    BY <2>2
<1>4. \A i \in 1..(n + 2) : \A g, h \in F : (\A j \in (i + 1)..(n + 2) : g[j] = h[j]) => next[i][g] = next[i][h]
  BY <1>3
<1> HIDE DEF next
<1>5. PICK g \in F : \A i \in 1..(n + 2) : g[i] = next[i][g]
  <2>1. LooksDown(next, 1, n + 2, Nat)
    BY <1>2, <1>4 DEF LooksDown
  <2> QED
    BY <2>1, RecursionDown
<1>6. \A i \in 1..(n + 2) : g[i] = TextStep(text, n, body, g, i)
  BY <1>5 DEF next
<1>7. g = [i \in 1..(n + 2) |-> g[i]]
  OBVIOUS
<1> QED
  BY <1>6, <1>7, Zenon DEF TextFn

LEMMA HoldersStep ==
  ASSUME NEW text, NEW n \in Nat, NEW body, NEW i \in Nat
  PROVE  /\ Cardinality(Holders(text, n, i, body)) \in Nat
         /\ i >= n => Cardinality(Holders(text, n, i, body)) = 0
         /\ i < n /\ text[i] = "prefix" /\ text[i + 1] = body =>
              Cardinality(Holders(text, n, i, body)) = 1 + Cardinality(Holders(text, n, i + 1, body))
         /\ i < n /\ ~(text[i] = "prefix" /\ text[i + 1] = body) =>
              Cardinality(Holders(text, n, i, body)) = Cardinality(Holders(text, n, i + 1, body))
<1>1. ASSUME NEW k \in Nat PROVE IsFiniteSet(Holders(text, n, k, body)) /\ Cardinality(Holders(text, n, k, body)) \in Nat
  <2>1. Holders(text, n, k, body) \subseteq k..(n - 1) /\ IsFiniteSet(k..(n - 1))
    BY FS_Interval DEF Holders
  <2> QED
    BY <2>1, FS_Subset, FS_CardinalityType
<1>2. i + 1 \in Nat
  OBVIOUS
<1>3. ASSUME i >= n PROVE Cardinality(Holders(text, n, i, body)) = 0
  <2>1. Holders(text, n, i, body) = {}
    BY <1>3 DEF Holders
  <2> QED
    BY <2>1, FS_EmptySet
<1>4. ASSUME i < n, text[i] = "prefix" /\ text[i + 1] = body
      PROVE  Cardinality(Holders(text, n, i, body)) = 1 + Cardinality(Holders(text, n, i + 1, body))
  <2>1. Holders(text, n, i, body) = Holders(text, n, i + 1, body) \cup {i} /\ i \notin Holders(text, n, i + 1, body)
    <3>1. i..(n - 1) = ((i + 1)..(n - 1)) \cup {i}
      BY <1>4
    <3> QED
      BY <1>4, <3>1 DEF Holders
  <2>2. Cardinality(Holders(text, n, i, body)) = Cardinality(Holders(text, n, i + 1, body)) + 1
    BY <1>1, <1>2, <2>1, FS_AddElement
  <2> QED
    BY <1>1, <1>2, <2>2
<1>5. ASSUME i < n, ~(text[i] = "prefix" /\ text[i + 1] = body)
      PROVE  Cardinality(Holders(text, n, i, body)) = Cardinality(Holders(text, n, i + 1, body))
  <2>1. Holders(text, n, i, body) = Holders(text, n, i + 1, body)
    <3>1. i..(n - 1) = ((i + 1)..(n - 1)) \cup {i}
      BY <1>5
    <3> QED
      BY <1>5, <3>1 DEF Holders
  <2> QED
    BY <2>1
<1> QED
  BY <1>1, <1>3, <1>4, <1>5

LEMMA TextRun ==
  ASSUME NEW text, NEW n \in Nat, NEW body, body \notin {"prefix", "text"}, NEW g, TextFn(g, text, n, body)
  PROVE  g[1] = Cardinality(Holders(text, n, 1, body))
<1>1. \A i \in 1..(n + 2) : g[i] = TextStep(text, n, body, g, i)
  BY DEF TextFn
<1> DEFINE C(i) == Cardinality(Holders(text, n, i, body))
           \* Both are looked up, so both are remembered.
           T == {i \in 1..(n + 1) : g[i] = C(i) /\ g[i + 1] = C(i + 1)}
<1>2. n + 1 \in T
  <2>1. n + 1 \in 1..(n + 2) /\ n + 2 \in 1..(n + 2) /\ n + 1 > n /\ n + 2 > n /\ n + 1 \in Nat /\ n + 2 \in Nat /\ n + 1 >= n /\ n + 2 >= n /\ (n + 1) + 1 = n + 2
    OBVIOUS
  <2>2. g[n + 1] = 0 /\ g[n + 2] = 0
    BY <1>1, <2>1, TextStepIs
  <2>3. C(n + 1) = 0 /\ C(n + 2) = 0
    BY <2>1, HoldersStep
  <2> QED
    BY <2>1, <2>2, <2>3
<1>3. ASSUME NEW i \in (1 + 1)..(n + 1), i \in T PROVE i - 1 \in T
  <2>0. PICK k \in Nat : k = i - 1
    OBVIOUS
  <2>1. k \in 1..n /\ k \in 1..(n + 2) /\ k \in 1..(n + 1) /\ k + 1 = i /\ k + 2 = i + 1 /\ k <= n /\ k + 1 \in Nat /\ k \in Nat
    BY <2>0
  <2>2. g[k + 1] = C(k + 1) /\ g[k + 2] = C(k + 2) /\ C(k + 1) \in Nat /\ C(k + 2) \in Nat
    <3>1. C(k + 1) \in Nat /\ C(k + 2) \in Nat
      BY <2>1, HoldersStep
    <3> QED
      BY <1>3, <2>1, <3>1
  <2>3. g[k] = TextStep(text, n, body, g, k)
    BY <1>1, <2>1
  <2>4. ASSUME text[k] # "prefix" PROVE g[k] = C(k)
    <3>1. g[k] = g[k + 1]
      BY <2>1, <2>3, <2>4, TextStepIs
    <3>2. C(k) = C(k + 1)
      <4>1. CASE k < n
        BY <2>1, <2>4, <4>1, HoldersStep
      <4>2. CASE ~(k < n)
        <5>1. k >= n /\ k + 1 >= n
          BY <2>1, <4>2
        <5> QED
          BY <2>1, <5>1, HoldersStep
      <4> QED
        BY <4>1, <4>2
    <3> QED
      BY <2>2, <3>1, <3>2
  <2>5. ASSUME text[k] = "prefix" /\ k < n /\ text[k + 1] \notin {"prefix", "text"} PROVE g[k] = C(k)
    <3>1. g[k] = (IF text[k + 1] = body THEN 1 ELSE 0) + g[k + 2]
      BY <2>1, <2>3, <2>5, TextStepIs
    <3>2. C(k) = (IF text[k + 1] = body THEN 1 ELSE 0) + C(k + 1)
      <4>1. text[k + 1] = body => C(k) = 1 + C(k + 1)
        BY <2>1, <2>5, HoldersStep
      <4>2. text[k + 1] # body => C(k) = C(k + 1)
        BY <2>1, <2>5, HoldersStep
      <4> QED
        BY <2>2, <4>1, <4>2
    <3>3. C(k + 1) = C(k + 2)
      <4>1. text[k + 1] # "prefix" /\ (k + 1) + 1 = k + 2
        BY <2>1, <2>5
      <4>2. CASE k + 1 < n
        BY <2>1, <4>1, <4>2, HoldersStep
      <4>3. CASE ~(k + 1 < n)
        <5>1. k + 1 >= n /\ k + 2 >= n /\ k + 2 \in Nat
          BY <2>1, <4>3
        <5>2. C(k + 1) = 0
          BY <2>1, <5>1, HoldersStep
        <5>3. C(k + 2) = 0
          BY <5>1, HoldersStep
        <5> QED
          BY <5>2, <5>3
      <4> QED
        BY <4>2, <4>3
    <3> QED
      BY <2>2, <3>1, <3>2, <3>3
  <2>6. ASSUME text[k] = "prefix" /\ ~(k < n /\ text[k + 1] \notin {"prefix", "text"}) PROVE g[k] = C(k)
    <3>1. g[k] = 0 + g[k + 1]
      BY <2>1, <2>3, <2>6, TextStepIs
    <3>2. C(k) = C(k + 1)
      <4>1. CASE k < n
        <5>1. text[k + 1] # body
          BY <2>6, <4>1
        <5> QED
          BY <2>1, <4>1, <5>1, HoldersStep
      <4>2. CASE ~(k < n)
        <5>1. k >= n /\ k + 1 >= n
          BY <2>1, <4>2
        <5> QED
          BY <2>1, <5>1, HoldersStep
      <4> QED
        BY <4>1, <4>2
    <3> QED
      BY <2>2, <3>1, <3>2
  <2>7. g[k] = C(k)
    BY <2>4, <2>5, <2>6
  <2> QED
    BY <2>0, <2>1, <2>2, <2>7
<1>4. 1..(n + 1) \subseteq T
  <2> HIDE DEF T
  <2> QED
    BY <1>2, <1>3, IntervalDown
<1>5. 1 \in T
  BY <1>4
<1> QED
  BY <1>5

LEMMA PlaceholdersCounted ==
  ASSUME NEW S, NEW text \in Seq(S), NEW body, body \notin {"prefix", "text"}
  PROVE  Enc!CountPlanPlaceholders(text, body) = Cardinality({i \in 1..(Len(text) - 1) : text[i] = "prefix" /\ text[i + 1] = body})
<1>n. PICK n \in Nat : n = Len(text)
  OBVIOUS
<1>1. PICK g : g = CHOOSE f : TextFn(f, text, n, body)
  OBVIOUS
<1>2. TextFn(g, text, n, body)
  BY <1>1, TextExists, Zenon
<1>3. Enc!CountPlanPlaceholders(text, body) = g[1]
  <2>1. Enc!CountPlanPlaceholders(text, body) = (CHOOSE f : TextFn(f, text, Len(text), body))[1]
    BY Zenon DEF Enc!CountPlanPlaceholders, TextFn, TextStep
  <2> QED
    BY <1>n, <1>1, <2>1, Zenon
<1>4. g[1] = Cardinality(Holders(text, n, 1, body))
  BY <1>2, TextRun
<1> QED
  BY <1>n, <1>3, <1>4, Zenon DEF Holders

LEMMA PlanFields ==
  ASSUME NEW f, NEW t, NEW d, NEW n, NEW r, r = [full |-> f, trusting |-> t, decoded |-> d, sent |-> n]
  PROVE  r.full = f /\ r.trusting = t /\ r.decoded = d /\ r.sent = n
OBVIOUS

\* A document decodes exactly when its size fits, it repeats no key and its
\* plan validates; a plan that was encoded is refused for a key its arguments
\* repeat or a chain its escapes took over the limit and nothing else; trusting
\* the encoding changes no verdict; and clones and placeholders are counted
\* right in a document of any size (DecodeSelectionPlan, EncodeSelectionPlan,
\* ValidateTrustingEncoding, ExcessClones, CountPlanPlaceholders).
THEOREM PlansAnsweredRight == Spec => []PlanAnswered
<1>1. Answers => PlanAnswered
  <2> SUFFICES ASSUME Answers PROVE PlanAnswered
    OBVIOUS
  <2>0. PICK q : q = question.of
    OBVIOUS
  <2>1. ASSUME Answered("plan"), Enc!Encodable(q)
        PROVE  /\ answer[1].trusting = answer[1].full
               /\ answer[1].decoded = "" <=> q.bytes # 0 /\ ~(q.bytes > MaxPlan) /\ (\A r \in Enc!Raws(q) : ~r.repeats) /\ answer[1].full = ""
               /\ \A i \in DOMAIN answer[1].sent :
                    answer[1].sent[i] = "" <=> (\A r \in Enc!Raws(q) : ~r.repeats) /\ Enc!ChainFits(Enc!ChainWritten(q.chain))
    <3>0. q \in AnyPlan
      BY <2>0, <2>1, InputAssumption, Given DEF Answered
    <3>1. answer[1] = [full |-> Enc!Validate(q, FALSE), trusting |-> Enc!ValidateTrustingEncoding(q), decoded |-> Enc!DecodeSelectionPlan(q), sent |-> Enc!Sent(q)]
      <4>1. PICK v : v = [full |-> Enc!Validate(q, FALSE), trusting |-> Enc!ValidateTrustingEncoding(q), decoded |-> Enc!DecodeSelectionPlan(q), sent |-> Enc!Sent(q)]
        BY Zenon
      <4>2. answer = <<v>>
        BY <2>0, <2>1, <4>1, Zenon DEF Answers, RightAnswer, Put, Answered
      <4>3. answer[1] = v
        BY <4>2
      <4> QED
        BY <4>1, <4>3, Zenon
    <3>2. answer[1].full = Enc!Validate(q, FALSE) /\ answer[1].trusting = Enc!ValidateTrustingEncoding(q) /\ answer[1].decoded = Enc!DecodeSelectionPlan(q)
         /\ answer[1].sent = Enc!Sent(q)
      BY <3>1, PlanFields
    <3>3. \A i \in DOMAIN answer[1].sent :
            answer[1].sent[i] = "" <=> (\A r \in Enc!Raws(q) : ~r.repeats) /\ Enc!ChainFits(Enc!ChainWritten(q.chain))
      BY <2>1, <3>0, <3>2, PlanSent, SameOK, Zenon
    <3> QED
      BY <2>1, <3>2, <3>3, PlanAnswers, SameOK, Zenon
  <2>2. ASSUME Answered("clones")
        PROVE  answer[1] = {i \in DOMAIN q : q[i].line # "" /\ Cardinality({j \in 1..(i - 1) : q[j].line = q[i].line}) >= MaxClones}
    <3>1. q \in Seq([line : STRING])
      BY <2>0, <2>2, InputAssumption, Given DEF Answered
    <3>2. answer[1] = Enc!ExcessClones(q)
      BY <2>0, <2>2 DEF Answers, RightAnswer, Put, Answered
    <3> QED
      BY <3>1, <3>2, ClonesCounted, Zenon
  <2>3. ASSUME Answered("text"), NEW body \in Bodies
        PROVE  answer[1][body] = Cardinality({i \in 1..(Len(q) - 1) : q[i] = "prefix" /\ q[i + 1] = body})
    <3>1. q \in Seq(STRING)
      BY <2>0, <2>3, InputAssumption, Given DEF Answered
    <3>2. answer[1] = [b \in Bodies |-> Enc!CountPlanPlaceholders(q, b)]
      BY <2>0, <2>3 DEF Answers, RightAnswer, Put, Answered
    <3>3. answer[1][body] = Enc!CountPlanPlaceholders(q, body)
      BY <3>2
    <3>4. body \notin {"prefix", "text"}
      BY ValidationAssumption
    <3> QED
      BY <3>1, <3>3, <3>4, PlaceholdersCounted, Zenon
  <2> QED
    BY <2>0, <2>1, <2>2, <2>3, Zenon DEF PlanAnswered
<1> QED
  BY <1>1, AnswersHold, PTL

-----------------------------------------------------------------------------
(***************************************************************************)
(* Line selectors: what a pushed-down selector keeps.                      *)
(***************************************************************************)
LEMMA LastSplit ==
  ASSUME NEW S, NEW s \in Seq(S), NEW n \in Nat, Len(s) = n + 1
  PROVE  \E t \in Seq(S) : \E x \in S : s = Append(t, x) /\ Len(t) = n
<1>1. n + 1 \in 1..(n + 1) /\ DOMAIN s = 1..(n + 1)
  OBVIOUS
<1>2. s[n + 1] \in S
  BY <1>1
<1>3. PICK x \in S : x = s[n + 1]
  BY <1>2
<1>4. PICK t \in [1..n -> S] : t = [i \in 1..n |-> s[i]]
  <2>1. \A i \in 1..n : s[i] \in S
    BY <1>1
  <2>2. [i \in 1..n |-> s[i]] \in [1..n -> S]
    BY <2>1
  <2> QED
    BY <2>2
<1>5. t \in Seq(S) /\ Len(t) = n /\ \A i \in 1..n : t[i] = s[i]
  BY <1>4
<1>6. s = Append(t, x)
  <2>1. Append(t, x) \in Seq(S) /\ Len(Append(t, x)) = n + 1 /\ Append(t, x)[n + 1] = x /\ \A i \in 1..n : Append(t, x)[i] = t[i]
    BY <1>5
  <2>2. \A i \in 1..(n + 1) : s[i] = Append(t, x)[i]
    <3>1. \A i \in 1..(n + 1) : i \in 1..n \/ i = n + 1
      OBVIOUS
    <3> QED
      BY <1>3, <1>5, <2>1, <3>1
  <2> QED
    BY <2>1, <2>2
<1> QED
  BY <1>5, <1>6

\* Induction over sequences, for a set of them.
LEMMA SeqInduction ==
  ASSUME NEW S, NEW T, <<>> \in T, \A s \in T : s \in Seq(S) => \A x \in S : Append(s, x) \in T
  PROVE  Seq(S) \subseteq T
<1> DEFINE N == {n \in Nat : \A s \in Seq(S) : Len(s) = n => s \in T}
<1>1. 0 \in N
  <2>1. ASSUME NEW s \in Seq(S), Len(s) = 0 PROVE s \in T
    <3>1. s = <<>>
      BY <2>1
    <3> QED
      BY <3>1
  <2> QED
    BY <2>1
<1>2. ASSUME NEW n \in N PROVE n + 1 \in N
  <2>1. ASSUME NEW s \in Seq(S), Len(s) = n + 1 PROVE s \in T
    <3>1. PICK t \in Seq(S) : \E x \in S : s = Append(t, x) /\ Len(t) = n
      BY <1>2, <2>1, LastSplit
    <3>2. t \in T
      BY <1>2, <3>1
    <3> QED
      BY <3>1, <3>2
  <2>2. n + 1 \in Nat
    OBVIOUS
  <2> QED
    BY <2>1, <2>2
<1>3. N = Nat
  <2> HIDE DEF N
  <2>1. N \in SUBSET Nat
    BY DEF N
  <2> QED
    BY <1>1, <1>2, <2>1, SetInduction
<1>4. ASSUME NEW s \in Seq(S) PROVE s \in T
  <2>1. PICK n \in Nat : n = Len(s)
    OBVIOUS
  <2>2. n \in N
    BY <1>3
  <2> QED
    BY <2>1, <2>2
<1> QED
  BY <1>4

KeptStep(s, A, g, i) == IF i = 0 THEN <<>> ELSE IF s[i] \in A THEN Append(g[i - 1], s[i]) ELSE g[i - 1]
KeptFn(g, s, n, A) == g = [i \in 0..n |-> KeptStep(s, A, g, i)]

LEMMA KeptStepType ==
  ASSUME NEW S, NEW n \in Nat, NEW s, \A i \in 1..n : s[i] \in S, NEW A, NEW i \in 0..n, NEW g, i # 0 => g[i - 1] \in Seq(S)
  PROVE  KeptStep(s, A, g, i) \in Seq(S)
<1>1. CASE i = 0
  BY <1>1 DEF KeptStep
<1>2. CASE i # 0
  <2>1. s[i] \in S /\ g[i - 1] \in Seq(S)
    BY <1>2
  <2> QED
    BY <1>2, <2>1 DEF KeptStep
<1> QED
  BY <1>1, <1>2

LEMMA KeptExists ==
  ASSUME NEW S, NEW s, NEW n \in Nat, NEW A, \A i \in 1..n : s[i] \in S PROVE \E g : KeptFn(g, s, n, A)
<1> DEFINE V == Seq(S)
           F == [0..n -> V]
           next == [i \in 0..n |-> [g \in F |-> KeptStep(s, A, g, i)]]
<1>0. \A i \in 1..n : s[i] \in S
  OBVIOUS
<1>1. ASSUME NEW i \in 0..n, NEW g \in F PROVE KeptStep(s, A, g, i) \in V
  <2>1. i # 0 => g[i - 1] \in Seq(S)
    OBVIOUS
  <2> HIDE DEF F, next
  <2> QED
    BY <1>0, <2>1, KeptStepType
<1>2. next \in [0..n -> [F -> V]]
  BY <1>1
<1>3. ASSUME NEW i \in 0..n, NEW g \in F, NEW h \in F, \A j \in 0..(i - 1) : g[j] = h[j] PROVE next[i][g] = next[i][h]
  <2>1. i # 0 => i - 1 \in 0..(i - 1)
    OBVIOUS
  <2>2. KeptStep(s, A, g, i) = KeptStep(s, A, h, i)
    BY <1>3, <2>1 DEF KeptStep
  <2> QED
    BY <2>2
<1>4. \A i \in 0..n : \A g, h \in F : (\A j \in 0..(i - 1) : g[j] = h[j]) => next[i][g] = next[i][h]
  BY <1>3
<1>5. V # {}
  <2>1. <<>> \in V
    OBVIOUS
  <2> QED
    BY <2>1
<1> HIDE DEF next, V
<1>6. PICK g \in F : \A i \in 0..n : g[i] = next[i][g]
  <2>1. LooksUp(next, 0, n, V)
    BY <1>2, <1>4, <1>5 DEF LooksUp
  <2> QED
    BY <2>1, RecursionUp
<1>7. \A i \in 0..n : g[i] = KeptStep(s, A, g, i)
  BY <1>6 DEF next
<1>8. g = [i \in 0..n |-> g[i]]
  OBVIOUS
<1> QED
  BY <1>7, <1>8, Zenon DEF KeptFn

LEMMA KeptIs ==
  ASSUME NEW S, NEW s \in Seq(S), NEW n \in Nat, n = Len(s), NEW A
  PROVE  \E g : KeptFn(g, s, n, A) /\ Lines!Kept(s, A) = g[n]
<1>1. PICK g : g = CHOOSE f : KeptFn(f, s, n, A)
  OBVIOUS
<1>2. KeptFn(g, s, n, A)
  <2>1. \A i \in 1..n : s[i] \in S
    OBVIOUS
  <2>2. \E f : KeptFn(f, s, n, A)
    BY <2>1, KeptExists
  <2> QED
    BY <1>1, <2>2, Zenon
<1>3. Lines!Kept(s, A) = (CHOOSE f : KeptFn(f, s, Len(s), A))[Len(s)]
  BY Zenon DEF Lines!Kept, KeptFn, KeptStep
<1> QED
  BY <1>1, <1>2, <1>3, Zenon

LEMMA KeptNil == ASSUME NEW A PROVE Lines!Kept(<<>>, A) = <<>>
<1>1. PICK g : KeptFn(g, <<>>, 0, A) /\ Lines!Kept(<<>>, A) = g[0]
  <2>1. <<>> \in Seq({}) /\ Len(<<>>) = 0 /\ 0 \in Nat
    OBVIOUS
  <2> QED
    BY <2>1, KeptIs, ZenonT(60)
<1> QED
  BY <1>1 DEF KeptFn, KeptStep

LEMMA KeptAppend ==
  ASSUME NEW S, NEW s \in Seq(S), NEW x \in S, NEW A
  PROVE  Lines!Kept(Append(s, x), A) = IF x \in A THEN Append(Lines!Kept(s, A), x) ELSE Lines!Kept(s, A)
<1>n. PICK n \in Nat : n = Len(s)
  OBVIOUS
<1>0. PICK t \in Seq(S) : t = Append(s, x)
  <2>1. Append(s, x) \in Seq(S)
    OBVIOUS
  <2> QED
    BY <2>1
<1>1. Len(t) = n + 1 /\ t[n + 1] = x /\ (\A i \in 1..n : t[i] = s[i]) /\ n + 1 \in Nat
  BY <1>n, <1>0
<1>2. PICK g : KeptFn(g, s, n, A) /\ Lines!Kept(s, A) = g[n]
  BY <1>n, KeptIs
<1>3. PICK h : KeptFn(h, t, n + 1, A) /\ Lines!Kept(t, A) = h[n + 1]
  BY <1>1, KeptIs
<1>4. \A i \in 0..n : g[i] = KeptStep(s, A, g, i)
  BY <1>2 DEF KeptFn
<1>5. \A i \in 0..(n + 1) : h[i] = KeptStep(t, A, h, i)
  BY <1>3 DEF KeptFn
<1> DEFINE T == {i \in 0..n : h[i] = g[i]}
<1>6. 0 \in T
  <2>1. 0 \in 0..n /\ 0 \in 0..(n + 1)
    OBVIOUS
  <2> QED
    BY <1>4, <1>5, <2>1 DEF KeptStep
<1>7. ASSUME NEW i \in 0..(n - 1), i \in T PROVE i + 1 \in T
  <2>1. i + 1 \in 0..n /\ i + 1 \in 0..(n + 1) /\ i + 1 \in 1..n /\ i + 1 # 0 /\ (i + 1) - 1 = i
    OBVIOUS
  <2>2. t[i + 1] = s[i + 1]
    BY <1>1, <2>1
  <2>3. h[i + 1] = KeptStep(t, A, h, i + 1) /\ g[i + 1] = KeptStep(s, A, g, i + 1)
    BY <1>4, <1>5, <2>1
  <2>4. h[i] = g[i]
    BY <1>7
  <2>5. KeptStep(t, A, h, i + 1) = KeptStep(s, A, g, i + 1)
    BY <2>1, <2>2, <2>4 DEF KeptStep
  <2> QED
    BY <2>1, <2>3, <2>5
<1>8. 0..n \subseteq T
  <2> HIDE DEF T
  <2> QED
    BY <1>6, <1>7, IntervalUp
<1>9. h[n] = g[n]
  <2>1. n \in 0..n
    OBVIOUS
  <2> QED
    BY <1>8, <2>1
<1>10. h[n + 1] = IF x \in A THEN Append(g[n], x) ELSE g[n]
  <2>1. n + 1 \in 0..(n + 1) /\ n + 1 # 0 /\ (n + 1) - 1 = n
    OBVIOUS
  <2>2. h[n + 1] = KeptStep(t, A, h, n + 1)
    BY <1>5, <2>1
  <2> QED
    BY <1>1, <1>9, <2>1, <2>2 DEF KeptStep
<1> QED
  BY <1>0, <1>2, <1>3, <1>10

LEMMA KeptSeq == ASSUME NEW S, NEW s \in Seq(S), NEW A PROVE Lines!Kept(s, A) \in Seq(S)
<1> DEFINE T == {t \in Seq(S) : Lines!Kept(t, A) \in Seq(S)}
<1>1. <<>> \in T
  <2>1. <<>> \in Seq(S)
    OBVIOUS
  <2> QED
    BY <2>1, KeptNil
<1>2. ASSUME NEW t \in T, NEW x \in S PROVE Append(t, x) \in T
  <2>1. t \in Seq(S) /\ Lines!Kept(t, A) \in Seq(S) /\ Append(t, x) \in Seq(S)
    OBVIOUS
  <2>2. Lines!Kept(Append(t, x), A) = IF x \in A THEN Append(Lines!Kept(t, A), x) ELSE Lines!Kept(t, A)
    BY <2>1, KeptAppend
  <2> QED
    BY <2>1, <2>2, SMTT(30)
<1>3. Seq(S) \subseteq T
  <2> HIDE DEF T
  <2> QED
    BY <1>1, <1>2, SeqInduction
<1> QED
  BY <1>3

\* Only what a sequence holds matters of the set.
LEMMA KeptSame ==
  ASSUME NEW S, NEW s \in Seq(S), NEW A, NEW B, \A x \in S : x \in A <=> x \in B PROVE Lines!Kept(s, A) = Lines!Kept(s, B)
<1> DEFINE T == {t \in Seq(S) : Lines!Kept(t, A) = Lines!Kept(t, B)}
<1>1. <<>> \in T
  <2>1. <<>> \in Seq(S)
    OBVIOUS
  <2> QED
    BY <2>1, KeptNil
<1>2. ASSUME NEW t \in T, NEW x \in S PROVE Append(t, x) \in T
  <2>1. t \in Seq(S) /\ Lines!Kept(t, A) = Lines!Kept(t, B) /\ Append(t, x) \in Seq(S)
    OBVIOUS
  <2>2. /\ Lines!Kept(Append(t, x), A) = IF x \in A THEN Append(Lines!Kept(t, A), x) ELSE Lines!Kept(t, A)
        /\ Lines!Kept(Append(t, x), B) = IF x \in B THEN Append(Lines!Kept(t, B), x) ELSE Lines!Kept(t, B)
    BY <2>1, KeptAppend
  <2>3. x \in A <=> x \in B
    OBVIOUS
  <2>4. Lines!Kept(Append(t, x), A) = Lines!Kept(Append(t, x), B)
    BY <2>1, <2>2, <2>3
  <2> QED
    BY <2>1, <2>4
<1>3. Seq(S) \subseteq T
  <2> HIDE DEF T
  <2> QED
    BY <1>1, <1>2, SeqInduction
<1> QED
  BY <1>3

LEMMA KeptTwice ==
  ASSUME NEW S, NEW s \in Seq(S), NEW A, NEW B PROVE Lines!Kept(Lines!Kept(s, A), B) = Lines!Kept(s, A \cap B)
<1> DEFINE T == {t \in Seq(S) : Lines!Kept(Lines!Kept(t, A), B) = Lines!Kept(t, A \cap B)}
<1>1. <<>> \in T
  <2>1. <<>> \in Seq(S)
    OBVIOUS
  <2>2. Lines!Kept(Lines!Kept(<<>>, A), B) = Lines!Kept(<<>>, A \cap B)
    BY KeptNil
  <2> QED
    BY <2>1, <2>2
<1>2. ASSUME NEW t \in T, NEW x \in S PROVE Append(t, x) \in T
  <2>1. t \in Seq(S) /\ Lines!Kept(Lines!Kept(t, A), B) = Lines!Kept(t, A \cap B) /\ Append(t, x) \in Seq(S)
    OBVIOUS
  <2>2. PICK k \in Seq(S) : k = Lines!Kept(t, A)
    BY <2>1, KeptSeq
  <2>3. Lines!Kept(Append(t, x), A) = IF x \in A THEN Append(k, x) ELSE k
    BY <2>1, <2>2, KeptAppend
  <2>4. Lines!Kept(Append(k, x), B) = IF x \in B THEN Append(Lines!Kept(k, B), x) ELSE Lines!Kept(k, B)
    BY KeptAppend
  <2>5. Lines!Kept(Append(t, x), A \cap B) = IF x \in A \cap B THEN Append(Lines!Kept(t, A \cap B), x) ELSE Lines!Kept(t, A \cap B)
    BY <2>1, KeptAppend
  <2>6. Lines!Kept(Lines!Kept(Append(t, x), A), B) = Lines!Kept(Append(t, x), A \cap B)
    BY <2>1, <2>2, <2>3, <2>4, <2>5
  <2> QED
    BY <2>1, <2>6
<1>3. Seq(S) \subseteq T
  <2> HIDE DEF T
  <2> QED
    BY <1>1, <1>2, SeqInduction
<1> QED
  BY <1>3

LEMMA ConcatAppend ==
  ASSUME NEW S, NEW s \in Seq(S), NEW t \in Seq(S), NEW x \in S
  PROVE  s \o t \in Seq(S) /\ s \o <<>> = s /\ s \o Append(t, x) = Append(s \o t, x)
<1>1. s \o t \in Seq(S) /\ s \o <<>> = s
  OBVIOUS
<1>2. s \o Append(t, x) = Append(s \o t, x)
  OBVIOUS
<1> QED
  BY <1>1, <1>2

LEMMA KeptConcat ==
  ASSUME NEW S, NEW s \in Seq(S), NEW u \in Seq(S), NEW A
  PROVE  Lines!Kept(s \o u, A) = Lines!Kept(s, A) \o Lines!Kept(u, A)
<1> DEFINE T == {t \in Seq(S) : Lines!Kept(s \o t, A) = Lines!Kept(s, A) \o Lines!Kept(t, A)}
<1>0. PICK k \in Seq(S) : k = Lines!Kept(s, A)
  BY KeptSeq
<1>1. <<>> \in T
  <2>1. <<>> \in Seq(S) /\ s \o <<>> = s /\ k \o <<>> = k
    OBVIOUS
  <2> QED
    BY <1>0, <2>1, KeptNil
<1>2. ASSUME NEW t \in T, NEW x \in S PROVE Append(t, x) \in T
  <2>1. t \in Seq(S) /\ Lines!Kept(s \o t, A) = Lines!Kept(s, A) \o Lines!Kept(t, A) /\ Append(t, x) \in Seq(S)
    OBVIOUS
  <2>2. PICK v \in Seq(S) : v = s \o t
    BY <2>1, ConcatAppend
  <2>3. s \o Append(t, x) = Append(v, x)
    BY <2>1, <2>2, ConcatAppend
  <2>4. PICK m \in Seq(S) : m = Lines!Kept(t, A)
    BY <2>1, KeptSeq
  <2>5. Lines!Kept(Append(v, x), A) = IF x \in A THEN Append(Lines!Kept(v, A), x) ELSE Lines!Kept(v, A)
    BY KeptAppend
  <2>6. Lines!Kept(Append(t, x), A) = IF x \in A THEN Append(m, x) ELSE m
    <3>1. Lines!Kept(Append(t, x), A) = IF x \in A THEN Append(Lines!Kept(t, A), x) ELSE Lines!Kept(t, A)
      BY <2>1, KeptAppend
    <3> QED
      BY <2>4, <3>1, Zenon
  <2>7. Lines!Kept(v, A) = k \o m
    BY <1>0, <2>1, <2>2, <2>4
  <2>8. k \o Append(m, x) = Append(k \o m, x)
    BY ConcatAppend
  <2>9. Lines!Kept(s \o Append(t, x), A) = Lines!Kept(s, A) \o Lines!Kept(Append(t, x), A)
    BY <1>0, <2>3, <2>5, <2>6, <2>7, <2>8
  <2> QED
    BY <2>1, <2>9
<1>3. Seq(S) \subseteq T
  <2> HIDE DEF T
  <2> QED
    BY <1>1, <1>2, SeqInduction
<1> QED
  BY <1>3

\* What is kept.
LEMMA KeptHolds ==
  ASSUME NEW S, NEW s \in Seq(S), NEW A
  PROVE  Lines!Range(Lines!Kept(s, A)) = Lines!Range(s) \cap A
<1> DEFINE T == {t \in Seq(S) : Lines!Range(Lines!Kept(t, A)) = Lines!Range(t) \cap A}
<1>1. <<>> \in T
  <2>1. <<>> \in Seq(S) /\ Lines!Range(<<>>) = {}
    BY DEF Lines!Range
  <2>2. Lines!Range(Lines!Kept(<<>>, A)) = Lines!Range(<<>>) \cap A
    BY <2>1, KeptNil
  <2> QED
    BY <2>1, <2>2
<1>2. ASSUME NEW t \in T, NEW x \in S PROVE Append(t, x) \in T
  <2>1. t \in Seq(S) /\ Lines!Range(Lines!Kept(t, A)) = Lines!Range(t) \cap A /\ Append(t, x) \in Seq(S)
    OBVIOUS
  <2>2. PICK k \in Seq(S) : k = Lines!Kept(t, A)
    BY <2>1, KeptSeq
  <2>3. ASSUME NEW v \in Seq(S) PROVE Lines!Range(Append(v, x)) = Lines!Range(v) \cup {x}
    <3>1. PICK n \in Nat : n = Len(v) /\ DOMAIN v = 1..n
      OBVIOUS
    <3>2. DOMAIN Append(v, x) = 1..(n + 1) /\ Append(v, x)[n + 1] = x /\ \A i \in 1..n : Append(v, x)[i] = v[i]
      BY <3>1
    <3>3. \A i \in 1..(n + 1) : i \in 1..n \/ i = n + 1
      OBVIOUS
    <3>4. n + 1 \in 1..(n + 1) /\ \A i \in 1..n : i \in 1..(n + 1)
      OBVIOUS
    <3> QED
      BY <3>1, <3>2, <3>3, <3>4 DEF Lines!Range
  <2>4. Lines!Kept(Append(t, x), A) = IF x \in A THEN Append(k, x) ELSE k
    BY <2>1, <2>2, KeptAppend
  <2>5. Lines!Range(Append(t, x)) = Lines!Range(t) \cup {x} /\ Lines!Range(Append(k, x)) = Lines!Range(k) \cup {x}
    BY <2>1, <2>3
  <2>6. Lines!Range(Lines!Kept(Append(t, x), A)) = Lines!Range(Append(t, x)) \cap A
    <3>1. CASE x \in A
      BY <2>1, <2>2, <2>4, <2>5, <3>1
    <3>2. CASE x \notin A
      BY <2>1, <2>2, <2>4, <2>5, <3>2
    <3> QED
      BY <3>1, <3>2
  <2> QED
    BY <2>1, <2>6
<1>3. Seq(S) \subseteq T
  <2> HIDE DEF T
  <2> QED
    BY <1>1, <1>2, SeqInduction
<1> QED
  BY <1>3

-----------------------------------------------------------------------------
(***************************************************************************)
(* Line selectors: listed lines.                                           *)
(***************************************************************************)
OfLine(rows, l) == {r \in Lines!Range(rows) : r.line = l}
ListedStep(rows, L, g, i) == IF i = 0 THEN <<>> ELSE g[i - 1] \o Lines!Kept(rows, OfLine(rows, L[i]))
ListedFn(g, rows, L, n) == g = [i \in 0..n |-> ListedStep(rows, L, g, i)]

LEMMA ListedStepType ==
  ASSUME NEW S, NEW rows \in Seq(S), NEW L, NEW n \in Nat, NEW i \in 0..n, NEW g, i # 0 => g[i - 1] \in Seq(S)
  PROVE  ListedStep(rows, L, g, i) \in Seq(S)
<1>1. CASE i = 0
  BY <1>1 DEF ListedStep
<1>2. CASE i # 0
  <2>1. PICK k \in Seq(S) : k = Lines!Kept(rows, OfLine(rows, L[i]))
    BY KeptSeq
  <2>2. PICK h \in Seq(S) : h = g[i - 1]
    BY <1>2
  <2>3. ListedStep(rows, L, g, i) = h \o k
    BY <1>2, <2>1, <2>2 DEF ListedStep
  <2> QED
    BY <2>3
<1> QED
  BY <1>1, <1>2

LEMMA ListedExists ==
  ASSUME NEW S, NEW rows \in Seq(S), NEW L, NEW n \in Nat PROVE \E g : ListedFn(g, rows, L, n)
<1> DEFINE V == Seq(S)
           F == [0..n -> V]
           next == [i \in 0..n |-> [g \in F |-> ListedStep(rows, L, g, i)]]
<1>1. ASSUME NEW i \in 0..n, NEW g \in F PROVE ListedStep(rows, L, g, i) \in V
  <2>1. i # 0 => g[i - 1] \in V
    <3> HIDE DEF V
    <3> QED
      OBVIOUS
  <2> HIDE DEF F, next
  <2> QED
    BY <2>1, ListedStepType
<1>2. next \in [0..n -> [F -> V]]
  <2> HIDE DEF V
  <2> QED
    BY <1>1
<1>3. ASSUME NEW i \in 0..n, NEW g \in F, NEW h \in F, \A j \in 0..(i - 1) : g[j] = h[j] PROVE next[i][g] = next[i][h]
  <2>1. i # 0 => i - 1 \in 0..(i - 1)
    OBVIOUS
  <2>2. ListedStep(rows, L, g, i) = ListedStep(rows, L, h, i)
    BY <1>3, <2>1 DEF ListedStep
  <2> QED
    BY <2>2
<1>4. \A i \in 0..n : \A g, h \in F : (\A j \in 0..(i - 1) : g[j] = h[j]) => next[i][g] = next[i][h]
  BY <1>3
<1>5. V # {}
  <2>1. <<>> \in V
    OBVIOUS
  <2> QED
    BY <2>1
<1> HIDE DEF next, V
<1>6. PICK g \in F : \A i \in 0..n : g[i] = next[i][g]
  <2>1. LooksUp(next, 0, n, V)
    BY <1>2, <1>4, <1>5 DEF LooksUp
  <2> QED
    BY <2>1, RecursionUp
<1>7. \A i \in 0..n : g[i] = ListedStep(rows, L, g, i)
  BY <1>6 DEF next
<1>8. g = [i \in 0..n |-> g[i]]
  OBVIOUS
<1> QED
  BY <1>7, <1>8, Zenon DEF ListedFn

LEMMA ListedIs ==
  ASSUME NEW S, NEW rows \in Seq(S), NEW L, NEW n \in Nat, n = Len(L)
  PROVE  \E g : ListedFn(g, rows, L, n) /\ Lines!Listed(rows, L) = g[n]
<1>1. PICK g : g = CHOOSE f : ListedFn(f, rows, L, n)
  OBVIOUS
<1>2. ListedFn(g, rows, L, n)
  BY <1>1, ListedExists, Zenon
<1>3. Lines!Listed(rows, L) = (CHOOSE f : ListedFn(f, rows, L, Len(L)))[Len(L)]
  BY Zenon DEF Lines!Listed, ListedFn, ListedStep, OfLine
<1> QED
  BY <1>1, <1>2, <1>3, Zenon

LEMMA ListedNil == ASSUME NEW S, NEW rows \in Seq(S) PROVE Lines!Listed(rows, <<>>) = <<>>
<1>1. PICK g : ListedFn(g, rows, <<>>, 0) /\ Lines!Listed(rows, <<>>) = g[0]
  <2>1. Len(<<>>) = 0 /\ 0 \in Nat
    OBVIOUS
  <2> QED
    BY <2>1, ListedIs, Zenon
<1> QED
  BY <1>1 DEF ListedFn, ListedStep

LEMMA ListedAppend ==
  ASSUME NEW S, NEW rows \in Seq(S), NEW P, NEW L \in Seq(P), NEW l \in P
  PROVE  Lines!Listed(rows, Append(L, l)) = Lines!Listed(rows, L) \o Lines!Kept(rows, OfLine(rows, l))
<1>n. PICK n \in Nat : n = Len(L)
  OBVIOUS
<1>0. PICK M : M = Append(L, l)
  OBVIOUS
<1>1. Len(M) = n + 1 /\ M[n + 1] = l /\ (\A i \in 1..n : M[i] = L[i]) /\ n + 1 \in Nat
  BY <1>n, <1>0
<1>2. PICK g : ListedFn(g, rows, L, n) /\ Lines!Listed(rows, L) = g[n]
  BY <1>n, ListedIs
<1>3. PICK h : ListedFn(h, rows, M, n + 1) /\ Lines!Listed(rows, M) = h[n + 1]
  BY <1>1, ListedIs
<1>4. \A i \in 0..n : g[i] = ListedStep(rows, L, g, i)
  BY <1>2 DEF ListedFn
<1>5. \A i \in 0..(n + 1) : h[i] = ListedStep(rows, M, h, i)
  BY <1>3 DEF ListedFn
<1> DEFINE T == {i \in 0..n : h[i] = g[i]}
<1>6. 0 \in T
  <2>1. 0 \in 0..n /\ 0 \in 0..(n + 1)
    OBVIOUS
  <2> QED
    BY <1>4, <1>5, <2>1 DEF ListedStep
<1>7. ASSUME NEW i \in 0..(n - 1), i \in T PROVE i + 1 \in T
  <2>1. i + 1 \in 0..n /\ i + 1 \in 0..(n + 1) /\ i + 1 \in 1..n /\ i + 1 # 0 /\ (i + 1) - 1 = i
    OBVIOUS
  <2>2. M[i + 1] = L[i + 1]
    BY <1>1, <2>1
  <2>3. h[i + 1] = ListedStep(rows, M, h, i + 1) /\ g[i + 1] = ListedStep(rows, L, g, i + 1)
    BY <1>4, <1>5, <2>1
  <2>4. h[i] = g[i]
    BY <1>7
  <2>5. ListedStep(rows, M, h, i + 1) = ListedStep(rows, L, g, i + 1)
    BY <2>1, <2>2, <2>4 DEF ListedStep
  <2> QED
    BY <2>1, <2>3, <2>5
<1>8. 0..n \subseteq T
  <2> HIDE DEF T
  <2> QED
    BY <1>6, <1>7, IntervalUp
<1>9. h[n] = g[n]
  <2>1. n \in 0..n
    OBVIOUS
  <2> QED
    BY <1>8, <2>1
<1>10. h[n + 1] = g[n] \o Lines!Kept(rows, OfLine(rows, l))
  <2>1. n + 1 \in 0..(n + 1) /\ n + 1 # 0 /\ (n + 1) - 1 = n
    OBVIOUS
  <2>2. h[n + 1] = ListedStep(rows, M, h, n + 1)
    BY <1>5, <2>1
  <2> QED
    BY <1>1, <1>9, <2>1, <2>2 DEF ListedStep
<1> QED
  BY <1>0, <1>2, <1>3, <1>10

\* Listing what is kept is keeping of what is listed.
LEMMA ListedKept ==
  ASSUME NEW S, NEW rows \in Seq(S), NEW A, NEW P, NEW lines \in Seq(P)
  PROVE  /\ Lines!Listed(rows, lines) \in Seq(S)
         /\ Lines!Listed(Lines!Kept(rows, A), lines) = Lines!Kept(Lines!Listed(rows, lines), A)
<1>0. PICK some \in Seq(S) : some = Lines!Kept(rows, A)
  BY KeptSeq
<1> DEFINE T == {L \in Seq(P) : Lines!Listed(rows, L) \in Seq(S) /\ Lines!Listed(some, L) = Lines!Kept(Lines!Listed(rows, L), A)}
<1>1. <<>> \in T
  <2>1. <<>> \in Seq(S) /\ <<>> \in Seq(P)
    OBVIOUS
  <2>2. Lines!Listed(rows, <<>>) = <<>> /\ Lines!Listed(some, <<>>) = <<>> /\ Lines!Kept(<<>>, A) = <<>>
    BY ListedNil, KeptNil
  <2> QED
    BY <2>1, <2>2
<1>2. ASSUME NEW L \in T, NEW l \in P PROVE Append(L, l) \in T
  <2>1. L \in Seq(P) /\ Lines!Listed(some, L) = Lines!Kept(Lines!Listed(rows, L), A) /\ Append(L, l) \in Seq(P)
    OBVIOUS
  <2>2. PICK a \in Seq(S) : a = Lines!Listed(rows, L)
    OBVIOUS
  <2>3. PICK b \in Seq(S) : b = Lines!Kept(rows, OfLine(rows, l))
    BY KeptSeq
  <2>4. Lines!Listed(rows, Append(L, l)) = a \o b
    BY <2>1, <2>2, <2>3, ListedAppend
  <2>5. Lines!Listed(some, Append(L, l)) = Lines!Kept(a, A) \o Lines!Kept(some, OfLine(some, l))
    BY <2>1, <2>2, ListedAppend
  <2>6. Lines!Kept(some, OfLine(some, l)) = Lines!Kept(b, A)
    <3>0. PICK R : R = Lines!Range(rows)
      OBVIOUS
    <3>1. rows \in Seq(R)
      BY <3>0 DEF Lines!Range
    <3>2. Lines!Range(some) = R \cap A
      BY <1>0, <3>0, KeptHolds
    <3>3. Lines!Kept(some, OfLine(some, l)) = Lines!Kept(rows, A \cap OfLine(some, l))
      BY <1>0, KeptTwice
    <3>4. Lines!Kept(b, A) = Lines!Kept(rows, OfLine(rows, l) \cap A)
      BY <2>3, KeptTwice
    <3>5. \A x \in R : x \in A \cap OfLine(some, l) <=> x \in OfLine(rows, l) \cap A
      BY <3>0, <3>2 DEF OfLine
    <3>6. Lines!Kept(rows, A \cap OfLine(some, l)) = Lines!Kept(rows, OfLine(rows, l) \cap A)
      BY <3>1, <3>5, KeptSame
    <3> QED
      BY <3>3, <3>4, <3>6
  <2>7. Lines!Kept(a \o b, A) = Lines!Kept(a, A) \o Lines!Kept(b, A)
    <3> HIDE DEF T
    <3>1. a \in Seq(S) /\ b \in Seq(S)
      OBVIOUS
    <3> QED
      BY <3>1, KeptConcat, SMTT(30)
  <2>8. a \o b \in Seq(S)
    OBVIOUS
  <2>9. Lines!Listed(some, Append(L, l)) = Lines!Kept(Lines!Listed(rows, Append(L, l)), A)
    BY <2>4, <2>5, <2>6, <2>7
  <2> QED
    BY <2>1, <2>4, <2>8, <2>9
<1>3. Seq(P) \subseteq T
  <2> HIDE DEF T
  <2> QED
    BY <1>1, <1>2, SeqInduction
<1>4. lines \in T
  BY <1>3
<1> QED
  BY <1>0, <1>4

\* A selector cut in two.
Split(sel, p, r) == \A f \in Lines!SelectorFields :
  (p[f] = sel[f] /\ r[f] = Lines!Unset(f)) \/ (p[f] = Lines!Unset(f) /\ r[f] = sel[f])

LEMMA PushedSplit ==
  ASSUME NEW sel, NEW advertised, NEW rest, rest = Lines!UnsupportedFields(sel, advertised)
  PROVE  Split(sel, Lines!Only(sel, Lines!Fields(sel) \ rest), Lines!Only(sel, rest))
<1>1. rest = Lines!Fields(sel) \ advertised
  BY Zenon DEF Lines!UnsupportedFields
<1>2. PICK p : p = Lines!Only(sel, Lines!Fields(sel) \ rest)
  OBVIOUS
<1>3. PICK r : r = Lines!Only(sel, rest)
  OBVIOUS
<1>4. ASSUME NEW f \in Lines!SelectorFields
      PROVE  (p[f] = sel[f] /\ r[f] = Lines!Unset(f)) \/ (p[f] = Lines!Unset(f) /\ r[f] = sel[f])
  <2>1. p[f] = IF f \in Lines!Fields(sel) \ rest THEN sel[f] ELSE Lines!Unset(f)
    BY <1>2 DEF Lines!Only
  <2>2. r[f] = IF f \in rest THEN sel[f] ELSE Lines!Unset(f)
    BY <1>3 DEF Lines!Only
  <2>3. f \notin Lines!Fields(sel) => sel[f] = Lines!Unset(f)
    BY Zenon DEF Lines!Fields
  <2> QED
    BY <1>1, <2>1, <2>2, <2>3
<1> QED
  BY <1>2, <1>3, <1>4 DEF Split

GeoWants(row, f, v) == v # {} => Lines!EffectiveGeo(row) # <<>> /\ Lines!HasFold(v, Lines!EffectiveGeo(row)[1][f])
FoldWants(row, f, v) == v # {} => Lines!HasFold(v, row[f])
RoleWants(row, v) == v # {} => row["chain_roles"] \in v
AnyWants(row, f, v) == v # {} => Lines!AnyOf(v, row[f])
DaysWant(row, v, now) == v # <<>> => row.renewal # <<>> /\ row.renewal[1] <= now + v[1]
HoursWant(row, v, now) == v # <<>> => row.probe # <<>> /\ row.probe[1].pass /\ row.probe[1].at >= now - v[1]

LEMMA MatchesIs ==
  ASSUME NEW row, NEW sel, NEW now
  PROVE  Lines!Matches(row, sel, now) <=>
           /\ \A f \in Lines!GeoFields : GeoWants(row, f, sel[f])
           /\ \A f \in Lines!FoldFields : FoldWants(row, f, sel[f])
           /\ RoleWants(row, sel["chain_roles"])
           /\ \A f \in Lines!AnyFields : AnyWants(row, f, sel[f])
           /\ DaysWant(row, sel[Lines!Days], now)
           /\ HoursWant(row, sel[Lines!Hours], now)
BY Zenon DEF Lines!Matches, GeoWants, FoldWants, RoleWants, AnyWants, DaysWant, HoursWant

LEMMA UnsetIs ==
  /\ \A f \in Lines!ListFields : Lines!Unset(f) = {} /\ f \in Lines!SelectorFields
  /\ Lines!Unset(Lines!Days) = <<>> /\ Lines!Unset(Lines!Hours) = <<>> /\ Lines!Unset("line_uuids") = <<>>
  /\ {Lines!Days, Lines!Hours, "line_uuids"} \subseteq Lines!SelectorFields
  /\ Lines!GeoFields \subseteq Lines!ListFields /\ Lines!FoldFields \subseteq Lines!ListFields /\ Lines!AnyFields \subseteq Lines!ListFields
  /\ "chain_roles" \in Lines!ListFields
<1>1. \A f \in Lines!ListFields : Lines!Unset(f) = {} /\ f \in Lines!SelectorFields
  BY DEF Lines!Unset, Lines!SelectorFields
<1>2. Lines!Days \notin Lines!ListFields /\ Lines!Hours \notin Lines!ListFields /\ "line_uuids" \notin Lines!ListFields
  BY DEF Lines!Days, Lines!Hours, Lines!ListFields, Lines!GeoFields, Lines!FoldFields, Lines!AnyFields
<1>3. Lines!Unset(Lines!Days) = <<>> /\ Lines!Unset(Lines!Hours) = <<>> /\ Lines!Unset("line_uuids") = <<>>
  BY <1>2 DEF Lines!Unset
<1>4. {Lines!Days, Lines!Hours, "line_uuids"} \subseteq Lines!SelectorFields
  BY DEF Lines!SelectorFields
<1>5. Lines!GeoFields \subseteq Lines!ListFields /\ Lines!FoldFields \subseteq Lines!ListFields /\ Lines!AnyFields \subseteq Lines!ListFields
  BY DEF Lines!ListFields
<1>6. "chain_roles" \in Lines!ListFields
  BY DEF Lines!ListFields
<1> QED
  BY <1>1, <1>3, <1>4, <1>5, <1>6

LEMMA SplitMatches ==
  ASSUME NEW sel, NEW p, NEW r, Split(sel, p, r), NEW row, NEW now
  PROVE  Lines!Matches(row, sel, now) <=> Lines!Matches(row, p, now) /\ Lines!Matches(row, r, now)
<1>1. \A f \in Lines!ListFields : (p[f] = sel[f] /\ r[f] = {}) \/ (p[f] = {} /\ r[f] = sel[f])
  BY UnsetIs DEF Split
<1>2. \A f \in Lines!GeoFields : GeoWants(row, f, sel[f]) <=> GeoWants(row, f, p[f]) /\ GeoWants(row, f, r[f])
  <2>1. \A f : GeoWants(row, f, {})
    BY Zenon DEF GeoWants
  <2> QED
    BY <1>1, <2>1, UnsetIs, Zenon
<1>3. \A f \in Lines!FoldFields : FoldWants(row, f, sel[f]) <=> FoldWants(row, f, p[f]) /\ FoldWants(row, f, r[f])
  <2>1. \A f : FoldWants(row, f, {})
    BY Zenon DEF FoldWants
  <2> QED
    BY <1>1, <2>1, UnsetIs, Zenon
<1>4. \A f \in Lines!AnyFields : AnyWants(row, f, sel[f]) <=> AnyWants(row, f, p[f]) /\ AnyWants(row, f, r[f])
  <2>1. \A f : AnyWants(row, f, {})
    BY Zenon DEF AnyWants
  <2> QED
    BY <1>1, <2>1, UnsetIs, Zenon
<1>5. RoleWants(row, sel["chain_roles"]) <=> RoleWants(row, p["chain_roles"]) /\ RoleWants(row, r["chain_roles"])
  <2>1. RoleWants(row, {})
    BY Zenon DEF RoleWants
  <2> QED
    BY <1>1, <2>1, UnsetIs, Zenon
<1>6. DaysWant(row, sel[Lines!Days], now) <=> DaysWant(row, p[Lines!Days], now) /\ DaysWant(row, r[Lines!Days], now)
  <2>1. DaysWant(row, <<>>, now)
    BY Zenon DEF DaysWant
  <2>2. (p[Lines!Days] = sel[Lines!Days] /\ r[Lines!Days] = <<>>) \/ (p[Lines!Days] = <<>> /\ r[Lines!Days] = sel[Lines!Days])
    BY UnsetIs, Zenon DEF Split
  <2> QED
    BY <2>1, <2>2, Zenon
<1>7. HoursWant(row, sel[Lines!Hours], now) <=> HoursWant(row, p[Lines!Hours], now) /\ HoursWant(row, r[Lines!Hours], now)
  <2>1. HoursWant(row, <<>>, now)
    BY Zenon DEF HoursWant
  <2>2. (p[Lines!Hours] = sel[Lines!Hours] /\ r[Lines!Hours] = <<>>) \/ (p[Lines!Hours] = <<>> /\ r[Lines!Hours] = sel[Lines!Hours])
    BY UnsetIs, Zenon DEF Split
  <2> QED
    BY <2>1, <2>2, Zenon
<1> QED
  BY <1>2, <1>3, <1>4, <1>5, <1>6, <1>7, MatchesIs, Zenon

Matching(rows, sel, now) == {r \in Lines!Range(rows) : Lines!Matches(r, sel, now)}

LEMMA RangeSeq == ASSUME NEW S, NEW s \in Seq(S) PROVE s \in Seq(Lines!Range(s))
BY DEF Lines!Range

LEMMA KeptPair ==
  ASSUME NEW S, NEW s \in Seq(S), NEW A, NEW B, NEW M, \A x \in Lines!Range(s) : x \in A /\ x \in B <=> x \in M
  PROVE  Lines!Kept(Lines!Kept(s, A), B) = Lines!Kept(s, M)
<1>1. PICK R : R = Lines!Range(s)
  OBVIOUS
<1>2. s \in Seq(R)
  BY <1>1, RangeSeq
<1>3. PICK C : C = A \cap B
  OBVIOUS
<1>4. \A x \in R : x \in C <=> x \in M
  BY <1>1, <1>3
<1>5. Lines!Kept(s, C) = Lines!Kept(s, M)
  BY <1>2, <1>4, KeptSame
<1> QED
  BY <1>3, <1>5, KeptTwice

LEMMA SelectedIs ==
  ASSUME NEW rows, NEW sel, NEW now, NEW L, L = sel["line_uuids"]
  PROVE  Lines!Selected(rows, sel, now) = Lines!Kept(IF L = <<>> THEN rows ELSE Lines!Listed(rows, L), Matching(rows, sel, now))
BY Zenon DEF Lines!Selected, Matching

\* Whatever is pushed, what is left makes it the whole selection.
LEMMA SplitSelects ==
  ASSUME NEW S, NEW rows \in Seq(S), NEW sel, NEW p, NEW r, Split(sel, p, r), NEW now, NEW P, sel["line_uuids"] \in Seq(P)
  PROVE  Lines!Selected(Lines!Selected(rows, p, now), r, now) = Lines!Selected(rows, sel, now)
<1>l. PICK L \in Seq(P) : L = sel["line_uuids"]
  OBVIOUS
<1>0. (p["line_uuids"] = L /\ r["line_uuids"] = <<>>) \/ (p["line_uuids"] = <<>> /\ r["line_uuids"] = L)
  BY <1>l, UnsetIs, Zenon DEF Split
<1>1. PICK A : A = Matching(rows, p, now)
  OBVIOUS
<1>2. PICK M : M = Matching(rows, sel, now)
  OBVIOUS
<1>3. PICK R : R = Lines!Range(rows)
  OBVIOUS
<1>4. rows \in Seq(R) /\ A \subseteq R /\ M \subseteq R
  BY <1>1, <1>2, <1>3, RangeSeq DEF Matching
<1>5. \A x \in R : x \in M <=> x \in A /\ Lines!Matches(x, r, now)
  BY <1>1, <1>2, <1>3, SplitMatches, Zenon DEF Matching
<1>6. PICK base \in Seq(R) : base = IF L = <<>> THEN rows ELSE Lines!Listed(rows, L)
  <2>1. Lines!Listed(rows, L) \in Seq(R)
    BY <1>4, ListedKept
  <2> QED
    BY <1>4, <2>1
<1>7. Lines!Range(base) \subseteq R
  BY DEF Lines!Range
<1>8. Lines!Selected(rows, sel, now) = Lines!Kept(base, M)
  BY <1>l, <1>2, <1>6, SelectedIs, Zenon
<1>9. CASE p["line_uuids"] = L /\ r["line_uuids"] = <<>>
  <2>1. PICK s : s = Lines!Kept(base, A)
    OBVIOUS
  <2>2. Lines!Selected(rows, p, now) = s
    BY <1>1, <1>6, <1>9, <2>1, SelectedIs, Zenon
  <2>3. PICK B : B = Matching(s, r, now)
    OBVIOUS
  <2>4. Lines!Selected(s, r, now) = Lines!Kept(s, B)
    BY <1>9, <2>3, SelectedIs, Zenon
  <2>5. Lines!Range(s) = Lines!Range(base) \cap A
    BY <2>1, KeptHolds
  <2>6. \A x \in Lines!Range(base) : x \in A /\ x \in B <=> x \in M
    BY <1>5, <1>7, <2>3, <2>5, Zenon DEF Matching
  <2>7. Lines!Kept(s, B) = Lines!Kept(base, M)
    BY <2>1, <2>6, KeptPair
  <2> QED
    BY <1>8, <2>2, <2>4, <2>7
<1>10. CASE p["line_uuids"] = <<>> /\ r["line_uuids"] = L
  <2>1. PICK s : s = Lines!Kept(rows, A)
    OBVIOUS
  <2>2. Lines!Selected(rows, p, now) = s
    BY <1>1, <1>10, <2>1, SelectedIs, Zenon
  <2>3. PICK B : B = Matching(s, r, now)
    OBVIOUS
  <2>4. (IF L = <<>> THEN s ELSE Lines!Listed(s, L)) = Lines!Kept(base, A)
    <3>1. Lines!Listed(s, L) = Lines!Kept(Lines!Listed(rows, L), A)
      BY <1>4, <2>1, ListedKept
    <3> QED
      BY <1>6, <2>1, <3>1, Zenon
  <2>5. Lines!Selected(s, r, now) = Lines!Kept(Lines!Kept(base, A), B)
    BY <1>10, <2>3, <2>4, SelectedIs, Zenon
  <2>6. Lines!Range(s) = R \cap A
    BY <1>3, <1>4, <2>1, KeptHolds
  <2>7. \A x \in Lines!Range(base) : x \in A /\ x \in B <=> x \in M
    BY <1>5, <1>7, <2>3, <2>6, Zenon DEF Matching
  <2>8. Lines!Kept(Lines!Kept(base, A), B) = Lines!Kept(base, M)
    BY <2>7, KeptPair
  <2> QED
    BY <1>8, <2>2, <2>5, <2>8
<1> QED
  BY <1>0, <1>9, <1>10

LEMMA SelectedMatch ==
  ASSUME NEW S, NEW rows \in Seq(S), NEW sel, NEW now, NEW P, sel["line_uuids"] \in Seq(P), NEW out, out = Lines!Selected(rows, sel, now), NEW i \in DOMAIN out
  PROVE  Lines!Matches(out[i], sel, now)
<1>l. PICK L \in Seq(P) : L = sel["line_uuids"]
  OBVIOUS
<1>1. PICK base \in Seq(S) : base = IF L = <<>> THEN rows ELSE Lines!Listed(rows, L)
  BY ListedKept
<1>2. PICK M : M = Matching(rows, sel, now)
  OBVIOUS
<1>3. out = Lines!Kept(base, M)
  BY <1>l, <1>1, <1>2, SelectedIs, Zenon
<1>4. Lines!Range(out) = Lines!Range(base) \cap M
  BY <1>3, KeptHolds
<1>5. out[i] \in M
  BY <1>4 DEF Lines!Range
<1> QED
  BY <1>2, <1>5 DEF Matching

LEMMA MatchedIsKnown == ASSUME NEW row, NEW sel, NEW now, Lines!Matches(row, sel, now) PROVE ~Lines!ExitUnknown(row, sel)
BY Zenon DEF Lines!Matches, Lines!ExitUnknown, Lines!EffectiveGeo

\* However a selector is divided between the core and the plugin, the lines
\* selected are those of the whole selector in its order, and none of an
\* unknown exit is among them (UnsupportedFields,
\* LineCatalogueSelectorMatches).
THEOREM PushdownIsSelection == Spec => []PushdownSelects
<1>1. Answers => PushdownSelects
  <2> SUFFICES ASSUME Answers, Answered("select")
               PROVE  LET q == question.of
                      IN /\ answer[1] = Lines!Selected(q.rows, q.sel, q.now)
                         /\ \A i \in DOMAIN answer[1] : ~Lines!ExitUnknown(answer[1][i], q.sel)
    BY Zenon DEF PushdownSelects
  <2>0. PICK q : q = question.of
    OBVIOUS
  <2>1. q \in AnySelection
    BY <2>0, InputAssumption, Given DEF Answered
  <2>2. q.rows \in Seq(AnyRow) /\ q.sel["line_uuids"] \in Seq(STRING)
    BY <2>1 DEF AnySelection, AnySelector
  <2>3. answer[1] = Lines!Pushed(q.rows, q.sel, q.advertised, q.now)
    BY <2>0 DEF Answers, RightAnswer, Put, Answered
  <2>4. answer[1] = Lines!Selected(q.rows, q.sel, q.now)
    <3>1. PICK rest : rest = Lines!UnsupportedFields(q.sel, q.advertised)
      OBVIOUS
    <3>2. PICK p : p = Lines!Only(q.sel, Lines!Fields(q.sel) \ rest)
      OBVIOUS
    <3>3. PICK r : r = Lines!Only(q.sel, rest)
      OBVIOUS
    <3>4. Split(q.sel, p, r)
      BY <3>1, <3>2, <3>3, PushedSplit
    <3>5. answer[1] = Lines!Selected(Lines!Selected(q.rows, p, q.now), r, q.now)
      BY <2>3, <3>1, <3>2, <3>3, Zenon DEF Lines!Pushed
    <3> QED
      BY <2>2, <3>4, <3>5, SplitSelects
  <2>5. \A i \in DOMAIN answer[1] : Lines!Matches(answer[1][i], q.sel, q.now)
    BY <2>2, <2>4, SelectedMatch
  <2>6. \A i \in DOMAIN answer[1] : ~Lines!ExitUnknown(answer[1][i], q.sel)
    BY <2>5, MatchedIsKnown
  <2> QED
    BY <2>0, <2>4, <2>6
<1> QED
  BY <1>1, AnswersHold, PTL

-----------------------------------------------------------------------------
(***************************************************************************)
(* Source manifests.                                                       *)
(***************************************************************************)
LEMMA ListIs == ASSUME NEW s PROVE Source!List(s).of = s /\ ~Source!List(s).nil
<1>1. ASSUME NEW b, NEW l, l = [nil |-> b, of |-> s] PROVE l.nil = b /\ l.of = s
  BY <1>1
<1>2. Source!List(s) = [nil |-> FALSE, of |-> s]
  BY Zenon DEF Source!List
<1> QED
  BY <1>1, <1>2, Zenon

LEMMA EndpointFields ==
  ASSUME NEW l, NEW v, NEW a, NEW c, c = [line |-> l, valid |-> v, alpn |-> a] PROVE c.line = l /\ c.valid = v /\ c.alpn = a
OBVIOUS

\* What a copy of an entry is.
LEMMA EntryCopied ==
  ASSUME NEW e, NEW c, c = Source!CloneEntry(e)
  PROVE  /\ c.root = e.root /\ c.terminal = e.terminal
         /\ c.path = Source!List(e.path.of) /\ c.path.of = e.path.of /\ ~c.path.nil
         /\ c.endpoint.line = e.endpoint.line /\ c.endpoint.valid = e.endpoint.valid
         /\ c.endpoint.alpn = Source!List(e.endpoint.alpn.of) /\ c.endpoint.alpn.of = e.endpoint.alpn.of /\ ~c.endpoint.alpn.nil
<1> DEFINE p == [line |-> e.endpoint.line, valid |-> e.endpoint.valid, alpn |-> Source!List(e.endpoint.alpn.of)]
<1>1. p.line = e.endpoint.line /\ p.valid = e.endpoint.valid /\ p.alpn = Source!List(e.endpoint.alpn.of)
  BY EndpointFields, Zenon
<1> HIDE DEF p
<1>2. c = [root |-> e.root, endpoint |-> p, path |-> Source!List(e.path.of), terminal |-> e.terminal]
  BY Zenon DEF Source!CloneEntry, p
<1>3. c.root = e.root /\ c.endpoint = p /\ c.path = Source!List(e.path.of) /\ c.terminal = e.terminal
  BY <1>2, SMT
<1> QED
  BY <1>1, <1>3, ListIs, Zenon

LEMMA EntryCopiedTwice == ASSUME NEW e PROVE Source!CloneEntry(Source!CloneEntry(e)) = Source!CloneEntry(e)
<1>1. PICK c : c = Source!CloneEntry(e)
  OBVIOUS
<1>2. /\ c.root = e.root /\ c.terminal = e.terminal /\ c.path.of = e.path.of
      /\ c.endpoint.line = e.endpoint.line /\ c.endpoint.valid = e.endpoint.valid /\ c.endpoint.alpn.of = e.endpoint.alpn.of
  BY <1>1, EntryCopied, Zenon
<1>3. Source!CloneEntry(c) = Source!CloneEntry(e)
  BY <1>2, Zenon DEF Source!CloneEntry
<1> QED
  BY <1>1, <1>3, Zenon

LEMMA ManifestCopied ==
  ASSUME NEW m, NEW c, c = Source!Clone(m)
  PROVE  /\ c.header = m.header /\ c.roots.of = m.roots.of /\ ~c.roots.nil /\ ~c.entries.nil
         /\ c.entries.of = [i \in DOMAIN m.entries.of |-> Source!CloneEntry(m.entries.of[i])]
<1> DEFINE f == [i \in DOMAIN m.entries.of |-> Source!CloneEntry(m.entries.of[i])]
<1> HIDE DEF f
<1>1. c = [header |-> m.header, roots |-> Source!List(m.roots.of), entries |-> Source!List(f)]
  BY Zenon DEF Source!Clone, f
<1>2. c.header = m.header /\ c.roots = Source!List(m.roots.of) /\ c.entries = Source!List(f)
  BY <1>1, SMT
<1>3. c.entries.of = f
  BY <1>2, ListIs, Zenon
<1> QED
  BY <1>2, <1>3, ListIs, Zenon DEF f

LEMMA ManifestCopiedTwice == ASSUME NEW m PROVE Source!Clone(Source!Clone(m)) = Source!Clone(m)
<1>1. PICK c : c = Source!Clone(m)
  OBVIOUS
<1>2. /\ c.header = m.header /\ c.roots.of = m.roots.of
      /\ c.entries.of = [i \in DOMAIN m.entries.of |-> Source!CloneEntry(m.entries.of[i])]
  BY <1>1, ManifestCopied, Zenon
<1>3. PICK f : f = c.entries.of
  OBVIOUS
<1>4. DOMAIN f = DOMAIN m.entries.of /\ \A i \in DOMAIN m.entries.of : f[i] = Source!CloneEntry(m.entries.of[i])
  BY <1>2, <1>3
<1>5. [i \in DOMAIN f |-> Source!CloneEntry(f[i])] = [i \in DOMAIN m.entries.of |-> Source!CloneEntry(m.entries.of[i])]
  <2>1. \A i \in DOMAIN m.entries.of : Source!CloneEntry(f[i]) = Source!CloneEntry(m.entries.of[i])
    BY <1>4, EntryCopiedTwice, Zenon
  <2> QED
    BY <1>4, <2>1, Zenon
<1>6. Source!Clone(c) = Source!Clone(m)
  BY <1>2, <1>3, <1>5, Zenon DEF Source!Clone
<1> QED
  BY <1>1, <1>6, Zenon

-----------------------------------------------------------------------------
(***************************************************************************)
(* Source manifests: walks along paths.                                    *)
(***************************************************************************)
Places == STRING \cup {Source!NoLine}
Walks == [ok : BOOLEAN, visits : Nat, visited : SUBSET Places, current : Places]

LEMMA WalkMade ==
  ASSUME NEW a \in BOOLEAN, NEW b \in Nat, NEW c \in SUBSET Places, NEW d \in Places, NEW w, w = [ok |-> a, visits |-> b, visited |-> c, current |-> d]
  PROVE  w \in Walks /\ w.ok = a /\ w.visits = b /\ w.visited = c /\ w.current = d
BY DEF Walks

LEMMA WalkFields ==
  ASSUME NEW w \in Walks
  PROVE  /\ w.ok \in BOOLEAN /\ w.visits \in Nat /\ w.visited \in SUBSET Places /\ w.current \in Places
         /\ w = [i \in {"ok", "visits", "visited", "current"} |-> w[i]]
BY DEF Walks

LEMMA StartIs ==
  ASSUME NEW w \in Walks, NEW root \in Places, NEW s, s = Source!Start(w, root)
  PROVE  /\ s \in Walks /\ s.visits = w.visits + 1 /\ s.visited = {root} /\ s.current = root
         /\ s.ok <=> w.ok /\ w.visits + 1 <= MaxVisits
<1>1. PICK a \in BOOLEAN : a = (w.ok /\ w.visits + 1 <= MaxVisits)
  BY Zenon
<1>2. PICK v \in Nat : v = w.visits + 1
  BY WalkFields
<1>3. PICK c \in SUBSET Places : c = {root}
  OBVIOUS
<1>4. s = [ok |-> a, visits |-> v, visited |-> c, current |-> root]
  BY <1>1, <1>2, <1>3, Zenon DEF Source!Start
<1>5. s \in Walks /\ s.ok = a /\ s.visits = v /\ s.visited = c /\ s.current = root
  BY <1>4, WalkMade
<1> QED
  BY <1>1, <1>2, <1>3, <1>5, Zenon

LEMMA FollowIs ==
  ASSUME NEW w \in Walks, NEW edge, edge.target \in Places, NEW s, s = Source!Follow(w, edge)
  PROVE  /\ s \in Walks /\ s.visits = w.visits + 1 /\ s.visited = w.visited \cup {edge.target} /\ s.current = edge.target
         /\ s.ok <=> w.ok /\ w.visits + 1 <= MaxVisits /\ edge.source = w.current /\ edge.valid /\ edge.target \notin w.visited
<1>1. PICK a \in BOOLEAN : a = (w.ok /\ w.visits + 1 <= MaxVisits /\ edge.source = w.current /\ edge.valid /\ edge.target \notin w.visited)
  BY Zenon
<1>2. PICK v \in Nat : v = w.visits + 1
  BY WalkFields
<1>3. PICK c \in SUBSET Places : c = w.visited \cup {edge.target}
  BY WalkFields
<1>4. PICK d \in Places : d = edge.target
  OBVIOUS
<1>5. s = [ok |-> a, visits |-> v, visited |-> c, current |-> d]
  BY <1>1, <1>2, <1>3, <1>4, Zenon DEF Source!Follow
<1>6. s \in Walks /\ s.ok = a /\ s.visits = v /\ s.visited = c /\ s.current = d
  BY <1>5, WalkMade
<1> QED
  BY <1>1, <1>2, <1>3, <1>4, <1>6, Zenon

AlongStep(w, root, path, g, i) == IF i = 0 THEN Source!Start(w, root) ELSE Source!Follow(g[i - 1], path[i])
AlongFn(g, w, root, path, n) == g = [i \in 0..n |-> AlongStep(w, root, path, g, i)]
Targets(path, n) == \A i \in 1..n : path[i].target \in Places

LEMMA AlongStepType ==
  ASSUME NEW w \in Walks, NEW root \in Places, NEW path, NEW n \in Nat, Targets(path, n), NEW i \in 0..n, NEW g, i # 0 => g[i - 1] \in Walks
  PROVE  AlongStep(w, root, path, g, i) \in Walks
<1>1. CASE i = 0
  BY <1>1, StartIs DEF AlongStep
<1>2. CASE i # 0
  <2>1. i \in 1..n
    BY <1>2
  <2>2. path[i].target \in Places /\ g[i - 1] \in Walks
    BY <1>2, <2>1 DEF Targets
  <2>3. AlongStep(w, root, path, g, i) = Source!Follow(g[i - 1], path[i])
    BY <1>2 DEF AlongStep
  <2> QED
    BY <2>2, <2>3, FollowIs
<1> QED
  BY <1>1, <1>2

LEMMA AlongExists ==
  ASSUME NEW w \in Walks, NEW root \in Places, NEW path, NEW n \in Nat, Targets(path, n) PROVE \E g : AlongFn(g, w, root, path, n)
<1> DEFINE F == [0..n -> Walks]
           next == [i \in 0..n |-> [g \in F |-> AlongStep(w, root, path, g, i)]]
<1>1. ASSUME NEW i \in 0..n, NEW g \in F PROVE AlongStep(w, root, path, g, i) \in Walks
  <2>1. i # 0 => g[i - 1] \in Walks
    OBVIOUS
  <2> HIDE DEF F, next
  <2> QED
    BY <2>1, AlongStepType
<1>2. next \in [0..n -> [F -> Walks]]
  BY <1>1
<1>3. ASSUME NEW i \in 0..n, NEW g \in F, NEW h \in F, \A j \in 0..(i - 1) : g[j] = h[j] PROVE next[i][g] = next[i][h]
  <2>1. i # 0 => i - 1 \in 0..(i - 1)
    OBVIOUS
  <2>2. AlongStep(w, root, path, g, i) = AlongStep(w, root, path, h, i)
    BY <1>3, <2>1 DEF AlongStep
  <2> QED
    BY <2>2
<1>4. \A i \in 0..n : \A g, h \in F : (\A j \in 0..(i - 1) : g[j] = h[j]) => next[i][g] = next[i][h]
  BY <1>3
<1>5. Walks # {}
  OBVIOUS
<1> HIDE DEF next
<1>6. PICK g \in F : \A i \in 0..n : g[i] = next[i][g]
  <2>1. LooksUp(next, 0, n, Walks)
    BY <1>2, <1>4, <1>5 DEF LooksUp
  <2> QED
    BY <2>1, RecursionUp
<1>7. \A i \in 0..n : g[i] = AlongStep(w, root, path, g, i)
  BY <1>6 DEF next
<1>8. g = [i \in 0..n |-> g[i]]
  OBVIOUS
<1> QED
  BY <1>7, <1>8, Zenon DEF AlongFn

\* The first edges of a path lead on from line to line, none of them twice.
EdgesOK(path, lines, i) ==
  \A j \in 1..i : path[j].source = lines[j] /\ path[j].valid /\ lines[j + 1] \notin {lines[k] : k \in 1..j}

LEMMA EdgesStep ==
  ASSUME NEW path, NEW lines, NEW i \in Nat
  PROVE  EdgesOK(path, lines, i + 1) <=>
           EdgesOK(path, lines, i) /\ path[i + 1].source = lines[i + 1] /\ path[i + 1].valid /\ lines[(i + 1) + 1] \notin {lines[k] : k \in 1..(i + 1)}
<1>1. \A j : j \in 1..(i + 1) <=> j \in 1..i \/ j = i + 1
  OBVIOUS
<1> QED
  BY <1>1, Zenon DEF EdgesOK

LEMMA AlongRun ==
  ASSUME NEW w \in Walks, NEW root \in Places, NEW path, NEW n \in Nat, Targets(path, n), NEW g, AlongFn(g, w, root, path, n),
         NEW lines, lines[1] = root, \A j \in 1..n : lines[j + 1] = path[j].target
  PROVE  /\ g[n] \in Walks /\ g[n].visits = (w.visits + 1) + n /\ g[n].current = lines[n + 1]
         /\ g[n].ok <=> w.ok /\ (w.visits + 1) + n <= MaxVisits /\ EdgesOK(path, lines, n)
<1>1. \A i \in 0..n : g[i] = AlongStep(w, root, path, g, i)
  BY DEF AlongFn
<1> DEFINE Right(i) == /\ g[i] \in Walks /\ g[i].visits = (w.visits + 1) + i /\ g[i].current = lines[i + 1]
                       /\ g[i].visited = {lines[k] : k \in 1..(i + 1)}
                       /\ g[i].ok <=> w.ok /\ (w.visits + 1) + i <= MaxVisits /\ EdgesOK(path, lines, i)
           T == {i \in 0..n : Right(i)}
<1>v. PICK v \in Nat : v = w.visits
  BY WalkFields
<1>x. MaxVisits \in Nat
  BY ValidationAssumption
<1>2. 0 \in T
  <2>1. 0 \in 0..n /\ g[0] = Source!Start(w, root)
    BY <1>1 DEF AlongStep
  <2>2. /\ g[0] \in Walks /\ g[0].visits = w.visits + 1 /\ g[0].visited = {root} /\ g[0].current = root
        /\ g[0].ok <=> w.ok /\ w.visits + 1 <= MaxVisits
    BY <2>1, StartIs
  <2>3. EdgesOK(path, lines, 0)
    BY DEF EdgesOK
  <2>4. {lines[k] : k \in 1..(0 + 1)} = {root}
    OBVIOUS
  <2>5. (w.visits + 1) + 0 = w.visits + 1 /\ 0 + 1 = 1
    BY <1>v
  <2>6. Right(0)
    BY <2>2, <2>3, <2>4, <2>5
  <2> QED
    BY <2>1, <2>6
<1>3. ASSUME NEW i \in 0..(n - 1), i \in T PROVE i + 1 \in T
  <2>0. i \in Nat /\ i + 1 \in 0..n /\ i + 1 \in 1..n /\ i + 1 # 0 /\ (i + 1) - 1 = i
    OBVIOUS
  <2>1. PICK a \in Walks : a = g[i]
    BY <1>3
  <2>2. PICK e : e = path[i + 1]
    OBVIOUS
  <2>3. g[i + 1] = Source!Follow(a, e)
    BY <1>1, <2>0, <2>1, <2>2 DEF AlongStep
  <2>4. e.target \in Places /\ lines[(i + 1) + 1] = e.target
    BY <2>0, <2>2 DEF Targets
  <2>5. PICK s : s = g[i + 1]
    OBVIOUS
  <2>6. /\ s \in Walks /\ s.visits = a.visits + 1 /\ s.visited = a.visited \cup {e.target} /\ s.current = e.target
        /\ s.ok <=> a.ok /\ a.visits + 1 <= MaxVisits /\ e.source = a.current /\ e.valid /\ e.target \notin a.visited
    BY <2>3, <2>4, <2>5, FollowIs
  <2>7. /\ a.visits = (w.visits + 1) + i /\ a.current = lines[i + 1]
        /\ a.visited = {lines[k] : k \in 1..(i + 1)}
        /\ a.ok <=> w.ok /\ (w.visits + 1) + i <= MaxVisits /\ EdgesOK(path, lines, i)
    BY <1>3, <2>1
  <2>8. s.visits = (w.visits + 1) + (i + 1)
    BY <1>v, <2>0, <2>6, <2>7
  <2>9. s.visited = {lines[k] : k \in 1..((i + 1) + 1)}
    <3>1. \A k : k \in 1..((i + 1) + 1) <=> k \in 1..(i + 1) \/ k = (i + 1) + 1
      BY <2>0
    <3>2. s.visited = {lines[k] : k \in 1..(i + 1)} \cup {lines[(i + 1) + 1]}
      BY <2>4, <2>6, <2>7
    <3> QED
      BY <3>1, <3>2
  <2>10. s.ok <=> w.ok /\ (w.visits + 1) + (i + 1) <= MaxVisits /\ EdgesOK(path, lines, i + 1)
    <3>1. EdgesOK(path, lines, i + 1) <=> EdgesOK(path, lines, i) /\ e.source = a.current /\ e.valid /\ e.target \notin a.visited
      <4>1. EdgesOK(path, lines, i + 1) <=>
              EdgesOK(path, lines, i) /\ path[i + 1].source = lines[i + 1] /\ path[i + 1].valid /\ lines[(i + 1) + 1] \notin {lines[k] : k \in 1..(i + 1)}
        BY <2>0, EdgesStep
      <4> QED
        BY <2>2, <2>4, <2>7, <4>1, Zenon
    <3>2. (w.visits + 1) + (i + 1) <= MaxVisits <=> (w.visits + 1) + i <= MaxVisits /\ a.visits + 1 <= MaxVisits
      BY <1>v, <1>x, <2>0, <2>7
    <3> QED
      BY <2>6, <2>7, <3>1, <3>2, Zenon
  <2>11. Right(i + 1)
    BY <2>4, <2>5, <2>6, <2>8, <2>9, <2>10
  <2> QED
    BY <2>0, <2>11
<1>4. 0..n \subseteq T
  <2> HIDE DEF T
  <2> QED
    BY <1>2, <1>3, IntervalUp
<1>5. n \in T
  BY <1>4
<1> QED
  BY <1>5

LEMMA LinesIs ==
  ASSUME NEW entry, NEW S, entry.path.of \in Seq(S), NEW n \in Nat, n = Len(entry.path.of), NEW lines, lines = Source!Lines(entry)
  PROVE  /\ Len(lines) = n + 1 /\ DOMAIN lines = 1..(n + 1) /\ lines = [j \in 1..(n + 1) |-> lines[j]] /\ lines[1] = entry.root
         /\ \A j \in 1..n : lines[j + 1] = entry.path.of[j].target
<1>1. PICK p \in Seq(S) : p = entry.path.of
  OBVIOUS
<1>2. PICK V : V = {entry.root} \cup {p[i].target : i \in 1..n}
  OBVIOUS
<1>3. PICK t : t = [i \in 1..n |-> p[i].target]
  OBVIOUS
<1>4. t \in Seq(V) /\ Len(t) = n /\ \A i \in 1..n : t[i] = p[i].target
  <2>1. t \in [1..n -> V]
    BY <1>2, <1>3
  <2> QED
    BY <1>3, <2>1
<1>5. PICK r \in V : r = entry.root
  BY <1>2
<1>6. DOMAIN p = 1..n
  BY <1>1
<1>7. lines = <<r>> \o t
  BY <1>1, <1>3, <1>5, <1>6, Zenon DEF Source!Lines
<1>8. <<r>> \in Seq(V) /\ Len(<<r>>) = 1 /\ <<r>>[1] = r
  OBVIOUS
<1>9. Len(lines) = n + 1 /\ DOMAIN lines = 1..(n + 1) /\ lines[1] = r /\ \A j \in 1..n : lines[j + 1] = t[j]
  BY <1>4, <1>7, <1>8
<1>10. lines \in Seq(V)
  BY <1>4, <1>7, <1>8
<1>11. lines = [j \in DOMAIN lines |-> lines[j]]
  BY <1>10, SMT
<1>12. lines = [j \in 1..(n + 1) |-> lines[j]]
  BY <1>9, <1>11, Zenon
<1> QED
  BY <1>1, <1>4, <1>5, <1>9, <1>12, Zenon

\* No line of a path twice.
Fresh(lines, n) == \A j \in 1..n : lines[j + 1] \notin {lines[k] : k \in 1..j}

LEMMA DistinctLines ==
  ASSUME NEW lines, NEW n \in Nat, DOMAIN lines = 1..(n + 1)
  PROVE  Source!Distinct(lines) <=> Fresh(lines, n)
<1> USE DEF Fresh
<1>1. ASSUME Source!Distinct(lines), NEW j \in 1..n PROVE lines[j + 1] \notin {lines[k] : k \in 1..j}
  <2> SUFFICES ASSUME NEW k \in 1..j, lines[j + 1] = lines[k] PROVE FALSE
    OBVIOUS
  <2>1. j + 1 \in DOMAIN lines /\ k \in DOMAIN lines /\ j + 1 # k
    OBVIOUS
  <2> QED
    BY <1>1, <2>1 DEF Source!Distinct
<1>2. ASSUME \A j \in 1..n : lines[j + 1] \notin {lines[k] : k \in 1..j} PROVE Source!Distinct(lines)
  <2>1. ASSUME NEW a \in 1..(n + 1), NEW b \in 1..(n + 1), a < b PROVE lines[a] # lines[b]
    <3>1. PICK j \in 1..n : j = b - 1
      BY <2>1
    <3>2. a \in 1..j /\ b = j + 1
      BY <2>1, <3>1
    <3> QED
      BY <1>2, <3>2
  <2>2. \A a, b \in 1..(n + 1) : a # b => a < b \/ b < a
    OBVIOUS
  <2> QED
    BY <2>1, <2>2 DEF Source!Distinct
<1> QED
  BY <1>1, <1>2

Named(root) == root # "bad"
Unlisted(root, earlier) == root \notin earlier

Bound(root, entry, earlier) ==
  /\ root # "bad" /\ root \notin earlier
  /\ entry.root = root /\ entry.endpoint.line = root /\ ~entry.endpoint.alpn.nil /\ ~entry.path.nil
  /\ Source!EndpointOK(entry.endpoint)


Edges == [source : STRING, target : STRING, valid : BOOLEAN]

LEMMA EntryTypes ==
  ASSUME NEW entry \in AnyEntry
  PROVE  /\ entry.path.of \in Seq(Edges) /\ entry.root \in Places
         /\ \A i \in 1..Len(entry.path.of) : entry.path.of[i].target \in Places
<1>1. entry.path \in AnyList(Edges) /\ entry.root \in STRING
  BY DEF AnyEntry, Edges
<1>2. entry.path.of \in Seq(Edges)
  BY <1>1 DEF AnyList
<1>3. PICK p \in Seq(Edges) : p = entry.path.of
  BY <1>2
<1>4. \A i \in 1..Len(p) : p[i] \in Edges
  OBVIOUS
<1>5. \A e \in Edges : e.target \in Places
  BY DEF Edges, Places
<1> QED
  BY <1>1, <1>2, <1>3, <1>4, <1>5 DEF Places

\* A path is simple when its edges lead on from line to line to the terminal.
LEMMA SimplePathIs ==
  ASSUME NEW root, NEW entry \in AnyEntry, NEW n \in Nat, n = Len(entry.path.of), NEW lines, lines = Source!Lines(entry)
  PROVE  Source!SimplePath(root, entry) <=>
           /\ entry.root = root /\ entry.endpoint.line = root /\ Source!EndpointOK(entry.endpoint)
           /\ EdgesOK(entry.path.of, lines, n) /\ entry.terminal.line = lines[n + 1] /\ entry.terminal.valid
<1>1. /\ Len(lines) = n + 1 /\ DOMAIN lines = 1..(n + 1)
  BY EntryTypes, LinesIs, Zenon
<1>2. DOMAIN entry.path.of = 1..n
  BY EntryTypes
<1>3. Source!Distinct(lines) <=> Fresh(lines, n)
  BY <1>1, DistinctLines, Zenon
<1>4. EdgesOK(entry.path.of, lines, n) <=>
        Source!Distinct(lines) /\ \A i \in 1..n : entry.path.of[i].source = lines[i] /\ entry.path.of[i].valid
  BY <1>3, Zenon DEF EdgesOK, Fresh
<1> QED
  BY <1>1, <1>2, <1>4, Zenon DEF Source!SimplePath

Ended(e, root, entry, earlier) == [e EXCEPT !.ok = @ /\ Bound(root, entry, earlier) /\ entry.terminal.line = e.current /\ entry.terminal.valid]

LEMMA WalkedIs ==
  ASSUME NEW w \in Walks, NEW root \in Places, NEW entry \in AnyEntry, NEW earlier, NEW n \in Nat, n = Len(entry.path.of)
  PROVE  \E walked : /\ AlongFn(walked, w, root, entry.path.of, n)
                     /\ Source!Entry(w, root, entry, earlier) = Ended(walked[n], root, entry, earlier)
<1>1. Targets(entry.path.of, n)
  BY EntryTypes DEF Targets
<1>2. \E g : AlongFn(g, w, root, entry.path.of, n)
  BY <1>1, AlongExists, Zenon
<1>3. PICK walked : walked = CHOOSE f : AlongFn(f, w, root, entry.path.of, n)
  OBVIOUS
<1>4. AlongFn(walked, w, root, entry.path.of, n)
  BY <1>2, <1>3, Zenon
<1>5. PICK h : h = CHOOSE f : AlongFn(f, w, root, entry.path.of, Len(entry.path.of))
  OBVIOUS
<1>6. Source!Entry(w, root, entry, earlier) = Ended(h[Len(entry.path.of)], root, entry, earlier)
  BY <1>5, Zenon DEF Source!Entry, AlongFn, AlongStep, Bound, Ended
<1>7. h = walked
  BY <1>3, <1>5, Zenon
<1> QED
  BY <1>4, <1>6, <1>7, Zenon

LEMMA OkReplaced ==
  ASSUME NEW w \in Walks, NEW a \in BOOLEAN, NEW s, s = [w EXCEPT !.ok = a]
  PROVE  s \in Walks /\ s.visits = w.visits /\ s.ok = a
<1>1. w \in [ok : BOOLEAN, visits : Nat, visited : SUBSET Places, current : Places]
  BY DEF Walks
<1> QED
  BY <1>1 DEF Walks

\* What the walk of one entry adds.
Entered(s, w, root, entry, earlier, n) ==
  /\ s \in Walks /\ s.visits = (w.visits + 1) + n
  /\ s.ok <=> w.ok /\ (w.visits + 1) + n <= MaxVisits /\ Named(root) /\ Unlisted(root, earlier) /\ Source!SimplePath(root, entry)

LEMMA EntryIs ==
  ASSUME NEW w \in Walks, NEW root \in Places, NEW entry \in AnyEntry, ~entry.endpoint.alpn.nil, ~entry.path.nil, NEW earlier,
         NEW n \in Nat, n = Len(entry.path.of), NEW s, s = Source!Entry(w, root, entry, earlier)
  PROVE  Entered(s, w, root, entry, earlier, n)
<1>1. PICK g : AlongFn(g, w, root, entry.path.of, n) /\ s = Ended(g[n], root, entry, earlier)
  BY WalkedIs
<1>2. PICK lines : lines = [j \in 1..(n + 1) |-> IF j = 1 THEN root ELSE entry.path.of[j - 1].target]
  OBVIOUS
<1>3. lines[1] = root /\ \A j \in 1..n : lines[j + 1] = entry.path.of[j].target
  BY <1>2
<1>4. Targets(entry.path.of, n)
  BY EntryTypes DEF Targets
<1>5. PICK e : e = g[n]
  OBVIOUS
<1>6. /\ e \in Walks /\ e.visits = (w.visits + 1) + n /\ e.current = lines[n + 1]
      /\ e.ok <=> w.ok /\ (w.visits + 1) + n <= MaxVisits /\ EdgesOK(entry.path.of, lines, n)
  <2>1. PICK p : p = entry.path.of
    OBVIOUS
  <2>2. Targets(p, n) /\ AlongFn(g, w, root, p, n) /\ lines[1] = root /\ \A j \in 1..n : lines[j + 1] = p[j].target
    BY <1>1, <1>3, <1>4, <2>1, Zenon
  <2>3. /\ g[n] \in Walks /\ g[n].visits = (w.visits + 1) + n /\ g[n].current = lines[n + 1]
        /\ g[n].ok <=> w.ok /\ (w.visits + 1) + n <= MaxVisits /\ EdgesOK(p, lines, n)
    BY <2>2, AlongRun
  <2> QED
    BY <1>5, <2>1, <2>3, Zenon
<1>7. PICK a \in BOOLEAN : a = (e.ok /\ Bound(root, entry, earlier) /\ entry.terminal.line = e.current /\ entry.terminal.valid)
  BY Zenon
<1>8. s = [e EXCEPT !.ok = a]
  BY <1>1, <1>5, <1>7, Zenon DEF Ended
<1>9. s \in Walks /\ s.visits = e.visits /\ s.ok = a
  BY <1>6, <1>8, OkReplaced
<1>10. a <=> w.ok /\ (w.visits + 1) + n <= MaxVisits /\ Named(root) /\ Unlisted(root, earlier) /\ Source!SimplePath(root, entry)
  <2>1. CASE entry.root = root
    <3>1. lines = Source!Lines(entry)
      <4>1. PICK l : l = Source!Lines(entry)
        OBVIOUS
      <4>2. /\ Len(l) = n + 1 /\ DOMAIN l = 1..(n + 1) /\ l[1] = entry.root
            /\ \A j \in 1..n : l[j + 1] = entry.path.of[j].target
        BY <4>1, EntryTypes, LinesIs, ZenonT(60)
      <4>3. \A j \in 1..(n + 1) : j = 1 \/ (j - 1 \in 1..n /\ (j - 1) + 1 = j)
        OBVIOUS
      <4>4. \A j \in 1..(n + 1) : l[j] = lines[j]
        BY <1>3, <2>1, <4>2, <4>3
      <4>5. DOMAIN lines = 1..(n + 1) /\ lines = [j \in 1..(n + 1) |-> lines[j]]
        BY <1>2
      <4>6. l = [j \in 1..(n + 1) |-> l[j]]
        BY <4>1, EntryTypes, LinesIs, ZenonT(60)
      <4> QED
        BY <4>1, <4>4, <4>5, <4>6, Zenon
    <3>2. Source!SimplePath(root, entry) <=>
           /\ entry.root = root /\ entry.endpoint.line = root /\ Source!EndpointOK(entry.endpoint)
           /\ EdgesOK(entry.path.of, lines, n) /\ entry.terminal.line = lines[n + 1] /\ entry.terminal.valid
      BY <3>1, SimplePathIs
    <3> QED
      BY <1>6, <1>7, <2>1, <3>2, Zenon DEF Bound, Named, Unlisted
  <2>2. CASE entry.root # root
    BY <1>7, <2>2, Zenon DEF Bound, Source!SimplePath
  <2> QED
    BY <2>1, <2>2
<1> QED
  BY <1>6, <1>9, <1>10, Zenon DEF Entered

-----------------------------------------------------------------------------
(***************************************************************************)
(* Source manifests: the bounds on all walks, and clones.                  *)
(***************************************************************************)
LEMMA ListTyped == ASSUME NEW S, NEW s \in Seq(S), NEW l, l = Source!List(s) PROVE l \in AnyList(S)
<1>1. PICK b \in BOOLEAN : b = FALSE
  BY Zenon
<1>2. l = [nil |-> b, of |-> s]
  BY <1>1, Zenon DEF Source!List
<1>3. l \in [nil : BOOLEAN, of : Seq(S)] /\ l.nil = b
  BY <1>2
<1> QED
  BY <1>1, <1>3, Zenon DEF AnyList

LEMMA EntryMade ==
  ASSUME NEW r \in STRING, NEW l \in STRING, NEW v \in BOOLEAN, NEW a \in AnyList(STRING), NEW p \in AnyList(Edges), NEW t \in [line : STRING, valid : BOOLEAN]
  PROVE  [root |-> r, endpoint |-> [line |-> l, valid |-> v, alpn |-> a], path |-> p, terminal |-> t] \in AnyEntry
BY DEF AnyEntry, Edges

LEMMA CopyTyped == ASSUME NEW e \in AnyEntry PROVE Source!CloneEntry(e) \in AnyEntry
<1>1. /\ e.root \in STRING /\ e.endpoint.line \in STRING /\ e.endpoint.valid \in BOOLEAN /\ e.terminal \in [line : STRING, valid : BOOLEAN]
      /\ e.endpoint.alpn \in AnyList(STRING) /\ e.path \in AnyList(Edges)
  BY DEF AnyEntry, Edges
<1>2. e.endpoint.alpn.of \in Seq(STRING) /\ e.path.of \in Seq(Edges)
  BY <1>1 DEF AnyList
<1>3. Source!List(e.endpoint.alpn.of) \in AnyList(STRING) /\ Source!List(e.path.of) \in AnyList(Edges)
  BY <1>2, ListTyped, Zenon
<1> QED
  BY <1>1, <1>3, EntryMade, Zenon DEF Source!CloneEntry

\* A copy has the lines of what it copies, and is as simple a path.
LEMMA CopyKeeps ==
  ASSUME NEW e, NEW c, c = Source!CloneEntry(e)
  PROVE  Source!Lines(c) = Source!Lines(e) /\ \A root : Source!SimplePath(root, c) <=> Source!SimplePath(root, e)
<1>1. /\ c.root = e.root /\ c.terminal = e.terminal /\ c.path.of = e.path.of
      /\ c.endpoint.line = e.endpoint.line /\ c.endpoint.valid = e.endpoint.valid /\ c.endpoint.alpn.of = e.endpoint.alpn.of
  BY EntryCopied, Zenon
<1>2. Source!Lines(c) = Source!Lines(e)
  BY <1>1, Zenon DEF Source!Lines
<1>3. Source!EndpointOK(c.endpoint) <=> Source!EndpointOK(e.endpoint)
  BY <1>1, Zenon DEF Source!EndpointOK
<1> QED
  BY <1>1, <1>2, <1>3, Zenon DEF Source!SimplePath

Earlier(m, i) == {m.roots.of[j] : j \in 1..(i - 1)}

WalkStep(m, g, i) ==
  IF i = 0 THEN [ok |-> TRUE, visits |-> 0, visited |-> {}, current |-> Source!NoLine]
  ELSE Source!Entry(g[i - 1], m.roots.of[i], m.entries.of[i], {m.roots.of[j] : j \in 1..(i - 1)})
WalkFn(g, m, n) == g = [i \in 0..n |-> WalkStep(m, g, i)]

VisitsStep(m, g, i) == IF i = 0 THEN 0 ELSE g[i - 1] + Len(Source!Lines(m.entries.of[i]))
VisitsFn(g, m, n) == g = [i \in 0..n |-> VisitsStep(m, g, i)]

\* The first n roots and entries of a manifest without nil lists.
Sound(m, n) ==
  \A i \in 1..n : m.roots.of[i] \in Places /\ m.entries.of[i] \in AnyEntry /\ ~m.entries.of[i].endpoint.alpn.nil /\ ~m.entries.of[i].path.nil

LEMMA WalkStarts ==
  ASSUME NEW m, NEW g, NEW w, w = WalkStep(m, g, 0)
  PROVE  w \in Walks /\ w.ok /\ w.visits = 0
<1>1. PICK a \in BOOLEAN : a = TRUE
  BY Zenon
<1>2. PICK p : p = Source!NoLine
  OBVIOUS
<1>3. p \in Places
  BY <1>2, Zenon DEF Places
<1>4. w = [ok |-> a, visits |-> 0, visited |-> {}, current |-> p]
  BY <1>1, <1>2, Zenon DEF WalkStep
<1>5. 0 \in Nat /\ {} \in SUBSET Places
  OBVIOUS
<1>6. w \in Walks /\ w.ok = a /\ w.visits = 0
  BY <1>3, <1>4, <1>5, WalkMade
<1> QED
  BY <1>1, <1>6, Zenon

LEMMA WalkGoesOn ==
  ASSUME NEW m, NEW n \in Nat, Sound(m, n), NEW i \in 1..n, NEW g, g[i - 1] \in Walks, NEW w, w = WalkStep(m, g, i)
  PROVE  \E k \in Nat : k = Len(m.entries.of[i].path.of) /\ Entered(w, g[i - 1], m.roots.of[i], m.entries.of[i], Earlier(m, i), k)
<1>1. PICK e \in AnyEntry : e = m.entries.of[i]
  BY Zenon DEF Sound
<1>2. PICK root \in Places : root = m.roots.of[i]
  BY Zenon DEF Sound
<1>3. PICK earlier : earlier = Earlier(m, i)
  OBVIOUS
<1>4. i # 0
  OBVIOUS
<1>5. root \in Places /\ e \in AnyEntry /\ ~e.endpoint.alpn.nil /\ ~e.path.nil
  BY <1>1, <1>2, Zenon DEF Sound
<1>6. PICK last \in Walks : last = g[i - 1]
  OBVIOUS
<1>7. w = Source!Entry(last, root, e, earlier)
  BY <1>1, <1>2, <1>3, <1>4, <1>6, Zenon DEF WalkStep, Earlier
<1>8. PICK k \in Nat : k = Len(e.path.of)
  BY <1>5, EntryTypes
<1>9. Entered(w, last, root, e, earlier, k)
  BY <1>5, <1>7, <1>8, EntryIs, Zenon
<1>10. k = Len(m.entries.of[i].path.of)
  BY <1>1, <1>8, Zenon
<1>11. Entered(w, g[i - 1], m.roots.of[i], m.entries.of[i], Earlier(m, i), k)
  BY <1>1, <1>2, <1>3, <1>6, <1>9, Zenon
<1> QED
  BY <1>10, <1>11, Zenon

LEMMA WalkStepType ==
  ASSUME NEW m, NEW n \in Nat, Sound(m, n), NEW i \in 0..n, NEW g, i # 0 => g[i - 1] \in Walks
  PROVE  WalkStep(m, g, i) \in Walks
<1>1. CASE i = 0
  BY <1>1, WalkStarts, Zenon
<1>2. CASE i # 0
  <2>1. i \in 1..n
    BY <1>2
  <2> QED
    BY <1>2, <2>1, WalkGoesOn, Zenon DEF Entered
<1> QED
  BY <1>1, <1>2

LEMMA WalkExists == ASSUME NEW m, NEW n \in Nat, Sound(m, n) PROVE \E g : WalkFn(g, m, n)
<1> DEFINE F == [0..n -> Walks]
           next == [i \in 0..n |-> [g \in F |-> WalkStep(m, g, i)]]
<1>1. ASSUME NEW i \in 0..n, NEW g \in F PROVE WalkStep(m, g, i) \in Walks
  <2>1. i # 0 => g[i - 1] \in Walks
    OBVIOUS
  <2> HIDE DEF F, next
  <2> QED
    BY <2>1, WalkStepType
<1>2. next \in [0..n -> [F -> Walks]]
  BY <1>1
<1>3. ASSUME NEW i \in 0..n, NEW g \in F, NEW h \in F, \A j \in 0..(i - 1) : g[j] = h[j] PROVE next[i][g] = next[i][h]
  <2>1. i # 0 => i - 1 \in 0..(i - 1)
    OBVIOUS
  <2>2. i # 0 => g[i - 1] = h[i - 1]
    BY <1>3, <2>1
  <2>3. WalkStep(m, g, i) = WalkStep(m, h, i)
    BY <2>2, Zenon DEF WalkStep
  <2> QED
    BY <2>3
<1>4. \A i \in 0..n : \A g, h \in F : (\A j \in 0..(i - 1) : g[j] = h[j]) => next[i][g] = next[i][h]
  BY <1>3
<1>5. Walks # {}
  BY WalkStarts, Zenon
<1> HIDE DEF next
<1>6. PICK g \in F : \A i \in 0..n : g[i] = next[i][g]
  <2>1. LooksUp(next, 0, n, Walks)
    BY <1>2, <1>4, <1>5 DEF LooksUp
  <2> QED
    BY <2>1, RecursionUp
<1>7. \A i \in 0..n : g[i] = WalkStep(m, g, i)
  BY <1>6 DEF next
<1>8. g = [i \in 0..n |-> g[i]]
  OBVIOUS
<1> QED
  BY <1>7, <1>8, Zenon DEF WalkFn

LEMMA VisitsExists ==
  ASSUME NEW m, NEW n \in Nat, \A i \in 1..n : Len(Source!Lines(m.entries.of[i])) \in Nat PROVE \E g : VisitsFn(g, m, n)
<1>0. PICK V : V = Nat
  OBVIOUS
<1> DEFINE F == [0..n -> V]
           next == [i \in 0..n |-> [g \in F |-> VisitsStep(m, g, i)]]
<1>1. ASSUME NEW i \in 0..n, NEW g \in F PROVE VisitsStep(m, g, i) \in V
  <2>1. i # 0 => g[i - 1] \in Nat /\ Len(Source!Lines(m.entries.of[i])) \in Nat
    BY <1>0
  <2> HIDE DEF F, next
  <2> QED
    BY <1>0, <2>1 DEF VisitsStep
<1>2. next \in [0..n -> [F -> V]]
  BY <1>1
<1>3. ASSUME NEW i \in 0..n, NEW g \in F, NEW h \in F, \A j \in 0..(i - 1) : g[j] = h[j] PROVE next[i][g] = next[i][h]
  <2>1. i # 0 => i - 1 \in 0..(i - 1)
    OBVIOUS
  <2>2. i # 0 => g[i - 1] = h[i - 1]
    BY <1>3, <2>1
  <2>3. VisitsStep(m, g, i) = VisitsStep(m, h, i)
    BY <2>2, Zenon DEF VisitsStep
  <2> QED
    BY <2>3
<1>4. \A i \in 0..n : \A g, h \in F : (\A j \in 0..(i - 1) : g[j] = h[j]) => next[i][g] = next[i][h]
  BY <1>3
<1> HIDE DEF next
<1>6. PICK g \in F : \A i \in 0..n : g[i] = next[i][g]
  <2>1. LooksUp(next, 0, n, V)
    BY <1>0, <1>2, <1>4 DEF LooksUp
  <2> QED
    BY <2>1, RecursionUp
<1>7. \A i \in 0..n : g[i] = VisitsStep(m, g, i)
  BY <1>6 DEF next
<1>8. g = [i \in 0..n |-> g[i]]
  OBVIOUS
<1> QED
  BY <1>7, <1>8, Zenon DEF VisitsFn

\* The first roots of a manifest are distinct and each has a simple path.
RootOK(m, j) ==
  /\ Named(m.roots.of[j]) /\ Unlisted(m.roots.of[j], Earlier(m, j))
  /\ Source!SimplePath(m.roots.of[j], m.entries.of[j])
RootsOK(m, i) == \A j \in 1..i : RootOK(m, j)

LEMMA RootsStep == ASSUME NEW m, NEW i \in Nat PROVE RootsOK(m, i + 1) <=> RootsOK(m, i) /\ RootOK(m, i + 1)
<1>1. \A j : j \in 1..(i + 1) <=> j \in 1..i \/ j = i + 1
  OBVIOUS
<1> QED
  BY <1>1, Zenon DEF RootsOK

\* The lines of the entries, counted in the manifest that was copied.
SameLengths(m, c, n) == \A i \in 1..n : Len(Source!Lines(m.entries.of[i])) = Len(c.entries.of[i].path.of) + 1

LEMMA LengthIs == ASSUME NEW e \in AnyEntry PROVE Len(e.path.of) \in Nat
<1>1. PICK p \in Seq(Edges) : p = e.path.of
  BY EntryTypes
<1> QED
  BY <1>1

LEMMA WalkRun ==
  ASSUME NEW m, NEW c, NEW n \in Nat, Sound(c, n), SameLengths(m, c, n), NEW g, WalkFn(g, c, n), NEW v, VisitsFn(v, m, n)
  PROVE  g[n].ok <=> v[n] <= MaxVisits /\ RootsOK(c, n)
<1>1. \A i \in 0..n : g[i] = WalkStep(c, g, i)
  BY DEF WalkFn
<1>2. \A i \in 0..n : v[i] = VisitsStep(m, v, i)
  BY DEF VisitsFn
<1>x. MaxVisits \in Nat
  BY ValidationAssumption
<1> DEFINE Right(i) == g[i] \in Walks /\ v[i] \in Nat /\ g[i].visits = v[i] /\ (g[i].ok <=> v[i] <= MaxVisits /\ RootsOK(c, i))
           T == {i \in 0..n : Right(i)}
<1>3. 0 \in T
  <2>1. 0 \in 0..n
    OBVIOUS
  <2>2. g[0] = WalkStep(c, g, 0) /\ v[0] = VisitsStep(m, v, 0)
    BY <1>1, <1>2, <2>1, Zenon
  <2>3. g[0] \in Walks /\ g[0].ok /\ g[0].visits = 0
    BY <2>2, WalkStarts, Zenon
  <2>4. v[0] = 0
    BY <2>2, Zenon DEF VisitsStep
  <2>5. RootsOK(c, 0)
    BY DEF RootsOK
  <2>6. v[0] \in Nat /\ v[0] <= MaxVisits
    BY <1>x, <2>4
  <2>7. Right(0)
    BY <2>3, <2>4, <2>5, <2>6, Zenon
  <2> QED
    BY <2>1, <2>7, Zenon
<1>4. ASSUME NEW i \in 0..(n - 1), i \in T PROVE i + 1 \in T
  <2>0. i \in Nat /\ i + 1 \in 0..n /\ i + 1 \in 1..n /\ i + 1 # 0 /\ (i + 1) - 1 = i
    OBVIOUS
  <2>1. g[i] \in Walks /\ v[i] \in Nat /\ g[i].visits = v[i] /\ (g[i].ok <=> v[i] <= MaxVisits /\ RootsOK(c, i))
    BY <1>4, Zenon
  <2>2. PICK w : w = g[i + 1]
    OBVIOUS
  <2>3. w = WalkStep(c, g, i + 1) /\ v[i + 1] = VisitsStep(m, v, i + 1)
    BY <1>1, <1>2, <2>0, <2>2, Zenon
  <2>4. PICK k \in Nat : k = Len(c.entries.of[i + 1].path.of)
    BY <2>0, LengthIs, Zenon DEF Sound
  <2>5. v[i + 1] = v[i] + (k + 1)
    <3>1. v[i + 1] = v[i] + Len(Source!Lines(m.entries.of[i + 1]))
      BY <2>0, <2>3, Zenon DEF VisitsStep
    <3>2. Len(Source!Lines(m.entries.of[i + 1])) = k + 1
      BY <2>0, <2>4, Zenon DEF SameLengths
    <3> QED
      BY <3>1, <3>2, Zenon
  <2>6. /\ w \in Walks /\ w.visits = (g[i].visits + 1) + k
        /\ w.ok <=> g[i].ok /\ (g[i].visits + 1) + k <= MaxVisits /\ RootOK(c, i + 1)
    <3>1. g[(i + 1) - 1] \in Walks
      BY <2>0, <2>1, Zenon
    <3>2. PICK z \in Nat : z = Len(c.entries.of[i + 1].path.of) /\ Entered(w, g[(i + 1) - 1], c.roots.of[i + 1], c.entries.of[i + 1], Earlier(c, i + 1), z)
      BY <2>0, <2>3, <3>1, WalkGoesOn, Zenon
    <3> QED
      BY <2>0, <2>4, <3>2, Zenon DEF RootOK, Entered
  <2>7. RootsOK(c, i + 1) <=> RootsOK(c, i) /\ RootOK(c, i + 1)
    BY <2>0, RootsStep
  <2>8. /\ v[i + 1] \in Nat /\ (v[i] + 1) + k = v[i + 1]
        /\ v[i + 1] <= MaxVisits => v[i] <= MaxVisits
    <3>1. PICK a \in Nat : a = v[i]
      BY <2>1
    <3>2. PICK b : b = v[i + 1]
      OBVIOUS
    <3>3. b = a + (k + 1)
      BY <2>5, <3>1, <3>2, Zenon
    <3>4. b \in Nat /\ (a + 1) + k = b /\ (b <= MaxVisits => a <= MaxVisits)
      BY <1>x, <3>3
    <3> QED
      BY <3>1, <3>2, <3>4, Zenon
  <2>9. Right(i + 1)
    BY <2>1, <2>2, <2>6, <2>7, <2>8, Zenon
  <2> QED
    BY <2>0, <2>9, Zenon
<1>5. 0..n \subseteq T
  <2> HIDE DEF T
  <2> QED
    BY <1>3, <1>4, IntervalUp
<1>6. n \in T
  BY <1>5
<1> QED
  BY <1>6, Zenon

\* Distinct roots, looking back from each.
LEMMA RootsDistinct ==
  ASSUME NEW m, NEW n \in Nat, DOMAIN m.roots.of = 1..n
  PROVE  (\A j \in 1..n : Unlisted(m.roots.of[j], Earlier(m, j))) <=> Source!Distinct(m.roots.of)
<1>0. PICK r : r = m.roots.of
  OBVIOUS
<1>1. ASSUME Source!Distinct(m.roots.of), NEW j \in 1..n PROVE Unlisted(m.roots.of[j], Earlier(m, j))
  <2> SUFFICES ASSUME NEW k \in 1..(j - 1), m.roots.of[j] = m.roots.of[k] PROVE FALSE
    BY DEF Unlisted, Earlier
  <2>1. j \in 1..n /\ k \in 1..n /\ j # k
    OBVIOUS
  <2> QED
    BY <1>1, <2>1, Zenon DEF Source!Distinct
<1>2. ASSUME \A j \in 1..n : Unlisted(m.roots.of[j], Earlier(m, j)) PROVE Source!Distinct(m.roots.of)
  <2>1. ASSUME NEW a \in 1..n, NEW b \in 1..n, a < b PROVE m.roots.of[a] # m.roots.of[b]
    <3>1. a \in 1..(b - 1)
      BY <2>1
    <3>2. m.roots.of[a] \in Earlier(m, b)
      BY <3>1, Zenon DEF Earlier
    <3> QED
      BY <1>2, <3>2, Zenon DEF Unlisted
  <2>2. \A a, b \in 1..n : a # b => a < b \/ b < a
    OBVIOUS
  <2> QED
    BY <2>1, <2>2, Zenon DEF Source!Distinct
<1> QED
  BY <1>1, <1>2, Zenon

\* Validate, without its recursion.
LEMMA ValidatesIs ==
  ASSUME NEW c, NEW n \in Nat, n = Len(c.roots.of), Sound(c, n)
  PROVE  \E g : /\ WalkFn(g, c, n)
                /\ Source!Validates(c) <=>
                     c.header /\ ~c.roots.nil /\ ~c.entries.nil /\ n \in 1..MaxRoots /\ n = Len(c.entries.of) /\ g[n].ok
<1>1. \E g : WalkFn(g, c, n)
  BY WalkExists, Zenon
<1>2. PICK g : g = CHOOSE f : WalkFn(f, c, n)
  OBVIOUS
<1>3. WalkFn(g, c, n)
  BY <1>1, <1>2, Zenon
<1>4. PICK h : h = CHOOSE f : WalkFn(f, c, Len(c.roots.of))
  OBVIOUS
<1>5. Source!Validates(c) <=>
        /\ c.header /\ ~c.roots.nil /\ ~c.entries.nil
        /\ Len(c.roots.of) \in 1..MaxRoots /\ Len(c.roots.of) = Len(c.entries.of)
        /\ h[Len(c.roots.of)].ok
  BY <1>4, Zenon DEF Source!Validates, WalkFn, WalkStep
<1>6. h = g
  BY <1>2, <1>4, Zenon
<1> QED
  BY <1>3, <1>5, <1>6, Zenon

LEMMA PromisedIs ==
  ASSUME NEW m, NEW n \in Nat, n = Len(m.entries.of), \A i \in 1..n : Len(Source!Lines(m.entries.of[i])) \in Nat
  PROVE  \E v : /\ VisitsFn(v, m, n)
                /\ Source!Promised(m) <=>
                     /\ m.header /\ m.roots.of # <<>> /\ Len(m.roots.of) = n /\ Len(m.roots.of) <= MaxRoots
                     /\ Source!Distinct(m.roots.of)
                     /\ \A i \in DOMAIN m.roots.of : Named(m.roots.of[i]) /\ Source!SimplePath(m.roots.of[i], m.entries.of[i])
                     /\ v[n] <= MaxVisits
<1>1. \E v : VisitsFn(v, m, n)
  BY VisitsExists, Zenon
<1>2. PICK v : v = CHOOSE f : VisitsFn(f, m, n)
  OBVIOUS
<1>3. VisitsFn(v, m, n)
  BY <1>1, <1>2, Zenon
<1>4. PICK h : h = CHOOSE f : VisitsFn(f, m, Len(m.entries.of))
  OBVIOUS
<1>5. Source!Promised(m) <=>
        /\ m.header /\ m.roots.of # <<>> /\ Len(m.roots.of) = Len(m.entries.of) /\ Len(m.roots.of) <= MaxRoots
        /\ Source!Distinct(m.roots.of)
        /\ \A i \in DOMAIN m.roots.of : Named(m.roots.of[i]) /\ Source!SimplePath(m.roots.of[i], m.entries.of[i])
        /\ h[Len(m.entries.of)] <= MaxVisits
  BY <1>4, Zenon DEF Source!Promised, VisitsFn, VisitsStep, Named
<1>6. h = v
  BY <1>2, <1>4, Zenon
<1> QED
  BY <1>3, <1>5, <1>6, Zenon

-----------------------------------------------------------------------------
(***************************************************************************)
(* Source manifests: the theorem.                                          *)
(***************************************************************************)
LEMMA ManifestTypes ==
  ASSUME NEW m \in AnyManifest
  PROVE  m.roots.of \in Seq(STRING) /\ m.entries.of \in Seq(AnyEntry)
<1>1. m.roots \in AnyList(STRING) /\ m.entries \in AnyList(AnyEntry)
  BY DEF AnyManifest
<1> QED
  BY <1>1 DEF AnyList

\* A copy that is validated keeps the promise of what it copies.
LEMMA CopyValidates ==
  ASSUME NEW m \in AnyManifest, NEW c, c = Source!Clone(m) PROVE Source!Validates(c) <=> Source!Promised(m)
<1>1. PICK r \in Seq(STRING) : r = m.roots.of
  BY ManifestTypes
<1>2. PICK e \in Seq(AnyEntry) : e = m.entries.of
  BY ManifestTypes
<1>3. PICK n \in Nat : n = Len(r)
  OBVIOUS
<1>4. PICK k \in Nat : k = Len(e)
  OBVIOUS
<1>5. DOMAIN r = 1..n /\ DOMAIN e = 1..k /\ (r # <<>> <=> n # 0)
  BY <1>3, <1>4
<1>6. \A i \in 1..n : r[i] \in STRING
  BY <1>3
<1>7. \A i \in 1..k : e[i] \in AnyEntry
  BY <1>4
<1>8. /\ c.header = m.header /\ c.roots.of = r /\ ~c.roots.nil /\ ~c.entries.nil
      /\ c.entries.of = [i \in DOMAIN e |-> Source!CloneEntry(e[i])]
  <2>1. /\ c.header = m.header /\ c.roots.of = m.roots.of /\ ~c.roots.nil /\ ~c.entries.nil
        /\ c.entries.of = [i \in DOMAIN m.entries.of |-> Source!CloneEntry(m.entries.of[i])]
    BY ManifestCopied, Zenon
  <2> QED
    BY <1>1, <1>2, <2>1, Zenon
<1>9. PICK f : f = c.entries.of
  OBVIOUS
<1>10. f \in Seq(AnyEntry) /\ Len(f) = k /\ \A i \in 1..k : f[i] = Source!CloneEntry(e[i])
  <2>1. \A i \in 1..k : Source!CloneEntry(e[i]) \in AnyEntry
    BY <1>7, CopyTyped
  <2>2. f = [i \in 1..k |-> Source!CloneEntry(e[i])]
    BY <1>5, <1>8, <1>9, Zenon
  <2>3. f \in [1..k -> AnyEntry]
    BY <2>1, <2>2
  <2>4. f \in Seq(AnyEntry) /\ Len(f) = k
    BY <2>2, <2>3
  <2>5. \A i \in 1..k : f[i] = Source!CloneEntry(e[i])
    BY <2>2
  <2> QED
    BY <2>4, <2>5
<1>11. ASSUME NEW i \in 1..k
       PROVE  /\ f[i] \in AnyEntry /\ ~f[i].endpoint.alpn.nil /\ ~f[i].path.nil
              /\ Len(f[i].path.of) \in Nat /\ Len(Source!Lines(e[i])) = Len(f[i].path.of) + 1
              /\ \A root : Source!SimplePath(root, f[i]) <=> Source!SimplePath(root, e[i])
  <2>1. PICK a \in AnyEntry : a = e[i]
    BY <1>7
  <2>2. PICK b : b = f[i]
    OBVIOUS
  <2>3. b = Source!CloneEntry(a)
    BY <1>10, <2>1, <2>2, Zenon
  <2>4. b \in AnyEntry
    BY <2>3, CopyTyped
  <2>5. ~b.endpoint.alpn.nil /\ ~b.path.nil /\ b.path.of = a.path.of
    BY <2>3, EntryCopied, Zenon
  <2>6. PICK z \in Nat : z = Len(b.path.of)
    BY <2>4, LengthIs
  <2>7. Len(Source!Lines(b)) = z + 1
    BY <2>4, <2>6, EntryTypes, LinesIs, ZenonT(60)
  <2>8. Source!Lines(b) = Source!Lines(a) /\ \A root : Source!SimplePath(root, b) <=> Source!SimplePath(root, a)
    BY <2>3, CopyKeeps, Zenon
  <2> QED
    BY <2>1, <2>2, <2>4, <2>5, <2>6, <2>7, <2>8, Zenon
<1>12. PICK v : /\ VisitsFn(v, m, k)
                /\ Source!Promised(m) <=>
                     /\ m.header /\ m.roots.of # <<>> /\ Len(m.roots.of) = k /\ Len(m.roots.of) <= MaxRoots
                     /\ Source!Distinct(m.roots.of)
                     /\ \A i \in DOMAIN m.roots.of : Named(m.roots.of[i]) /\ Source!SimplePath(m.roots.of[i], m.entries.of[i])
                     /\ v[k] <= MaxVisits
  <2>1. ASSUME NEW i \in 1..k PROVE Len(Source!Lines(m.entries.of[i])) \in Nat
    <3>1. PICK z \in Nat : z = Len(f[i].path.of)
      BY <1>11, Zenon
    <3>2. Len(Source!Lines(e[i])) = z + 1
      BY <1>11, <3>1, Zenon
    <3>3. z + 1 \in Nat
      OBVIOUS
    <3> QED
      BY <1>2, <3>2, <3>3, Zenon
  <2>2. k = Len(m.entries.of)
    BY <1>2, <1>4, Zenon
  <2> QED
    BY <2>1, <2>2, PromisedIs, Zenon
<1>13. CASE n # k
  <2>1. ~Source!Promised(m)
    BY <1>1, <1>3, <1>12, <1>13, Zenon
  <2>2. ~Source!Validates(c)
    BY <1>3, <1>8, <1>9, <1>10, <1>13, Zenon DEF Source!Validates
  <2> QED
    BY <2>1, <2>2, Zenon
<1>14. CASE n = k
  <2>1. Sound(c, n)
    <3>1. \A i \in 1..n : r[i] \in Places
      BY <1>6 DEF Places
    <3> QED
      BY <1>8, <1>9, <1>11, <1>14, <3>1, Zenon DEF Sound
  <2>2. SameLengths(m, c, n)
    BY <1>2, <1>9, <1>11, <1>14, Zenon DEF SameLengths
  <2>3. n = Len(c.roots.of) /\ n = Len(c.entries.of)
    BY <1>3, <1>8, <1>9, <1>10, <1>14, Zenon
  <2>4. PICK g : /\ WalkFn(g, c, n)
                 /\ Source!Validates(c) <=>
                     c.header /\ ~c.roots.nil /\ ~c.entries.nil /\ n \in 1..MaxRoots /\ n = Len(c.entries.of) /\ g[n].ok
    BY <2>1, <2>3, ValidatesIs, Zenon
  <2>5. VisitsFn(v, m, n)
    BY <1>12, <1>14, Zenon
  <2>6. g[n].ok <=> v[n] <= MaxVisits /\ RootsOK(c, n)
    BY <2>1, <2>2, <2>4, <2>5, WalkRun, Zenon
  <2>7. (\A j \in 1..n : Unlisted(c.roots.of[j], Earlier(c, j))) <=> Source!Distinct(c.roots.of)
    BY <1>5, <1>8, RootsDistinct, Zenon
  <2>8. RootsOK(c, n) <=>
          Source!Distinct(r) /\ \A j \in 1..n : Named(r[j]) /\ Source!SimplePath(r[j], e[j])
    BY <1>8, <1>9, <1>11, <1>14, <2>7, Zenon DEF RootsOK, RootOK
  <2>9. n \in 1..MaxRoots <=> n # 0 /\ n <= MaxRoots
    BY ValidationAssumption
  <2>10. Source!Promised(m) <=>
           /\ m.header /\ n # 0 /\ n <= MaxRoots /\ Source!Distinct(r)
           /\ \A j \in 1..n : Named(r[j]) /\ Source!SimplePath(r[j], e[j])
           /\ v[n] <= MaxVisits
    BY <1>1, <1>2, <1>3, <1>5, <1>12, <1>14, Zenon
  <2>11. Source!Validates(c) <=> m.header /\ n # 0 /\ n <= MaxRoots /\ v[n] <= MaxVisits /\ RootsOK(c, n)
    BY <1>8, <2>3, <2>4, <2>6, <2>9, Zenon
  <2> QED
    BY <2>8, <2>10, <2>11, Zenon
<1> QED
  BY <1>13, <1>14

LEMMA DocumentFields ==
  ASSUME NEW m, NEW s, NEW d, d = [manifest |-> m, spelled |-> s] PROVE d.manifest = m /\ d.spelled = s
OBVIOUS

LEMMA SoleIs == ASSUME NEW a PROVE <<a>> # <<>> /\ <<a>>[1] = a /\ DOMAIN <<a>> = {1}
OBVIOUS

\* A source manifest is accepted exactly when every root has a simple path to
\* its terminal within the bounds, and one that decodes has one encoding only
\* (SubscriptionSourceManifestV1.Validate, DecodeSubscriptionSourceManifest).
THEOREM PathsAreSimple == Spec => []SourcePaths
<1>1. Answers => SourcePaths
  <2> SUFFICES ASSUME Answers, Answered("manifest")
               PROVE  LET m == question.of.manifest
                      IN /\ Source!Validates(Source!Clone(m)) <=> Source!Promised(m)
                         /\ answer[1] # <<>> => Source!Canonical(answer[1][1]) = <<question.of>>
                         /\ \A i \in DOMAIN Source!Canonical(m) : Source!Decode(Source!Canonical(m)[i]) # <<>>
    BY Zenon DEF SourcePaths
  <2>0. PICK q : q = question.of
    OBVIOUS
  <2>1. q \in [manifest : AnyManifest, spelled : BOOLEAN]
    BY <2>0, InputAssumption, Given DEF Answered
  <2>2. PICK m \in AnyManifest : m = q.manifest
    BY <2>1
  <2>3. PICK c : c = Source!Clone(m)
    OBVIOUS
  <2>4. Source!Validates(c) <=> Source!Promised(m)
    BY <2>3, CopyValidates
  <2>5. Source!Clone(c) = c
    BY <2>3, ManifestCopiedTwice, Zenon
  <2>6. PICK d : d = [manifest |-> c, spelled |-> TRUE]
    OBVIOUS
  <2>7. d.manifest = c
    BY <2>6, DocumentFields, Zenon
  <2>8. Source!Canonical(m) = IF Source!Validates(c) THEN <<d>> ELSE <<>>
    BY <2>3, <2>6, Zenon DEF Source!Canonical
  <2>9. Source!Canonical(c) = IF Source!Validates(c) THEN <<d>> ELSE <<>>
    BY <2>5, <2>6, Zenon DEF Source!Canonical
  <2>10. answer[1] = IF Source!Canonical(m) = <<q>> THEN <<c>> ELSE <<>>
    <3>1. answer = <<Source!Decode(q)>>
      BY <2>0, Zenon DEF Answers, RightAnswer, Put, Answered
    <3>2. answer[1] = Source!Decode(q)
      BY <3>1, SoleIs, Zenon
    <3> QED
      BY <2>2, <2>3, <3>2, Zenon DEF Source!Decode
  <2>11. ASSUME answer[1] # <<>> PROVE Source!Canonical(answer[1][1]) = <<q>>
    <3>1. Source!Canonical(m) = <<q>> /\ answer[1] = <<c>>
      BY <2>10, <2>11, Zenon
    <3>2. answer[1][1] = c
      BY <3>1, SoleIs, Zenon
    <3> QED
      BY <2>8, <2>9, <3>1, <3>2, Zenon
  <2>12. ASSUME NEW i \in DOMAIN Source!Canonical(m) PROVE Source!Decode(Source!Canonical(m)[i]) # <<>>
    <3>1. DOMAIN <<>> = {}
      OBVIOUS
    <3>2. Source!Canonical(m) = <<d>>
      BY <2>8, <2>12, <3>1, Zenon
    <3>3. Source!Canonical(m)[i] = d
      BY <2>12, <3>2, SoleIs, Zenon
    <3>4. Source!Canonical(d.manifest) = <<d>>
      BY <2>7, <2>8, <2>9, <3>2, Zenon
    <3>5. Source!Decode(d) = <<Source!Clone(d.manifest)>>
      BY <3>4, Zenon DEF Source!Decode
    <3> QED
      BY <3>3, <3>5, SoleIs, Zenon
  <2> QED
    BY <2>0, <2>2, <2>3, <2>4, <2>11, <2>12, Zenon
<1> QED
  BY <1>1, AnswersHold, PTL

-----------------------------------------------------------------------------
(***************************************************************************)
(* Catalogue rows.                                                         *)
(***************************************************************************)
Screen == "screen"
\* The errors that are not the screen's.
Quiet == Words \ {Screen}

LEMMA QuietOK == Row!OK \in Quiet /\ Row!OK = Enc!OK
<1>1. "" # "screen"
  BY Zenon
<1> QED
  BY <1>1, SameOK, OKWord, Zenon DEF Quiet, Screen

LEMMA QuietError == ASSUME NEW e \in Errors, e # "screen" PROVE e \in Quiet
BY Zenon DEF Quiet, Screen, Words

LEMMA QuietIf == ASSUME NEW c, NEW e \in Quiet PROVE Row!If(c, e) \in Quiet
BY QuietOK, Zenon DEF Row!If

LEMMA QuietSeq == ASSUME NEW s \in Seq(Quiet) PROVE s \in Seq(Words)
BY DEF Quiet

LEMMA QuietFirst == ASSUME NEW s \in Seq(Quiet) PROVE Row!First(s) \in Quiet
<1>1. s \in Seq(Words)
  BY QuietSeq
<1>2. \A i \in DOMAIN s : s[i] \in Quiet
  OBVIOUS
<1>3. Enc!First(s) \in Quiet
  BY <1>1, <1>2, FirstIs, QuietOK
<1> QED
  BY <1>3, SameFirst, Zenon

LEMMA TupleTwo == ASSUME NEW S, NEW a \in S, NEW b \in S PROVE <<a, b>> \in Seq(S) /\ <<a, b>> = <<a>> \o <<b>>
<1>1. <<a, b>> \in Seq(S)
  OBVIOUS
<1>0. <<a>> \in Seq(S) /\ <<b>> \in Seq(S)
  BY OneOf
<1>2. PICK u : u = <<a>> \o <<b>>
  OBVIOUS
<1>5. u \in Seq(S)
  BY <1>0, <1>2
<1>3. Len(u) = 2 /\ u[1] = a /\ u[2] = b
  BY <1>0, <1>2
<1>4. u = <<a, b>>
  BY <1>3, <1>5
<1> QED
  BY <1>0, <1>1, <1>2, <1>4, Zenon

LEMMA TupleThree == ASSUME NEW S, NEW a \in S, NEW b \in S, NEW c \in S PROVE <<a, b, c>> \in Seq(S) /\ <<a, b, c>> = <<a, b>> \o <<c>>
OBVIOUS

LEMMA TupleFour == ASSUME NEW S, NEW a \in S, NEW b \in S, NEW c \in S, NEW d \in S PROVE <<a, b, c, d>> \in Seq(S)
OBVIOUS

LEMMA FirstTwo ==
  ASSUME NEW a \in Words, NEW b \in Words
  PROVE  Row!First(<<a, b>>) = IF a # Enc!OK THEN a ELSE b
<1>1. <<a, b>> = <<a>> \o <<b>>
  BY TupleTwo
<1>2. <<a>> \in Seq(Words) /\ <<b>> \in Seq(Words) /\ Enc!First(<<a>>) = a /\ Enc!First(<<b>>) = b
  BY FirstOne
<1>3. Enc!First(<<a>> \o <<b>>) = IF Enc!First(<<a>>) # Enc!OK THEN Enc!First(<<a>>) ELSE Enc!First(<<b>>)
  BY <1>2, FirstCat, Zenon
<1> QED
  BY <1>1, <1>2, <1>3, SameFirst, Zenon

LEMMA FirstThree ==
  ASSUME NEW a \in Words, NEW b \in Words, NEW c \in Words
  PROVE  Row!First(<<a, b, c>>) = IF a # Enc!OK THEN a ELSE IF b # Enc!OK THEN b ELSE c
<1>1. <<a, b, c>> = <<a, b>> \o <<c>> /\ <<a, b>> \in Seq(Words)
  BY TupleTwo, TupleThree
<1>2. <<c>> \in Seq(Words) /\ Enc!First(<<c>>) = c
  BY FirstOne
<1>3. Enc!First(<<a, b>> \o <<c>>) = IF Enc!First(<<a, b>>) # Enc!OK THEN Enc!First(<<a, b>>) ELSE Enc!First(<<c>>)
  BY <1>1, <1>2, FirstCat, Zenon
<1>4. Enc!First(<<a, b>>) = IF a # Enc!OK THEN a ELSE b
  BY FirstTwo, SameFirst, Zenon
<1> QED
  BY <1>1, <1>2, <1>3, <1>4, SameFirst, Zenon

-----------------------------------------------------------------------------
\* The checks before the Extra answer with words of their own.
LEMMA FieldCheckWords == Row!FieldChecks \in Seq(Quiet)
<1>1. ASSUME NEW S, NEW a \in S, NEW b \in S, NEW c \in S, NEW d \in S, NEW e \in S, NEW f \in S, NEW g \in S, NEW h \in S, NEW i \in S, NEW j \in S, NEW k \in S
      PROVE  <<a, b, c, d, e, f, g, h, i, j, k>> \in Seq(S)
  OBVIOUS
<1>2. /\ "line_uuid" \in Errors /\ "line_hash_id" \in Errors /\ "node_id" \in Errors /\ "protocol" \in Errors /\ "enum" \in Errors
      /\ "text" \in Errors /\ "tag" \in Errors /\ "public_port" \in Errors /\ "address" \in Errors
      /\ "ddns name" \in Errors /\ "ddns target" \in Errors
  BY DEF Errors
<1>3. /\ "line_uuid" # "screen" /\ "line_hash_id" # "screen" /\ "node_id" # "screen" /\ "protocol" # "screen" /\ "enum" # "screen"
      /\ "text" # "screen" /\ "tag" # "screen" /\ "public_port" # "screen" /\ "address" # "screen"
      /\ "ddns name" # "screen" /\ "ddns target" # "screen"
  OBVIOUS
<1>4. /\ "line_uuid" \in Quiet /\ "line_hash_id" \in Quiet /\ "node_id" \in Quiet /\ "protocol" \in Quiet /\ "enum" \in Quiet
      /\ "text" \in Quiet /\ "tag" \in Quiet /\ "public_port" \in Quiet /\ "address" \in Quiet
      /\ "ddns name" \in Quiet /\ "ddns target" \in Quiet
  BY <1>2, <1>3, QuietError, Zenon
<1> QED
  BY <1>1, <1>4, Zenon DEF Row!FieldChecks

LEMMA ChainQuiet == ASSUME NEW c PROVE Row!ChainError(c) \in Quiet
<1>1. "role" \in Errors /\ "path state" \in Errors /\ "downstream" \in Errors /\ "service state" \in Errors
  BY DEF Errors
<1>2. "role" \in Quiet /\ "path state" \in Quiet /\ "downstream" \in Quiet /\ "service state" \in Quiet
  BY <1>1, QuietError
<1>3. ASSUME NEW p, NEW q, NEW r, NEW s
      PROVE  Row!First(<<Row!If(p, "role"), Row!If(q, "path state"), Row!If(r, "downstream"), Row!If(s, "service state")>>) \in Quiet
  <2>1. Row!If(p, "role") \in Quiet /\ Row!If(q, "path state") \in Quiet /\ Row!If(r, "downstream") \in Quiet /\ Row!If(s, "service state") \in Quiet
    BY <1>2, QuietIf, Zenon
  <2> QED
    BY <2>1, TupleFour, QuietFirst, Zenon
<1> QED
  BY <1>3, Zenon DEF Row!ChainError

LEMMA ProbeQuiet == ASSUME NEW c PROVE Row!ProbeError(c) \in Quiet
<1>1. "verdict" \in Errors /\ "counters" \in Errors /\ "vantage" \in Errors
  BY DEF Errors
<1>2. "verdict" \in Quiet /\ "counters" \in Quiet /\ "vantage" \in Quiet
  BY <1>1, QuietError
<1>3. ASSUME NEW p, NEW q, NEW r
      PROVE  Row!First(<<Row!If(p, "verdict"), Row!If(q, "counters"), Row!If(r, "vantage")>>) \in Quiet
  <2>1. Row!If(p, "verdict") \in Quiet /\ Row!If(q, "counters") \in Quiet /\ Row!If(r, "vantage") \in Quiet
    BY <1>2, QuietIf, Zenon
  <2> QED
    BY <2>1, TupleThree, QuietFirst, Zenon
<1> QED
  BY <1>3, Zenon DEF Row!ProbeError

LEMMA ParamQuiet == ASSUME NEW c PROVE Row!ParamError(c) \in Quiet
<1>1. "param" \in Errors /\ "reserved" \in Errors /\ "not kept" \in Errors /\ "sensitive" \in Errors
  BY DEF Errors
<1>2. "param" \in Quiet /\ "reserved" \in Quiet /\ "not kept" \in Quiet /\ "sensitive" \in Quiet
  BY <1>1, QuietError
<1>3. ASSUME NEW p, NEW q, NEW r, NEW s
      PROVE  Row!First(<<Row!If(p, "param"), Row!If(q, "reserved"), Row!If(r, "not kept"), Row!If(s, "sensitive")>>) \in Quiet
  <2>1. Row!If(p, "param") \in Quiet /\ Row!If(q, "reserved") \in Quiet /\ Row!If(r, "not kept") \in Quiet /\ Row!If(s, "sensitive") \in Quiet
    BY <1>2, QuietIf, Zenon
  <2> QED
    BY <2>1, TupleFour, QuietFirst, Zenon
<1> QED
  BY <1>3, Zenon DEF Row!ParamError

\* Some checks, one for each of a sequence.
LEMMA Checked ==
  ASSUME NEW S, NEW D, NEW A, NEW x \in Seq(A), D = DOMAIN x, NEW f, DOMAIN f = D, f = [i \in D |-> f[i]], \A i \in D : f[i] \in S
  PROVE  f \in Seq(S)
<1>1. PICK n \in Nat : D = 1..n
  OBVIOUS
<1>2. f \in [1..n -> S]
  BY <1>1
<1> QED
  BY <1>2

LEMMA ThreeJoined == ASSUME NEW S, NEW a \in Seq(S), NEW b \in Seq(S), NEW c \in Seq(S) PROVE a \o b \o c \in Seq(S)
OBVIOUS

LEMMA FiveJoined ==
  ASSUME NEW S, NEW a \in Seq(S), NEW b \in Seq(S), NEW c \in Seq(S), NEW d \in Seq(S), NEW e \in Seq(S) PROVE a \o b \o c \o d \o e \in Seq(S)
<1>1. PICK s \in Seq(S) : s = a \o b \o c
  BY ThreeJoined
<1>2. s \o d \o e \in Seq(S)
  BY ThreeJoined
<1> QED
  BY <1>1, <1>2, Zenon

-----------------------------------------------------------------------------
ParamChecks(t) == [i \in DOMAIN t.params |-> Row!ParamError(t.params[i])]

LEMMA TemplateQuiet == ASSUME NEW t, t.head \in STRING \ {"screen"}, NEW A, t.params \in Seq(A) PROVE Row!TemplateError(t) \in Quiet
<1>1. t.head \in Quiet
  BY Zenon DEF Quiet, Words, Screen
<1>2. "params" \in Errors /\ "dropped" \in Errors
  BY DEF Errors
<1>3. "params" \in Quiet /\ "dropped" \in Quiet
  BY <1>2, QuietError
<1>4. PICK a \in Quiet : a = Row!If(Len(t.params) > MaxParams, "params")
  BY <1>3, QuietIf, Zenon
<1>5. PICK b \in Quiet : b = Row!If(~t.dropped, "dropped")
  BY <1>3, QuietIf, Zenon
<1>6. PICK p : p = ParamChecks(t)
  OBVIOUS
<1>7. p \in Seq(Quiet)
  <2>1. DOMAIN p = DOMAIN t.params /\ \A i \in DOMAIN t.params : p[i] = Row!ParamError(t.params[i])
    BY <1>6 DEF ParamChecks
  <2>2. \A i \in DOMAIN t.params : p[i] \in Quiet
    BY <2>1, ParamQuiet, Zenon
  <2>3. p = [i \in DOMAIN t.params |-> p[i]]
    BY <1>6, <2>1, Zenon DEF ParamChecks
  <2> QED
    BY <2>1, <2>2, <2>3, Checked, Zenon
<1>8. <<t.head, a>> \in Seq(Quiet)
  BY <1>1, TupleTwo, Zenon
<1>9. <<b>> \in Seq(Quiet)
  OBVIOUS
<1>10. <<t.head, a>> \o p \o <<b>> \in Seq(Quiet)
  BY <1>7, <1>8, <1>9, ThreeJoined, Zenon
<1>11. Row!TemplateError(t) = Row!First(<<t.head, a>> \o p \o <<b>>)
  BY <1>4, <1>5, <1>6, Zenon DEF Row!TemplateError, ParamChecks
<1> QED
  BY <1>10, <1>11, QuietFirst, Zenon

NameChecks(row) == [i \in DOMAIN Row!FieldChecks |-> Row!If(Row!FieldChecks[i] \in row.bad, Row!FieldChecks[i])]
ProbeChecks(row) == [i \in DOMAIN row.probe |-> Row!ProbeError(row.probe[i])]
UsageChecks(row) == [i \in DOMAIN row.usage |-> Row!If(~row.usage[i].id \/ row.usage[i].bytes < 0, "usage")]
TemplateChecks(row) == [i \in DOMAIN row.template |-> Row!TemplateError(row.template[i])]
HeadOf(row) == NameChecks(row) \o <<Row!ChainError(row.chain)>> \o ProbeChecks(row) \o UsageChecks(row) \o TemplateChecks(row)

LEMMA RowTypes ==
  ASSUME NEW q \in AnyCatalogueRow
  PROVE  /\ (\E A : q.probe \in Seq(A)) /\ (\E A : q.usage \in Seq(A)) /\ (\E A : q.template \in Seq(A)) /\ (\E A : q.extra \in Seq(A))
         /\ \A i \in DOMAIN q.template : q.template[i].head \in STRING \ {"screen"} /\ \E A : q.template[i].params \in Seq(A)
         /\ \A i \in DOMAIN q.extra : q.extra[i].val \in AnyTree
<1> DEFINE probes == [verdict : STRING, failures : Int, coldP50 : Int, vantage : STRING]
           usages == [id : BOOLEAN, bytes : Int]
           params == [reserved : BOOLEAN, kept : BOOLEAN, valid : BOOLEAN, text : Seq(STRING)]
           templates == [head : STRING \ {"screen"}, dropped : BOOLEAN, params : Seq(params)]
           extras == [key : Seq(STRING), lower : BOOLEAN, bytes : Nat, val : AnyTree]
<1>1. q.probe \in AtMostOne(probes) /\ q.usage \in AtMostOne(usages) /\ q.template \in AtMostOne(templates) /\ q.extra \in Seq(extras)
  BY DEF AnyCatalogueRow
<1>2. \A t \in templates : t.head \in STRING \ {"screen"} /\ t.params \in Seq(params)
  OBVIOUS
<1>3. \A x \in extras : x.val \in AnyTree
  OBVIOUS
<1> HIDE DEF probes, usages, params, templates, extras
<1>4. q.probe \in Seq(probes) /\ q.usage \in Seq(usages) /\ q.template \in Seq(templates)
  BY <1>1 DEF AtMostOne
<1>5. PICK t \in Seq(templates) : t = q.template
  BY <1>4
<1>6. \A i \in DOMAIN t : t[i] \in templates
  OBVIOUS
<1>7. PICK x \in Seq(extras) : x = q.extra
  BY <1>1
<1>8. \A i \in DOMAIN x : x[i] \in extras
  OBVIOUS
<1>9. \A i \in DOMAIN q.template : q.template[i].head \in STRING \ {"screen"} /\ q.template[i].params \in Seq(params)
  BY <1>2, <1>5, <1>6, Zenon
<1>10. \A i \in DOMAIN q.extra : q.extra[i].val \in AnyTree
  BY <1>3, <1>7, <1>8, Zenon
<1> QED
  BY <1>1, <1>4, <1>9, <1>10, Zenon

LEMMA HeadQuiet == ASSUME NEW q \in AnyCatalogueRow PROVE HeadOf(q) \in Seq(Quiet)
<1>1. NameChecks(q) \in Seq(Quiet)
  <2>1. PICK c \in Seq(Quiet) : c = Row!FieldChecks
    BY FieldCheckWords
  <2>2. \A i \in DOMAIN c : c[i] \in Quiet
    OBVIOUS
  <2>3. PICK p : p = NameChecks(q)
    OBVIOUS
  <2>4. p = [i \in DOMAIN c |-> Row!If(c[i] \in q.bad, c[i])]
    BY <2>1, <2>3, Zenon DEF NameChecks
  <2>5. DOMAIN p = DOMAIN c /\ \A i \in DOMAIN c : p[i] = Row!If(c[i] \in q.bad, c[i])
    BY <2>4
  <2>6. \A i \in DOMAIN c : p[i] \in Quiet
    BY <2>2, <2>5, QuietIf, Zenon
  <2>7. p = [i \in DOMAIN c |-> p[i]]
    BY <2>4, <2>5, Zenon
  <2> QED
    BY <2>3, <2>5, <2>6, <2>7, Checked, Zenon
<1>2. ProbeChecks(q) \in Seq(Quiet)
  <2>1. PICK A : q.probe \in Seq(A)
    BY RowTypes, Zenon
  <2>2. PICK p : p = ProbeChecks(q)
    OBVIOUS
  <2>3. DOMAIN p = DOMAIN q.probe /\ \A i \in DOMAIN q.probe : p[i] = Row!ProbeError(q.probe[i])
    BY <2>2 DEF ProbeChecks
  <2>4. \A i \in DOMAIN q.probe : p[i] \in Quiet
    BY <2>3, ProbeQuiet, Zenon
  <2>5. p = [i \in DOMAIN q.probe |-> p[i]]
    BY <2>2, <2>3, Zenon DEF ProbeChecks
  <2> QED
    BY <2>1, <2>2, <2>3, <2>4, <2>5, Checked, Zenon
<1>3. UsageChecks(q) \in Seq(Quiet)
  <2>1. PICK A : q.usage \in Seq(A)
    BY RowTypes, Zenon
  <2>2. PICK p : p = UsageChecks(q)
    OBVIOUS
  <2>3. "usage" \in Errors
    BY DEF Errors
  <2>4. "usage" \in Quiet
    BY <2>3, QuietError
  <2>5. DOMAIN p = DOMAIN q.usage /\ \A i \in DOMAIN q.usage : p[i] = Row!If(~q.usage[i].id \/ q.usage[i].bytes < 0, "usage")
    BY <2>2, Zenon DEF UsageChecks
  <2>6. \A i \in DOMAIN q.usage : p[i] \in Quiet
    BY <2>4, <2>5, QuietIf, Zenon
  <2>7. p = [i \in DOMAIN q.usage |-> p[i]]
    BY <2>2, <2>5, Zenon DEF UsageChecks
  <2> QED
    BY <2>1, <2>2, <2>5, <2>6, <2>7, Checked, Zenon
<1>4. TemplateChecks(q) \in Seq(Quiet)
  <2>1. PICK A : q.template \in Seq(A)
    BY RowTypes, Zenon
  <2>2. PICK p : p = TemplateChecks(q)
    OBVIOUS
  <2>3. DOMAIN p = DOMAIN q.template /\ \A i \in DOMAIN q.template : p[i] = Row!TemplateError(q.template[i])
    BY <2>2 DEF TemplateChecks
  <2>4. \A i \in DOMAIN q.template : p[i] \in Quiet
    BY <2>3, TemplateQuiet, RowTypes, Zenon
  <2>5. p = [i \in DOMAIN q.template |-> p[i]]
    BY <2>2, <2>3, Zenon DEF TemplateChecks
  <2> QED
    BY <2>1, <2>2, <2>3, <2>4, <2>5, Checked, Zenon
<1>5. <<Row!ChainError(q.chain)>> \in Seq(Quiet)
  BY ChainQuiet, OneOf, Zenon
<1> QED
  BY <1>1, <1>2, <1>3, <1>4, <1>5, FiveJoined, Zenon DEF HeadOf

-----------------------------------------------------------------------------
EntryError(extra, i) ==
  Row!First(<<Row!If(~extra[i].lower, "key"), Row!If(Row!Total(extra, i) > MaxExtra, "size"), Row!ValueError(extra[i].key, extra[i].val)>>)

LEMMA ValueErrorIs ==
  ASSUME NEW key, NEW v
  PROVE  /\ Row!ValueError(key, v) \in Words
         /\ Row!ValueError(key, v) = Enc!OK => ~Row!Repeats(v) /\ Row!Screened(key, v)
         /\ Row!ValueError(key, v) = "screen" => ~Row!Screened(key, v)
<1>1. "duplicate" \in Errors /\ "screen" \in Errors /\ "duplicate" # "screen"
  BY DEF Errors
<1>2. "duplicate" \in Words /\ "screen" \in Words
  BY <1>1, Zenon DEF Words
<1>3. "duplicate" # Enc!OK /\ "screen" # Enc!OK
  BY SameOK, Zenon
<1>4. PICK a : a = Row!If(Row!Repeats(v), "duplicate")
  OBVIOUS
<1>5. PICK b : b = Row!If(~Row!Screened(key, v), "screen")
  OBVIOUS
<1>6. /\ Row!Repeats(v) => a = "duplicate"
      /\ ~Row!Repeats(v) => a = Enc!OK
      /\ ~Row!Screened(key, v) => b = "screen"
      /\ Row!Screened(key, v) => b = Enc!OK
  BY <1>4, <1>5, SameOK, Zenon DEF Row!If
<1>7. a \in Words /\ b \in Words
  BY <1>2, <1>6, OKWord, Zenon
<1>8. Row!First(<<a, b>>) = IF a # Enc!OK THEN a ELSE b
  BY <1>7, FirstTwo, Zenon
<1>9. Row!ValueError(key, v) = IF a # Enc!OK THEN a ELSE b
  BY <1>4, <1>5, <1>8, Zenon DEF Row!ValueError
<1> QED
  BY <1>1, <1>3, <1>6, <1>7, <1>9, Zenon

LEMMA EntryErrorIs ==
  ASSUME NEW x, NEW i
  PROVE  /\ EntryError(x, i) \in Words
         /\ EntryError(x, i) = Enc!OK => Row!ValueError(x[i].key, x[i].val) = Enc!OK
         /\ EntryError(x, i) = "screen" => Row!ValueError(x[i].key, x[i].val) = "screen"
<1>1. "key" \in Errors /\ "size" \in Errors /\ "key" # "screen" /\ "size" # "screen"
  BY DEF Errors
<1>2. PICK a : a = Row!If(~x[i].lower, "key")
  OBVIOUS
<1>3. PICK b : b = Row!If(Row!Total(x, i) > MaxExtra, "size")
  OBVIOUS
<1>4. PICK c \in Words : c = Row!ValueError(x[i].key, x[i].val)
  BY ValueErrorIs, Zenon
<1>5. a \in Quiet /\ b \in Quiet
  BY <1>1, <1>2, <1>3, QuietError, QuietIf, Zenon
<1>6. a \in Words /\ b \in Words /\ a # "screen" /\ b # "screen"
  BY <1>5, Zenon DEF Quiet, Screen
<1>7. Row!First(<<a, b, c>>) = IF a # Enc!OK THEN a ELSE IF b # Enc!OK THEN b ELSE c
  BY <1>6, FirstThree, Zenon
<1>8. EntryError(x, i) = IF a # Enc!OK THEN a ELSE IF b # Enc!OK THEN b ELSE c
  BY <1>2, <1>3, <1>4, <1>7, Zenon DEF EntryError
<1> QED
  BY <1>4, <1>6, <1>8, Zenon

LEMMA ExtraErrorIs ==
  ASSUME NEW A, NEW x \in Seq(A)
  PROVE  /\ Row!ExtraError(x) \in Words
         /\ Row!ExtraError(x) = Enc!OK => \A i \in DOMAIN x : Row!ValueError(x[i].key, x[i].val) = Enc!OK
         /\ Row!ExtraError(x) = "screen" => \E i \in DOMAIN x : Row!ValueError(x[i].key, x[i].val) = "screen"
<1>1. PICK p : p = [i \in DOMAIN x |-> EntryError(x, i)]
  OBVIOUS
<1>2. DOMAIN p = DOMAIN x /\ \A i \in DOMAIN x : p[i] = EntryError(x, i)
  BY <1>1
<1>3. \A i \in DOMAIN x : p[i] \in Words
  BY <1>2, EntryErrorIs, Zenon
<1>4. p = [i \in DOMAIN x |-> p[i]]
  BY <1>1, <1>2, Zenon
<1>5. p \in Seq(Words)
  BY <1>2, <1>3, <1>4, Checked, Zenon
<1>6. Row!ExtraError(x) = Row!First(p)
  BY <1>1, Zenon DEF Row!ExtraError, EntryError
<1>7. Row!ExtraError(x) = Enc!First(p)
  BY <1>6, SameFirst, Zenon
<1>8. "screen" # Enc!OK
  BY SameOK, Zenon
<1>9. \/ Enc!First(p) = Enc!OK /\ \A i \in DOMAIN p : p[i] = Enc!OK
      \/ \E k \in DOMAIN p : Enc!First(p) = p[k] /\ p[k] # Enc!OK
  BY <1>5, FirstIs
<1>10. Enc!First(p) \in Words
  BY <1>5, FirstWord
<1>11. Enc!First(p) = Enc!OK => \A i \in DOMAIN x : p[i] = Enc!OK
  BY <1>2, <1>9, Zenon
<1>12. Enc!First(p) = "screen" => \E i \in DOMAIN x : p[i] = "screen"
  BY <1>2, <1>8, <1>9, Zenon
<1> QED
  BY <1>2, <1>7, <1>10, <1>11, <1>12, EntryErrorIs, Zenon

LEMMA FieldsErrorIs ==
  ASSUME NEW q \in AnyCatalogueRow
  PROVE  /\ Row!FieldsError(q) \in Words
         /\ Row!FieldsError(q) = Enc!OK => Row!ExtraError(q.extra) = Enc!OK
         /\ Row!FieldsError(q) = "screen" => Row!ExtraError(q.extra) = "screen"
<1>1. PICK h \in Seq(Quiet) : h = HeadOf(q)
  BY HeadQuiet
<1>2. h \in Seq(Words)
  BY QuietSeq
<1>3. PICK e \in Words : e = Row!ExtraError(q.extra)
  BY RowTypes, ExtraErrorIs, Zenon
<1>4. Row!FieldsError(q) = Row!First(h \o <<e>>)
  BY <1>1, <1>3, Zenon DEF Row!FieldsError, HeadOf, NameChecks, ProbeChecks, UsageChecks, TemplateChecks
<1>5. <<e>> \in Seq(Words) /\ Enc!First(<<e>>) = e
  BY FirstOne
<1>6. Enc!First(h \o <<e>>) = IF Enc!First(h) # Enc!OK THEN Enc!First(h) ELSE e
  BY <1>2, <1>5, FirstCat
<1>7. Enc!First(h) \in Quiet
  BY QuietFirst, SameFirst, Zenon
<1>8. Enc!First(h) \in Words /\ Enc!First(h) # "screen"
  BY <1>7, Zenon DEF Quiet, Screen
<1>9. Row!FieldsError(q) = IF Enc!First(h) # Enc!OK THEN Enc!First(h) ELSE e
  BY <1>4, <1>6, SameFirst, Zenon
<1> QED
  BY <1>3, <1>8, <1>9, Zenon

LEMMA RowErrorIs ==
  ASSUME NEW q \in AnyCatalogueRow
  PROVE  /\ Row!RowError(q, 0) = "" => Row!ExtraError(q.extra) = Enc!OK
         /\ Row!RowError(q, 0) = "screen" => Row!ExtraError(q.extra) = "screen"
         /\ Row!RowError(q, q.encoded) = Row!RowError(q, 0)
<1>1. PICK a \in Words : a = Row!FieldsError(q)
  BY FieldsErrorIs, Zenon
<1>2. PICK b : b = Row!If(q.encoded > MaxRowBytes, "size")
  OBVIOUS
<1>3. "size" \in Errors /\ "size" # "screen"
  BY DEF Errors
<1>4. b \in Quiet
  BY <1>2, <1>3, QuietError, QuietIf, Zenon
<1>5. b \in Words /\ b # "screen"
  BY <1>4, Zenon DEF Quiet, Screen
<1>6. Row!RowError(q, 0) = Row!First(<<a, b>>)
  BY <1>1, <1>2, Zenon DEF Row!RowError
<1>7. Row!RowError(q, q.encoded) = Row!First(<<a, b>>)
  BY <1>1, <1>2, Zenon DEF Row!RowError
<1>8. Row!First(<<a, b>>) = IF a # Enc!OK THEN a ELSE b
  BY <1>5, FirstTwo, Zenon
<1>9. Enc!OK = "" /\ "screen" # ""
  BY SameOK, Zenon
<1>10. Row!RowError(q, 0) = "" => a = Enc!OK
  BY <1>6, <1>8, <1>9, Zenon
<1>11. Row!RowError(q, 0) = "screen" => a = "screen"
  BY <1>5, <1>6, <1>8, Zenon
<1> QED
  BY <1>1, <1>6, <1>7, <1>10, <1>11, FieldsErrorIs, Zenon

-----------------------------------------------------------------------------
(***************************************************************************)
(* Catalogue rows: nothing hidden.                                         *)
(***************************************************************************)
Latest(v, i) == Row!Member(v, i) => \A j \in DOMAIN v : j > i /\ v[j].up = v[i].up => v[j].key # v[i].key
CleanStep(v, g, i) == i = 1 \/ (g[v[i].up] /\ Latest(v, i))
CleanFn(g, v) == g = [i \in DOMAIN v |-> CleanStep(v, g, i)]

\* Where no key is repeated, every node is the last of its key.
LEMMA AllLatest == ASSUME NEW v \in AnyTree, ~Row!Repeats(v), NEW i \in DOMAIN v PROVE Latest(v, i)
<1>1. v \in Seq(AnyNode)
  BY DEF AnyTree
<1>2. PICK n \in Nat : n = Len(v) /\ DOMAIN v = 1..n
  BY <1>1
<1> SUFFICES ASSUME Row!Member(v, i), NEW j \in DOMAIN v, j > i, v[j].up = v[i].up, v[j].key = v[i].key PROVE FALSE
  BY DEF Latest
<1>3. i < j /\ j # 1
  BY <1>2
<1>4. Row!Member(v, j)
  BY <1>3, Zenon DEF Row!Member
<1> QED
  BY <1>3, <1>4, Zenon DEF Row!Repeats

LEMMA AllKept == ASSUME NEW v \in AnyTree, ~Row!Repeats(v), NEW x \in DOMAIN v PROVE Row!Unmarshalled(v)[x]
<1>1. v \in Seq(AnyNode) /\ \A i \in DOMAIN v : i > 1 => v[i].up \in 1..(i - 1)
  BY DEF AnyTree
<1>2. PICK n \in Nat : DOMAIN v = 1..n
  BY <1>1
<1>3. \A i \in DOMAIN v : Latest(v, i)
  BY AllLatest
<1>4. \A i \in 1..n : i # 1 => v[i].up \in 1..(i - 1) /\ v[i].up \in 1..n
  <2> SUFFICES ASSUME NEW i \in 1..n, i # 1 PROVE v[i].up \in 1..(i - 1) /\ v[i].up \in 1..n
    OBVIOUS
  <2>1. i > 1
    OBVIOUS
  <2>2. v[i].up \in 1..(i - 1)
    BY <1>1, <1>2, <2>1
  <2>3. \A u \in 1..(i - 1) : u \in 1..n
    OBVIOUS
  <2> QED
    BY <2>2, <2>3
<1>5. PICK g : g = [i \in 1..n |-> TRUE]
  OBVIOUS
<1>6. \A i \in 1..n : CleanStep(v, g, i) = TRUE
  <2>1. \A i \in 1..n : g[i] = TRUE
    BY <1>5, Zenon
  <2> QED
    BY <1>2, <1>3, <1>4, <2>1, Zenon DEF CleanStep
<1>7. CleanFn(g, v)
  BY <1>2, <1>5, <1>6, Zenon DEF CleanFn
<1>8. PICK k : k = CHOOSE f : CleanFn(f, v)
  OBVIOUS
<1>9. CleanFn(k, v)
  BY <1>7, <1>8, Zenon
<1>10. Row!Unmarshalled(v) = k
  BY <1>8, Zenon DEF Row!Unmarshalled, CleanFn, CleanStep, Latest
<1>11. \A i \in 1..n : k[i] <=> CleanStep(v, k, i)
  BY <1>2, <1>9, Zenon DEF CleanFn
<1>12. ASSUME NEW i \in 1..n, \A j \in 1..(i - 1) : k[j] PROVE k[i]
  BY <1>2, <1>3, <1>4, <1>11, <1>12, Zenon DEF CleanStep
<1> DEFINE T == {i \in 0..n : \A j \in 1..i : k[j]}
<1>13. 0 \in T
  OBVIOUS
<1>14. ASSUME NEW i \in 0..(n - 1), i \in T PROVE i + 1 \in T
  <2>1. i + 1 \in 0..n /\ i + 1 \in 1..n /\ (i + 1) - 1 = i /\ \A j : j \in 1..(i + 1) <=> j \in 1..i \/ j = i + 1
    OBVIOUS
  <2>2. \A j \in 1..i : k[j]
    BY <1>14, Zenon
  <2>3. k[i + 1]
    BY <1>12, <2>1, <2>2, Zenon
  <2>4. \A j \in 1..(i + 1) : k[j]
    BY <2>1, <2>2, <2>3, Zenon
  <2> QED
    BY <2>1, <2>4, Zenon
<1>15. 0..n \subseteq T
  <2> HIDE DEF T
  <2> QED
    BY <1>13, <1>14, IntervalUp
<1>16. n \in 0..n /\ x \in 1..n
  BY <1>2
<1>17. k[x]
  BY <1>15, <1>16, Zenon
<1> QED
  BY <1>10, <1>17, Zenon

\* What the screen lets pass, the bytes do not carry.
LEMMA ScreenedCarries ==
  ASSUME NEW key, NEW v \in AnyTree
  PROVE  /\ ~Row!Repeats(v) /\ Row!Screened(key, v) => ~Row!Carries(key, v)
         /\ ~Row!Screened(key, v) => Row!Carries(key, v)
<1>1. ASSUME ~Row!Repeats(v) PROVE \A x \in DOMAIN v : Row!Unmarshalled(v)[x]
  BY <1>1, AllKept, Zenon
<1> QED
  BY <1>1, Zenon DEF Row!Screened, Row!Carries

LEMMA RowsHide ==
  ASSUME NEW q \in AnyCatalogueRow
  PROVE  /\ Row!RowError(q, 0) = "" => ~\E i \in DOMAIN q.extra : Row!Carries(q.extra[i].key, q.extra[i].val)
         /\ Row!RowError(q, 0) = "screen" => \E i \in DOMAIN q.extra : Row!Carries(q.extra[i].key, q.extra[i].val)
<1>1. PICK A : q.extra \in Seq(A)
  BY RowTypes, Zenon
<1>2. \A i \in DOMAIN q.extra : q.extra[i].val \in AnyTree
  BY RowTypes, Zenon
<1>3. /\ Row!ExtraError(q.extra) = Enc!OK => \A i \in DOMAIN q.extra : Row!ValueError(q.extra[i].key, q.extra[i].val) = Enc!OK
      /\ Row!ExtraError(q.extra) = "screen" => \E i \in DOMAIN q.extra : Row!ValueError(q.extra[i].key, q.extra[i].val) = "screen"
  BY <1>1, ExtraErrorIs, Zenon
<1>4. ASSUME Row!RowError(q, 0) = "", NEW i \in DOMAIN q.extra PROVE ~Row!Carries(q.extra[i].key, q.extra[i].val)
  <2>1. Row!ValueError(q.extra[i].key, q.extra[i].val) = Enc!OK
    BY <1>3, <1>4, RowErrorIs, Zenon
  <2>2. ~Row!Repeats(q.extra[i].val) /\ Row!Screened(q.extra[i].key, q.extra[i].val)
    BY <2>1, ValueErrorIs, Zenon
  <2> QED
    BY <1>2, <2>2, ScreenedCarries, Zenon
<1>5. ASSUME Row!RowError(q, 0) = "screen" PROVE \E i \in DOMAIN q.extra : Row!Carries(q.extra[i].key, q.extra[i].val)
  <2>1. PICK i \in DOMAIN q.extra : Row!ValueError(q.extra[i].key, q.extra[i].val) = "screen"
    BY <1>3, <1>5, RowErrorIs, Zenon
  <2>2. ~Row!Screened(q.extra[i].key, q.extra[i].val)
    BY <2>1, ValueErrorIs, Zenon
  <2> QED
    BY <1>2, <2>2, ScreenedCarries, Zenon
<1> QED
  BY <1>4, <1>5, Zenon

-----------------------------------------------------------------------------
LEMMA KeysFound ==
  ASSUME NEW text PROVE Row!ContainsPrivateKey(text) <=> Row!HasPart([i \in DOMAIN text |-> Row!ToUpper(text[i])], Row!Marker)
<1>1. CASE \E i \in DOMAIN text : ~Row!ASCII(text[i])
  BY <1>1, Zenon DEF Row!ContainsPrivateKey
<1>2. CASE ~\E i \in DOMAIN text : ~Row!ASCII(text[i])
  <2>1. ASSUME NEW i \in DOMAIN text PROVE Row!ToUpper(text[i]) = Row!AsciiUpper(text[i])
    <3>1. Row!ASCII(text[i])
      BY <1>2, Zenon
    <3>2. text[i] # "dotless"
      BY <3>1, Zenon DEF Row!ASCII
    <3> QED
      BY <3>2, Zenon DEF Row!ToUpper
  <2>2. [i \in DOMAIN text |-> Row!ToUpper(text[i])] = [i \in DOMAIN text |-> Row!AsciiUpper(text[i])]
    BY <2>1, Zenon
  <2>3. Row!ContainsPrivateKey(text) <=> Row!HasPart([i \in DOMAIN text |-> Row!AsciiUpper(text[i])], Row!Marker)
    BY <1>2, Zenon DEF Row!ContainsPrivateKey
  <2> QED
    BY <2>2, <2>3, Zenon
<1> QED
  BY <1>1, <1>2

ControlAfter(text, n, i) == \E j \in i..n : Row!Control(text[j])
ControlStep(text, n, g, i) ==
  IF i > n THEN FALSE
  ELSE IF ~Row!ASCII(text[i]) THEN ControlAfter(text, n, i)
  ELSE text[i] \in {"lf", "del"} \/ g[i + 1]
ControlFn(g, text, n) == g = [i \in 1..(n + 1) |-> ControlStep(text, n, g, i)]

\* On an ASCII character the two tests for a control character agree.
LEMMA ControlASCII == ASSUME NEW c, Row!ASCII(c) PROVE Row!Control(c) <=> c \in {"lf", "del"}
BY Zenon DEF Row!ASCII, Row!Control

LEMMA ControlFinds ==
  ASSUME NEW text, NEW n \in Nat, NEW i \in 1..(n + 1), NEW g, i <= n => g[i + 1] = ControlAfter(text, n, i + 1)
  PROVE  ControlStep(text, n, g, i) = ControlAfter(text, n, i)
<1>1. CASE i > n
  <2>1. i..n = {}
    BY <1>1
  <2>2. ~ControlAfter(text, n, i)
    BY <2>1, Zenon DEF ControlAfter
  <2> QED
    <3>1. PICK b \in BOOLEAN : b = ControlAfter(text, n, i)
      BY Zenon DEF ControlAfter
    <3>2. b = FALSE
      BY <2>2, <3>1, SMT
    <3>3. ControlStep(text, n, g, i) = FALSE
      BY <1>1, Zenon DEF ControlStep
    <3> QED
      BY <3>1, <3>2, <3>3, Zenon
<1>2. CASE ~(i > n)
  <2>1. i <= n /\ \A j : j \in i..n <=> j = i \/ j \in (i + 1)..n
    BY <1>2
  <2>2. ControlAfter(text, n, i) <=> Row!Control(text[i]) \/ ControlAfter(text, n, i + 1)
    BY <2>1, Zenon DEF ControlAfter
  <2>3. CASE Row!ASCII(text[i])
    <3>1. ControlStep(text, n, g, i) <=> text[i] \in {"lf", "del"} \/ ControlAfter(text, n, i + 1)
      BY <1>2, <2>1, <2>3, Zenon DEF ControlStep
    <3>2. Row!Control(text[i]) <=> text[i] \in {"lf", "del"}
      BY <2>3, ControlASCII, Zenon
    <3>3. ControlStep(text, n, g, i) <=> ControlAfter(text, n, i)
      BY <2>2, <3>1, <3>2, Zenon
    <3>4. PICK a \in BOOLEAN : a = ControlStep(text, n, g, i)
      BY <1>2, <2>1, <2>3, Zenon DEF ControlStep, ControlAfter
    <3>5. PICK b \in BOOLEAN : b = ControlAfter(text, n, i)
      BY Zenon DEF ControlAfter
    <3>6. a <=> b
      BY <3>3, <3>4, <3>5, Zenon
    <3>7. a = b
      BY <3>6
    <3> QED
      BY <3>4, <3>5, <3>7, Zenon
  <2>4. CASE ~Row!ASCII(text[i])
    BY <1>2, <2>4, Zenon DEF ControlStep
  <2> QED
    BY <2>3, <2>4
<1> QED
  BY <1>1, <1>2

LEMMA ControlFound == ASSUME NEW A, NEW text \in Seq(A) PROVE Row!ContainsControl(text) <=> \E i \in DOMAIN text : Row!Control(text[i])
<1>1. PICK n \in Nat : n = Len(text)
  OBVIOUS
<1>2. DOMAIN text = 1..n
  BY <1>1
<1>3. PICK g : g = [i \in 1..(n + 1) |-> ControlAfter(text, n, i)]
  OBVIOUS
<1>4. \A i \in 1..(n + 1) : i <= n => i + 1 \in 1..(n + 1)
  OBVIOUS
<1>5. \A i \in 1..(n + 1) : g[i] = ControlAfter(text, n, i)
  BY <1>3, Zenon
<1>6. \A i \in 1..(n + 1) : ControlStep(text, n, g, i) = ControlAfter(text, n, i)
  BY <1>4, <1>5, ControlFinds, Zenon
<1>7. ControlFn(g, text, n)
  BY <1>3, <1>6, Zenon DEF ControlFn
<1>8. PICK k : k = CHOOSE f : ControlFn(f, text, n)
  OBVIOUS
<1>9. ControlFn(k, text, n)
  BY <1>7, <1>8, Zenon
<1>10. \A i \in 1..(n + 1) : k[i] = ControlStep(text, n, k, i)
  BY <1>9, Zenon DEF ControlFn
<1> DEFINE T == {i \in 1..(n + 1) : k[i] = ControlAfter(text, n, i)}
<1>11. n + 1 \in T
  <2>1. n + 1 \in 1..(n + 1) /\ ~(n + 1 <= n)
    OBVIOUS
  <2>2. ControlStep(text, n, k, n + 1) = ControlAfter(text, n, n + 1)
    BY <2>1, ControlFinds, Zenon
  <2> QED
    BY <1>10, <2>1, <2>2, Zenon
<1>12. ASSUME NEW i \in (1 + 1)..(n + 1), i \in T PROVE i - 1 \in T
  <2>1. i - 1 \in 1..(n + 1) /\ (i - 1) + 1 = i
    OBVIOUS
  <2>2. k[i] = ControlAfter(text, n, i)
    BY <1>12, Zenon
  <2>3. ControlStep(text, n, k, i - 1) = ControlAfter(text, n, i - 1)
    BY <2>1, <2>2, ControlFinds, Zenon
  <2> QED
    BY <1>10, <2>1, <2>3, Zenon
<1>13. 1..(n + 1) \subseteq T
  <2> HIDE DEF T
  <2> QED
    BY <1>11, <1>12, IntervalDown
<1>14. 1 \in 1..(n + 1)
  OBVIOUS
<1>15. k[1] = ControlAfter(text, n, 1)
  BY <1>13, <1>14, Zenon
<1>16. PICK h : h = CHOOSE f : ControlFn(f, text, Len(text))
  OBVIOUS
<1>17. Row!ContainsControl(text) = h[1]
  BY <1>16, Zenon DEF Row!ContainsControl, ControlFn, ControlStep, ControlAfter
<1>18. h = k
  BY <1>1, <1>8, <1>16, Zenon
<1> QED
  BY <1>2, <1>15, <1>17, <1>18, Zenon DEF ControlAfter

\* No accepted row carries a credential in the bytes of its Extra, one is
\* screened only when it does, trusting the row's encoding changes nothing, and
\* the searches that stop at the first byte beyond ASCII miss nothing after it
\* (validateLineCatalogueExtra, containsPrivateKey, containsControl).
THEOREM NoCredentialPasses == Spec => []NothingHidden
<1>1. Answers => NothingHidden
  <2> SUFFICES ASSUME Answers PROVE NothingHidden
    OBVIOUS
  <2>0. PICK q : q = question.of
    OBVIOUS
  <2>1. ASSUME Answered("row")
        PROVE  LET carrying == \E i \in DOMAIN q.extra : Row!Carries(q.extra[i].key, q.extra[i].val)
               IN /\ answer[1].full = "" => ~carrying
                  /\ answer[1].full = "screen" => carrying
                  /\ answer[1].trusting = answer[1].full
    <3>1. q \in AnyCatalogueRow
      BY <2>0, <2>1, InputAssumption, Given DEF Answered
    <3>2. answer = <<[full |-> Row!RowError(q, 0), trusting |-> Row!RowError(q, q.encoded)]>>
      BY <2>0, <2>1, Zenon DEF Answers, RightAnswer, Put, Answered
    <3>3. answer[1] = [full |-> Row!RowError(q, 0), trusting |-> Row!RowError(q, q.encoded)]
      BY <3>2, SoleIs, Zenon
    <3>4. answer[1].full = Row!RowError(q, 0) /\ answer[1].trusting = Row!RowError(q, q.encoded)
      <4>1. PICK a : a = Row!RowError(q, 0)
        OBVIOUS
      <4>2. PICK b : b = Row!RowError(q, q.encoded)
        OBVIOUS
      <4>3. PICK r : r = answer[1]
        OBVIOUS
      <4>4. r = [full |-> a, trusting |-> b]
        BY <3>3, <4>1, <4>2, <4>3, Zenon
      <4>5. r.full = a /\ r.trusting = b
        BY <4>4, SMT
      <4> QED
        BY <4>1, <4>2, <4>3, <4>5, Zenon
    <3>5. Row!RowError(q, q.encoded) = Row!RowError(q, 0)
      BY <3>1, RowErrorIs, Zenon
    <3>6. /\ Row!RowError(q, 0) = "" => ~\E i \in DOMAIN q.extra : Row!Carries(q.extra[i].key, q.extra[i].val)
          /\ Row!RowError(q, 0) = "screen" => \E i \in DOMAIN q.extra : Row!Carries(q.extra[i].key, q.extra[i].val)
      BY <3>1, RowsHide, Zenon
    <3> QED
      BY <3>4, <3>5, <3>6, Zenon
  <2>2. ASSUME Answered("characters")
        PROVE  /\ answer[1].key <=> Row!HasPart([i \in DOMAIN q |-> Row!ToUpper(q[i])], Row!Marker)
               /\ answer[1].control <=> \E i \in DOMAIN q : Row!Control(q[i])
    <3>1. q \in Seq(STRING)
      BY <2>0, <2>2, InputAssumption, Given DEF Answered
    <3>2. answer = <<[key |-> Row!ContainsPrivateKey(q), control |-> Row!ContainsControl(q)]>>
      BY <2>0, <2>2, Zenon DEF Answers, RightAnswer, Put, Answered
    <3>3. answer[1] = [key |-> Row!ContainsPrivateKey(q), control |-> Row!ContainsControl(q)]
      BY <3>2, SoleIs, Zenon
    <3>4. answer[1].key = Row!ContainsPrivateKey(q) /\ answer[1].control = Row!ContainsControl(q)
      <4>1. PICK a : a = Row!ContainsPrivateKey(q)
        OBVIOUS
      <4>2. PICK b : b = Row!ContainsControl(q)
        OBVIOUS
      <4>3. PICK r : r = answer[1]
        OBVIOUS
      <4>4. r = [key |-> a, control |-> b]
        BY <3>3, <4>1, <4>2, <4>3, Zenon
      <4>5. r.key = a /\ r.control = b
        BY <4>4, SMT
      <4> QED
        BY <4>1, <4>2, <4>3, <4>5, Zenon
    <3>5. Row!ContainsPrivateKey(q) <=> Row!HasPart([i \in DOMAIN q |-> Row!ToUpper(q[i])], Row!Marker)
      BY KeysFound, Zenon
    <3>6. Row!ContainsControl(q) <=> \E i \in DOMAIN q : Row!Control(q[i])
      BY <3>1, ControlFound, Zenon
    <3> QED
      BY <3>4, <3>5, <3>6, Zenon
  <2> QED
    BY <2>0, <2>1, <2>2, Zenon DEF NothingHidden
<1> QED
  BY <1>1, AnswersHold, PTL

-----------------------------------------------------------------------------
(***************************************************************************)
(* Decoders.                                                               *)
(***************************************************************************)
LEMMA MadeIs == ASSUME NEW v PROVE Plain!Made(v).ok /\ Plain!Made(v).value = v
<1>1. ASSUME NEW b, NEW r, r = [ok |-> b, value |-> v] PROVE r.ok = b /\ r.value = v
  BY <1>1
<1>2. Plain!Made(v) = [ok |-> TRUE, value |-> v]
  BY Zenon DEF Plain!Made
<1> QED
  BY <1>1, <1>2, Zenon

LEMMA FailedIs == ~Plain!Failed.ok
<1>1. ASSUME NEW b, NEW v, NEW r, r = [ok |-> b, value |-> v] PROVE r.ok = b
  BY <1>1
<1>2. Plain!Failed = [ok |-> FALSE, value |-> Plain!Zero]
  BY Zenon DEF Plain!Failed
<1> QED
  BY <1>1, <1>2, Zenon

KeysTo(ms, i) == {ms[j].key : j \in 1..i}
\* A struct once the first members are in.
FilledTo(D, w, ms, i) == [f \in D |-> IF f \in KeysTo(ms, i) THEN w[f] ELSE Plain!Zero]
With(x, k, v) == [x EXCEPT ![k] = v]
KeysDistinct(ms, n) == \A i \in 1..n : ms[i].key \notin KeysTo(ms, i - 1)

LEMMA FilledStarts == ASSUME NEW schema, NEW w, NEW ms PROVE FilledTo(DOMAIN schema, w, ms, 0) = Plain!Zeros(schema)
<1>1. KeysTo(ms, 0) = {}
  BY DEF KeysTo
<1>2. \A f \in DOMAIN schema : (IF f \in KeysTo(ms, 0) THEN w[f] ELSE Plain!Zero) = Plain!Zero
  BY <1>1, Zenon
<1> QED
  BY <1>2, Zenon DEF FilledTo, Plain!Zeros

LEMMA FilledNext ==
  ASSUME NEW D, NEW w, NEW ms, NEW n \in Nat, NEW i \in 1..n, NEW k \in D, k = ms[i].key
  PROVE  With(FilledTo(D, w, ms, i - 1), k, w[k]) = FilledTo(D, w, ms, i)
<1>1. \A j : j \in 1..i <=> j \in 1..(i - 1) \/ j = i
  OBVIOUS
<1>2. \A f : f \in KeysTo(ms, i) <=> f \in KeysTo(ms, i - 1) \/ f = k
  BY <1>1, Zenon DEF KeysTo
<1>3. PICK K : K = KeysTo(ms, i - 1)
  OBVIOUS
<1>4. PICK L : L = KeysTo(ms, i)
  OBVIOUS
<1>5. PICK z : z = Plain!Zero
  OBVIOUS
<1>6. \A f : f \in L <=> f \in K \/ f = k
  BY <1>2, <1>3, <1>4, Zenon
<1>7. ASSUME NEW a, a = [f \in D |-> IF f \in K THEN w[f] ELSE z], NEW b, b = [f \in D |-> IF f \in L THEN w[f] ELSE z]
      PROVE  [a EXCEPT ![k] = w[k]] = b
  <2>1. PICK c : c = [a EXCEPT ![k] = w[k]]
    OBVIOUS
  <2>2. DOMAIN c = D /\ c = [f \in D |-> c[f]]
    BY <1>7, <2>1
  <2>3. \A f \in D : c[f] = b[f]
    BY <1>6, <1>7, <2>1
  <2>4. b = [f \in D |-> b[f]]
    BY <1>7
  <2> QED
    BY <2>1, <2>2, <2>3, <2>4, Zenon
<1>8. FilledTo(D, w, ms, i - 1) = [f \in D |-> IF f \in K THEN w[f] ELSE z] /\ FilledTo(D, w, ms, i) = [f \in D |-> IF f \in L THEN w[f] ELSE z]
  BY <1>3, <1>4, <1>5, Zenon DEF FilledTo
<1> QED
  BY <1>7, <1>8, Zenon DEF With

LEMMA FilledFresh ==
  ASSUME NEW D, NEW w, NEW ms, NEW i, NEW k \in D, k \notin KeysTo(ms, i) PROVE FilledTo(D, w, ms, i)[k] = Plain!Zero
BY Zenon DEF FilledTo

\* encoding/json into a struct without structs.
StoreStep(schema, acc, m) ==
  IF ~acc.ok THEN acc
  ELSE IF m.key \notin DOMAIN schema THEN Plain!Failed
  ELSE LET stored == Plain!Store(schema[m.key], acc.value[m.key], m.val)
       IN IF stored.ok THEN Plain!Made([acc.value EXCEPT ![m.key] = stored.value]) ELSE Plain!Failed
FillStep(schema, from, ms, g, i) == IF i = 0 THEN Plain!Made(from) ELSE StoreStep(schema, g[i - 1], ms[i])
FillFn(g, schema, from, ms, n) == g = [i \in 0..n |-> FillStep(schema, from, ms, g, i)]

LEMMA StoreStepIs ==
  ASSUME NEW schema, NEW x, NEW m, m.key \in DOMAIN schema,
         NEW s, s = Plain!Store(schema[m.key], x[m.key], m.val), s.ok
  PROVE  StoreStep(schema, Plain!Made(x), m) = Plain!Made(With(x, m.key, s.value))
<1>1. PICK acc : acc = Plain!Made(x)
  OBVIOUS
<1>2. acc.ok /\ acc.value = x
  BY <1>1, MadeIs, Zenon
<1>3. StoreStep(schema, acc, m) = Plain!Made(With(x, m.key, s.value))
  BY <1>2, Zenon DEF StoreStep, With
<1> QED
  BY <1>1, <1>3, Zenon

\* Members that can be stored, each in a field of its own.
Stores(schema, ms, w, i) ==
  LET s == Plain!Store(schema[ms[i].key], Plain!Zero, ms[i].val)
  IN ms[i].key \in DOMAIN schema /\ s.ok /\ s.value = w[ms[i].key]

LEMMA FillGoesOn ==
  ASSUME NEW schema, NEW w, NEW ms, NEW n \in Nat, KeysDistinct(ms, n), NEW i \in 1..n, Stores(schema, ms, w, i)
  PROVE  StoreStep(schema, Plain!Made(FilledTo(DOMAIN schema, w, ms, i - 1)), ms[i]) = Plain!Made(FilledTo(DOMAIN schema, w, ms, i))
<1>1. PICK x : x = FilledTo(DOMAIN schema, w, ms, i - 1)
  OBVIOUS
<1>2. PICK k : k = ms[i].key
  OBVIOUS
<1>3. PICK s : s = Plain!Store(schema[k], Plain!Zero, ms[i].val)
  OBVIOUS
<1>4. k \in DOMAIN schema /\ s.ok /\ s.value = w[k]
  BY <1>2, <1>3, Zenon DEF Stores
<1>5. k \notin KeysTo(ms, i - 1)
  BY <1>2, Zenon DEF KeysDistinct
<1>6. x[k] = Plain!Zero
  BY <1>1, <1>4, <1>5, FilledFresh, Zenon
<1>7. StoreStep(schema, Plain!Made(x), ms[i]) = Plain!Made(With(x, k, s.value))
  <2>1. s = Plain!Store(schema[ms[i].key], x[ms[i].key], ms[i].val) /\ ms[i].key \in DOMAIN schema /\ s.ok
    BY <1>2, <1>3, <1>4, <1>6, Zenon
  <2>2. StoreStep(schema, Plain!Made(x), ms[i]) = Plain!Made(With(x, ms[i].key, s.value))
    BY <2>1, StoreStepIs
  <2> QED
    BY <1>2, <2>2, Zenon
<1>8. With(x, k, w[k]) = FilledTo(DOMAIN schema, w, ms, i)
  BY <1>1, <1>2, <1>4, FilledNext, Zenon
<1> QED
  BY <1>1, <1>4, <1>7, <1>8, Zenon

LEMMA FillIs ==
  ASSUME NEW schema, NEW w, NEW A, NEW ms \in Seq(A), NEW n \in Nat, n = Len(ms), KeysDistinct(ms, n), \A i \in 1..n : Stores(schema, ms, w, i)
  PROVE  Plain!Fill(schema, Plain!Zeros(schema), ms) = Plain!Made(FilledTo(DOMAIN schema, w, ms, n))
<1>1. PICK from : from = Plain!Zeros(schema)
  OBVIOUS
<1>2. PICK c : c = [i \in 0..n |-> Plain!Made(FilledTo(DOMAIN schema, w, ms, i))]
  OBVIOUS
<1>3. \A i \in 0..n : c[i] = Plain!Made(FilledTo(DOMAIN schema, w, ms, i))
  BY <1>2, Zenon
<1>4. \A i \in 0..n : i = 0 \/ (i \in 1..n /\ i - 1 \in 0..n)
  OBVIOUS
<1>5. ASSUME NEW i \in 0..n, NEW g, i # 0 => g[i - 1] = Plain!Made(FilledTo(DOMAIN schema, w, ms, i - 1))
      PROVE  FillStep(schema, from, ms, g, i) = Plain!Made(FilledTo(DOMAIN schema, w, ms, i))
  <2>1. CASE i = 0
    <3>1. FillStep(schema, from, ms, g, i) = Plain!Made(from)
      BY <2>1, Zenon DEF FillStep
    <3>2. from = FilledTo(DOMAIN schema, w, ms, i)
      BY <1>1, <2>1, FilledStarts, Zenon
    <3> QED
      BY <3>1, <3>2, Zenon
  <2>2. CASE i # 0
    <3>1. i \in 1..n
      BY <1>4, <2>2, Zenon
    <3>2. FillStep(schema, from, ms, g, i) = StoreStep(schema, Plain!Made(FilledTo(DOMAIN schema, w, ms, i - 1)), ms[i])
      BY <1>5, <2>2, Zenon DEF FillStep
    <3>3. StoreStep(schema, Plain!Made(FilledTo(DOMAIN schema, w, ms, i - 1)), ms[i]) = Plain!Made(FilledTo(DOMAIN schema, w, ms, i))
      BY <3>1, FillGoesOn, Zenon
    <3> QED
      BY <3>2, <3>3, Zenon
  <2> QED
    BY <2>1, <2>2
<1>6. FillFn(c, schema, from, ms, n)
  <2>1. \A i \in 0..n : FillStep(schema, from, ms, c, i) = Plain!Made(FilledTo(DOMAIN schema, w, ms, i))
    BY <1>3, <1>4, <1>5, Zenon
  <2> QED
    BY <1>2, <2>1, Zenon DEF FillFn
<1>7. PICK k : k = CHOOSE f : FillFn(f, schema, from, ms, n)
  OBVIOUS
<1>8. FillFn(k, schema, from, ms, n)
  BY <1>6, <1>7, Zenon
<1>9. \A i \in 0..n : k[i] = FillStep(schema, from, ms, k, i)
  BY <1>8, Zenon DEF FillFn
<1> DEFINE T == {i \in 0..n : k[i] = Plain!Made(FilledTo(DOMAIN schema, w, ms, i))}
<1>10. 0 \in T
  <2>1. 0 \in 0..n
    OBVIOUS
  <2> QED
    BY <1>5, <1>9, <2>1, Zenon
<1>11. ASSUME NEW i \in 0..(n - 1), i \in T PROVE i + 1 \in T
  <2>1. i + 1 \in 0..n /\ (i + 1) - 1 = i
    OBVIOUS
  <2>2. k[i] = Plain!Made(FilledTo(DOMAIN schema, w, ms, i))
    BY <1>11, Zenon
  <2> QED
    BY <1>5, <1>9, <2>1, <2>2, Zenon
<1>12. 0..n \subseteq T
  <2> HIDE DEF T
  <2>1. 0 \in Int /\ n \in Int
    OBVIOUS
  <2>2. \A i \in 0..(n - 1) : i \in T => i + 1 \in T
    BY <1>11, Zenon
  <2> QED
    BY <1>10, <2>1, <2>2, IntervalUp, Zenon
<1>13. k[n] = Plain!Made(FilledTo(DOMAIN schema, w, ms, n))
  <2>1. n \in 0..n
    OBVIOUS
  <2> QED
    BY <1>12, <2>1, Zenon
<1>14. PICK h : h = CHOOSE f : FillFn(f, schema, from, ms, Len(ms))
  OBVIOUS
<1>15. Plain!Fill(schema, from, ms) = h[Len(ms)]
  BY <1>14, Zenon DEF Plain!Fill, FillFn, FillStep, StoreStep
<1>16. h = k
  BY <1>7, <1>14, Zenon
<1> QED
  BY <1>1, <1>13, <1>15, <1>16, Zenon

-----------------------------------------------------------------------------
(***************************************************************************)
(* Decoders: members and the fields they fill.                             *)
(***************************************************************************)
LEMMA TrueTwice == ASSUME NEW a \in BOOLEAN, NEW b \in BOOLEAN, a, b PROVE a = b
OBVIOUS

LEMMA MemberTypes ==
  ASSUME NEW V, NEW ms \in Seq(AnyMember(V)) PROVE \A i \in DOMAIN ms : ms[i].exact \in BOOLEAN /\ ms[i].val \in V
<1>1. \A i \in DOMAIN ms : ms[i] \in AnyMember(V)
  OBVIOUS
<1>2. \A m \in AnyMember(V) : m.exact \in BOOLEAN /\ m.val \in V
  BY DEF AnyMember
<1> QED
  BY <1>1, <1>2, Zenon

\* Members spelled exactly, none of them twice, have keys of their own.
LEMMA DistinctKeys ==
  ASSUME NEW V, NEW ms \in Seq(AnyMember(V)), NEW n \in Nat, DOMAIN ms = 1..n, ~Plain!Repeats(ms), \A i \in DOMAIN ms : ms[i].exact
  PROVE  KeysDistinct(ms, n)
<1> SUFFICES ASSUME NEW i \in 1..n, NEW j \in 1..(i - 1), ms[i].key = ms[j].key PROVE FALSE
  BY Zenon DEF KeysDistinct, KeysTo
<1>1. j \in 1..n /\ j < i
  OBVIOUS
<1>2. ms[i].exact \in BOOLEAN /\ ms[j].exact \in BOOLEAN
  BY <1>1, MemberTypes, Zenon
<1>3. ms[j].exact = ms[i].exact
  BY <1>1, <1>2, TrueTwice, Zenon
<1> QED
  BY <1>1, <1>3, Zenon DEF Plain!Repeats

PlaceOf(ms, f) == CHOOSE j \in DOMAIN ms : ms[j].key = f

LEMMA AtIs == ASSUME NEW ms, NEW n \in Nat, DOMAIN ms = 1..n, KeysDistinct(ms, n), NEW i \in 1..n PROVE PlaceOf(ms, ms[i].key) = i
<1>1. ASSUME NEW j \in 1..n, ms[j].key = ms[i].key PROVE j = i
  <2>1. j \in 1..(i - 1) \/ i \in 1..(j - 1) \/ i = j
    OBVIOUS
  <2> QED
    BY <1>1, <2>1, Zenon DEF KeysDistinct, KeysTo
<1>2. PICK a : a = PlaceOf(ms, ms[i].key)
  OBVIOUS
<1>3. a \in 1..n /\ ms[a].key = ms[i].key
  BY <1>2, Zenon DEF PlaceOf
<1> QED
  BY <1>1, <1>2, <1>3, Zenon

Keys(ms) == {ms[i].key : i \in DOMAIN ms}
MemberValue(schema, ms, f) == Plain!Store(schema[f], Plain!Zero, ms[PlaceOf(ms, f)].val)
MemberValues(schema, ms, n) == [f \in KeysTo(ms, n) |-> MemberValue(schema, ms, f).value]

\* The fast decoder's struct is encoding/json's.
LEMMA MembersIs ==
  ASSUME NEW V, NEW ms \in Seq(AnyMember(V)), ~Plain!Repeats(ms), NEW schema, Plain!Members(schema, ms).ok
  PROVE  Plain!Fill(schema, Plain!Zeros(schema), ms) = Plain!Members(schema, ms)
<1>1. PICK n \in Nat : n = Len(ms)
  OBVIOUS
<1>2. DOMAIN ms = 1..n
  BY <1>1
<1>3. PICK w : w = MemberValues(schema, ms, n)
  OBVIOUS
<1>4. /\ Plain!Exact(schema, ms) /\ \A f \in KeysTo(ms, n) : MemberValue(schema, ms, f).ok
      /\ Plain!Members(schema, ms) =
           Plain!Made([f \in DOMAIN schema |-> IF f \in KeysTo(ms, n) THEN MemberValue(schema, ms, f).value ELSE Plain!Zero])
  <2>1. Keys(ms) = KeysTo(ms, n)
    BY <1>2, Zenon DEF Keys, KeysTo
  <2>2. PICK made : made = Plain!Made([f \in DOMAIN schema |-> IF f \in Keys(ms) THEN MemberValue(schema, ms, f).value ELSE Plain!Zero])
    OBVIOUS
  <2>3. Plain!Members(schema, ms) = IF Plain!Exact(schema, ms) /\ \A f \in Keys(ms) : MemberValue(schema, ms, f).ok THEN made ELSE Plain!Failed
    BY <2>2, Zenon DEF Plain!Members, Keys, MemberValue, PlaceOf
  <2>4. Plain!Exact(schema, ms) /\ \A f \in Keys(ms) : MemberValue(schema, ms, f).ok
    BY <2>3, FailedIs, Zenon
  <2>5. Plain!Members(schema, ms) = made
    BY <2>3, <2>4, Zenon
  <2> QED
    BY <2>1, <2>2, <2>4, <2>5, Zenon
<1>5. \A i \in DOMAIN ms : ms[i].exact /\ ms[i].key \in DOMAIN schema
  BY <1>4, Zenon DEF Plain!Exact
<1>6. KeysDistinct(ms, n)
  BY <1>2, <1>5, DistinctKeys, Zenon
<1>7. \A f \in KeysTo(ms, n) : w[f] = MemberValue(schema, ms, f).value
  BY <1>3, Zenon DEF MemberValues
<1>8. ASSUME NEW i \in 1..n PROVE Stores(schema, ms, w, i)
  <2>1. ms[i].key \in KeysTo(ms, n)
    BY Zenon DEF KeysTo
  <2>2. PlaceOf(ms, ms[i].key) = i
    BY <1>2, <1>6, AtIs, Zenon
  <2>3. MemberValue(schema, ms, ms[i].key) = Plain!Store(schema[ms[i].key], Plain!Zero, ms[i].val)
    BY <2>2, Zenon DEF MemberValue
  <2>4. MemberValue(schema, ms, ms[i].key).ok /\ w[ms[i].key] = MemberValue(schema, ms, ms[i].key).value
    BY <1>4, <1>7, <2>1, Zenon
  <2> QED
    BY <1>2, <1>5, <2>3, <2>4, Zenon DEF Stores
<1>9. Plain!Fill(schema, Plain!Zeros(schema), ms) = Plain!Made(FilledTo(DOMAIN schema, w, ms, n))
  BY <1>1, <1>6, <1>8, FillIs
<1>10. FilledTo(DOMAIN schema, w, ms, n) = [f \in DOMAIN schema |-> IF f \in KeysTo(ms, n) THEN MemberValue(schema, ms, f).value ELSE Plain!Zero]
  <2>1. \A f \in DOMAIN schema : (IF f \in KeysTo(ms, n) THEN w[f] ELSE Plain!Zero)
                                   = (IF f \in KeysTo(ms, n) THEN MemberValue(schema, ms, f).value ELSE Plain!Zero)
    BY <1>7, Zenon
  <2> QED
    BY <2>1, Zenon DEF FilledTo
<1> QED
  BY <1>4, <1>9, <1>10, Zenon

-----------------------------------------------------------------------------
\* A value that is null, an object or a list into a field with a struct.
Rich == AnyLeaf \cup AnyObject \cup AnyListed

Whole(x, from, inner) ==
  IF x.form = "object" THEN Plain!Object(Plain!Fill(inner, from, x.in))
  ELSE IF x.form = "null" THEN Plain!Made(Plain!Val("object", "", from)) ELSE Plain!Failed
EachOf(v, inner) == [i \in DOMAIN v.in |-> IF v.in[i].form = "object" THEN Plain!Object(Plain!Members(inner, v.in[i].in)) ELSE Plain!Failed]
AllOf(v, inner) == [i \in DOMAIN v.in |-> Whole(v.in[i], Plain!Zeros(inner), inner)]
ListMade(all) ==
  IF \A i \in DOMAIN all : all[i].ok THEN Plain!Made(Plain!Val("list", "", [i \in DOMAIN all |-> all[i].value])) ELSE Plain!Failed

LEMMA ObjectOk == ASSUME NEW filled, Plain!Object(filled).ok PROVE filled.ok
BY FailedIs, Zenon DEF Plain!Object

LEMMA ObjectOf ==
  ASSUME NEW V, NEW ms \in Seq(AnyMember(V)), ~Plain!Repeats(ms), NEW schema, Plain!Object(Plain!Members(schema, ms)).ok
  PROVE  Plain!Object(Plain!Fill(schema, Plain!Zeros(schema), ms)) = Plain!Object(Plain!Members(schema, ms))
<1>1. Plain!Members(schema, ms).ok
  BY ObjectOk, Zenon
<1>2. Plain!Fill(schema, Plain!Zeros(schema), ms) = Plain!Members(schema, ms)
  BY <1>1, MembersIs, Zenon
<1> QED
  BY <1>2, Zenon

LEMMA RichObject ==
  ASSUME NEW v \in Rich, v.form = "object" PROVE v.in \in Seq(AnyMember(AnyLeaf))
<1>1. \A x \in AnyLeaf : x.in = <<>>
  BY DEF AnyLeaf, AnyValue
<1>2. <<>> \in Seq(AnyMember(AnyLeaf))
  OBVIOUS
<1>3. \A x \in AnyObject : x.in \in Seq(AnyMember(AnyLeaf))
  BY DEF AnyObject
<1>4. \A x \in AnyListed : x.form = "list"
  BY DEF AnyListed
<1>5. "list" # "object"
  OBVIOUS
<1> QED
  BY <1>1, <1>2, <1>3, <1>4, <1>5, Zenon DEF Rich

LEMMA RichList ==
  ASSUME NEW v \in Rich, v.form = "list", NEW i \in DOMAIN v.in PROVE v.in[i] \in Rich
<1>1. \A x \in AnyLeaf : x.in = <<>>
  BY DEF AnyLeaf, AnyValue
<1>2. DOMAIN <<>> = {}
  OBVIOUS
<1>3. \A x \in AnyObject : x.form = "object"
  BY DEF AnyObject
<1>4. \A x \in AnyListed : x.in \in Seq(AnyLeaf \cup AnyObject)
  BY DEF AnyListed
<1>5. "list" # "object"
  OBVIOUS
<1>6. v \in AnyListed
  BY <1>1, <1>2, <1>3, <1>5, Zenon DEF Rich
<1>7. PICK s \in Seq(AnyLeaf \cup AnyObject) : s = v.in
  BY <1>4, <1>6
<1>8. \A j \in DOMAIN s : s[j] \in AnyLeaf \cup AnyObject
  OBVIOUS
<1> QED
  BY <1>7, <1>8, Zenon DEF Rich

LEMMA NestedNull ==
  ASSUME NEW type, type # "struct", NEW old, NEW v, v.form = "null", NEW inner PROVE Plain!StoreNested(type, old, v, inner) = Plain!Made(Plain!Zero)
BY Zenon DEF Plain!StoreNested

LEMMA NestedList ==
  ASSUME NEW old, NEW v, v.form = "list", NEW inner PROVE Plain!StoreNested("records", old, v, inner) = ListMade(AllOf(v, inner))
<1>1. "list" # "null" /\ "list" # "object"
  OBVIOUS
<1> QED
  BY <1>1, Zenon DEF Plain!StoreNested, ListMade, AllOf, Whole

LEMMA NestedObject ==
  ASSUME NEW type, type # "records", NEW v, v.form = "object", NEW inner
  PROVE  Plain!StoreNested(type, Plain!Zero, v, inner) = Plain!Object(Plain!Fill(inner, Plain!Zeros(inner), v.in))
<1>1. "object" # "null" /\ "object" # "list"
  OBVIOUS
<1> QED
  BY <1>1, Zenon DEF Plain!StoreNested

LEMMA DescendIs ==
  ASSUME NEW type, Plain!Nested(type), NEW v, NEW inner, Plain!Descend(type, v, inner).ok
  PROVE  \/ type = "strict" /\ Plain!Descend(type, v, inner) = Plain!StoreNested(type, Plain!Zero, v, inner)
         \/ type = "records" /\ v.form = "null" /\ Plain!Descend(type, v, inner) = Plain!Made(Plain!Zero)
         \/ type = "records" /\ v.form = "list" /\ Plain!Descend(type, v, inner) = ListMade(EachOf(v, inner))
         \/ type \in {"pointer", "struct"} /\ v.form = "object" /\ Plain!Descend(type, v, inner) = Plain!Object(Plain!Members(inner, v.in))
<1>1. "strict" # "records" /\ "strict" # "pointer" /\ "strict" # "struct" /\ "records" # "pointer" /\ "records" # "struct" /\ "null" # "list"
  OBVIOUS
<1>2. CASE type = "strict"
  BY <1>1, <1>2, Zenon DEF Plain!Descend
<1>3. CASE type = "records" /\ v.form = "null"
  BY <1>1, <1>3, Zenon DEF Plain!Descend
<1>4. CASE type = "records" /\ v.form = "list"
  BY <1>1, <1>4, Zenon DEF Plain!Descend, ListMade, EachOf
<1>5. CASE type \in {"pointer", "struct"} /\ v.form = "object"
  BY <1>1, <1>5, Zenon DEF Plain!Descend
<1>6. CASE ~(type = "strict") /\ ~(type = "records" /\ v.form = "null") /\ ~(type = "records" /\ v.form = "list") /\ ~(type \in {"pointer", "struct"} /\ v.form = "object")
  <2>1. Plain!Descend(type, v, inner) = Plain!Failed
    BY <1>6, Zenon DEF Plain!Descend
  <2> QED
    BY <2>1, FailedIs, Zenon
<1> QED
  BY <1>2, <1>3, <1>4, <1>5, <1>6, Zenon

LEMMA EachIsAll ==
  ASSUME NEW v \in Rich, v.form = "list", NEW inner, \A o \in Plain!ObjectsIn(v) : ~Plain!Repeats(o), ListMade(EachOf(v, inner)).ok
  PROVE  EachOf(v, inner) = AllOf(v, inner)
<1>1. PICK e : e = EachOf(v, inner)
  OBVIOUS
<1>2. DOMAIN e = DOMAIN v.in
  BY <1>1, Zenon DEF EachOf
<1>3. \A i \in DOMAIN e : e[i].ok
  BY <1>1, FailedIs, Zenon DEF ListMade
<1>4. ASSUME NEW i \in DOMAIN v.in
      PROVE  (IF v.in[i].form = "object" THEN Plain!Object(Plain!Members(inner, v.in[i].in)) ELSE Plain!Failed) = Whole(v.in[i], Plain!Zeros(inner), inner)
  <2>1. e[i] = IF v.in[i].form = "object" THEN Plain!Object(Plain!Members(inner, v.in[i].in)) ELSE Plain!Failed
    BY <1>1, Zenon DEF EachOf
  <2>2. e[i].ok
    BY <1>2, <1>3, Zenon
  <2>3. v.in[i].form = "object"
    BY <2>1, <2>2, FailedIs, Zenon
  <2>4. Plain!Object(Plain!Members(inner, v.in[i].in)).ok
    BY <2>1, <2>2, <2>3, Zenon
  <2>5. v.in[i].in \in Seq(AnyMember(AnyLeaf))
    BY <2>3, RichList, RichObject, Zenon
  <2>6. ~Plain!Repeats(v.in[i].in)
    <3>1. "list" # "object"
      OBVIOUS
    <3>2. Plain!ObjectsIn(v) = {v.in[k].in : k \in {j \in DOMAIN v.in : v.in[j].form = "object"}}
      BY <3>1, Zenon DEF Plain!ObjectsIn
    <3>3. v.in[i].in \in Plain!ObjectsIn(v)
      BY <2>3, <3>2, Zenon
    <3> QED
      BY <3>3, Zenon
  <2>7. Plain!Object(Plain!Fill(inner, Plain!Zeros(inner), v.in[i].in)) = Plain!Object(Plain!Members(inner, v.in[i].in))
    BY <2>4, <2>5, <2>6, ObjectOf, Zenon
  <2> QED
    BY <2>3, <2>7, Zenon DEF Whole
<1> QED
  BY <1>4, Zenon DEF EachOf, AllOf

\* A member with a struct is decoded on its own as encoding/json decodes it.
LEMMA DescendStores ==
  ASSUME NEW type, Plain!Nested(type), NEW v \in Rich, NEW inner, \A o \in Plain!ObjectsIn(v) : ~Plain!Repeats(o), Plain!Descend(type, v, inner).ok
  PROVE  Plain!StoreNested(type, Plain!Zero, v, inner) = Plain!Descend(type, v, inner)
<1>1. CASE type = "strict" /\ Plain!Descend(type, v, inner) = Plain!StoreNested(type, Plain!Zero, v, inner)
  BY <1>1, Zenon
<1>2. CASE type = "records" /\ v.form = "null" /\ Plain!Descend(type, v, inner) = Plain!Made(Plain!Zero)
  <2>1. "records" # "struct"
    OBVIOUS
  <2> QED
    BY <1>2, <2>1, NestedNull, Zenon
<1>3. CASE type = "records" /\ v.form = "list" /\ Plain!Descend(type, v, inner) = ListMade(EachOf(v, inner))
  <2>1. ListMade(EachOf(v, inner)).ok
    BY <1>3, Zenon
  <2>2. EachOf(v, inner) = AllOf(v, inner)
    BY <1>3, <2>1, EachIsAll, Zenon
  <2>3. Plain!StoreNested(type, Plain!Zero, v, inner) = ListMade(AllOf(v, inner))
    BY <1>3, NestedList, Zenon
  <2> QED
    BY <1>3, <2>2, <2>3, Zenon
<1>4. CASE type \in {"pointer", "struct"} /\ v.form = "object" /\ Plain!Descend(type, v, inner) = Plain!Object(Plain!Members(inner, v.in))
  <2>1. type # "records"
    BY <1>4
  <2>2. Plain!StoreNested(type, Plain!Zero, v, inner) = Plain!Object(Plain!Fill(inner, Plain!Zeros(inner), v.in))
    BY <1>4, <2>1, NestedObject, Zenon
  <2>3. v.in \in Seq(AnyMember(AnyLeaf))
    BY <1>4, RichObject, Zenon
  <2>4. v.in \in Plain!ObjectsIn(v)
    BY <1>4, Zenon DEF Plain!ObjectsIn
  <2>5. ~Plain!Repeats(v.in) /\ Plain!Object(Plain!Members(inner, v.in)).ok
    BY <1>4, <2>4, Zenon
  <2>6. Plain!Object(Plain!Fill(inner, Plain!Zeros(inner), v.in)) = Plain!Object(Plain!Members(inner, v.in))
    BY <2>3, <2>5, ObjectOf, Zenon
  <2> QED
    BY <1>4, <2>2, <2>6, Zenon
<1> QED
  BY <1>1, <1>2, <1>3, <1>4, DescendIs, Zenon

-----------------------------------------------------------------------------
(***************************************************************************)
(* Decoders: the one pass against the struct decode.                       *)
(***************************************************************************)
StoredInto(shape, f, old, v) ==
  IF Plain!Nested(Plain!Outer(shape)[f]) THEN Plain!StoreNested(Plain!Outer(shape)[f], old, v, Plain!Inner(shape))
  ELSE Plain!Store(Plain!Outer(shape)[f], old, v)
OuterStep(shape, lenient, acc, m) ==
  IF ~acc.ok THEN acc
  ELSE IF m.key \notin DOMAIN Plain!Outer(shape) THEN IF lenient THEN acc ELSE Plain!Failed
  ELSE LET stored == StoredInto(shape, m.key, acc.value[m.key], m.val)
       IN IF stored.ok THEN Plain!Made([acc.value EXCEPT ![m.key] = stored.value]) ELSE Plain!Failed
UnmarshalStep(shape, lenient, ms, g, i) ==
  IF i = 0 THEN Plain!Made(Plain!Zeros(Plain!Outer(shape))) ELSE OuterStep(shape, lenient, g[i - 1], ms[i])
UnmarshalFn(g, shape, lenient, ms, n) == g = [i \in 0..n |-> UnmarshalStep(shape, lenient, ms, g, i)]

LEMMA OuterStepIs ==
  ASSUME NEW shape, NEW lenient, NEW x, NEW m, m.key \in DOMAIN Plain!Outer(shape),
         NEW s, s = StoredInto(shape, m.key, x[m.key], m.val), s.ok
  PROVE  OuterStep(shape, lenient, Plain!Made(x), m) = Plain!Made(With(x, m.key, s.value))
<1>1. PICK acc : acc = Plain!Made(x)
  OBVIOUS
<1>2. acc.ok /\ acc.value = x
  BY <1>1, MadeIs, Zenon
<1>3. OuterStep(shape, lenient, acc, m) = Plain!Made(With(x, m.key, s.value))
  BY <1>2, Zenon DEF OuterStep, With
<1> QED
  BY <1>1, <1>3, Zenon

OuterStores(shape, ms, w, i) ==
  LET s == StoredInto(shape, ms[i].key, Plain!Zero, ms[i].val)
  IN ms[i].key \in DOMAIN Plain!Outer(shape) /\ s.ok /\ s.value = w[ms[i].key]

LEMMA UnmarshalGoesOn ==
  ASSUME NEW shape, NEW lenient, NEW w, NEW ms, NEW n \in Nat, KeysDistinct(ms, n), NEW i \in 1..n, OuterStores(shape, ms, w, i)
  PROVE  OuterStep(shape, lenient, Plain!Made(FilledTo(DOMAIN Plain!Outer(shape), w, ms, i - 1)), ms[i])
           = Plain!Made(FilledTo(DOMAIN Plain!Outer(shape), w, ms, i))
<1>0. PICK D : D = DOMAIN Plain!Outer(shape)
  OBVIOUS
<1>1. PICK x : x = FilledTo(D, w, ms, i - 1)
  OBVIOUS
<1>2. PICK k : k = ms[i].key
  OBVIOUS
<1>3. PICK s : s = StoredInto(shape, k, Plain!Zero, ms[i].val)
  OBVIOUS
<1>4. k \in D /\ s.ok /\ s.value = w[k]
  BY <1>0, <1>2, <1>3, Zenon DEF OuterStores
<1>5. k \notin KeysTo(ms, i - 1)
  BY <1>2, Zenon DEF KeysDistinct
<1>6. x[k] = Plain!Zero
  BY <1>1, <1>4, <1>5, FilledFresh, Zenon
<1>7. OuterStep(shape, lenient, Plain!Made(x), ms[i]) = Plain!Made(With(x, k, s.value))
  <2>1. s = StoredInto(shape, ms[i].key, x[ms[i].key], ms[i].val) /\ ms[i].key \in DOMAIN Plain!Outer(shape) /\ s.ok
    BY <1>0, <1>2, <1>3, <1>4, <1>6, Zenon
  <2>2. OuterStep(shape, lenient, Plain!Made(x), ms[i]) = Plain!Made(With(x, ms[i].key, s.value))
    BY <2>1, OuterStepIs
  <2> QED
    BY <1>2, <2>2, Zenon
<1>8. With(x, k, w[k]) = FilledTo(D, w, ms, i)
  BY <1>1, <1>2, <1>4, FilledNext, Zenon
<1> QED
  BY <1>0, <1>1, <1>4, <1>7, <1>8, Zenon

FilledStruct(shape, w, ms, i) == Plain!Made(FilledTo(DOMAIN Plain!Outer(shape), w, ms, i))

LEMMA UnmarshalGoesOnFilled ==
  ASSUME NEW shape, NEW lenient, NEW w, NEW ms, NEW n \in Nat, KeysDistinct(ms, n), NEW i \in 1..n, OuterStores(shape, ms, w, i)
  PROVE  OuterStep(shape, lenient, FilledStruct(shape, w, ms, i - 1), ms[i]) = FilledStruct(shape, w, ms, i)
BY UnmarshalGoesOn, Zenon DEF FilledStruct

LEMMA UnmarshalIs ==
  ASSUME NEW shape, NEW lenient, NEW w, NEW A, NEW ms \in Seq(A), NEW n \in Nat, n = Len(ms), KeysDistinct(ms, n),
         \A i \in 1..n : OuterStores(shape, ms, w, i)
  PROVE  Plain!Unmarshal(shape, ms, lenient) = Plain!Made(FilledTo(DOMAIN Plain!Outer(shape), w, ms, n))
<1>1. PICK D : D = DOMAIN Plain!Outer(shape)
  OBVIOUS
<1>2. PICK c : c = [i \in 0..n |-> Plain!Made(FilledTo(D, w, ms, i))]
  OBVIOUS
<1>3. \A i \in 0..n : c[i] = Plain!Made(FilledTo(D, w, ms, i))
  BY <1>2, Zenon
<1>4. \A i \in 0..n : i = 0 \/ (i \in 1..n /\ i - 1 \in 0..n)
  OBVIOUS
<1>5. ASSUME NEW i \in 0..n, NEW g, i # 0 => g[i - 1] = Plain!Made(FilledTo(D, w, ms, i - 1))
      PROVE  UnmarshalStep(shape, lenient, ms, g, i) = Plain!Made(FilledTo(D, w, ms, i))
  <2>1. CASE i = 0
    <3>1. UnmarshalStep(shape, lenient, ms, g, i) = Plain!Made(Plain!Zeros(Plain!Outer(shape)))
      BY <2>1, Zenon DEF UnmarshalStep
    <3>2. Plain!Zeros(Plain!Outer(shape)) = FilledTo(D, w, ms, i)
      BY <1>1, <2>1, FilledStarts, Zenon
    <3> QED
      BY <3>1, <3>2, Zenon
  <2>2. CASE i # 0
    <3>1. i \in 1..n
      BY <1>4, <2>2, Zenon
    <3>2. UnmarshalStep(shape, lenient, ms, g, i) = OuterStep(shape, lenient, Plain!Made(FilledTo(D, w, ms, i - 1)), ms[i])
      BY <1>5, <2>2, Zenon DEF UnmarshalStep
    <3>3. OuterStores(shape, ms, w, i)
      BY <3>1, Zenon
    <3>4. OuterStep(shape, lenient, FilledStruct(shape, w, ms, i - 1), ms[i]) = FilledStruct(shape, w, ms, i)
      BY <3>1, <3>3, UnmarshalGoesOnFilled, ZenonT(60)
    <3>5. OuterStep(shape, lenient, Plain!Made(FilledTo(D, w, ms, i - 1)), ms[i]) = Plain!Made(FilledTo(D, w, ms, i))
      BY <1>1, <3>4, Zenon DEF FilledStruct
    <3> QED
      BY <3>2, <3>5, Zenon
  <2> QED
    BY <2>1, <2>2
<1>6. UnmarshalFn(c, shape, lenient, ms, n)
  <2>1. \A i \in 0..n : UnmarshalStep(shape, lenient, ms, c, i) = Plain!Made(FilledTo(D, w, ms, i))
    BY <1>3, <1>4, <1>5, Zenon
  <2> QED
    BY <1>2, <2>1, Zenon DEF UnmarshalFn
<1>7. PICK k : k = CHOOSE f : UnmarshalFn(f, shape, lenient, ms, n)
  OBVIOUS
<1>8. UnmarshalFn(k, shape, lenient, ms, n)
  BY <1>6, <1>7, Zenon
<1>9. \A i \in 0..n : k[i] = UnmarshalStep(shape, lenient, ms, k, i)
  BY <1>8, Zenon DEF UnmarshalFn
<1> DEFINE T == {i \in 0..n : k[i] = Plain!Made(FilledTo(D, w, ms, i))}
<1>10. 0 \in T
  <2>1. 0 \in 0..n
    OBVIOUS
  <2> QED
    BY <1>5, <1>9, <2>1, Zenon
<1>11. ASSUME NEW i \in 0..(n - 1), i \in T PROVE i + 1 \in T
  <2>1. i + 1 \in 0..n /\ (i + 1) - 1 = i
    OBVIOUS
  <2>2. k[i] = Plain!Made(FilledTo(D, w, ms, i))
    BY <1>11, Zenon
  <2> QED
    BY <1>5, <1>9, <2>1, <2>2, Zenon
<1>12. 0..n \subseteq T
  <2> HIDE DEF T
  <2>1. 0 \in Int /\ n \in Int
    OBVIOUS
  <2>2. \A i \in 0..(n - 1) : i \in T => i + 1 \in T
    BY <1>11, Zenon
  <2> QED
    BY <1>10, <2>1, <2>2, IntervalUp, Zenon
<1>13. k[n] = Plain!Made(FilledTo(D, w, ms, n))
  <2>1. n \in 0..n
    OBVIOUS
  <2> QED
    BY <1>12, <2>1, Zenon
<1>14. PICK h : h = CHOOSE f : UnmarshalFn(f, shape, lenient, ms, Len(ms))
  OBVIOUS
<1>15. Plain!Unmarshal(shape, ms, lenient) = h[Len(ms)]
  BY <1>14, Zenon DEF Plain!Unmarshal, UnmarshalFn, UnmarshalStep, OuterStep, StoredInto
<1>16. h = k
  BY <1>7, <1>14, Zenon
<1> QED
  BY <1>1, <1>13, <1>15, <1>16, Zenon

-----------------------------------------------------------------------------
FastValue(shape, ms, f) ==
  IF Plain!Nested(Plain!Outer(shape)[f]) THEN Plain!Descend(Plain!Outer(shape)[f], ms[PlaceOf(ms, f)].val, Plain!Inner(shape))
  ELSE Plain!Store(Plain!Outer(shape)[f], Plain!Zero, ms[PlaceOf(ms, f)].val)
FastValues(shape, ms) == [f \in Keys(ms) |-> FastValue(shape, ms, f).value]
FastStruct(shape, ms) == [f \in DOMAIN Plain!Outer(shape) |-> IF f \in Keys(ms) THEN FastValue(shape, ms, f).value ELSE Plain!Zero]

LEMMA FastIs ==
  ASSUME NEW d, Plain!Fast(d).ok
  PROVE  /\ Plain!Scanned(d) /\ Plain!Exact(Plain!Outer(d.shape), d.members)
         /\ \A f \in Keys(d.members) : FastValue(d.shape, d.members, f).ok
         /\ Plain!Fast(d) = Plain!Made(FastStruct(d.shape, d.members))
<1>1. Plain!Fast(d) = IF Plain!Scanned(d) /\ Plain!Exact(Plain!Outer(d.shape), d.members) /\ \A f \in Keys(d.members) : FastValue(d.shape, d.members, f).ok
                      THEN Plain!Made(FastStruct(d.shape, d.members)) ELSE Plain!Failed
  BY Zenon DEF Plain!Fast, Keys, FastValue, FastStruct, PlaceOf
<1> QED
  BY <1>1, FailedIs, Zenon

\* What the one-pass decoder answers is what encoding/json makes of it.
LEMMA FastIsStrict == ASSUME NEW d \in AnyDocument, Plain!Fast(d).ok PROVE Plain!Fast(d) = Plain!Strict(d)
<1>1. PICK ms \in Seq(AnyMember(Rich)) : ms = d.members
  BY DEF AnyDocument, Rich
<1>2. PICK shape : shape = d.shape
  OBVIOUS
<1>3. PICK n \in Nat : n = Len(ms)
  OBVIOUS
<1>4. DOMAIN ms = 1..n
  BY <1>3
<1>5. PICK w : w = FastValues(shape, ms)
  OBVIOUS
<1>6. /\ Plain!Scanned(d) /\ Plain!Exact(Plain!Outer(shape), ms)
      /\ \A f \in Keys(ms) : FastValue(shape, ms, f).ok
      /\ Plain!Fast(d) = Plain!Made(FastStruct(shape, ms))
  BY <1>1, <1>2, FastIs, Zenon
<1>7. ~d.trailing /\ ~Plain!Duplicates(d)
  BY <1>6, Zenon DEF Plain!Scanned
<1>8. ~Plain!Repeats(ms) /\ \A i \in DOMAIN ms : \A o \in Plain!ObjectsIn(ms[i].val) : ~Plain!Repeats(o)
  BY <1>1, <1>7, Zenon DEF Plain!Duplicates
<1>9. \A i \in DOMAIN ms : ms[i].exact /\ ms[i].key \in DOMAIN Plain!Outer(shape)
  BY <1>6, Zenon DEF Plain!Exact
<1>10. KeysDistinct(ms, n)
  BY <1>4, <1>8, <1>9, DistinctKeys, Zenon
<1>11. \A f \in Keys(ms) : w[f] = FastValue(shape, ms, f).value
  BY <1>5, Zenon DEF FastValues
<1>12. ASSUME NEW i \in 1..n PROVE OuterStores(shape, ms, w, i)
  <2>1. ms[i].key \in Keys(ms)
    BY <1>4, Zenon DEF Keys
  <2>2. PlaceOf(ms, ms[i].key) = i
    BY <1>4, <1>10, AtIs, Zenon
  <2>3. PICK f : f = ms[i].key
    OBVIOUS
  <2>4. PICK v \in Rich : v = ms[i].val
    BY <1>4, MemberTypes, Zenon
  <2>5. PICK type : type = Plain!Outer(shape)[f]
    OBVIOUS
  <2>6. FastValue(shape, ms, f).ok /\ w[f] = FastValue(shape, ms, f).value
    BY <1>6, <1>11, <2>1, <2>3, Zenon
  <2>7. FastValue(shape, ms, f) = StoredInto(shape, f, Plain!Zero, v)
    <3>1. CASE Plain!Nested(type)
      <4>1. FastValue(shape, ms, f) = Plain!Descend(type, v, Plain!Inner(shape))
        BY <2>2, <2>3, <2>4, <2>5, <3>1, Zenon DEF FastValue
      <4>2. Plain!Descend(type, v, Plain!Inner(shape)).ok
        BY <2>6, <4>1, Zenon
      <4>3. \A o \in Plain!ObjectsIn(v) : ~Plain!Repeats(o)
        BY <1>4, <1>8, <2>4, Zenon
      <4>4. Plain!StoreNested(type, Plain!Zero, v, Plain!Inner(shape)) = Plain!Descend(type, v, Plain!Inner(shape))
        BY <3>1, <4>2, <4>3, DescendStores, Zenon
      <4> QED
        BY <2>5, <3>1, <4>1, <4>4, Zenon DEF StoredInto
    <3>2. CASE ~Plain!Nested(type)
      BY <2>2, <2>3, <2>4, <2>5, <3>2, Zenon DEF FastValue, StoredInto
    <3> QED
      BY <3>1, <3>2
  <2> QED
    BY <1>4, <1>9, <2>3, <2>4, <2>6, <2>7, Zenon DEF OuterStores
<1>13. PICK lenient : lenient = (shape = "call")
  OBVIOUS
<1>14. Plain!Unmarshal(shape, ms, lenient) = Plain!Made(FilledTo(DOMAIN Plain!Outer(shape), w, ms, n))
  BY <1>3, <1>10, <1>12, UnmarshalIs
<1>15. Keys(ms) = KeysTo(ms, n)
  BY <1>4, Zenon DEF Keys, KeysTo
<1>16. FilledTo(DOMAIN Plain!Outer(shape), w, ms, n) = FastStruct(shape, ms)
  <2>1. \A f \in DOMAIN Plain!Outer(shape) : (IF f \in KeysTo(ms, n) THEN w[f] ELSE Plain!Zero)
                                               = (IF f \in Keys(ms) THEN FastValue(shape, ms, f).value ELSE Plain!Zero)
    BY <1>11, <1>15, Zenon
  <2> QED
    BY <2>1, Zenon DEF FilledTo, FastStruct
<1>17. Plain!Strict(d) = Plain!Unmarshal(shape, ms, lenient)
  BY <1>1, <1>2, <1>7, <1>13, Zenon DEF Plain!Strict
<1> QED
  BY <1>6, <1>14, <1>16, <1>17, Zenon

LEMMA DecodeIsStrict == ASSUME NEW d \in AnyDocument PROVE Plain!Decode(d) = Plain!Strict(d)
BY FastIsStrict, Zenon DEF Plain!Decode

-----------------------------------------------------------------------------
(***************************************************************************)
(* String literals: unit by unit.                                          *)
(***************************************************************************)
Told(text) == [ok |-> TRUE, text |-> text]
Ahead(rest, w) == IF rest.ok THEN [rest EXCEPT !.text = <<w>> \o @] ELSE Literal!Refused
Bad(unit) == unit \in {"quote", "ctrl", "odd", "short", "last"}
JoinedAt(units, i) == i \in DOMAIN units /\ i + 1 \in DOMAIN units /\ units[i] = "high" /\ units[i + 1] = "low"
MeansAt(units, i) ==
  CASE JoinedAt(units, i) -> <<"pair">>
    [] JoinedAt(units, i - 1) -> <<>>
    [] units[i] \in {"high", "low", "invalid"} /\ ~JoinedAt(units, i) /\ ~JoinedAt(units, i - 1) -> <<Literal!Replacement>>
    [] OTHER -> <<units[i]>>
MeansStep(units, n, g, i) == IF i > n THEN <<>> ELSE MeansAt(units, i) \o g[i + 1]
MeansFn(g, units, n) == g = [i \in 1..(n + 1) |-> MeansStep(units, n, g, i)]
StringStep(units, n, g, i) ==
  IF i > n THEN Told(<<>>)
  ELSE IF Bad(units[i]) THEN Literal!Refused
  ELSE Ahead(g[i + Literal!Consumed(units, i)], Literal!Written(units, i))
StringFn(g, units, n) == g = [i \in 1..(n + 2) |-> StringStep(units, n, g, i)]

Texts == Literal!Units \cup {"pair", Literal!Replacement}

LEMMA AheadIs ==
  ASSUME NEW w, NEW text PROVE /\ Ahead(Told(text), w) = Told(<<w>> \o text)
                               /\ Ahead(Literal!Refused, w) = Literal!Refused
<1>1. PICK r : r = Told(text)
  OBVIOUS
<1>2. r.ok /\ [r EXCEPT !.text = <<w>> \o @] = [ok |-> TRUE, text |-> <<w>> \o text]
  <2>1. PICK b \in BOOLEAN : b = TRUE
    OBVIOUS
  <2>2. PICK t : t = <<w>> \o text
    OBVIOUS
  <2>3. r = [ok |-> b, text |-> text]
    BY <1>1, <2>1, Zenon DEF Told
  <2>4. r.ok = b /\ r.text = text /\ [r EXCEPT !.text = t] = [ok |-> b, text |-> t]
    BY <2>3, SMT
  <2> QED
    BY <2>1, <2>2, <2>4, Zenon
<1>3. Ahead(r, w) = Told(<<w>> \o text)
  BY <1>2, Zenon DEF Ahead, Told
<1>4. ~Literal!Refused.ok
  BY DEF Literal!Refused
<1>5. Ahead(Literal!Refused, w) = Literal!Refused
  BY <1>4, Zenon DEF Ahead
<1> QED
  BY <1>1, <1>3, <1>5, Zenon

\* What a step of each takes and writes.
LEMMA PairIs ==
  ASSUME NEW units \in Seq(Literal!Units), NEW n \in Nat, DOMAIN units = 1..n, NEW i \in 1..n
  PROVE  /\ JoinedAt(units, i) => /\ i + 1 \in 1..n /\ ~JoinedAt(units, i - 1) /\ ~JoinedAt(units, i + 1)
                                  /\ ~Bad(units[i]) /\ ~Bad(units[i + 1])
         /\ ~JoinedAt(units, 0)
<1>1. ASSUME JoinedAt(units, i) PROVE i + 1 \in 1..n /\ units[i] = "high" /\ units[i + 1] = "low"
  BY <1>1 DEF JoinedAt
<1>2. ~JoinedAt(units, 0)
  BY DEF JoinedAt
<1>3. (i - 1) + 1 = i
  OBVIOUS
<1>4. ASSUME JoinedAt(units, i) PROVE ~JoinedAt(units, i - 1) /\ ~JoinedAt(units, i + 1)
  BY <1>1, <1>3, <1>4, SMT DEF JoinedAt
<1>5. ASSUME JoinedAt(units, i) PROVE ~Bad(units[i]) /\ ~Bad(units[i + 1])
  BY <1>1, <1>5, SMT DEF Bad
<1> QED
  BY <1>1, <1>2, <1>4, <1>5, Zenon

LEMMA MeansIs ==
  ASSUME NEW units \in Seq(Literal!Units), NEW n \in Nat, DOMAIN units = 1..n, NEW i \in 1..n
  PROVE  /\ JoinedAt(units, i) => MeansAt(units, i) = <<"pair">> /\ MeansAt(units, i + 1) = <<>>
         /\ ~JoinedAt(units, i) /\ JoinedAt(units, i - 1) => MeansAt(units, i) = <<>> /\ Literal!Written(units, i) = Literal!Replacement
         /\ ~JoinedAt(units, i) /\ ~JoinedAt(units, i - 1) => MeansAt(units, i) = <<Literal!Written(units, i)>>
         /\ ~JoinedAt(units, i) => Literal!Consumed(units, i) = 1
         /\ JoinedAt(units, i) => Literal!Consumed(units, i) = 2 /\ Literal!Written(units, i) = "pair"
         /\ Literal!Written(units, i) \in Texts
<1>0. units[i] \in Literal!Units
  OBVIOUS
<1>00. (i + 1) - 1 = i /\ (i - 1) + 1 = i
  OBVIOUS
<1>1. ASSUME JoinedAt(units, i) PROVE MeansAt(units, i) = <<"pair">> /\ MeansAt(units, i + 1) = <<>>
  <2>1. ~JoinedAt(units, i - 1) /\ ~JoinedAt(units, i + 1)
    BY <1>1, PairIs, Zenon
  <2>2. JoinedAt(units, (i + 1) - 1)
    BY <1>00, <1>1, Zenon
  <2> QED
    BY <1>1, <2>1, <2>2 DEF MeansAt
<1>2. PICK h : h = Literal!Hex4(units, i + 1)
  OBVIOUS
<1>3. PICK u \in Literal!Units : u = units[i]
  BY <1>0
<1>4. JoinedAt(units, i) <=> u = "high" /\ h = "low"
  BY <1>2, <1>3, SMT DEF JoinedAt, Literal!Hex4
<1>5. JoinedAt(units, i - 1) => u = "low"
  BY <1>00, <1>3, Zenon DEF JoinedAt
<1>6. PICK r : r = Literal!DecodeRune(u, h)
  OBVIOUS
<1>7. r = IF u = "high" /\ h = "low" THEN "pair" ELSE "U+FFFD"
  BY <1>6, Zenon DEF Literal!DecodeRune, Literal!Replacement
<1>8. Literal!Consumed(units, i) = IF u \in {"high", "low"} /\ r # "U+FFFD" THEN 2 ELSE 1
  BY <1>2, <1>3, <1>6, Zenon DEF Literal!Consumed, Literal!Replacement
<1>9. Literal!Written(units, i) = CASE u \in {"high", "low"} -> r [] u = "invalid" -> "U+FFFD" [] OTHER -> u
  BY <1>2, <1>3, <1>6, Zenon DEF Literal!Written, Literal!Replacement
<1>10. ~JoinedAt(units, i) => Literal!Consumed(units, i) = 1
  BY <1>4, <1>7, <1>8, SMT
<1>11. JoinedAt(units, i) => Literal!Consumed(units, i) = 2 /\ Literal!Written(units, i) = "pair"
  BY <1>4, <1>7, <1>8, <1>9, SMT
<1>12. ASSUME ~JoinedAt(units, i), JoinedAt(units, i - 1) PROVE MeansAt(units, i) = <<>> /\ Literal!Written(units, i) = Literal!Replacement
  <2>1. MeansAt(units, i) = <<>>
    BY <1>12 DEF MeansAt
  <2>2. Literal!Written(units, i) = "U+FFFD"
    BY <1>4, <1>5, <1>7, <1>9, <1>12, SMT
  <2> QED
    BY <2>1, <2>2, Zenon DEF Literal!Replacement
<1>13. ASSUME ~JoinedAt(units, i), ~JoinedAt(units, i - 1) PROVE MeansAt(units, i) = <<Literal!Written(units, i)>>
  <2>1. CASE u \in {"high", "low", "invalid"}
    <3>1. MeansAt(units, i) = <<Literal!Replacement>>
      BY <1>3, <1>13, <2>1 DEF MeansAt
    <3>2. Literal!Written(units, i) = "U+FFFD"
      BY <1>4, <1>7, <1>9, <1>13, <2>1, SMT
    <3> QED
      BY <3>1, <3>2, Zenon DEF Literal!Replacement
  <2>2. CASE u \notin {"high", "low", "invalid"}
    <3>1. MeansAt(units, i) = <<u>>
      BY <1>3, <1>13, <2>2 DEF MeansAt
    <3>2. Literal!Written(units, i) = u
      BY <1>9, <2>2, SMT
    <3> QED
      BY <3>1, <3>2, Zenon
  <2> QED
    BY <2>1, <2>2
<1>14. Literal!Written(units, i) \in Texts
  <2>1. Literal!Written(units, i) \in {u, "pair", "U+FFFD"}
    BY <1>7, <1>9, SMT
  <2> QED
    BY <1>3, <2>1, Zenon DEF Texts, Literal!Replacement
<1> QED
  BY <1>1, <1>10, <1>11, <1>12, <1>13, <1>14, Zenon

LEMMA MeansType ==
  ASSUME NEW units \in Seq(Literal!Units), NEW n \in Nat, DOMAIN units = 1..n, NEW i \in 1..n
  PROVE  MeansAt(units, i) \in Seq(Texts)
<1>1. PICK w \in Texts : w = Literal!Written(units, i)
  BY MeansIs, Zenon
<1>2. <<w>> \in Seq(Texts) /\ <<>> \in Seq(Texts)
  OBVIOUS
<1>3. MeansAt(units, i) \in {<<w>>, <<>>}
  <2>1. CASE JoinedAt(units, i)
    BY <1>1, <2>1, MeansIs, Zenon
  <2>2. CASE ~JoinedAt(units, i) /\ JoinedAt(units, i - 1)
    BY <1>1, <2>2, MeansIs, Zenon
  <2>3. CASE ~JoinedAt(units, i) /\ ~JoinedAt(units, i - 1)
    BY <1>1, <2>3, MeansIs, Zenon
  <2> QED
    BY <2>1, <2>2, <2>3, Zenon
<1> QED
  BY <1>2, <1>3, Zenon

LEMMA MeansExists ==
  ASSUME NEW units \in Seq(Literal!Units), NEW n \in Nat, DOMAIN units = 1..n
  PROVE  \E g \in [1..(n + 1) -> Seq(Texts)] : MeansFn(g, units, n)
<1> DEFINE V == Seq(Texts)
           F == [1..(n + 1) -> V]
           next == [i \in 1..(n + 1) |-> [g \in F |-> MeansStep(units, n, g, i)]]
<1>1. ASSUME NEW i \in 1..(n + 1), NEW g \in F PROVE MeansStep(units, n, g, i) \in V
  <2>1. CASE i > n
    BY <2>1 DEF MeansStep
  <2>2. CASE ~(i > n)
    <3>1. i \in 1..n /\ g[i + 1] \in Seq(Texts)
      BY <2>2
    <3>2. PICK m \in Seq(Texts) : m = MeansAt(units, i)
      BY <3>1, MeansType, Zenon
    <3>3. MeansStep(units, n, g, i) = m \o g[i + 1]
      BY <2>2, <3>2, Zenon DEF MeansStep
    <3> QED
      BY <3>1, <3>3
  <2> QED
    BY <2>1, <2>2
<1>2. next \in [1..(n + 1) -> [F -> V]]
  BY <1>1
<1>3. ASSUME NEW i \in 1..(n + 1), NEW g \in F, NEW h \in F, \A j \in (i + 1)..(n + 1) : g[j] = h[j] PROVE next[i][g] = next[i][h]
  <2>1. i > n \/ g[i + 1] = h[i + 1]
    BY <1>3
  <2>2. MeansStep(units, n, g, i) = MeansStep(units, n, h, i)
    BY <2>1, Zenon DEF MeansStep
  <2> QED
    BY <2>2
<1>4. \A i \in 1..(n + 1) : \A g, h \in F : (\A j \in (i + 1)..(n + 1) : g[j] = h[j]) => next[i][g] = next[i][h]
  BY <1>3
<1>40. V # {}
  <2>1. <<>> \in V
    OBVIOUS
  <2> QED
    BY <2>1, Zenon
<1> HIDE DEF next, V
<1>5. PICK g \in F : \A i \in 1..(n + 1) : g[i] = next[i][g]
  <2>1. LooksDown(next, 1, n + 1, V)
    BY <1>2, <1>4, <1>40 DEF LooksDown
  <2> QED
    BY <2>1, RecursionDown
<1>6. \A i \in 1..(n + 1) : g[i] = MeansStep(units, n, g, i)
  BY <1>5 DEF next
<1>7. g = [i \in 1..(n + 1) |-> g[i]]
  OBVIOUS
<1>8. MeansFn(g, units, n)
  BY <1>6, <1>7, Zenon DEF MeansFn
<1> QED
  BY <1>8 DEF V

\* What String has made of the rest of a literal when it stands at a unit.
ToldFrom(units, n, u, i) ==
  IF i > n THEN Told(<<>>)
  ELSE IF \E j \in i..n : Bad(units[j]) THEN Literal!Refused
  ELSE IF JoinedAt(units, i - 1) THEN Told(<<Literal!Replacement>> \o u[i + 1])
  ELSE Told(u[i])

LEMMA StringGoesOn ==
  ASSUME NEW units \in Seq(Literal!Units), NEW n \in Nat, DOMAIN units = 1..n,
         NEW u \in [1..(n + 1) -> Seq(Texts)], MeansFn(u, units, n),
         NEW i \in 1..(n + 2), NEW g,
         i > n \/ (g[i + 1] = ToldFrom(units, n, u, i + 1) /\ g[i + 2] = ToldFrom(units, n, u, i + 2))
  PROVE  StringStep(units, n, g, i) = ToldFrom(units, n, u, i)
<1>1. CASE i > n
  BY <1>1, Zenon DEF StringStep, ToldFrom
<1>2. CASE ~(i > n) /\ Bad(units[i])
  <2>1. i \in i..n
    BY <1>2
  <2> QED
    BY <1>2, <2>1, Zenon DEF StringStep, ToldFrom
<1>3. \A k \in 1..(n + 1) : u[k] = MeansStep(units, n, u, k)
  BY Zenon DEF MeansFn
<1>4. u[n + 1] = <<>>
  <2>1. n + 1 \in 1..(n + 1) /\ n + 1 > n
    OBVIOUS
  <2> QED
    BY <1>3, <2>1, Zenon DEF MeansStep
<1>5. \A k \in 1..n : u[k] = MeansAt(units, k) \o u[k + 1]
  <2>1. \A k \in 1..n : k \in 1..(n + 1) /\ ~(k > n)
    OBVIOUS
  <2> QED
    BY <1>3, <2>1, Zenon DEF MeansStep
<1>6. ASSUME NEW k \in 1..(n + 1), ~JoinedAt(units, k - 1), ~\E j \in k..n : Bad(units[j]) PROVE ToldFrom(units, n, u, k) = Told(u[k])
  <2>1. CASE k > n
    <3>1. k = n + 1
      BY <2>1
    <3> QED
      BY <1>4, <2>1, <3>1, Zenon DEF ToldFrom
  <2>2. CASE ~(k > n)
    BY <1>6, <2>2, Zenon DEF ToldFrom
  <2> QED
    BY <2>1, <2>2
<1>7. ASSUME NEW k \in 1..(n + 2), \E j \in k..n : Bad(units[j]) PROVE ToldFrom(units, n, u, k) = Literal!Refused
  <2>1. ~(k > n)
    BY <1>7
  <2> QED
    BY <1>7, <2>1, Zenon DEF ToldFrom
<1>8. CASE ~(i > n) /\ ~Bad(units[i]) /\ JoinedAt(units, i)
  <2>1. i \in 1..n /\ i + 1 \in 1..n /\ i + 2 \in 1..(n + 2)
    BY <1>8 DEF JoinedAt
  <2>2. ~JoinedAt(units, i - 1) /\ ~JoinedAt(units, i + 1) /\ ~Bad(units[i + 1])
    BY <1>8, <2>1, PairIs, Zenon
  <2>3. StringStep(units, n, g, i) = Ahead(ToldFrom(units, n, u, i + 2), "pair")
    BY <1>8, <2>1, MeansIs, Zenon DEF StringStep
  <2>4. \A j \in i..n : j = i \/ j = i + 1 \/ j \in (i + 2)..n
    OBVIOUS
  <2>5. CASE \E j \in (i + 2)..n : Bad(units[j])
    <3>1. \E j \in i..n : Bad(units[j])
      <4>1. \A j \in (i + 2)..n : j \in i..n
        BY <2>1
      <4> QED
        BY <2>5, <4>1, Zenon
    <3>2. ToldFrom(units, n, u, i) = Literal!Refused
      BY <1>7, <3>1, Zenon
    <3>3. ToldFrom(units, n, u, i + 2) = Literal!Refused
      BY <1>7, <2>1, <2>5, Zenon
    <3> QED
      BY <2>3, <3>2, <3>3, AheadIs, Zenon
  <2>6. CASE ~\E j \in (i + 2)..n : Bad(units[j])
    <3>1. ~\E j \in i..n : Bad(units[j])
      BY <1>8, <2>2, <2>4, <2>6, Zenon
    <3>2. i \in 1..(n + 1) /\ i + 2 \in 1..(n + 1) /\ (i + 2) - 1 = i + 1 /\ (i + 1) + 1 = i + 2
      BY <2>1
    <3>3. ToldFrom(units, n, u, i) = Told(u[i])
      BY <1>6, <2>2, <3>1, <3>2, Zenon
    <3>4. ToldFrom(units, n, u, i + 2) = Told(u[i + 2])
      BY <1>6, <2>2, <2>6, <3>2, Zenon
    <3>5. u[i] = <<"pair">> \o u[i + 1] /\ u[i + 1] = <<>> \o u[i + 2]
      BY <1>5, <1>8, <2>1, <3>2, MeansIs, Zenon
    <3>6. PICK t \in Seq(Texts) : t = u[i + 2]
      BY <3>2
    <3>7. <<>> \o t = t
      OBVIOUS
    <3>8. u[i] = <<"pair">> \o u[i + 2]
      BY <3>5, <3>6, <3>7, Zenon
    <3> QED
      BY <2>3, <3>3, <3>4, <3>8, AheadIs, Zenon
  <2> QED
    BY <2>5, <2>6
<1>9. CASE ~(i > n) /\ ~Bad(units[i]) /\ ~JoinedAt(units, i)
  <2>1. i \in 1..n /\ i + 1 \in 1..(n + 2) /\ i + 1 \in 1..(n + 1) /\ (i + 1) - 1 = i
    BY <1>9
  <2>2. PICK w : w = Literal!Written(units, i)
    OBVIOUS
  <2>3. StringStep(units, n, g, i) = Ahead(ToldFrom(units, n, u, i + 1), w)
    BY <1>9, <2>1, <2>2, MeansIs, Zenon DEF StringStep
  <2>4. \A j \in i..n : j = i \/ j \in (i + 1)..n
    OBVIOUS
  <2>5. CASE \E j \in (i + 1)..n : Bad(units[j])
    <3>1. \E j \in i..n : Bad(units[j])
      <4>1. \A j \in (i + 1)..n : j \in i..n
        BY <2>1
      <4> QED
        BY <2>5, <4>1, Zenon
    <3>2. ToldFrom(units, n, u, i) = Literal!Refused
      BY <1>7, <3>1, Zenon
    <3>3. ToldFrom(units, n, u, i + 1) = Literal!Refused
      BY <1>7, <2>1, <2>5, Zenon
    <3> QED
      BY <2>3, <3>2, <3>3, AheadIs, Zenon
  <2>6. CASE ~\E j \in (i + 1)..n : Bad(units[j])
    <3>1. ~\E j \in i..n : Bad(units[j])
      BY <1>9, <2>4, <2>6, Zenon
    <3>2. ToldFrom(units, n, u, i + 1) = Told(u[i + 1])
      BY <1>6, <1>9, <2>1, <2>6, Zenon
    <3>3. StringStep(units, n, g, i) = Told(<<w>> \o u[i + 1])
      BY <2>3, <3>2, AheadIs, Zenon
    <3>4. CASE JoinedAt(units, i - 1)
      <4>1. w = Literal!Replacement
        BY <1>9, <2>1, <2>2, <3>4, MeansIs, Zenon
      <4>2. ToldFrom(units, n, u, i) = Told(<<Literal!Replacement>> \o u[i + 1])
        BY <1>9, <3>1, <3>4, Zenon DEF ToldFrom
      <4> QED
        BY <3>3, <4>1, <4>2, Zenon
    <3>5. CASE ~JoinedAt(units, i - 1)
      <4>1. u[i] = <<w>> \o u[i + 1]
        BY <1>5, <1>9, <2>1, <2>2, <3>5, MeansIs, Zenon
      <4>2. ToldFrom(units, n, u, i) = Told(u[i])
        BY <1>9, <3>1, <3>5, Zenon DEF ToldFrom
      <4> QED
        BY <3>3, <4>1, <4>2, Zenon
    <3> QED
      BY <3>4, <3>5
  <2> QED
    BY <2>5, <2>6
<1> QED
  BY <1>1, <1>2, <1>8, <1>9

-----------------------------------------------------------------------------
(***************************************************************************)
(* String literals: the whole literal.                                     *)
(***************************************************************************)
StringWitness(units, n, u) == [i \in 1..(n + 2) |-> ToldFrom(units, n, u, i)]

LEMMA StringIs ==
  ASSUME NEW units \in Seq(Literal!Units), NEW n \in Nat, DOMAIN units = 1..n, n = Len(units),
         NEW u \in [1..(n + 1) -> Seq(Texts)], MeansFn(u, units, n)
  PROVE  Literal!String(units) = ToldFrom(units, n, u, 1)
<1>1. PICK c : c = StringWitness(units, n, u)
  OBVIOUS
<1>2. \A i \in 1..(n + 2) : c[i] = ToldFrom(units, n, u, i)
  BY <1>1, Zenon DEF StringWitness
<1>3. \A i \in 1..(n + 2) : i > n \/ (i + 1 \in 1..(n + 2) /\ i + 2 \in 1..(n + 2))
  OBVIOUS
<1>4. StringFn(c, units, n)
  <2>1. ASSUME NEW i \in 1..(n + 2) PROVE StringStep(units, n, c, i) = ToldFrom(units, n, u, i)
    <3>1. i > n \/ (c[i + 1] = ToldFrom(units, n, u, i + 1) /\ c[i + 2] = ToldFrom(units, n, u, i + 2))
      BY <1>2, <1>3, Zenon
    <3> QED
      BY <3>1, StringGoesOn, ZenonT(60)
  <2> QED
    BY <1>1, <2>1, Zenon DEF StringFn, StringWitness
<1>5. PICK k : k = CHOOSE f : StringFn(f, units, n)
  OBVIOUS
<1>6. StringFn(k, units, n)
  BY <1>4, <1>5, Zenon
<1>7. \A i \in 1..(n + 2) : k[i] = StringStep(units, n, k, i)
  BY <1>6, Zenon DEF StringFn
<1> DEFINE T == {i \in 1..(n + 1) : k[i] = ToldFrom(units, n, u, i) /\ k[i + 1] = ToldFrom(units, n, u, i + 1)}
<1>8. ASSUME NEW i \in 1..(n + 2), i > n PROVE k[i] = ToldFrom(units, n, u, i)
  BY <1>7, <1>8, StringGoesOn, Zenon
<1>9. n + 1 \in T
  <2>1. n + 1 \in 1..(n + 2) /\ n + 1 \in 1..(n + 1) /\ (n + 1) + 1 \in 1..(n + 2) /\ n + 1 > n /\ (n + 1) + 1 > n
    OBVIOUS
  <2> QED
    BY <1>8, <2>1, Zenon
<1>10. ASSUME NEW i \in 2..(n + 1), i \in T PROVE i - 1 \in T
  <2>1. i - 1 \in 1..(n + 2) /\ i - 1 \in 1..(n + 1) /\ (i - 1) + 1 = i /\ (i - 1) + 2 = i + 1
    OBVIOUS
  <2>2. k[i] = ToldFrom(units, n, u, i) /\ k[i + 1] = ToldFrom(units, n, u, i + 1)
    BY <1>10, Zenon
  <2>3. k[(i - 1) + 1] = ToldFrom(units, n, u, (i - 1) + 1) /\ k[(i - 1) + 2] = ToldFrom(units, n, u, (i - 1) + 2)
    BY <2>1, <2>2, Zenon
  <2>4. k[i - 1] = ToldFrom(units, n, u, i - 1)
    BY <1>7, <2>1, <2>3, StringGoesOn, Zenon
  <2> QED
    BY <2>1, <2>3, <2>4, Zenon
<1>11. 1..(n + 1) \subseteq T
  <2> HIDE DEF T
  <2>1. 1 \in Int /\ n + 1 \in Int /\ 1 + 1 = 2
    OBVIOUS
  <2>2. \A i \in (1 + 1)..(n + 1) : i \in T => i - 1 \in T
    BY <1>10, <2>1, Zenon
  <2> QED
    BY <1>9, <2>1, <2>2, IntervalDown, Zenon
<1>12. k[1] = ToldFrom(units, n, u, 1)
  <2>1. 1 \in 1..(n + 1)
    OBVIOUS
  <2> QED
    BY <1>11, <2>1, Zenon
<1>13. PICK h : h = CHOOSE f : StringFn(f, units, Len(units))
  OBVIOUS
<1>14. Literal!String(units) = h[1]
  BY <1>13, Zenon DEF Literal!String, StringFn, StringStep, Told, Ahead, Bad
<1> QED
  BY <1>5, <1>12, <1>13, <1>14, Zenon

LEMMA LiteralsDecodeAlike == ASSUME NEW units \in Seq(Literal!Units) PROVE Literal!String(units) = Literal!Unmarshalled(units)
<1>1. PICK n \in Nat : n = Len(units)
  OBVIOUS
<1>2. DOMAIN units = 1..n
  BY <1>1
<1>3. PICK k : k = CHOOSE f : MeansFn(f, units, n)
  OBVIOUS
<1>4. PICK v \in [1..(n + 1) -> Seq(Texts)] : MeansFn(v, units, n)
  BY <1>2, MeansExists, Zenon
<1>5. MeansFn(k, units, n)
  BY <1>3, <1>4, Zenon
<1>6. k = v
  <2>1. \A i \in 1..(n + 1) : k[i] = MeansStep(units, n, k, i) /\ v[i] = MeansStep(units, n, v, i)
    BY <1>4, <1>5, Zenon DEF MeansFn
  <2> DEFINE T == {i \in 1..(n + 1) : k[i] = v[i]}
  <2>2. n + 1 \in T
    <3>1. n + 1 \in 1..(n + 1) /\ n + 1 > n
      OBVIOUS
    <3> QED
      BY <2>1, <3>1, Zenon DEF MeansStep
  <2>3. ASSUME NEW i \in 2..(n + 1), i \in T PROVE i - 1 \in T
    <3>1. i - 1 \in 1..(n + 1) /\ (i - 1) + 1 = i
      OBVIOUS
    <3>2. k[(i - 1) + 1] = v[(i - 1) + 1]
      BY <2>3, <3>1, Zenon
    <3> QED
      BY <2>1, <3>1, <3>2, Zenon DEF MeansStep
  <2>4. 1..(n + 1) \subseteq T
    <3> HIDE DEF T
    <3>1. 1 \in Int /\ n + 1 \in Int /\ 1 + 1 = 2
      OBVIOUS
    <3>2. \A i \in (1 + 1)..(n + 1) : i \in T => i - 1 \in T
      BY <2>3, <3>1, Zenon
    <3> QED
      BY <2>2, <3>1, <3>2, IntervalDown, Zenon
  <2>5. \A i \in 1..(n + 1) : MeansStep(units, n, k, i) = MeansStep(units, n, v, i)
    BY <2>1, <2>4, Zenon
  <2> QED
    BY <1>4, <1>5, <2>5, Zenon DEF MeansFn
<1>7. Literal!String(units) = ToldFrom(units, n, v, 1)
  BY <1>1, <1>2, <1>4, StringIs
<1>8. Literal!Unmarshalled(units) = IF \E i \in DOMAIN units : Bad(units[i]) THEN Literal!Refused ELSE Told(v[1])
  <2>1. PICK h : h = CHOOSE f : MeansFn(f, units, Len(units))
    OBVIOUS
  <2>2. Literal!Unmarshalled(units) = IF \E i \in DOMAIN units : Bad(units[i]) THEN Literal!Refused ELSE Told(h[1])
    BY <2>1, Zenon DEF Literal!Unmarshalled, MeansFn, MeansStep, MeansAt, JoinedAt, Told, Bad
  <2> QED
    BY <1>1, <1>3, <1>6, <2>1, <2>2, Zenon
<1>9. CASE n = 0
  <2>1. 1 > n /\ DOMAIN units = {} /\ 1 \in 1..(n + 1)
    BY <1>2, <1>9
  <2>2. v[1] = <<>>
    BY <1>4, <2>1, Zenon DEF MeansFn, MeansStep
  <2> QED
    BY <1>7, <1>8, <2>1, <2>2, Zenon DEF ToldFrom
<1>10. CASE n # 0
  <2>1. ~(1 > n) /\ 1 - 1 = 0 /\ 1 \in 1..n
    BY <1>10
  <2>2. ~JoinedAt(units, 1 - 1)
    BY <1>2, <2>1, PairIs, Zenon
  <2>3. CASE \E i \in 1..n : Bad(units[i])
    BY <1>2, <1>7, <1>8, <2>1, <2>3, Zenon DEF ToldFrom
  <2>4. CASE ~\E i \in 1..n : Bad(units[i])
    <3>1. ToldFrom(units, n, v, 1) = Told(v[1])
      BY <2>1, <2>2, <2>4, Zenon DEF ToldFrom
    <3> QED
      BY <1>2, <1>7, <1>8, <2>4, <3>1, Zenon
  <2> QED
    BY <2>3, <2>4
<1> QED
  BY <1>9, <1>10

\* A document answered in one pass means what the strict encoding/json decode
\* makes of it, and any other is given to that decode; a string literal becomes
\* the same text, or is refused alike, however many units it has
\* (decodeInvokeV2Fast, decodeHostResponseFast, DecodeSelectionPlan,
\* DecodeConvertRequest, strictjson.String).
THEOREM DecodersAgree == Spec => []DecodedStrictly
<1>1. Answers => DecodedStrictly
  <2> SUFFICES ASSUME Answers PROVE DecodedStrictly
    OBVIOUS
  <2>0. PICK q : q = question.of
    OBVIOUS
  <2>1. ASSUME Answered("document") PROVE answer[1] = Plain!Strict(q)
    <3>1. q \in AnyDocument
      BY <2>0, <2>1, InputAssumption, Given DEF Answered
    <3>2. answer = <<Plain!Decode(q)>>
      BY <2>0, <2>1, Zenon DEF Answers, RightAnswer, Put, Answered
    <3> QED
      BY <3>1, <3>2, DecodeIsStrict, SoleIs, Zenon
  <2>2. ASSUME Answered("literal") PROVE answer[1] = Literal!Unmarshalled(q)
    <3>1. q \in Seq(Literal!Units)
      BY <2>0, <2>2, InputAssumption, Given DEF Answered
    <3>2. answer = <<Literal!String(q)>>
      BY <2>0, <2>2, Zenon DEF Answers, RightAnswer, Put, Answered
    <3> QED
      BY <3>1, <3>2, LiteralsDecodeAlike, SoleIs, Zenon
  <2> QED
    BY <2>0, <2>1, <2>2, Zenon DEF DecodedStrictly
<1> QED
  BY <1>1, AnswersHold, PTL
=============================================================================
