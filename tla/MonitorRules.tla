---------------------------- MODULE MonitorRules ----------------------------
(***************************************************************************)
(* The rules a check is judged by, in the form an operator writes and in   *)
(* the form the control plane stores: the status codes an http check       *)
(* passes on (model/monitor_checks.go) and the thresholds of the degraded  *)
(* rule (model/paths.go).                                                  *)
(*                                                                         *)
(* A number of a rule counts tenths of the last decimal place its field    *)
(* keeps, so that rounding to that place is rounding to a multiple of ten. *)
(***************************************************************************)
EXTENDS Integers, Sequences, FiniteSets

CONSTANTS
  RuleFields,                      \* degradedRuleFields
  LossPercent, LossFactor, LatencyFactor, LatencyMargin,
  Lo, Hi, Def,                     \* by field
  NaN,                             \* not a number, or infinite
  MinCode, MaxCode, MaxParts,      \* 100, 599, monitorStatusSetMaxParts
  DefaultLo, DefaultHi             \* MonitorExpectStatusDefault

ASSUME RuleAssumption ==
  /\ RuleFields = {LossPercent, LossFactor, LatencyFactor, LatencyMargin}
  /\ NaN \notin Int
  /\ Lo \in [RuleFields -> Nat] /\ Hi \in [RuleFields -> Nat] /\ Def \in [RuleFields -> Nat]
  /\ \A f \in RuleFields : Lo[f] % 10 = 0 /\ Hi[f] % 10 = 0 /\ Def[f] % 10 = 0
  /\ \A f \in RuleFields : 0 < Lo[f] /\ Lo[f] <= Def[f] /\ Def[f] <= Hi[f]
  /\ Lo[LossFactor] >= 100 /\ Lo[LatencyFactor] >= 100
  /\ MinCode \in Nat /\ MaxCode \in Nat /\ MaxParts \in Nat /\ DefaultLo \in MinCode..MaxCode /\ DefaultHi \in DefaultLo..MaxCode

\* MonitorDegradedRule: a nil rule is the empty sequence.
Numbers == [RuleFields -> Int \cup {NaN}]

-----------------------------------------------------------------------------
\* ValidateDegradedRule.
FieldValid(f, v) == v # NaN /\ (v = 0 \/ (v >= Lo[f] /\ v <= Hi[f]))

ValidateDegradedRule(r) == r = <<>> \/ \A f \in RuleFields : FieldValid(f, r[1][f])

\* math.Round of a number that is not negative.
Round(v) == ((v + 5) \div 10) * 10

Stored(f, v) == IF Round(v) = Def[f] THEN 0 ELSE Round(v)

\* CanonicalDegradedRule.
CanonicalDegradedRule(r) ==
  IF r = <<>> \/ \A f \in RuleFields : Stored(f, r[1][f]) = 0 THEN <<>>
  ELSE <<[f \in RuleFields |-> Stored(f, r[1][f])]>>

\* MonitorDegradedRule.Effective.
Effective(r) == [f \in RuleFields |-> IF r = <<>> \/ r[1][f] = 0 THEN Def[f] ELSE r[1][f]]

Greater(a, b) == IF a > b THEN a ELSE b

\* DegradedLossTrigger and DegradedLatencyTrigger, a hundred times as large: a
\* base loss is in hundredths of a percent, a base latency in tenths of a
\* millisecond.
LossTrigger(r, base) == Greater(100 * Effective(r)[LossPercent], Effective(r)[LossFactor] * base)
LatencyTrigger(r, base) == Greater(Effective(r)[LatencyFactor] * base, 100 * (base + Effective(r)[LatencyMargin]))

-----------------------------------------------------------------------------
\* The rule that is stored: valid again, the same when it is stored again, and
\* in force as it was written, up to the rounding.
KeepsRule(r) ==
  ValidateDegradedRule(r) =>
    LET c == CanonicalDegradedRule(r)
    IN /\ ValidateDegradedRule(c)
       /\ CanonicalDegradedRule(c) = c
       /\ \A f \in RuleFields : Effective(c)[f] = Round(Effective(r)[f])

\* A path at its baseline is not above either trigger.
BaselineHealthy(r, base) ==
  ValidateDegradedRule(r) => 100 * base <= LossTrigger(r, base) /\ 100 * base < LatencyTrigger(r, base)

-----------------------------------------------------------------------------
(***************************************************************************)
(* Status sets.  A list has parts [lo, hi, range]; a set is a sequence of  *)
(* ranges [lo, hi].  A result is a sequence of at most one set.            *)
(***************************************************************************)
\* parseStatusCode.
Code(c) == c \in MinCode..MaxCode

\* One part of the list: [lo, hi] or nothing.
PartValid(p) == Code(p.lo) /\ (p.range => Code(p.hi) /\ p.hi >= p.lo)

PartRange(p) == [lo |-> p.lo, hi |-> IF p.range THEN p.hi ELSE p.lo]

\* Mutant of Widen: the merged range ends where the later one does.
WidenToLast(last, r) == [last EXCEPT !.hi = r.hi]

Widen(last, r) == [last EXCEPT !.hi = IF r.hi > @ THEN r.hi ELSE @]

\* The ranges in order of their first codes, adjacent and overlapping ones
\* merged: ordered is the sorted list.
Merged(ordered) ==
  LET Upto[i \in 1..Len(ordered)] ==
        IF i = 1 THEN <<ordered[1]>>
        ELSE LET done == Upto[i - 1]
                 last == done[Len(done)]
             IN IF ordered[i].lo <= last.hi + 1 THEN [done EXCEPT ![Len(done)] = Widen(last, ordered[i])]
                ELSE Append(done, ordered[i])
  IN Upto[Len(ordered)]

\* slices.SortFunc.
Sorted(ranges) ==
  LET Before(i) == {j \in DOMAIN ranges : ranges[j].lo < ranges[i].lo \/ (ranges[j].lo = ranges[i].lo /\ j <= i)}
  IN [k \in DOMAIN ranges |-> ranges[CHOOSE i \in DOMAIN ranges : Cardinality(Before(i)) = k]]

\* ParseMonitorStatusSet.
ParseMonitorStatusSet(list) ==
  LET parts == IF list = <<>> THEN <<[lo |-> DefaultLo, hi |-> DefaultHi, range |-> TRUE]>> ELSE list
  IN IF Len(parts) > MaxParts \/ \E i \in DOMAIN parts : ~PartValid(parts[i]) THEN <<>>
     ELSE <<Merged(Sorted([i \in DOMAIN parts |-> PartRange(parts[i])]))>>

\* MonitorStatusSet.Contains, MonitorStatusSet.String.
InSet(set, code) == \E i \in DOMAIN set : code >= set[i].lo /\ code <= set[i].hi

String(set) == [i \in DOMAIN set |-> [lo |-> set[i].lo, hi |-> set[i].hi, range |-> set[i].lo # set[i].hi]]

\* The set passes exactly the codes its list names, no two of its ranges could
\* be one, and its text reads back as the same set.
KeepsCodes(list) ==
  LET parsed == ParseMonitorStatusSet(list)
      set == parsed[1]
  IN parsed # <<>> =>
       /\ \A c \in MinCode..MaxCode :
            InSet(set, c) <=> IF list = <<>> THEN c \in DefaultLo..DefaultHi ELSE \E i \in DOMAIN list : c \in PartRange(list[i]).lo..PartRange(list[i]).hi
       /\ \A i \in 1..(Len(set) - 1) : set[i].hi + 1 < set[i + 1].lo
       /\ ParseMonitorStatusSet(String(set)) = parsed
=============================================================================
