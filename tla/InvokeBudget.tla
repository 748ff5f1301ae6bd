---------------------------- MODULE InvokeBudget ----------------------------
(***************************************************************************)
(* Invoke budgets (plugin/budget.go) and the interface contracts of a      *)
(* signed manifest that carry them (plugin/manifest.go).                   *)
(*                                                                         *)
(* The JSON of a budget is [given, nulls, unknown]: the members with a     *)
(* number, the members that are null, and whether there is any other.  A   *)
(* budget gives every field a number.  A result is a sequence of at most   *)
(* one value, empty for an error.                                          *)
(***************************************************************************)
EXTENDS Integers, Sequences

HTTP == "http_response_bytes"
Calls == "host_calls"
Required == {"timeout_ms", "stdout_bytes", "stderr_bytes", Calls}
Fields == Required \cup {HTTP}

CONSTANTS
  Default,  \* DefaultInvoke*, by field
  HostMax   \* HostMaxInvoke*, by field

ASSUME BudgetAssumption ==
  /\ HostMax \in [Fields -> Nat \ {0}]
  /\ Default \in [Fields -> Nat \ {0}]
  /\ \A f \in Fields : Default[f] <= HostMax[f]

Budgets == [Fields -> Int]

-----------------------------------------------------------------------------
\* Mutant of Decodes: an explicit zero is taken for an absent field.
DecodesZero(doc) == ~doc.unknown /\ Required \subseteq DOMAIN doc.given

\* InvokeBudgetSpec.UnmarshalJSON: which documents it takes, and as what.
Decodes(doc) ==
  /\ ~doc.unknown
  /\ Required \subseteq DOMAIN doc.given
  /\ HTTP \in DOMAIN doc.given => doc.given[HTTP] > 0

Decoded(doc) == [f \in Fields |-> IF f \in DOMAIN doc.given THEN doc.given[f] ELSE 0]

Decode(doc) == IF Decodes(doc) THEN <<Decoded(doc)>> ELSE <<>>

\* InvokeBudgetSpec.MarshalJSON: http_response_bytes is left out when zero.
Encode(b) ==
  [given |-> [f \in (IF b[HTTP] = 0 THEN Required ELSE Fields) |-> b[f]], nulls |-> {}, unknown |-> FALSE]

\* validateInvokeBudgetPositive, ValidateInvokeBudgetSpec.
Positive(b) == \A f \in Fields : IF f \in {Calls, HTTP} THEN b[f] >= 0 ELSE b[f] > 0

Validates(b) == Positive(b) /\ \A f \in Fields : b[f] <= HostMax[f]

-----------------------------------------------------------------------------
Clamp(b) == [f \in Fields |-> IF b[f] > HostMax[f] THEN HostMax[f] ELSE b[f]]

\* The defaults of ResolveInvokeBudget; no host calls is a budget of its own.
Filled(b) ==
  [f \in Fields |-> CASE f = Calls -> IF b[f] < 0 THEN 0 ELSE b[f]
                      [] f # Calls -> IF b[f] <= 0 THEN Default[f] ELSE b[f]]

\* ResolveInvokeBudget: spec is a sequence of at most one budget.
Resolve(spec, defaults) == Filled(Clamp(IF spec = <<>> THEN defaults ELSE spec[1]))

\* Whatever is asked for, an invocation runs within the host's maxima and with
\* something of everything but host calls.
WithinHost(b) == \A f \in Fields : b[f] <= HostMax[f] /\ (IF f = Calls THEN b[f] >= 0 ELSE b[f] > 0)

\* What a document says holds of the budget it resolves to, here and after the
\* manifest has been written and read again.
MeansWhatItSays(doc, defaults) ==
  Decodes(doc) =>
    LET b == Decoded(doc)
        r == Resolve(<<b>>, defaults)
    IN /\ Decode(Encode(b)) = <<b>>
       /\ Validates(b) => \A f \in DOMAIN doc.given : r[f] = doc.given[f]

-----------------------------------------------------------------------------
(***************************************************************************)
(* Interface contracts.  A contract is [methods, specs, scopes, typed,     *)
(* backing]; a method specification is [name, effect, scopes, budget], its *)
(* budget a sequence of at most one.  In JSON, methods is one list: of     *)
(* names or of specifications (the members of "methods" below), or null.   *)
(***************************************************************************)
TypedMethods(c) == c.typed \/ c.specs # <<>>

Encoded(spec) == [spec EXCEPT !.budget = [i \in DOMAIN @ |-> Encode(@[i])]]

\* InterfaceContract.MarshalJSON.
MarshalContract(c) ==
  [methods |-> IF TypedMethods(c) THEN [i \in DOMAIN c.specs |-> Encoded(c.specs[i])] ELSE c.methods,
   kind |-> IF TypedMethods(c) THEN "typed" ELSE "names", scopes |-> c.scopes, backing |-> c.backing]

\* InterfaceContract.UnmarshalJSON: a list that reads as names, the empty one
\* included, is one; a budget that does not decode fails the whole.
UnmarshalContract(doc) ==
  LET names == doc.kind = "names" \/ doc.methods = <<>>
      contract == [methods |-> IF names THEN doc.methods ELSE [i \in DOMAIN doc.methods |-> doc.methods[i].name],
                   specs |-> IF names THEN <<>>
                             ELSE [i \in DOMAIN doc.methods |->
                                     [doc.methods[i] EXCEPT !.budget = [j \in DOMAIN @ |-> Decoded(@[j])]]],
                   scopes |-> doc.scopes, typed |-> ~names, backing |-> doc.backing]
  IN IF names \/ \A i \in DOMAIN doc.methods : \A j \in DOMAIN doc.methods[i].budget : Decodes(doc.methods[i].budget[j])
     THEN <<contract>> ELSE <<>>

\* InterfaceContract.effectiveMethods, MethodContracts.
MethodContracts(c) ==
  IF TypedMethods(c) THEN c.specs
  ELSE [i \in DOMAIN c.methods |-> [name |-> c.methods[i], effect |-> "read", scopes |-> c.scopes, budget |-> <<>>]]

\* InterfaceContract.MethodContract: the first of the name.
MethodContract(c, name) ==
  LET methods == MethodContracts(c)
      named == {i \in DOMAIN methods : methods[i].name = name}
  IN IF named = {} THEN <<>> ELSE <<methods[CHOOSE i \in named : \A j \in named : i <= j]>>

\* InterfaceContract.EffectiveMethodScopes.
EffectiveMethodScopes(c, name) ==
  LET found == MethodContract(c, name)
  IN IF found = <<>> THEN <<>> ELSE <<IF found[1].scopes # {} THEN found[1].scopes ELSE c.scopes>>

\* InterfaceContract.EffectiveBacking.
EffectiveBacking(c) == IF c.backing = "" THEN "runtime" ELSE c.backing

\* What the server decides by: the scopes, the effect and the resolved budget
\* of each method, and who answers it.
Grants(c, names, defaults) ==
  [n \in names |-> [scopes |-> EffectiveMethodScopes(c, n), backing |-> EffectiveBacking(c),
                    method |-> [i \in DOMAIN MethodContract(c, n) |->
                                  <<MethodContract(c, n)[i].effect, Resolve(MethodContract(c, n)[i].budget, defaults)>>]]]
=============================================================================
