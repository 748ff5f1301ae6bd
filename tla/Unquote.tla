------------------------------ MODULE Unquote ------------------------------
(***************************************************************************)
(* strictjson.String (strictjson/unquote.go): a JSON string literal        *)
(* decoded and validated in one pass, next to what encoding/json makes of  *)
(* it.                                                                     *)
(*                                                                         *)
(* A literal is what stands between its quotes, as units: "ascii", a       *)
(* "rune" of several bytes, an "invalid" byte, a bare "quote", a control   *)
(* byte "ctrl", a known escape "esc", an unknown one "odd", the escapes of *)
(* a high and of a low surrogate "high" and "low", that of any other code  *)
(* point "point", a \u without four hex digits "short", and a backslash    *)
(* that nothing follows "last".                                            *)
(***************************************************************************)
EXTENDS Integers, Sequences

Units == {"ascii", "rune", "invalid", "quote", "ctrl", "esc", "odd", "high", "low", "point", "short", "last"}

Replacement == "U+FFFD"

Refused == [ok |-> FALSE, text |-> <<>>]

\* hex4 of the escape at i, -1 when there is none.
Hex4(units, i) == IF i \in DOMAIN units /\ units[i] \in {"high", "low", "point"} THEN units[i] ELSE "-1"

\* utf16.DecodeRune: the rune of a pair, the replacement otherwise.
DecodeRune(r1, r2) == IF r1 = "high" /\ r2 = "low" THEN "pair" ELSE Replacement

\* How many units the step at i takes.
Consumed(units, i) ==
  IF units[i] \in {"high", "low"} /\ DecodeRune(units[i], Hex4(units, i + 1)) # Replacement THEN 2 ELSE 1

\* What it writes.
Written(units, i) ==
  CASE units[i] \in {"high", "low"} -> DecodeRune(units[i], Hex4(units, i + 1))
    [] units[i] = "invalid" -> Replacement
    [] OTHER -> units[i]

\* String: the plain prefix as it is, then unit by unit.
String(units) ==
  LET n == Len(units)
      From[i \in 1..(n + 2)] ==
        IF i > n THEN [ok |-> TRUE, text |-> <<>>]
        ELSE IF units[i] \in {"quote", "ctrl", "odd", "short", "last"} THEN Refused
        ELSE LET rest == From[i + Consumed(units, i)]
             IN IF rest.ok THEN [rest EXCEPT !.text = <<Written(units, i)>> \o @] ELSE Refused
  IN From[1]

\* json.Unmarshal: each unit by itself, a pair counted once.
Unmarshalled(units) ==
  LET Joined(i) == i \in DOMAIN units /\ i + 1 \in DOMAIN units /\ units[i] = "high" /\ units[i + 1] = "low"
      Means(i) ==
        CASE Joined(i) -> <<"pair">>
          [] Joined(i - 1) -> <<>>
          [] units[i] \in {"high", "low", "invalid"} /\ ~Joined(i) /\ ~Joined(i - 1) -> <<Replacement>>
          [] OTHER -> <<units[i]>>
      From[i \in 1..(Len(units) + 1)] == IF i > Len(units) THEN <<>> ELSE Means(i) \o From[i + 1]
  IN IF \E i \in DOMAIN units : units[i] \in {"quote", "ctrl", "odd", "short", "last"} THEN Refused
     ELSE [ok |-> TRUE, text |-> From[1]]
=============================================================================
