---------------------------- MODULE MCStrictJSON ----------------------------
(***************************************************************************)
(* Two names, one of them written in two ways, a number and one no float64 *)
(* holds, two levels and the map from the second key on.                   *)
(***************************************************************************)
EXTENDS StrictJSON

Tok(k, r, n) == [kind |-> k, raw |-> r, name |-> n]

MCTokens ==
  {Tok(k, k, k) : k \in {"beginObject", "endObject", "beginArray", "endArray", "colon", "comma", "space", "end"}}
  \cup {Tok("string", "a", "a"), Tok("string", "u0061", "a"), Tok("string", "b", "b")}
  \cup {Tok("number", "short", "fits"), Tok("number", "long", "overflows")}

MCCalls == {"Valid", "Fields", "Elements", "Compact"}
=============================================================================
