------------------------------ MODULE NonceSet ------------------------------
(***************************************************************************)
(* What NonceCache (beacon/responder.go) promises: it remembers each nonce *)
(* until its expiry, holds at most CacheSize unexpired ones and refuses an *)
(* insert beyond that "rather than evicting a nonce still inside its       *)
(* window".  There is no table, no hash and no compaction here.            *)
(***************************************************************************)
EXTENDS Naturals, FiniteSets

CONSTANTS
  Nonces,
  Expiries, \* times a nonce may be held until
  CacheSize \* NonceCacheSize

VARIABLES
  now,    \* the time of the latest call
  held,   \* <<nonce, expiry>> of every unexpired nonce
  result  \* what the latest Insert reported, none since the clock moved

vars == <<now, held, result>>

Unexpired(h, t) == {p \in h : p[2] > t}

Init == now = 1 /\ held = {} /\ result = "none"

Insert(n, expires) ==
  /\ result' = (IF Cardinality(held) < CacheSize THEN "held" ELSE "full")
  /\ held' = IF Cardinality(held) < CacheSize
             THEN Unexpired({p \in held : p[1] # n} \cup {<<n, expires>>}, now)
             ELSE held
  /\ UNCHANGED now

Tick ==
  /\ now' > now
  /\ held' = Unexpired(held, now')
  /\ result' = "none"

Next == Tick \/ \E n \in Nonces, expires \in Expiries : Insert(n, expires)

Spec == Init /\ [][Next]_vars
=============================================================================
