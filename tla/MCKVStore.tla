----------------------------- MODULE MCKVStore -----------------------------
(***************************************************************************)
(* KVStore with two plugin processes, one of whose entries is not text:    *)
(* one writes between the other's read and write, or while a call the      *)
(* other gave up is still pending at the host.                             *)
(***************************************************************************)
EXTENDS KVStore
=============================================================================
