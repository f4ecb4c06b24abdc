------------------------------- MODULE KvData -------------------------------
(***************************************************************************)
(* What the key-value store keeps, on flash (KvFlash) and in the cache      *)
(* before it (KvCache).                                                     *)
(***************************************************************************)
CONSTANTS
  Keys, Vals,
  None  \* no value: a key that is absent or set with length 0, data still erased

ASSUME KvDataAssumption == None \notin Keys \cup Vals

\* Data programmed over other data, or read from a page that was erased since.
Garbled == "garbled"
=============================================================================
