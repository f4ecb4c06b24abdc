----------------------------- MODULE MCKvFlash -----------------------------
(***************************************************************************)
(* KvFlash for TLC, with a history variable: what the store would read      *)
(* after a restart, computed once a state.                                  *)
(***************************************************************************)
EXTENDS KvFlash

VARIABLE kept

MCInit == FlashInit /\ kept = Restored(pages, todo, op.kind)
MCNext ==
  /\ FlashNext
  /\ \E f \in {pages'}, ws \in {todo'}, o \in {op'} : kept' = Restored(f, ws, o.kind)
MCSpec == MCInit /\ [][MCNext]_<<flashVars, kept>>

Store == INSTANCE KeyStore WITH
  store <- kept,
  pending <- IF op.kind = "write"
             THEN [key |-> op.key, val |-> op.val, refused |-> op.ret # "KV_OK"]
             ELSE [key |-> None, val |-> None, refused |-> FALSE]

\* The store is the map of key_value.h: a write takes effect at one flash write
\* of those it makes, however many entries it moves, and power lost anywhere
\* leaves each key with its old value or its new one (key_value.c:507-803).
StoreIsMap == Store!Spec

\* Between calls the store reads as it would after a restart.
ReadsWhatIsKept == op.kind = "idle" => Contents(pages) = kept
=============================================================================
