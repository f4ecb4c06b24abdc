------------------------------ MODULE KeyStore ------------------------------
(***************************************************************************)
(* What the key-value store promises (lib/key_value/inc/key_value.h): a map *)
(* in which one write at a time takes effect at once, or is refused and has *)
(* no effect, and which a loss of power leaves as it is.                    *)
(***************************************************************************)
CONSTANTS Keys, Vals, None

VARIABLES
  store,   \* the value of each key, None for a key that is not there
  pending  \* the write under way, and whether it is going to be refused

Idle == [key |-> None, val |-> None, refused |-> FALSE]
Writes == [key : Keys, val : Vals \cup {None}, refused : BOOLEAN]

StoreOK ==
  /\ store \in [Keys -> Vals \cup {None}]
  /\ pending \in Writes \cup {Idle}

Init ==
  /\ store \in [Keys -> Vals \cup {None}]
  /\ pending = Idle

Begin(w) ==
  /\ pending = Idle
  /\ pending' = w
  /\ UNCHANGED store

TakeEffect ==
  /\ pending # Idle
  /\ ~pending.refused
  /\ store' = [store EXCEPT ![pending.key] = pending.val]
  /\ UNCHANGED pending

\* The caller is told of success only when the value is there.
End ==
  /\ pending # Idle
  /\ pending.refused \/ store[pending.key] = pending.val
  /\ pending' = Idle
  /\ UNCHANGED store

\* Power is lost: the write is not under way any more.
Lose ==
  /\ pending # Idle
  /\ pending' = Idle
  /\ UNCHANGED store

Next == TakeEffect \/ End \/ \E w \in Writes : Begin(w)

Spec == Init /\ [][Next \/ Lose]_<<store, pending>>

\* While the power lasts: every write ends, and is told of the truth.
Powered == Init /\ [][Next]_<<store, pending>>
=============================================================================
