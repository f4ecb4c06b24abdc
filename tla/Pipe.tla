-------------------------------- MODULE Pipe --------------------------------
(***************************************************************************)
(* What the shared transmission buffers promise: each core has a queue of  *)
(* records; the consumer takes the records of a core in the order in which *)
(* they were accepted, one at a time and each whole.  A record that has to *)
(* be complete ("lazy") may be given up when there is no memory.           *)
(***************************************************************************)
EXTENDS Integers, Sequences

CONSTANT Cores

VARIABLES
  queue,    \* for each core, the records accepted and not yet taken
  out       \* <<core, bytes>> of the record sent last, or <<>>

pipeVars == <<queue, out>>

\* The data of a record, byte by byte.
Bytes(r) == [k \in 1 .. r.len |-> <<r, k>>]

Init == queue = [c \in Cores |-> <<>>] /\ out = <<>>

Accept(c) ==
  /\ queue'[c] # <<>>
  /\ queue' = [queue EXCEPT ![c] = Append(@, queue'[c][Len(queue'[c])])]
  /\ UNCHANGED out

Deliver(c) ==
  /\ queue[c] # <<>>
  /\ out' = <<c, Bytes(Head(queue[c]))>>
  /\ queue' = [queue EXCEPT ![c] = Tail(@)]

GiveUp(c) ==
  /\ queue[c] # <<>> /\ Head(queue[c]).mode = "lazy"
  /\ queue' = [queue EXCEPT ![c] = Tail(@)]
  /\ UNCHANGED out

Next == \E c \in Cores : Accept(c) \/ Deliver(c) \/ GiveUp(c)

Spec == Init /\ [][Next]_pipeVars
=============================================================================
