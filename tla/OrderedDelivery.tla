-------------------------- MODULE OrderedDelivery --------------------------
(***************************************************************************)
(* What the buffer layer promises its consumer, without windows, ages or   *)
(* counters: a lossy store that hands out items in increasing order, each  *)
(* at most once, until it is restarted.  It may lose pending items at any  *)
(* time, but never delivers past an item it still holds.                   *)
(***************************************************************************)
EXTENDS Integers, Sequences

CONSTANT Items   \* integers, ordered by <

VARIABLES
  pending,   \* accepted, neither delivered nor lost
  out        \* delivered since the last restart

vars == <<pending, out>>

Init == pending = {} /\ out = <<>>

(* Nothing delivered is equal to or larger than s. *)
Ahead(s) == out # <<>> => s > out[Len(out)]

Accept(s, lost) ==
  /\ s \notin pending
  /\ Ahead(s)
  /\ pending' = (pending \ lost) \cup {s}
  /\ UNCHANGED out

Deliver(s, lost) ==
  /\ s \in pending \ lost
  /\ Ahead(s)
  /\ \A t \in pending \ lost : s <= t
  /\ pending' = pending \ (lost \cup {s})
  /\ out' = Append(out, s)

Lose(lost) == pending' = pending \ lost /\ UNCHANGED out

Restart == pending' = {} /\ out' = <<>>

Next ==
  \/ \E s \in Items, lost \in SUBSET pending : Accept(s, lost) \/ Deliver(s, lost)
  \/ \E lost \in SUBSET pending : Lose(lost)
  \/ Restart

Spec == Init /\ [][Next]_vars
=============================================================================
