---------------------------- MODULE BoundedFifo ----------------------------
(***************************************************************************)
(* What the packet queue promises, without locks, lengths or cancellation: *)
(* items enter at the back while there is room and leave at the front, one *)
(* by one or all at once.  Removal starts by freeing the room of the items *)
(* it is about to remove; a removal once started is never undone.          *)
(***************************************************************************)
EXTENDS Integers, Sequences

CONSTANTS Room, Limit   \* items the queue has room for; items ever put in

VARIABLES
  waiting,   \* items in the queue, oldest first
  leaving,   \* how many of them are being removed
  taken,     \* items handed to consumers, in order
  dropped,   \* items removed by a clear
  count      \* items put in so far

vars == <<waiting, leaving, taken, dropped, count>>

Init == waiting = <<>> /\ leaving = 0 /\ taken = <<>> /\ dropped = <<>> /\ count = 0

Put ==
  /\ count < Limit
  /\ Len(waiting) - leaving < Room
  /\ count' = count + 1
  /\ waiting' = Append(waiting, count')
  /\ UNCHANGED <<leaving, taken, dropped>>

Free ==
  /\ leaving < Len(waiting)
  /\ leaving' = leaving + 1
  /\ UNCHANGED <<waiting, taken, dropped, count>>

TakeOne ==
  /\ leaving = 1
  /\ leaving' = 0
  /\ taken' = Append(taken, Head(waiting))
  /\ waiting' = Tail(waiting)
  /\ UNCHANGED <<dropped, count>>

Clear ==
  /\ leaving = Len(waiting)
  /\ leaving' = 0
  /\ dropped' = dropped \o waiting
  /\ waiting' = <<>>
  /\ UNCHANGED <<taken, count>>

Next == Put \/ Free \/ TakeOne \/ Clear

Spec == Init /\ [][Next]_vars
=============================================================================
