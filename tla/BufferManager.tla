--------------------------- MODULE BufferManager ---------------------------
(***************************************************************************)
(* BufferManager (buffer/src/core/buffer/buffer_manager.rs): one           *)
(* JitterBuffer behind an async mutex, shared by producer and consumer     *)
(* tasks, with a lock-free copy of its length.                             *)
(*                                                                         *)
(* Every operation runs under the mutex without awaiting, so it is one     *)
(* action; clear() is split because its loop releases packets one by one   *)
(* and refreshes the lock-free length only at the end.  While it runs the  *)
(* lock is taken and no other operation can start.                         *)
(***************************************************************************)
EXTENDS JitterBuffer

CONSTANT MaxOffered   \* bound: push_packet calls considered

ASSUME OfferedAssumption == MaxOffered \in Nat

VARIABLES
  approxLen,    \* approx_len, read without the lock by size() and is_empty()
  lock,         \* inner: "free" between operations, "clear" while clear() runs
  offered       \* history: push_packet calls

managerVars == <<approxLen, lock, offered>>
vars == <<bufferVars, managerVars>>

TypeOK ==
  /\ BufferTypeOK
  /\ approxLen \in Nat
  /\ lock \in {"free", "clear"}
  /\ offered \in Nat

Init ==
  /\ BufferInit
  /\ approxLen = 0
  /\ lock = "free"
  /\ offered = 0

PushPacket(s) ==
  /\ lock = "free"
  /\ offered < MaxOffered
  /\ InsertPacket(s)
  /\ approxLen' = Cardinality(entries')
  /\ offered' = offered + 1
  /\ UNCHANGED lock

(* Mutant: the length is stored only when a packet is returned. *)
PopPacketStoringOnRelease ==
  /\ lock = "free"
  /\ \/ (\E s \in entries : ReleaseNext(s)) /\ approxLen' = Cardinality(entries')
     \/ ReleaseNothing /\ UNCHANGED approxLen
  /\ UNCHANGED <<lock, offered>>

PopPacket ==
  /\ lock = "free"
  /\ (\E s \in entries : ReleaseNext(s)) \/ ReleaseNothing
  /\ approxLen' = Cardinality(entries')
  /\ UNCHANGED <<lock, offered>>

ClearBegin ==
  /\ lock = "free"
  /\ lock' = "clear"
  /\ UNCHANGED <<bufferVars, approxLen, offered>>

ClearStep ==
  /\ lock = "clear"
  /\ \E s \in entries : FlushOne(s)
  /\ UNCHANGED managerVars

ClearEnd ==
  /\ lock = "clear"
  /\ entries = {}
  /\ approxLen' = 0
  /\ lock' = "free"
  /\ UNCHANGED <<bufferVars, offered>>

Reset ==
  /\ lock = "free"
  /\ BufferReset
  /\ approxLen' = 0
  /\ UNCHANGED <<lock, offered>>

SetTargetDelay(d) == lock = "free" /\ SetDelay(d) /\ UNCHANGED managerVars

Tick == TimePasses /\ UNCHANGED managerVars

Next ==
  \/ \E s \in SeqNums : PushPacket(s)
  \/ PopPacket
  \/ ClearBegin \/ ClearStep \/ ClearEnd
  \/ Reset
  \/ \E d \in MinTargetDelay .. MaxTargetDelay : SetTargetDelay(d)
  \/ Tick

Spec == Init /\ [][Next]_vars

(* The player polls the buffer, time passes, and the task that holds the   *)
(* lock runs to the end of clear().  Producers owe nothing.                *)
Fairness ==
  /\ WF_vars(PopPacket)
  /\ WF_vars(Tick)
  /\ WF_vars(ClearStep \/ ClearEnd)

FairSpec == Spec /\ Fairness

-----------------------------------------------------------------------------
(* size() and is_empty() are exact whenever no operation is in progress,   *)
(* although a pop may silently evict packets (buffer_manager.rs:89-123).   *)
SizeIsExact == lock = "free" => approxLen = Cardinality(entries)

(* No packet stays in the buffer for ever: a consumer that keeps polling   *)
(* gets it or sees it dropped, even when packets that sort before it keep  *)
(* arriving and a gap is never filled (jitter_buffer.rs:203-253).          *)
PacketsLeave ==
  \A s \in SeqNums : (s \in entries) ~> (s \notin entries)

(* The buffer implements ordered, at-most-once, lossy delivery: every      *)
(* operation, with its overflow, eviction and rejection paths, is a step   *)
(* of OrderedDelivery on what is buffered and released (the module docs of *)
(* jitter_buffer.rs:1-10 and mod.rs promise playback order).               *)
Promise == INSTANCE OrderedDelivery
             WITH Items <- SeqNums, pending <- entries, out <- released

ImplementsOrderedDelivery == Promise!Spec
=============================================================================
