--------------------------- MODULE AudioPipeline ---------------------------
(***************************************************************************)
(* The audio path of the echosync workspace from the host's media layer to *)
(* the guest's audio output, wired as the crates' documentation draws it   *)
(* (echosync/buffer/src/core/buffer/mod.rs, echosync/scheduler/src/lib.rs):*)
(*                                                                         *)
(*   enqueue - workers - network engine - receive_packet - dequeue -       *)
(*   push_packet - pop_packet - schedule_packet - next_packet              *)
(*                                                                         *)
(* The tasks between two crates are external: one takes what the engine    *)
(* has received to the buffer, one what the buffer releases to the         *)
(* scheduler, one plays, one keeps the clock.                              *)
(***************************************************************************)
EXTENDS AudioStream, AudioBuffer, AudioPlayback

vars == <<streamVars, bufferVars, playbackVars>>

TypeOK == StreamTypeOK /\ BufferTypeOK /\ PlaybackTypeOK

Init == StreamInit /\ BufferInit /\ PlaybackInit

(* dequeue, then push_packet *)
FeedBuffer ==
  /\ \E p \in Packets : DequeuePacket(p) /\ PushPacket(p)
  /\ UNCHANGED playbackVars

(* pop_packet, then schedule_packet *)
FeedScheduler ==
  \/ /\ \E p \in Packets : PopReady(p) /\ SchedulePacket(p)
     /\ UNCHANGED streamVars
  \/ /\ PopNothing
     /\ UNCHANGED <<streamVars, playbackVars>>

Stream(A) == A /\ UNCHANGED <<bufferVars, playbackVars>>
Buffer(A) == A /\ UNCHANGED <<engines, netVars, playbackVars>>
Playback(A) == A /\ UNCHANGED <<streamVars, bufferVars>>

Tick ==
  /\ buffered' = Older /\ queue' = Nearer /\ anchor' = Longer
  /\ UNCHANGED <<streamVars, windowVars, targetDelay, bstats, unseen, clock, pstats, played>>

Arrive == \E d \in wire : ReceivePacket(d)

(* The buffer manager's calls, each under the buffer's mutex: its copy of  *)
(* the size is BufferManager's business.                                   *)
ClearCall == Buffer(ClearBuffer)
ResetCall == Buffer(ResetBuffer)
SetTargetDelayCall ==
  \E d \in MinTargetDelay .. MaxTargetDelay : d # targetDelay /\ Buffer(SetTargetDelay(d))

(* Calls from outside that interrupt the buffer or the playback. *)
Interruption ==
  /\ Interrupts
  /\ \/ ClearCall \/ ResetCall \/ SetTargetDelayCall
     \/ /\ RestartClock \/ ClearSchedule \/ \E p \in Packets : CancelPacket(p)
        /\ UNCHANGED <<engines, netVars, bufferVars>>

Next ==
  \/ \E p \in Packets : Stream(EnqueuePacket(p))
  \/ \E d \in wire : Stream(Lost(d)) \/ Stream(Copied(d))
  \/ Stream(Joining) \/ Stream(NotJoining) \/ Stream(ForwardPacket) \/ Stream(Arrive) \/ Stream(Lifecycle)
  \/ FeedBuffer \/ FeedScheduler
  \/ \E o \in ClockOffsets : Playback(Synchronize(o))
  \/ Playback(Update) \/ Playback(NextPacket)
  \/ Interruption
  \/ Tick

Spec == Init /\ [][Next]_vars

(* Time passes, workers and tasks run, and what is under way arrives. *)
FairSpec ==
  /\ Spec
  /\ WF_vars(Tick) /\ WF_vars(FeedBuffer) /\ WF_vars(FeedScheduler)
  /\ WF_vars(Stream(ForwardPacket)) /\ WF_vars(Stream(Arrive)) /\ WF_vars(Playback(NextPacket))

-----------------------------------------------------------------------------
Spread == {o - q : o, q \in ClockOffsets}

(* Whatever the transport loses, repeats and reorders, and however the     *)
(* clock's offset moves meanwhile, the audio output gets packets in the    *)
(* order they were captured, none of them twice -- as long as the offset   *)
(* stays within the time between two packets: a packet popped later has    *)
(* no earlier deadline then, and ties are broken by the sequence number.   *)
(* A buffer that was reset may hand out again what it handed out before.   *)
PlayedInOrder ==
  unseen.resets = 0 /\ (\A d \in Spread : d <= Spacing) =>
    \A i, j \in 1 .. Len(played) : i < j => played[i] < played[j]

(* Between the host's enqueue and the guest's audio output no packet       *)
(* disappears: it is in one of the queues, or one counter or the network   *)
(* accounts for it, except for what is sent to nobody, cleared, reset or   *)
(* cancelled, refused by the guest's engine because it is stopped or takes *)
(* only smaller packets (echosync/streaming/src/engine.rs:297-307),        *)
(* repeated while it is buffered, or refused by the scheduler's queue.     *)
NothingVanishes ==
  /\ StreamAccounted
  /\ BufferAccounted(streamed.fed)
  /\ PlaybackAccounted(bstats.delivered - unseen.flushed)

Downstream ==
  \/ wire # {}
  \/ engines["guest"].inbound # <<>> \/ buffered # {} \/ queue # <<>>

(* Audio does not get stuck: what the host's engine accepted while it runs *)
(* leaves the pipeline, at the audio output or a counter, and nobody waits *)
(* for a packet that was lost.                                             *)
Flows == []<>(~Downstream /\ (engines["host"].state = "Running" => engines["host"].outbound = <<>>))
=============================================================================
