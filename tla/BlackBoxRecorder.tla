-------------------------- MODULE BlackBoxRecorder --------------------------
(***************************************************************************)
(* The Black Box incident recorder: BlackBoxRecorder                       *)
(* (ets/black_box/service.py) over a durable BlackBoxStore (store.py).     *)
(*                                                                         *)
(* Each store call is one transaction and one action here, so the process  *)
(* may stop, or the call fail, between any two: record commits a frame,    *)
(* then seals or prunes in a second call.  One recorder owns the store.    *)
(*                                                                         *)
(* A frame's hash covers its payload and the previous frame's hash.  It is *)
(* modelled by what it covers: the sequence of payloads up to the frame.   *)
(***************************************************************************)
EXTENDS Naturals, Sequences, FiniteSets

CONSTANTS PreTrigger,   \* policy.pre_trigger_frames, at least 1
          PostTrigger,  \* policy.post_trigger_frames
          MaxBoot,      \* bound on boot_counter
          MaxTick,      \* bound on monotonic_ns
          MaxUtc,       \* bound on observed_at_utc
          MaxFrames,    \* bound on the frames recorded
          None

ASSUME PolicyAssumption == PreTrigger \in Nat \ {0} /\ PostTrigger \in Nat
ASSUME BoundsAssumption ==
  /\ MaxBoot \in Nat \ {0} /\ MaxTick \in Nat /\ MaxUtc \in Nat
  /\ MaxFrames \in Nat

VARIABLES saved,     \* recorder_state: a RecorderState, or None
          live,      \* live_frames
          segments,  \* sealed_segments
          memory,    \* self._state of the running recorder, or None
          call       \* the store call that the recorder makes next

vars == <<saved, live, segments, memory, call>>
stored == <<saved, live, segments>>

\* An observation: its boot, its monotonic_ns and its observed_at_utc, which
\* a clock that is set back may make earlier than the one before.
Payloads == [boot : 1..MaxBoot, tick : 1..MaxTick, observed : 1..MaxUtc]
Hashes == Seq(Payloads)

Frames == [sequence : Nat \ {0}, payload : Payloads, previous : Hashes]

Hash(f) == Append(f.previous, f.payload)

\* active_capture.
Captures == [first : Nat \ {0}, trigger : Nat \ {0}, remaining : Nat]

\* RecorderState; last_tick is 0 when last_monotonic_ns is None.
RecorderStates == [boot : 1..MaxBoot, last : Nat, head : Hashes,
                   last_tick : 0..MaxTick, active : Captures \cup {None}]

\* "forced" stands for the reasons that force_seal takes, which no code path
\* tells apart; "recovery" is __init__'s own.
Reasons == {"post_window_complete", "recovery", "forced"}

Segments == [trigger : Nat \ {0}, reason : Reasons, frames : SUBSET Frames]

\* A call knows the seal reason; only __init__ seals with "recovery".
Calls == [next : {"none", "seal", "prune"}, reason : Reasons]
NoCall == [next |-> "none", reason |-> "forced"]

ASSUME NoneAssumption == None \notin RecorderStates \cup Captures

Init ==
  /\ saved = None
  /\ live = {}
  /\ segments = {}
  /\ memory = None
  /\ call = NoCall

Larger(m, n) == IF m >= n THEN m ELSE n

\* last - pre_trigger_frames + 1, which the code bounds below by 1.
WindowStart(last) == IF last > PreTrigger THEN last - PreTrigger + 1 ELSE 1

Numbers(frames) == {f.sequence : f \in frames}

\* list_live_frames()[0].sequence.
FirstLive == CHOOSE n \in Numbers(live) : \A m \in Numbers(live) : n <= m

-----------------------------------------------------------------------------
(* Starting *)

\* _verify_live_state for state s.
LiveStateVerifies(s) ==
  IF live = {} THEN s.last = 0 /\ s.head = << >>
  ELSE /\ Numbers(live) = FirstLive..s.last
       /\ \A f, g \in live : g.sequence = f.sequence + 1 => g.previous = Hash(f)
       /\ \A f \in live : f.sequence = s.last => Hash(f) = s.head
       /\ s.active # None => FirstLive <= s.active.first

\* The state that __init__ works with for boot counter b.
Started(b) ==
  IF saved = None
  THEN [boot |-> b, last |-> 0, head |-> << >>, last_tick |-> 0, active |-> None]
  ELSE IF b > saved.boot THEN [saved EXCEPT !.boot = b, !.last_tick = 0]
  ELSE saved

SealsAtStart(s) == s.active # None /\ s.active.remaining = 0

(***************************************************************************)
(* __init__, for a boot counter that did not go back: it saves the state   *)
(* of the new boot, and then does not come up unless the live frames       *)
(* verify.                                                                 *)
(***************************************************************************)
Start(b) ==
  LET s == Started(b) IN
  /\ memory = None
  /\ saved # None => b >= saved.boot
  /\ saved' = s
  /\ memory' = IF LiveStateVerifies(s) THEN s ELSE None
  /\ call' = IF LiveStateVerifies(s) /\ SealsAtStart(s)
             THEN [next |-> "seal", reason |-> "recovery"] ELSE NoCall
  /\ UNCHANGED <<live, segments>>

-----------------------------------------------------------------------------
(* Recording *)

Running == memory # None /\ call = NoCall

\* Mutant: the rolling window is pruned during a capture too.
AfterRecordPruning(active) ==
  IF active # None /\ active.remaining = 0
  THEN [next |-> "seal", reason |-> "post_window_complete"]
  ELSE [next |-> "prune", reason |-> "post_window_complete"]

AfterRecord(active) ==
  IF active = None THEN [next |-> "prune", reason |-> "post_window_complete"]
  ELSE IF active.remaining = 0
  THEN [next |-> "seal", reason |-> "post_window_complete"]
  ELSE NoCall

\* The capture once a frame more is recorded.
Counted(active) ==
  IF active # None /\ active.remaining > 0
  THEN [active EXCEPT !.remaining = @ - 1] ELSE active

\* record, up to commit_frame: the frame and the state are saved together.
Record(tick, observed) ==
  LET p == [boot |-> memory.boot, tick |-> tick, observed |-> observed]
      f == [sequence |-> memory.last + 1, payload |-> p, previous |-> memory.head]
      s == [memory EXCEPT !.last = f.sequence, !.head = Hash(f), !.last_tick = tick,
                          !.active = Counted(memory.active)] IN
  /\ Running
  /\ memory.last < MaxFrames
  /\ tick > memory.last_tick
  /\ saved.last = memory.last
  /\ live' = live \cup {f}
  /\ saved' = s
  /\ memory' = s
  /\ call' = AfterRecord(s.active)
  /\ UNCHANGED segments

\* Mutant: the window is counted from the frame before the last.
FirstSequenceLate == Larger(FirstLive, WindowStart(memory.last + 1))

FirstSequence == Larger(FirstLive, WindowStart(memory.last))

(***************************************************************************)
(* trigger.  The capture is in memory before update_state is called: when  *)
(* that fails (kept = FALSE) the caller sees the error and the recorder    *)
(* goes on with the capture.                                               *)
(***************************************************************************)
Trigger(kept) ==
  LET s == [memory EXCEPT !.active =
              [first |-> FirstSequence, trigger |-> memory.last,
               remaining |-> PostTrigger]] IN
  /\ Running
  /\ memory.active = None
  /\ live # {}
  /\ memory' = s
  /\ saved' = IF kept THEN s ELSE saved
  /\ call' = IF kept /\ PostTrigger = 0
             THEN [next |-> "seal", reason |-> "post_window_complete"] ELSE NoCall
  /\ UNCHANGED <<live, segments>>

ForceSeal ==
  /\ Running
  /\ memory.active # None
  /\ call' = [next |-> "seal", reason |-> "forced"]
  /\ UNCHANGED <<stored, memory>>

-----------------------------------------------------------------------------
(* The calls that follow *)

CapturedFrames == {f \in live : f.sequence \in memory.active.first..memory.last}

\* No frame of the capture in s is missing, and its trigger is one of them.
CaptureWhole(s) ==
  /\ s.active.first..s.last \subseteq Numbers(live)
  /\ s.active.trigger \in s.active.first..s.last

\* The manifest's validate_range: the first frame of the capture in s was not
\* observed after the last, by the UTC clock.
ObservedInOrder(s) ==
  \A f, g \in live :
    f.sequence = s.active.first /\ g.sequence = s.last =>
      f.payload.observed <= g.payload.observed

(***************************************************************************)
(* _seal_active: seal_segment saves the segment and the state together.    *)
(* When a check refuses the capture the call can only fail (CallFails),    *)
(* now and each time it is made for the same frames.                       *)
(***************************************************************************)
Seal ==
  LET s == [memory EXCEPT !.active = None] IN
  /\ call.next = "seal"
  /\ CaptureWhole(memory)
  /\ ObservedInOrder(memory)
  /\ segments' = segments \cup
       {[trigger |-> memory.active.trigger, reason |-> call.reason, frames |-> CapturedFrames]}
  /\ saved' = s
  /\ memory' = s
  /\ call' = [call EXCEPT !.next = "prune"]
  /\ UNCHANGED live

\* _prune_rolling_window.
Prune ==
  /\ call.next = "prune"
  /\ live' = {f \in live : f.sequence >= WindowStart(memory.last)}
  /\ call' = NoCall
  /\ UNCHANGED <<saved, segments, memory>>

\* The call fails: its caller sees the error, and __init__ does not come up.
CallFails ==
  /\ call # NoCall
  /\ memory' = IF call.reason = "recovery" THEN None ELSE memory
  /\ call' = NoCall
  /\ UNCHANGED stored

\* The process stops, or power is lost.
Crash ==
  /\ memory # None
  /\ memory' = None
  /\ call' = NoCall
  /\ UNCHANGED stored

Next ==
  \/ \E b \in 1..MaxBoot : Start(b)
  \/ \E tick \in 1..MaxTick, observed \in 1..MaxUtc : Record(tick, observed)
  \/ \E kept \in BOOLEAN : Trigger(kept)
  \/ ForceSeal \/ Seal \/ Prune \/ CallFails \/ Crash

Spec == Init /\ [][Next]_vars

-----------------------------------------------------------------------------
(* Properties *)

(* Every variable has its type. *)
TypeOK ==
  /\ saved \in RecorderStates \cup {None}
  /\ live \subseteq Frames
  /\ segments \subseteq Segments
  /\ memory \in RecorderStates \cup {None}
  /\ call \in Calls

\* Whether __init__ comes up with state s, when no store call fails.
ComesUp(s) ==
  /\ LiveStateVerifies(s)
  /\ SealsAtStart(s) => CaptureWhole(s) /\ ObservedInOrder(s)

(***************************************************************************)
(* What can keep the recorder from coming up again: not where the process  *)
(* stopped or which call failed, for the saved state and the live frames   *)
(* pass _verify_live_state (service.py 487-512), and a capture in the      *)
(* saved state or in memory has all its frames (_seal_active 423-436), but *)
(* a UTC clock that was set back during a capture that is complete and not *)
(* sealed: its manifest (models.py 285-286) is refused at every start, as  *)
(* __init__ (119-122) raises before a frame more can be recorded.          *)
(***************************************************************************)
StartFailsOnlyOnUtcStepBack ==
  /\ saved # None /\ ~ComesUp(saved) =>
       SealsAtStart(saved) /\ ~ObservedInOrder(saved)
  /\ \A s \in {saved, memory} \ {None} : s.active # None => CaptureWhole(s)

(***************************************************************************)
(* A sealed segment holds the whole incident: every frame of the           *)
(* pre_trigger_frames window up to the trigger, the frames after it without *)
(* a gap, all post_trigger_frames of them unless the seal was forced, and  *)
(* each frame lies on the one chain that the recorder still extends, as    *)
(* verify_segment (service.py 286-370) needs.  A crash, a failed seal and  *)
(* a failed trigger before it change none of this.                         *)
(***************************************************************************)
SegmentsVerify ==
  \A g \in segments :
    /\ \E last \in g.trigger..saved.last :
         /\ Numbers(g.frames) = WindowStart(g.trigger)..last
         /\ g.reason # "forced" => last >= g.trigger + PostTrigger
    /\ \A f \in g.frames : Hash(f) = SubSeq(saved.head, 1, f.sequence)
-----------------------------------------------------------------------------
(***************************************************************************)
(* The inductive invariant.                                                *)
(***************************************************************************)

(* Frame f is the one of its number on the chain that the recorder extends. *)
OnChain(f) ==
  /\ f.sequence \in 1..saved.last
  /\ f.previous = SubSeq(saved.head, 1, f.sequence - 1)
  /\ Hash(f) = SubSeq(saved.head, 1, f.sequence)

(* The live frames have no gap, reach back over the rolling window and hold
   every frame of a capture. *)
WindowKept ==
  \E first \in 1..WindowStart(saved.last) :
    /\ Numbers(live) = first..saved.last
    /\ \A s \in {saved, memory} \ {None} :
         s.active # None => first <= s.active.first

(* A capture begins with the window of its trigger and counts every frame
   since. *)
CaptureSound(s) ==
  s.active # None =>
    /\ s.active.trigger \in 1..s.last
    /\ s.active.first = WindowStart(s.active.trigger)
    /\ s.last + s.active.remaining >= s.active.trigger + PostTrigger

(* What is stored hangs together. *)
StoreSound ==
  IF saved = None THEN live = {} /\ segments = {} /\ memory = None
  ELSE /\ Len(saved.head) = saved.last
       /\ WindowKept
       /\ \A f \in live : OnChain(f)
       /\ CaptureSound(saved)

(* The recorder's state is the saved one, but for a capture that could not be
   saved. *)
MemorySound ==
  IF memory = None THEN call = NoCall
  ELSE /\ memory.last = saved.last /\ memory.head = saved.head
       /\ saved.active \in {None, memory.active}
       /\ CaptureSound(memory)

CallSound ==
  /\ call.next = "seal" =>
       /\ memory.active # None
       /\ call.reason # "forced" => memory.active.remaining = 0
  /\ call.next = "prune" => memory.active = None

Inv == TypeOK /\ StoreSound /\ MemorySound /\ CallSound /\ SegmentsVerify

=============================================================================
