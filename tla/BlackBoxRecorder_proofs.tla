----------------------- MODULE BlackBoxRecorder_proofs -----------------------
(***************************************************************************)
(* Proofs about BlackBoxRecorder, for any capture policy and any number of *)
(* boots, observations and frames.                                         *)
(***************************************************************************)
EXTENDS BlackBoxRecorder, SequenceTheorems, TLAPS

-----------------------------------------------------------------------------
(* The window, the chain and the frame numbers.                             *)

(* The window starts no later than the last frame. *)
LEMMA WindowFacts ==
  ASSUME NEW n \in Nat
  PROVE  /\ WindowStart(n) \in Nat /\ WindowStart(n) >= 1 /\ WindowStart(n) <= n + 1
         /\ n >= 1 => WindowStart(n) <= n
         /\ n = 0 => WindowStart(n) = 1
BY PolicyAssumption DEF WindowStart

(* The window never moves back. *)
LEMMA WindowMoves ==
  ASSUME NEW m \in Nat, NEW n \in Nat, m <= n
  PROVE  WindowStart(m) <= WindowStart(n)
BY PolicyAssumption DEF WindowStart

(* A chain cut to its own length is the chain. *)
LEMMA WholeChain ==
  ASSUME NEW h \in Hashes
  PROVE  /\ Len(h) \in Nat
         /\ SubSeq(h, 1, Len(h)) = h
         /\ Len(h) = 0 => h = <<>>
<1>1. h \in Seq(Payloads) /\ Len(h) \in Nat
  BY LenProperties DEF Hashes
<1> QED BY <1>1, SubSeqFull, EmptySeq

(* A frame more keeps every earlier cut of the chain. *)
LEMMA ChainExtends ==
  ASSUME NEW h \in Hashes, NEW p \in Payloads
  PROVE  /\ Append(h, p) \in Hashes
         /\ Len(Append(h, p)) = Len(h) + 1
         /\ \A n \in 0..Len(h) : SubSeq(Append(h, p), 1, n) = SubSeq(h, 1, n)
<1>1. h \in Seq(Payloads) /\ Len(h) \in Nat /\ \A i \in 1..Len(h) : h[i] \in Payloads
  BY LenProperties, ElementOfSeq DEF Hashes
<1>2. /\ Append(h, p) \in Seq(Payloads)
      /\ Len(Append(h, p)) = Len(h) + 1
      /\ \A i \in 1..Len(h) : Append(h, p)[i] = h[i]
  BY <1>1
<1>3. ASSUME NEW n \in 0..Len(h)
      PROVE  SubSeq(Append(h, p), 1, n) = SubSeq(h, 1, n)
  BY <1>1, <1>2, <1>3
<1> QED BY <1>2, <1>3 DEF Hashes

(* Of frames without a gap, the first live one has the least number. *)
LEMMA FirstLiveIs ==
  ASSUME NEW first \in Nat, NEW last \in Nat, first <= last,
         Numbers(live) = first..last
  PROVE  FirstLive = first
BY DEF FirstLive

(* The fields of a recorder state. *)
LEMMA StateFacts ==
  ASSUME NEW s \in RecorderStates
  PROVE  /\ s # None
         /\ s.boot \in 1..MaxBoot /\ s.last \in Nat /\ s.head \in Hashes
         /\ s.last_tick \in 0..MaxTick
         /\ s.active \in Captures \cup {None}
         /\ s.active # None =>
              /\ s.active \in Captures
              /\ s.active.first \in Nat /\ s.active.first >= 1
              /\ s.active.trigger \in Nat /\ s.active.trigger >= 1
              /\ s.active.remaining \in Nat
BY NoneAssumption DEF RecorderStates, Captures

(* What the steps change of a recorder state. *)
LEMMA BootedFacts ==
  ASSUME NEW r \in RecorderStates, NEW b \in 1..MaxBoot
  PROVE  /\ [r EXCEPT !.boot = b, !.last_tick = 0] \in RecorderStates
         /\ [r EXCEPT !.boot = b, !.last_tick = 0].last = r.last
         /\ [r EXCEPT !.boot = b, !.last_tick = 0].head = r.head
         /\ [r EXCEPT !.boot = b, !.last_tick = 0].active = r.active
<1>1. 0 \in 0..MaxTick
  BY BoundsAssumption
<1> QED BY <1>1 DEF RecorderStates

Recorded(r, l, h, t, a) ==
  [r EXCEPT !.last = l, !.head = h, !.last_tick = t, !.active = a]

(* The state after a frame was committed. *)
LEMMA RecordedFacts ==
  ASSUME NEW r \in RecorderStates, NEW l \in Nat, NEW h \in Hashes,
         NEW t \in 0..MaxTick, NEW a \in Captures \cup {None}
  PROVE  /\ Recorded(r, l, h, t, a) \in RecorderStates
         /\ Recorded(r, l, h, t, a).last = l /\ Recorded(r, l, h, t, a).head = h
         /\ Recorded(r, l, h, t, a).active = a
BY DEF Recorded, RecorderStates

(* The state with another active capture. *)
LEMMA CapturingFacts ==
  ASSUME NEW r \in RecorderStates, NEW a \in Captures \cup {None}
  PROVE  /\ [r EXCEPT !.active = a] \in RecorderStates
         /\ [r EXCEPT !.active = a].last = r.last
         /\ [r EXCEPT !.active = a].head = r.head
         /\ [r EXCEPT !.active = a].active = a
BY DEF RecorderStates

(* The fields of a frame. *)
LEMMA FrameFacts ==
  ASSUME NEW f \in Frames
  PROVE  /\ f.sequence \in Nat /\ f.sequence >= 1
         /\ f.payload \in Payloads /\ f.previous \in Hashes
BY DEF Frames

(* With the invariant, a state of the saved frames, chain and capture passes
   _verify_live_state. *)
LEMMA StateVerifies ==
  ASSUME TypeOK, StoreSound, saved # None,
         NEW s, s.last = saved.last, s.head = saved.head, s.active = saved.active
  PROVE  LiveStateVerifies(s)
<1>1. saved \in RecorderStates
  BY DEF TypeOK
<1>2. /\ saved.last \in Nat /\ saved.head \in Hashes
      /\ Len(saved.head) = saved.last
      /\ \A f \in live : OnChain(f)
      /\ WindowKept
  BY <1>1, StateFacts DEF StoreSound
<1>3. PICK first \in 1..WindowStart(saved.last) :
        /\ Numbers(live) = first..saved.last
        /\ \A t \in {saved, memory} \ {None} :
             t.active # None => first <= t.active.first
  BY <1>2 DEF WindowKept
<1>4. first \in Nat /\ first >= 1 /\ first <= WindowStart(saved.last)
      /\ WindowStart(saved.last) \in Nat /\ WindowStart(saved.last) <= saved.last + 1
      /\ (saved.last >= 1 => WindowStart(saved.last) <= saved.last)
  <2>1. /\ WindowStart(saved.last) \in Nat /\ WindowStart(saved.last) <= saved.last + 1
        /\ (saved.last >= 1 => WindowStart(saved.last) <= saved.last)
    BY <1>2, WindowFacts
  <2> QED BY <1>3, <2>1
<1>5. CASE live = {}
  <2>1. first..saved.last = {}
    BY <1>3, <1>5 DEF Numbers
  <2>2. saved.last = 0
    BY <1>2, <1>4, <2>1
  <2>3. saved.head = <<>>
    BY <1>2, <2>2, WholeChain
  <2> QED BY <1>5, <2>2, <2>3 DEF LiveStateVerifies
<1>6. CASE live # {}
  <2>1. first <= saved.last
    <3>1. PICK f \in live : TRUE
      BY <1>6
    <3>2. f.sequence \in first..saved.last
      BY <1>3, <3>1 DEF Numbers
    <3> QED BY <1>2, <1>4, <3>2
  <2>2. FirstLive = first
    BY <1>2, <1>3, <1>4, <2>1, FirstLiveIs
  <2>3. ASSUME NEW f \in live, NEW g \in live, g.sequence = f.sequence + 1
        PROVE  g.previous = Hash(f)
    <3>1. OnChain(f) /\ OnChain(g) /\ f.sequence \in Nat
      BY <1>2, FrameFacts DEF TypeOK
    <3>2. g.sequence - 1 = f.sequence
      BY <2>3, <3>1
    <3> QED BY <3>1, <3>2 DEF OnChain
  <2>4. ASSUME NEW f \in live, f.sequence = saved.last
        PROVE  Hash(f) = saved.head
    <3>1. OnChain(f)
      BY <1>2
    <3> QED BY <1>2, <2>4, <3>1, WholeChain DEF OnChain
  <2>5. saved.active # None => first <= saved.active.first
    BY <1>3
  <2> QED BY <1>3, <1>6, <2>2, <2>3, <2>4, <2>5 DEF LiveStateVerifies
<1> QED BY <1>5, <1>6

(* The sealed segments stay good while the chain is only extended. *)
LEMMA SegmentsStay ==
  ASSUME SegmentsVerify, TypeOK, saved # None, saved' \in RecorderStates,
         Len(saved.head) = saved.last,
         saved.last <= saved'.last,
         \A n \in 0..saved.last : SubSeq(saved'.head, 1, n) = SubSeq(saved.head, 1, n),
         segments' = segments
  PROVE  SegmentsVerify'
<1>1. saved.last \in Nat /\ saved'.last \in Nat
  BY StateFacts DEF TypeOK
<1> SUFFICES ASSUME NEW g \in segments
             PROVE  /\ \E last \in g.trigger..saved'.last :
                         /\ Numbers(g.frames) = WindowStart(g.trigger)..last
                         /\ g.reason # "forced" => last >= g.trigger + PostTrigger
                    /\ \A f \in g.frames : Hash(f) = SubSeq(saved'.head, 1, f.sequence)
  BY DEF SegmentsVerify
<1>2. g.trigger \in Nat /\ g.frames \subseteq Frames
  BY DEF TypeOK, Segments
<1>3. PICK last \in g.trigger..saved.last :
        /\ Numbers(g.frames) = WindowStart(g.trigger)..last
        /\ g.reason # "forced" => last >= g.trigger + PostTrigger
  BY DEF SegmentsVerify
<1>4. last \in g.trigger..saved'.last
  BY <1>1, <1>2, <1>3
<1>5. ASSUME NEW f \in g.frames
      PROVE  Hash(f) = SubSeq(saved'.head, 1, f.sequence)
  <2>1. f.sequence \in WindowStart(g.trigger)..last
    BY <1>3 DEF Numbers
  <2>2. f.sequence \in 0..saved.last
    BY <1>1, <1>2, <1>3, <2>1, FrameFacts
  <2>3. Hash(f) = SubSeq(saved.head, 1, f.sequence)
    BY DEF SegmentsVerify
  <2> QED BY <2>2, <2>3
<1> QED BY <1>3, <1>4, <1>5

(* The parts of the invariant that the steps below use. *)
LEMMA RunningFacts ==
  ASSUME Inv, memory # None
  PROVE  /\ saved \in RecorderStates /\ memory \in RecorderStates
         /\ saved # None
         /\ Len(saved.head) = saved.last
         /\ memory.last = saved.last /\ memory.head = saved.head
         /\ saved.active \in {None, memory.active}
         /\ CaptureSound(saved) /\ CaptureSound(memory)
         /\ WindowKept
         /\ \A f \in live : OnChain(f)
BY DEF Inv, TypeOK, StoreSound, MemorySound

(* An instance of WindowKept, for the steps. *)
LEMMA WindowPick ==
  ASSUME Inv, memory # None
  PROVE  \E first \in Nat :
           /\ first >= 1 /\ first <= WindowStart(saved.last)
           /\ Numbers(live) = first..saved.last
           /\ memory.active # None => first <= memory.active.first
           /\ saved.active # None => first <= saved.active.first
<1>1. saved.last \in Nat /\ WindowStart(saved.last) \in Nat
  BY RunningFacts, StateFacts, WindowFacts
<1>2. PICK first \in 1..WindowStart(saved.last) :
        /\ Numbers(live) = first..saved.last
        /\ \A t \in {saved, memory} \ {None} :
             t.active # None => first <= t.active.first
  BY RunningFacts DEF WindowKept
<1>3. saved # None /\ memory # None
  BY RunningFacts
<1> QED BY <1>1, <1>2, <1>3

-----------------------------------------------------------------------------
(* One lemma per action.                                                    *)

(* Starting the recorder keeps the invariant. *)
LEMMA StartStep ==
  ASSUME Inv, NEW b \in 1..MaxBoot, Start(b)
  PROVE  Inv'
<1> DEFINE s == Started(b)
<1>1. TypeOK /\ StoreSound /\ SegmentsVerify /\ memory = None
  BY DEF Inv, Start
<1>2. /\ s \in RecorderStates
      /\ saved = None => s.last = 0 /\ s.head = <<>> /\ s.active = None
      /\ saved # None => /\ s.last = saved.last /\ s.head = saved.head
                         /\ s.active = saved.active
  <2>1. CASE saved = None
    BY <2>1, BoundsAssumption DEF Started, RecorderStates, Hashes
  <2>2. CASE saved # None
    <3>1. saved \in RecorderStates
      BY <1>1, <2>2 DEF TypeOK
    <3>2. CASE b > saved.boot
      <4>1. s = [saved EXCEPT !.boot = b, !.last_tick = 0]
        BY <2>2, <3>2 DEF Started
      <4> QED BY <2>2, <3>1, <4>1, BootedFacts
    <3>3. CASE ~(b > saved.boot)
      BY <2>2, <3>1, <3>3 DEF Started
    <3> QED BY <3>2, <3>3
  <2> QED BY <2>1, <2>2
<1>3. /\ saved' = s /\ memory' \in {s, None} /\ live' = live /\ segments' = segments
      /\ memory' = None => call' = NoCall
      /\ call' = IF memory' # None /\ SealsAtStart(s)
                 THEN [next |-> "seal", reason |-> "recovery"] ELSE NoCall
  BY <1>2, StateFacts DEF Start
<1> HIDE DEF s
<1>4. s # None /\ s.last \in Nat /\ s.head \in Hashes
  BY <1>2, StateFacts
<1>5. TypeOK'
  BY <1>1, <1>2, <1>3 DEF TypeOK, Calls, NoCall, Reasons
<1>6. Len(s.head) = s.last /\ CaptureSound(s)
  BY <1>1, <1>2, EmptySeq DEF StoreSound, CaptureSound
<1>7. \E first \in 1..WindowStart(s.last) :
        Numbers(live) = first..s.last /\ (s.active # None => first <= s.active.first)
  <2>1. CASE saved = None
    <3>1. live = {} /\ s.last = 0 /\ s.active = None
      BY <1>1, <1>2, <2>1 DEF StoreSound
    <3>2. WindowStart(0) = 1
      BY WindowFacts
    <3>3. Numbers(live) = 1..s.last
      BY <3>1 DEF Numbers
    <3> QED BY <3>1, <3>2, <3>3
  <2>2. CASE saved # None
    BY <1>1, <1>2, <2>2 DEF StoreSound, WindowKept
  <2> QED BY <2>1, <2>2
<1>8. WindowKept'
  BY <1>3, <1>7 DEF WindowKept, Numbers
<1>9. \A f \in live' : OnChain(f)'
  <2>1. CASE saved = None
    BY <1>1, <1>3, <2>1 DEF StoreSound
  <2>2. CASE saved # None
    BY <1>1, <1>2, <1>3, <2>2 DEF StoreSound, OnChain
  <2> QED BY <2>1, <2>2
<1>10. StoreSound'
  BY <1>3, <1>4, <1>6, <1>8, <1>9 DEF StoreSound, CaptureSound
<1>11. MemorySound'
  BY <1>3, <1>4, <1>6 DEF MemorySound, CaptureSound
<1>12. CallSound'
  BY <1>3, <1>4 DEF CallSound, SealsAtStart, NoCall
<1>13. SegmentsVerify'
  <2>1. CASE saved = None
    BY <1>1, <1>3, <2>1 DEF StoreSound, SegmentsVerify
  <2>2. CASE saved # None
    BY <1>1, <1>2, <1>3, <2>2 DEF SegmentsVerify
  <2> QED BY <2>1, <2>2
<1> QED BY <1>5, <1>10, <1>11, <1>12, <1>13 DEF Inv

(* Committing a frame keeps the invariant. *)
LEMMA RecordStep ==
  ASSUME Inv, NEW tick \in 1..MaxTick, NEW observed \in 1..MaxUtc,
         Record(tick, observed)
  PROVE  Inv'
<1> DEFINE p == [boot |-> memory.boot, tick |-> tick, observed |-> observed]
           f == [sequence |-> memory.last + 1, payload |-> p, previous |-> memory.head]
           s == [memory EXCEPT !.last = f.sequence, !.head = Hash(f), !.last_tick = tick,
                               !.active = Counted(memory.active)]
<1>1. memory # None /\ call = NoCall
  BY DEF Record, Running
<1>2. /\ saved \in RecorderStates /\ memory \in RecorderStates /\ saved # None
      /\ Len(saved.head) = saved.last
      /\ memory.last = saved.last /\ memory.head = saved.head
      /\ CaptureSound(memory) /\ \A g \in live : OnChain(g)
  BY <1>1, RunningFacts
<1>3. /\ memory.boot \in 1..MaxBoot /\ memory.last \in Nat /\ memory.head \in Hashes
      /\ memory.active \in Captures \cup {None}
  BY <1>2, StateFacts
<1>4. p \in Payloads
  BY <1>3 DEF Payloads
<1>5. /\ f \in Frames /\ f.sequence = memory.last + 1 /\ f.previous = memory.head
      /\ Hash(f) = Append(memory.head, p)
  BY <1>3, <1>4 DEF Frames, Hash
<1>6. /\ Append(memory.head, p) \in Hashes
      /\ Len(Append(memory.head, p)) = memory.last + 1
      /\ \A n \in 0..memory.last :
           SubSeq(Append(memory.head, p), 1, n) = SubSeq(memory.head, 1, n)
      /\ SubSeq(Append(memory.head, p), 1, memory.last + 1) = Append(memory.head, p)
      /\ SubSeq(memory.head, 1, memory.last) = memory.head
  <2>1. Len(memory.head) = memory.last
    BY <1>2
  <2>2. /\ Append(memory.head, p) \in Hashes
        /\ Len(Append(memory.head, p)) = memory.last + 1
        /\ \A n \in 0..memory.last :
             SubSeq(Append(memory.head, p), 1, n) = SubSeq(memory.head, 1, n)
    BY <1>3, <1>4, <2>1, ChainExtends
  <2> QED BY <1>3, <2>1, <2>2, WholeChain
<1> HIDE DEF p, f
<1>7. /\ Counted(memory.active) \in Captures \cup {None}
      /\ Counted(memory.active) = None <=> memory.active = None
      /\ memory.active # None =>
           /\ Counted(memory.active).first = memory.active.first
           /\ Counted(memory.active).trigger = memory.active.trigger
           /\ Counted(memory.active).remaining \in Nat
           /\ Counted(memory.active).remaining + 1 >= memory.active.remaining
  BY <1>3, NoneAssumption DEF Counted, Captures
<1>8. /\ s \in RecorderStates
      /\ s.last = memory.last + 1 /\ s.head = Append(memory.head, p)
      /\ s.active = Counted(memory.active)
  <2>1. tick \in 0..MaxTick
    BY BoundsAssumption
  <2>2. f.sequence \in Nat /\ Hash(f) \in Hashes
    BY <1>3, <1>5, <1>6
  <2>3. memory \in RecorderStates /\ Counted(memory.active) \in Captures \cup {None}
    BY <1>2, <1>7
  <2>4. /\ s \in RecorderStates /\ s.last = f.sequence /\ s.head = Hash(f)
        /\ s.active = Counted(memory.active)
    <3>1. s = Recorded(memory, f.sequence, Hash(f), tick, Counted(memory.active))
      BY DEF Recorded
    <3> QED BY <2>1, <2>2, <2>3, <3>1, RecordedFacts
  <2> QED BY <1>5, <2>4
<1>9. /\ live' = live \cup {f} /\ saved' = s /\ memory' = s
      /\ call' = AfterRecord(s.active) /\ segments' = segments
  BY DEF Record, p, f
<1> HIDE DEF s
<1>10. s # None
  BY <1>8, StateFacts
<1>11. TypeOK'
  BY <1>5, <1>8, <1>9 DEF Inv, TypeOK, AfterRecord, Calls, NoCall, Reasons
<1>12. CaptureSound(s)
  <2> SUFFICES ASSUME s.active # None
               PROVE  /\ s.active.trigger \in 1..s.last
                      /\ s.active.first = WindowStart(s.active.trigger)
                      /\ s.last + s.active.remaining >= s.active.trigger + PostTrigger
    BY DEF CaptureSound
  <2>1. memory.active # None
    BY <1>7, <1>8
  <2>2. /\ memory.active.trigger \in 1..memory.last
        /\ memory.active.first = WindowStart(memory.active.trigger)
        /\ memory.last + memory.active.remaining >= memory.active.trigger + PostTrigger
    BY <1>2, <2>1 DEF CaptureSound
  <2>3. memory.active.remaining \in Nat
    BY <1>2, <2>1, StateFacts
  <2>4. /\ s.active.trigger = memory.active.trigger
        /\ s.active.first = memory.active.first
        /\ s.active.remaining \in Nat
        /\ s.active.remaining + 1 >= memory.active.remaining
    BY <1>7, <1>8, <2>1
  <2>5. s.active.trigger \in 1..s.last
    BY <1>3, <1>8, <2>2, <2>4
  <2>6. s.last + s.active.remaining >= s.active.trigger + PostTrigger
    <3>1. \A l, r, q, t, w \in Nat : q + 1 >= r /\ l + r >= t + w => l + 1 + q >= t + w
      OBVIOUS
    <3>2. memory.active.trigger \in Nat
      BY <1>3, <2>2
    <3> QED BY <1>3, <1>8, <2>2, <2>3, <2>4, <3>1, <3>2, PolicyAssumption
  <2> QED BY <2>2, <2>4, <2>5, <2>6
<1>13. WindowKept'
  <2>1. PICK first \in Nat :
           /\ first >= 1 /\ first <= WindowStart(saved.last)
           /\ Numbers(live) = first..saved.last
           /\ memory.active # None => first <= memory.active.first
    BY <1>1, WindowPick
  <2>2. /\ WindowStart(memory.last) \in Nat /\ WindowStart(memory.last) <= memory.last + 1
    BY <1>3, WindowFacts
  <2>3. /\ WindowStart(s.last) \in Nat /\ WindowStart(memory.last) <= WindowStart(s.last)
    <3>1. s.last \in Nat /\ memory.last <= s.last
      BY <1>3, <1>8
    <3> QED BY <1>3, <3>1, WindowFacts, WindowMoves
  <2>4. first \in 1..WindowStart(s.last)
    BY <1>2, <2>1, <2>2, <2>3
  <2>5. Numbers(live \cup {f}) = first..s.last
    <3>1. Numbers(live \cup {f}) = Numbers(live) \cup {f.sequence}
      BY DEF Numbers
    <3>2. (first..memory.last) \cup {memory.last + 1} = first..(memory.last + 1)
      BY <1>2, <1>3, <2>1, <2>2
    <3> QED BY <1>2, <1>5, <1>8, <2>1, <3>1, <3>2
  <2>6. s.active # None => first <= s.active.first
    BY <1>7, <1>8, <2>1
  <2> QED BY <1>9, <2>4, <2>5, <2>6 DEF WindowKept, Numbers
<1>14. ASSUME NEW g \in live' PROVE OnChain(g)'
  <2>1. CASE g = f
    <3>1. f.sequence \in 1..s.last /\ f.sequence - 1 = memory.last
      <4>1. f.sequence = memory.last + 1 /\ s.last = memory.last + 1
        BY <1>5, <1>8
      <4> HIDE DEF s, f
      <4> QED BY <1>3, <4>1
    <3>2. f.previous = SubSeq(s.head, 1, f.sequence - 1)
      BY <1>3, <1>5, <1>6, <1>8, <3>1
    <3>3. Hash(f) = SubSeq(s.head, 1, f.sequence)
      BY <1>5, <1>6, <1>8
    <3> QED BY <1>9, <2>1, <3>1, <3>2, <3>3 DEF OnChain
  <2>2. CASE g \in live
    <3>1. /\ g.sequence \in 1..memory.last
          /\ g.previous = SubSeq(memory.head, 1, g.sequence - 1)
          /\ Hash(g) = SubSeq(memory.head, 1, g.sequence)
      BY <1>2, <2>2 DEF OnChain
    <3>2. g.sequence \in 1..s.last /\ g.sequence \in 0..memory.last
          /\ g.sequence - 1 \in 0..memory.last
      BY <1>3, <1>8, <3>1
    <3>3. /\ g.previous = SubSeq(s.head, 1, g.sequence - 1)
          /\ Hash(g) = SubSeq(s.head, 1, g.sequence)
      BY <1>6, <1>8, <3>1, <3>2
    <3> QED BY <1>9, <3>2, <3>3 DEF OnChain
  <2> QED BY <1>9, <2>1, <2>2
<1>15. StoreSound'
  BY <1>6, <1>8, <1>9, <1>10, <1>12, <1>13, <1>14 DEF StoreSound, CaptureSound
<1>16. MemorySound'
  BY <1>9, <1>10, <1>12 DEF MemorySound, CaptureSound
<1>17. CallSound'
  BY <1>9 DEF CallSound, AfterRecord, NoCall
<1>18. SegmentsVerify'
  <2>1. saved.last <= saved'.last
    BY <1>2, <1>3, <1>8, <1>9
  <2>2. \A n \in 0..saved.last : SubSeq(saved'.head, 1, n) = SubSeq(saved.head, 1, n)
    BY <1>2, <1>6, <1>8, <1>9
  <2> QED BY <1>2, <1>8, <1>9, <2>1, <2>2, SegmentsStay DEF Inv
<1> QED BY <1>11, <1>15, <1>16, <1>17, <1>18 DEF Inv

(* Opening a capture keeps the invariant. *)
LEMMA TriggerStep ==
  ASSUME Inv, NEW kept \in BOOLEAN, Trigger(kept)
  PROVE  Inv'
<1> DEFINE a == [first |-> FirstSequence, trigger |-> memory.last,
                 remaining |-> PostTrigger]
           s == [memory EXCEPT !.active = a]
<1>1. memory # None /\ memory.active = None /\ live # {}
  BY DEF Trigger, Running
<1>2. /\ saved \in RecorderStates /\ memory \in RecorderStates /\ saved # None
      /\ Len(saved.head) = saved.last
      /\ memory.last = saved.last /\ memory.head = saved.head
      /\ saved.active = None /\ \A g \in live : OnChain(g)
  BY <1>1, RunningFacts
<1>3. memory.last \in Nat
  BY <1>2, StateFacts
<1>4. PICK first \in Nat :
        /\ first >= 1 /\ first <= WindowStart(memory.last)
        /\ Numbers(live) = first..memory.last
  BY <1>1, <1>2, WindowPick
<1>5. memory.last >= 1 /\ first <= memory.last
  <2>1. PICK f \in live : TRUE
    BY <1>1
  <2>2. f.sequence \in first..memory.last
    BY <1>4, <2>1 DEF Numbers
  <2> QED BY <1>3, <1>4, <2>2
<1>6. FirstSequence = WindowStart(memory.last)
  <2>1. FirstLive = first
    BY <1>3, <1>4, <1>5, FirstLiveIs
  <2>2. WindowStart(memory.last) \in Nat
    BY <1>3, WindowFacts
  <2> QED BY <1>4, <2>1, <2>2 DEF FirstSequence, Larger
<1>7. WindowStart(memory.last) \in Nat /\ WindowStart(memory.last) >= 1
  BY <1>3, WindowFacts
<1>8. /\ a \in Captures /\ a # None
      /\ a.first = WindowStart(memory.last) /\ a.trigger = memory.last
      /\ a.remaining = PostTrigger
  BY <1>3, <1>5, <1>6, <1>7, PolicyAssumption, NoneAssumption DEF Captures
<1>9. /\ memory' = s /\ saved' = IF kept THEN s ELSE saved
      /\ call' = IF kept /\ PostTrigger = 0
                 THEN [next |-> "seal", reason |-> "post_window_complete"] ELSE NoCall
      /\ live' = live /\ segments' = segments
  BY DEF Trigger
<1> HIDE DEF a
<1>10. /\ s \in RecorderStates /\ s.last = memory.last /\ s.head = memory.head
       /\ s.active = a
  BY <1>2, <1>8, CapturingFacts
<1> HIDE DEF s
<1>11. /\ s # None /\ saved' \in {s, saved} /\ saved' \in RecorderStates /\ saved' # None
       /\ saved'.last = saved.last /\ saved'.head = saved.head
       /\ saved'.active \in {None, a}
  BY <1>2, <1>9, <1>10, StateFacts
<1>12. TypeOK'
  BY <1>9, <1>10, <1>11 DEF Inv, TypeOK, Calls, NoCall, Reasons
<1>13. CaptureSound(s) /\ (saved'.active # None => saved' = s)
  <2>1. CaptureSound(s)
    <3>1. s.active.trigger \in 1..s.last
      BY <1>3, <1>5, <1>8, <1>10
    <3>2. s.last + s.active.remaining >= s.active.trigger + PostTrigger
      BY <1>3, <1>8, <1>10, PolicyAssumption
    <3> QED BY <1>8, <1>10, <3>1, <3>2 DEF CaptureSound
  <2> QED BY <1>2, <1>11, <2>1
<1>14. WindowKept'
  <2>1. first \in 1..WindowStart(saved'.last)
    BY <1>2, <1>4, <1>7, <1>11
  <2>2. Numbers(live') = first..saved'.last
    BY <1>2, <1>4, <1>9, <1>11 DEF Numbers
  <2>3. \A t \in {saved', memory'} \ {None} : t.active # None => first <= t.active.first
    BY <1>2, <1>4, <1>8, <1>9, <1>10, <1>11
  <2> QED BY <2>1, <2>2, <2>3 DEF WindowKept, Numbers
<1>15. \A f \in live' : OnChain(f)'
  BY <1>2, <1>9, <1>11 DEF OnChain
<1>16. StoreSound'
  BY <1>2, <1>11, <1>13, <1>14, <1>15 DEF StoreSound, CaptureSound
<1>17. MemorySound'
  BY <1>2, <1>9, <1>10, <1>11, <1>13 DEF MemorySound, CaptureSound
<1>18. CallSound'
  BY <1>8, <1>9, <1>10 DEF CallSound, NoCall
<1>19. SegmentsVerify'
  BY <1>9, <1>11 DEF Inv, SegmentsVerify
<1> QED BY <1>12, <1>16, <1>17, <1>18, <1>19 DEF Inv

(* Closing a capture early keeps the invariant. *)
LEMMA ForceSealStep ==
  ASSUME Inv, ForceSeal
  PROVE  Inv'
<1>1. /\ saved' = saved /\ live' = live /\ segments' = segments /\ memory' = memory
      /\ memory # None /\ memory.active # None
      /\ call' = [next |-> "seal", reason |-> "forced"]
  BY DEF ForceSeal, Running, stored
<1>2. TypeOK'
  BY <1>1 DEF Inv, TypeOK, Calls, Reasons
<1>3. StoreSound'
  BY <1>1 DEF Inv, StoreSound, WindowKept, OnChain, CaptureSound
<1>4. MemorySound'
  BY <1>1 DEF Inv, MemorySound, CaptureSound
<1>5. CallSound'
  BY <1>1 DEF CallSound
<1>6. SegmentsVerify'
  BY <1>1 DEF Inv, SegmentsVerify
<1> QED BY <1>2, <1>3, <1>4, <1>5, <1>6 DEF Inv

(* Sealing a segment keeps the invariant. *)
LEMMA SealStep ==
  ASSUME Inv, Seal
  PROVE  Inv'
<1> DEFINE s == [memory EXCEPT !.active = None]
           g == [trigger |-> memory.active.trigger, reason |-> call.reason,
                 frames |-> CapturedFrames]
<1>1. memory # None /\ memory.active # None
      /\ (call.reason # "forced" => memory.active.remaining = 0)
  BY DEF Inv, MemorySound, CallSound, Seal, NoCall
<1>2. /\ saved \in RecorderStates /\ memory \in RecorderStates /\ saved # None
      /\ Len(saved.head) = saved.last
      /\ memory.last = saved.last /\ memory.head = saved.head
      /\ CaptureSound(memory) /\ \A f \in live : OnChain(f)
  BY <1>1, RunningFacts
<1>3. /\ memory.last \in Nat /\ memory.active.trigger \in Nat
      /\ memory.active.trigger >= 1 /\ memory.active.remaining \in Nat
  BY <1>1, <1>2, StateFacts
<1>4. /\ s \in RecorderStates /\ s.last = memory.last /\ s.head = memory.head
      /\ s.active = None
  BY <1>2, CapturingFacts
<1>5. /\ segments' = segments \cup {g} /\ saved' = s /\ memory' = s /\ live' = live
      /\ call' = [call EXCEPT !.next = "prune"]
  BY DEF Seal
<1>5a. Numbers(CapturedFrames) = memory.active.first..memory.last
  <2>1. memory.active.first..memory.last \subseteq Numbers(live)
    BY DEF Seal, CaptureWhole
  <2> QED BY <2>1 DEF Numbers, CapturedFrames
<1>6. call \in Calls /\ call.reason \in Reasons /\ call' \in Calls /\ call'.next = "prune"
  BY <1>5 DEF Inv, TypeOK, Calls
<1>7. CapturedFrames \subseteq live /\ CapturedFrames \subseteq Frames
  BY DEF CapturedFrames, Inv, TypeOK
<1>8. /\ g \in Segments /\ g.trigger = memory.active.trigger
      /\ g.reason = call.reason /\ g.frames = CapturedFrames
  BY <1>3, <1>6, <1>7 DEF Segments
<1> HIDE DEF s, g
<1>9. s # None
  BY <1>4, StateFacts
<1>10. TypeOK'
  BY <1>4, <1>5, <1>6, <1>8 DEF Inv, TypeOK
<1>11. WindowKept'
  <2>1. PICK first \in Nat :
          /\ first >= 1 /\ first <= WindowStart(saved.last)
          /\ Numbers(live) = first..saved.last
    BY <1>1, WindowPick
  <2>2. WindowStart(saved.last) \in Nat
    BY <1>2, <1>3, WindowFacts
  <2>3. first \in 1..WindowStart(saved'.last)
    BY <1>2, <1>4, <1>5, <2>1, <2>2
  <2> QED BY <1>2, <1>4, <1>5, <2>1, <2>3 DEF WindowKept, Numbers
<1>12. StoreSound'
  BY <1>2, <1>4, <1>5, <1>9, <1>11 DEF StoreSound, CaptureSound, OnChain
<1>13. MemorySound'
  BY <1>4, <1>5, <1>9 DEF MemorySound, CaptureSound
<1>14. CallSound'
  BY <1>4, <1>5, <1>6 DEF CallSound
<1>15. SegmentsVerify'
  <2>1. saved'.last = memory.last /\ saved'.head = saved.head
        /\ saved'.last = saved.last
    BY <1>2, <1>4, <1>5
  <2>2. ASSUME NEW h \in segments
        PROVE  /\ \E last \in h.trigger..saved'.last :
                    /\ Numbers(h.frames) = WindowStart(h.trigger)..last
                    /\ h.reason # "forced" => last >= h.trigger + PostTrigger
               /\ \A f \in h.frames : Hash(f) = SubSeq(saved'.head, 1, f.sequence)
    BY <2>1 DEF Inv, SegmentsVerify
  <2>3. /\ memory.last \in g.trigger..saved'.last
        /\ Numbers(g.frames) = WindowStart(g.trigger)..memory.last
        /\ g.reason # "forced" => memory.last >= g.trigger + PostTrigger
    <3>1. /\ memory.active.trigger \in 1..memory.last
          /\ memory.active.first = WindowStart(memory.active.trigger)
          /\ memory.last + memory.active.remaining >= memory.active.trigger + PostTrigger
      BY <1>1, <1>2 DEF CaptureSound
    <3>2. memory.last \in g.trigger..saved'.last
      BY <1>3, <1>8, <2>1, <3>1
    <3>3. Numbers(g.frames) = WindowStart(g.trigger)..memory.last
      BY <1>5a, <1>8, <3>1
    <3>4. g.reason # "forced" => memory.last >= g.trigger + PostTrigger
      BY <1>1, <1>3, <1>8, <3>1, PolicyAssumption
    <3> QED BY <3>2, <3>3, <3>4
  <2>4. \A f \in g.frames : Hash(f) = SubSeq(saved'.head, 1, f.sequence)
    BY <1>2, <1>7, <1>8, <2>1 DEF OnChain
  <2>5. \A h \in segments \cup {g} :
          /\ \E last \in h.trigger..saved'.last :
               /\ Numbers(h.frames) = WindowStart(h.trigger)..last
               /\ h.reason # "forced" => last >= h.trigger + PostTrigger
          /\ \A f \in h.frames : Hash(f) = SubSeq(saved'.head, 1, f.sequence)
    BY <2>2, <2>3, <2>4
  <2> QED BY <1>5, <2>5 DEF SegmentsVerify
<1> QED BY <1>10, <1>12, <1>13, <1>14, <1>15 DEF Inv

(* Pruning the live frames keeps the invariant. *)
LEMMA PruneStep ==
  ASSUME Inv, Prune
  PROVE  Inv'
<1>1. /\ saved' = saved /\ segments' = segments /\ memory' = memory /\ call' = NoCall
      /\ live' = {f \in live : f.sequence >= WindowStart(memory.last)}
      /\ live' \subseteq live
      /\ memory # None /\ memory.active = None
  BY DEF Inv, MemorySound, CallSound, Prune, NoCall
<1>2. /\ saved \in RecorderStates /\ saved # None
      /\ Len(saved.head) = saved.last /\ memory.last = saved.last
      /\ saved.active = None /\ CaptureSound(saved) /\ \A f \in live : OnChain(f)
  BY <1>1, RunningFacts
<1>3. saved.last \in Nat
  BY <1>2, StateFacts
<1>4. TypeOK'
  BY <1>1 DEF Inv, TypeOK, Calls, NoCall, Reasons
<1>5. WindowKept'
  <2>1. PICK first \in Nat :
          /\ first >= 1 /\ first <= WindowStart(saved.last)
          /\ Numbers(live) = first..saved.last
    BY <1>1, WindowPick
  <2>2. WindowStart(saved.last) \in Nat /\ WindowStart(saved.last) >= 1
    BY <1>3, WindowFacts
  <2>3. Numbers(live') = {n \in Numbers(live) : n >= WindowStart(saved.last)}
    BY <1>1, <1>2 DEF Numbers
  <2>4. Numbers(live') = WindowStart(saved.last)..saved.last
    BY <1>3, <2>1, <2>2, <2>3
  <2>5. WindowStart(saved.last) \in 1..WindowStart(saved'.last)
    BY <1>1, <2>2
  <2>6. \A t \in {saved', memory'} \ {None} : t.active = None
    BY <1>1, <1>2
  <2> QED BY <1>1, <2>4, <2>5, <2>6 DEF WindowKept, Numbers
<1>6. StoreSound'
  BY <1>1, <1>2, <1>5 DEF StoreSound, OnChain, CaptureSound
<1>7. MemorySound'
  BY <1>1 DEF Inv, MemorySound, CaptureSound
<1>8. CallSound'
  BY <1>1 DEF CallSound, NoCall
<1>9. SegmentsVerify'
  BY <1>1 DEF Inv, SegmentsVerify
<1> QED BY <1>4, <1>6, <1>7, <1>8, <1>9 DEF Inv

(* A failed call and a stop change only what is in memory. *)
LEMMA LosesOnlyMemory ==
  ASSUME Inv, saved' = saved, live' = live, segments' = segments,
         memory' \in {memory, None}, call' = NoCall
  PROVE  Inv'
<1>1. TypeOK'
  BY DEF Inv, TypeOK, Calls, NoCall, Reasons
<1>2. WindowKept => WindowKept'
  BY DEF WindowKept, Numbers
<1>3. StoreSound'
  BY <1>2 DEF Inv, StoreSound, OnChain, CaptureSound
<1>4. MemorySound'
  BY DEF Inv, MemorySound, CaptureSound
<1>5. CallSound'
  BY DEF CallSound, NoCall
<1>6. SegmentsVerify'
  BY DEF Inv, SegmentsVerify
<1> QED BY <1>1, <1>3, <1>4, <1>5, <1>6 DEF Inv

(* Every step keeps the invariant. *)
LEMMA Step ==
  ASSUME Inv, [Next]_vars
  PROVE  Inv'
<1>1. CASE UNCHANGED vars
  <2>1. saved' = saved /\ live' = live /\ segments' = segments
        /\ memory' = memory /\ call' = call
    BY <1>1 DEF vars
  <2>2. TypeOK' /\ CallSound' /\ SegmentsVerify'
    BY <2>1 DEF Inv, TypeOK, CallSound, SegmentsVerify
  <2>3. StoreSound' /\ MemorySound'
    BY <2>1 DEF Inv, StoreSound, MemorySound, WindowKept, OnChain, CaptureSound
  <2> QED BY <2>2, <2>3 DEF Inv
<1>2. CASE CallFails
  <2>1. memory' \in {memory, None} /\ call' = NoCall
        /\ saved' = saved /\ live' = live /\ segments' = segments
    BY <1>2 DEF CallFails, stored
  <2> QED BY <2>1, LosesOnlyMemory
<1>3. CASE Crash
  <2>1. memory' \in {memory, None} /\ call' = NoCall
        /\ saved' = saved /\ live' = live /\ segments' = segments
    BY <1>3 DEF Crash, stored
  <2> QED BY <2>1, LosesOnlyMemory
<1> QED BY <1>1, <1>2, <1>3, StartStep, RecordStep, TriggerStep, ForceSealStep,
           SealStep, PruneStep DEF Next

-----------------------------------------------------------------------------

(* Inv holds of every state: however often the recorder stops, starts again or
   loses a call, the live frames are one piece of the chain that reaches back
   over the rolling window and every capture. *)
THEOREM Invariance == Spec => []Inv
<1>1. Init => Inv
  BY DEF Init, Inv, TypeOK, StoreSound, MemorySound, CallSound, SegmentsVerify,
         Calls, NoCall, Reasons
<1>2. Inv /\ [Next]_vars => Inv'
  BY Step
<1> QED BY <1>1, <1>2, PTL DEF Spec

(* Every variable keeps its type. *)
THEOREM TypeCorrect == Spec => []TypeOK
<1>1. Inv => TypeOK
  BY DEF Inv
<1> QED BY <1>1, Invariance, PTL

(* Every active capture has all its frames (_seal_active, service.py 423-436). *)
LEMMA CapturesAreWhole ==
  ASSUME Inv, NEW s \in {saved, memory} \ {None}, s.active # None
  PROVE  CaptureWhole(s)
<1>1. saved # None /\ saved \in RecorderStates /\ s \in RecorderStates
      /\ s.last = saved.last /\ WindowKept /\ CaptureSound(s)
  BY DEF Inv, TypeOK, StoreSound, MemorySound
<1>2. PICK first \in 1..WindowStart(saved.last) :
        /\ Numbers(live) = first..saved.last
        /\ first <= s.active.first
  BY <1>1 DEF WindowKept
<1>3. saved.last \in Nat /\ s.active.first \in Nat /\ s.active.trigger \in Nat
  BY <1>1, StateFacts
<1>4. first \in Nat
  <2>1. WindowStart(saved.last) \in Nat
    BY <1>3, WindowFacts
  <2> QED BY <1>2, <2>1
<1>5. s.active.first..s.last \subseteq Numbers(live)
  BY <1>1, <1>2, <1>3, <1>4
<1>6. s.active.trigger \in s.active.first..s.last
  <2>1. s.active.trigger \in 1..s.last /\ s.active.first = WindowStart(s.active.trigger)
    BY <1>1 DEF CaptureSound
  <2>2. s.active.first <= s.active.trigger
    BY <1>3, <2>1, WindowFacts
  <2> QED BY <1>1, <1>3, <2>1, <2>2
<1> QED BY <1>5, <1>6 DEF CaptureWhole

(* No crash and no failed call keeps the recorder down: a start fails only
   because the UTC clock was set back over a complete capture (service.py
   __init__ 119-122, _verify_live_state, _seal_active; models.py 285-286). *)
THEOREM CrashesNeverStopRecovery == Spec => []StartFailsOnlyOnUtcStepBack
<1>1. Inv => StartFailsOnlyOnUtcStepBack
  <2> SUFFICES ASSUME Inv PROVE StartFailsOnlyOnUtcStepBack
    OBVIOUS
  <2>1. saved # None => LiveStateVerifies(saved)
    BY StateVerifies DEF Inv
  <2>2. \A s \in {saved, memory} \ {None} : s.active # None => CaptureWhole(s)
    BY CapturesAreWhole
  <2>3. ASSUME saved # None, ~ComesUp(saved)
        PROVE  SealsAtStart(saved) /\ ~ObservedInOrder(saved)
    BY <2>1, <2>2, <2>3 DEF ComesUp, SealsAtStart
  <2> QED BY <2>2, <2>3 DEF StartFailsOnlyOnUtcStepBack
<1> QED BY <1>1, Invariance, PTL

(* Every sealed segment holds its whole incident, on the one chain
   (service.py verify_segment). *)
THEOREM SealedStaysWhole == Spec => []SegmentsVerify
<1>1. Inv => SegmentsVerify
  BY DEF Inv
<1> QED BY <1>1, Invariance, PTL
=============================================================================
