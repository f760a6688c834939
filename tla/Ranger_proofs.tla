---------------------------- MODULE Ranger_proofs ----------------------------
(***************************************************************************)
(* Proofs about the two parts of a Ranger vehicle: RangerRegistry, for any *)
(* set of signed authority histories and of custody chains and any number  *)
(* of registry objects, and RangerMotion, for every policy, clock and      *)
(* command number.                                                         *)
(***************************************************************************)
EXTENDS RangerRegistry, RangerMotion, SequenceTheorems, TLAPS

HeadRecords == [history : Seq(Events), at : 1..MaxTime]
CheckpointRecords ==
  [chain : Chains, head : Nat \ {0}, at : 1..MaxTime,
   ranger_advanced : BOOLEAN, authority_advanced : BOOLEAN]

-----------------------------------------------------------------------------
(* Sequences.                                                               *)

(* The length, the domain and the last element of a sequence. *)
LEMMA SeqFacts ==
  ASSUME NEW S, NEW s \in Seq(S)
  PROVE  /\ Len(s) \in Nat /\ DOMAIN s = 1..Len(s)
         /\ \A i \in 1..Len(s) : s[i] \in S
         /\ s # <<>> <=> Len(s) >= 1
         /\ s # <<>> => LastOf(s) \in S
<1>1. /\ Len(s) \in Nat /\ DOMAIN s = 1..Len(s)
      /\ \A i \in 1..Len(s) : s[i] \in S
  BY LenProperties, ElementOfSeq
<1>2. s # <<>> <=> Len(s) >= 1
  BY <1>1, EmptySeq
<1>3. ASSUME s # <<>> PROVE LastOf(s) \in S
  BY <1>1, <1>2, <1>3 DEF LastOf
<1> QED BY <1>1, <1>2, <1>3

(* What an append makes of a sequence. *)
LEMMA AppendFacts ==
  ASSUME NEW S, NEW s \in Seq(S), NEW e \in S
  PROVE  /\ Append(s, e) \in Seq(S) /\ Append(s, e) # <<>>
         /\ Len(Append(s, e)) = Len(s) + 1
         /\ DOMAIN Append(s, e) = 1..(Len(s) + 1)
         /\ \A i \in 1..Len(s) : Append(s, e)[i] = s[i]
         /\ Append(s, e)[Len(s) + 1] = e
         /\ LastOf(Append(s, e)) = e
BY DEF LastOf

(* Every sequence is a prefix of itself. *)
LEMMA PrefixOfRefl ==
  ASSUME NEW S, NEW s \in Seq(S)
  PROVE  PrefixOf(s, s)
BY SeqFacts DEF PrefixOf

(* A prefix of a prefix is a prefix. *)
LEMMA PrefixOfTrans ==
  ASSUME NEW S, NEW s \in Seq(S), NEW t \in Seq(S), NEW u \in Seq(S),
         PrefixOf(s, t), PrefixOf(t, u)
  PROVE  PrefixOf(s, u)
<1>1. Len(s) \in Nat /\ Len(t) \in Nat /\ Len(u) \in Nat
  BY SeqFacts
<1> QED BY <1>1 DEF PrefixOf

(* A cut to the length of a prefix is the prefix. *)
LEMMA PrefixIsCut ==
  ASSUME NEW S, NEW s \in Seq(S), NEW t \in Seq(S), Len(s) <= Len(t)
  PROVE  SubSeq(t, 1, Len(s)) = s <=> PrefixOf(s, t)
<1>1. /\ Len(s) \in Nat /\ Len(t) \in Nat
      /\ \A i \in 1..Len(s) : t[i] \in S
  BY SeqFacts
<1>2. /\ SubSeq(t, 1, Len(s)) \in Seq(S)
      /\ Len(SubSeq(t, 1, Len(s))) = Len(s)
      /\ \A i \in 1..Len(s) : SubSeq(t, 1, Len(s))[i] = t[i]
  <2>1. \A i \in 1..Len(s) : 1 + i - 1 = i
    BY <1>1
  <2> QED BY <1>1, <2>1, SubSeqProperties
<1>3. ASSUME PrefixOf(s, t) PROVE SubSeq(t, 1, Len(s)) = s
  BY <1>1, <1>2, <1>3, SeqEqual DEF PrefixOf
<1>4. ASSUME SubSeq(t, 1, Len(s)) = s PROVE PrefixOf(s, t)
  BY <1>2, <1>4 DEF PrefixOf
<1> QED BY <1>3, <1>4

-----------------------------------------------------------------------------
(* Authority histories.                                                     *)

(* The fields of a key event. *)
LEMMA EventFacts ==
  ASSUME NEW e \in Events
  PROVE  /\ e.kind \in Kinds /\ e.boot \in Nat
         /\ e.kind = "rotate" <=> e.replacement # NoKey
         /\ e.subject \in Keys
BY MaxBootAssumption DEF Events

(* A key keeps its standing at a boot as long as no later decision is about
   a boot that had begun. *)
LEMMA StandingExtends ==
  ASSUME NEW g \in Seq(Events), NEW h \in Seq(Events), PrefixOf(g, h),
         NEW k, NEW b \in Nat, Standing(g, k, b),
         \A n \in (Len(g) + 1)..Len(h) : ~(h[n].boot <= b)
  PROVE  Standing(h, k, b)
<1>1. /\ Len(g) \in Nat /\ DOMAIN g = 1..Len(g)
      /\ Len(h) \in Nat /\ DOMAIN h = 1..Len(h)
  BY SeqFacts
<1>2. Applied(h, b) = Applied(g, b)
  BY <1>1 DEF Applied, PrefixOf
<1>3. PICK n \in Applied(g, b) :
        (\A m \in Applied(g, b) : m <= n) /\ Resulting(g[n]) = k
  BY DEF Standing
<1>4. h[n] = g[n]
  BY <1>1, <1>3 DEF Applied, PrefixOf
<1> QED BY <1>2, <1>3, <1>4 DEF Standing

(* A key that gains standing from a longer history was not named in the
   shorter one (_request_transition_error, key_authority.py 968). *)
LEMMA StandingIsNew ==
  ASSUME NEW g \in Seq(Events), NEW h \in Seq(Events), PrefixOf(h, g), h # <<>>,
         ValidHistory(g), NEW k \in Keys, NEW b \in Nat,
         Standing(g, k, b), ~Standing(h, k, b)
  PROVE  k \notin Named(h)
<1>1. /\ Len(g) \in Nat /\ DOMAIN g = 1..Len(g)
      /\ Len(h) \in Nat /\ DOMAIN h = 1..Len(h) /\ Len(h) >= 1
      /\ \A i \in 1..Len(g) : g[i] \in Events
  BY SeqFacts
<1>2. PICK n \in Applied(g, b) :
        (\A m \in Applied(g, b) : m <= n) /\ Resulting(g[n]) = k
  BY DEF Standing
<1>3. n \in 1..Len(g) /\ g[n].boot <= b
  BY <1>1, <1>2 DEF Applied
<1>4. n > Len(h)
  <2> SUFFICES ASSUME n <= Len(h) PROVE FALSE
    BY <1>1, <1>3
  <2>1. \A m \in 1..Len(h) : h[m] = g[m] /\ m \in 1..Len(g)
    BY <1>1 DEF PrefixOf
  <2>2. Applied(h, b) \subseteq Applied(g, b)
    BY <1>1, <2>1 DEF Applied
  <2>3. n \in Applied(h, b) /\ Resulting(h[n]) = k
    BY <1>1, <1>2, <1>3, <2>1 DEF Applied
  <2> QED BY <1>2, <2>2, <2>3 DEF Standing
<1> DEFINE p == SubSeq(g, 1, n - 1)
<1>5. TransitionOK(p, g[n])
  BY <1>1, <1>3 DEF ValidHistory
<1>6. /\ p \in Seq(Events) /\ Len(p) = n - 1
      /\ \A i \in 1..(n - 1) : p[i] = g[i]
  <2>1. n - 1 \in Int /\ 1 <= n - 1 /\ (n - 1) - 1 + 1 = n - 1
        /\ \A i \in 1..(n - 1) : g[i] \in Events /\ 1 + i - 1 = i
    BY <1>1, <1>3, <1>4
  <2> HIDE DEF p
  <2>2. /\ SubSeq(g, 1, n - 1) \in Seq(Events)
        /\ Len(SubSeq(g, 1, n - 1)) = (n - 1) - 1 + 1
        /\ \A i \in 1..((n - 1) - 1 + 1) : SubSeq(g, 1, n - 1)[i] = g[1 + i - 1]
    BY <2>1, SubSeqProperties
  <2> QED BY <2>1, <2>2 DEF p
<1> HIDE DEF p
<1>7. p # <<>> /\ DOMAIN p = 1..(n - 1) /\ n - 1 >= Len(h)
  BY <1>1, <1>3, <1>4, <1>6, SeqFacts
<1>8. /\ g[n].kind # "enroll"
      /\ g[n].kind = "rotate" => g[n].replacement \notin Named(p)
  BY <1>5, <1>7 DEF TransitionOK
<1>9. g[n].kind = "rotate" /\ k = g[n].replacement
  BY <1>1, <1>2, <1>3, <1>8, NoKeyAssumption, EventFacts DEF Resulting, Kinds
<1>10. k \notin Named(p)
  BY <1>8, <1>9
<1> SUFFICES ASSUME k \in Named(h) PROVE FALSE
  OBVIOUS
<1>11. PICK m \in DOMAIN h : k \in {h[m].subject, h[m].replacement}
  BY DEF Named
<1>12. m \in DOMAIN p /\ p[m] = h[m]
  BY <1>1, <1>3, <1>6, <1>7, <1>11 DEF PrefixOf
<1> QED BY <1>10, <1>11, <1>12 DEF Named

-----------------------------------------------------------------------------
(* Custody chains.                                                          *)

(* The fields of a custody chain. *)
LEMMA ChainFacts ==
  ASSUME NEW c \in Chains
  PROVE  /\ c.boot \in Nat \ {0} /\ c.records \in Seq(Contents)
         /\ c.previous \in Chains \cup {NoChain} /\ c.key \in Keys
         /\ c = [boot |-> c.boot, id |-> c.id, previous |-> c.previous,
                 key |-> c.key, records |-> c.records]
         /\ Len(c.records) \in Nat
<1>1. c.records \in Seq(Contents)
  BY ChainsAssumption
<1> QED BY <1>1, ChainsAssumption, LenProperties

(* UpTo is the cut that the code makes of a presented chain. *)
LEMMA CutContinues ==
  ASSUME NEW c \in Chains, NEW d \in Chains, Len(c.records) <= Len(d.records)
  PROVE  UpTo(d, Len(c.records)) = c <=> Continues(c, d)
<1> DEFINE cut == SubSeq(d.records, 1, Len(c.records))
<1>1. UpTo(d, Len(c.records)) =
        [boot |-> d.boot, id |-> d.id, previous |-> d.previous, key |-> d.key,
         records |-> cut]
  <2>1. d = [boot |-> d.boot, id |-> d.id, previous |-> d.previous,
             key |-> d.key, records |-> d.records]
    BY ChainFacts
  <2> QED BY <2>1 DEF UpTo
<1>2. c = [boot |-> c.boot, id |-> c.id, previous |-> c.previous, key |-> c.key,
           records |-> c.records]
  BY ChainFacts
<1>3. cut = c.records <=> PrefixOf(c.records, d.records)
  BY ChainFacts, PrefixIsCut
<1> HIDE DEF cut
<1>4. ASSUME UpTo(d, Len(c.records)) = c PROVE Continues(c, d)
  BY <1>1, <1>2, <1>3, <1>4 DEF Continues
<1>5. ASSUME Continues(c, d) PROVE UpTo(d, Len(c.records)) = c
  BY <1>1, <1>2, <1>3, <1>5 DEF Continues
<1> QED BY <1>4, <1>5

(* Every chain continues itself. *)
LEMMA ContinuesRefl ==
  ASSUME NEW c \in Chains PROVE Continues(c, c)
BY ChainFacts, PrefixOfRefl DEF Continues

(* What continues a continuation continues the first chain. *)
LEMMA ContinuesTrans ==
  ASSUME NEW c \in Chains, NEW d \in Chains, NEW e \in Chains,
         Continues(c, d), Continues(d, e)
  PROVE  Continues(c, e)
<1>1. PrefixOf(c.records, e.records)
  BY ChainFacts, PrefixOfTrans DEF Continues
<1> QED BY <1>1 DEF Continues

(* _require_ranger_extension, as what the chains share. *)
LEMMA ExtensionFacts ==
  ASSUME NEW last \in Chains, NEW c \in Chains, RangerExtension(last, c)
  PROVE  \/ Continues(last, c) /\ Len(last.records) < Len(c.records)
         \/ c.boot = last.boot + 1 /\ c.previous = last
<1>1. CASE /\ c.boot = last.boot /\ c.id = last.id /\ c.key = last.key
           /\ Len(c.records) > Len(last.records)
           /\ UpTo(c, Len(last.records)) = last
  BY <1>1, ChainFacts, CutContinues
<1> QED BY <1>1 DEF RangerExtension

-----------------------------------------------------------------------------
(* RangerAuthorityHeadRegistry.retain.                                      *)

(* The heads that were retained stay where they are. *)
HeadsKept ==
  \A n \in DOMAIN heads : n \in DOMAIN heads' /\ heads'[n] = heads[n]

(* The types of the two stores. *)
LEMMA HeadTypes ==
  ASSUME TypeOK
  PROVE  heads \in Seq(HeadRecords) /\ checkpoints \in Seq(CheckpointRecords)
BY DEF TypeOK, HeadRecords, CheckpointRecords

(* The retained heads. *)
LEMMA HeadFacts ==
  ASSUME Inv
  PROVE  /\ heads \in Seq(HeadRecords) /\ Len(heads) \in Nat
         /\ DOMAIN heads = 1..Len(heads)
         /\ heads # <<>> <=> Len(heads) >= 1
         /\ \A n \in 1..Len(heads) :
              /\ heads[n] \in HeadRecords /\ heads[n].history \in Seq(Events)
              /\ heads[n].history \in Histories /\ heads[n].at \in 1..MaxTime
         /\ heads # <<>> => LastOf(heads) = heads[Len(heads)]
<1>1. heads \in Seq(HeadRecords)
  BY HeadTypes DEF Inv
<1>2. /\ Len(heads) \in Nat /\ DOMAIN heads = 1..Len(heads)
      /\ heads # <<>> <=> Len(heads) >= 1
      /\ \A n \in 1..Len(heads) : heads[n] \in HeadRecords
  BY <1>1, SeqFacts
<1>3. \A n \in 1..Len(heads) : heads[n].history \in Histories
  BY <1>2 DEF Inv, HeadsLinked
<1> QED BY <1>1, <1>2, <1>3 DEF HeadRecords, LastOf

(* A retained head extends the store and leaves the earlier ones. *)
LEMMA HeadStep ==
  ASSUME Inv, NEW h \in Histories, NEW t \in 1..MaxTime, HeadRetained(h, t),
         heads' = HeadsAfter(h, t)
  PROVE  /\ heads' \in Seq(HeadRecords) /\ HeadsLinked' /\ HeadsKept
         /\ Len(heads') \in DOMAIN heads' /\ LastOf(heads') = heads'[Len(heads')]
         /\ LastOf(heads').history = h
<1> DEFINE L == Len(heads)
           e == [history |-> h, at |-> t]
<1>1. h \in Seq(Events) /\ Len(h) \in Nat
  BY HistoriesAssumption, LenProperties
<1>2. e \in HeadRecords /\ e.history = h /\ e.at = t
  BY <1>1 DEF HeadRecords
<1> HIDE DEF e
<1>3. CASE SameHistory(h)
  <2>1. heads' = heads /\ heads # <<>> /\ h = LastOf(heads).history
    BY <1>3 DEF HeadsAfter, SameHistory
  <2>2. HeadsLinked' /\ HeadsKept
    BY <2>1 DEF Inv, HeadsLinked, HeadsKept
  <2>3. Len(heads) \in DOMAIN heads
    BY <2>1, HeadFacts
  <2> QED BY <2>1, <2>2, <2>3, HeadFacts
<1>4. CASE ~SameHistory(h)
  <2>1. heads' = Append(heads, e)
    BY <1>4 DEF HeadsAfter, e
  <2>2. heads # <<>> => /\ t > heads[L].at
                        /\ Len(h) > Len(heads[L].history)
                        /\ SubSeq(h, 1, Len(heads[L].history)) = heads[L].history
    BY <1>4, HeadFacts DEF HeadRetained, ExtendsHead
  <2>3. heads # <<>> => PrefixOf(heads[L].history, h)
    <3> SUFFICES ASSUME heads # <<>> PROVE PrefixOf(heads[L].history, h)
      OBVIOUS
    <3>1. heads[L].history \in Seq(Events)
      BY HeadFacts
    <3>2. Len(heads[L].history) \in Nat
      BY <3>1, LenProperties
    <3> QED BY <1>1, <2>2, <3>1, <3>2, PrefixIsCut
  <2>4. /\ heads' \in Seq(HeadRecords) /\ Len(heads') = L + 1
        /\ DOMAIN heads' = 1..(L + 1)
        /\ \A n \in 1..L : heads'[n] = heads[n]
        /\ heads'[L + 1] = e /\ LastOf(heads') = e /\ L \in Nat
    BY <1>2, <2>1, HeadFacts, AppendFacts
  <2>5. HeadsKept
    BY <2>4, HeadFacts DEF HeadsKept
  <2>6. ASSUME NEW n \in DOMAIN heads' PROVE heads'[n].history \in Histories
    <3>1. CASE n = L + 1
      BY <1>2, <2>4, <3>1
    <3>2. CASE n # L + 1
      BY <2>4, <3>2, HeadFacts
    <3> QED BY <3>1, <3>2
  <2>7. ASSUME NEW m \in DOMAIN heads', NEW n \in DOMAIN heads', m < n
        PROVE  /\ heads'[m].at < heads'[n].at
               /\ Len(heads'[m].history) < Len(heads'[n].history)
               /\ PrefixOf(heads'[m].history, heads'[n].history)
    <3>1. m \in 1..L /\ L >= 1 /\ m \in DOMAIN heads /\ heads # <<>>
      BY <2>4, <2>7, HeadFacts
    <3>2. CASE n # L + 1
      <4>1. n \in DOMAIN heads /\ heads'[n] = heads[n] /\ heads'[m] = heads[m]
        BY <2>4, <3>1, <3>2, HeadFacts
      <4> QED BY <2>7, <3>1, <4>1 DEF Inv, HeadsLinked
    <3>3. CASE n = L + 1
      <4>1. heads'[n].at = t /\ heads'[n].history = h /\ heads'[m] = heads[m]
        BY <1>2, <2>4, <3>1, <3>3
      <4>2. CASE m = L
        BY <2>2, <2>3, <3>1, <4>1, <4>2
      <4>3. CASE m # L
        <5>1. L \in DOMAIN heads /\ m < L
          BY <3>1, <4>3, HeadFacts
        <5>2. /\ heads[m].at < heads[L].at
              /\ Len(heads[m].history) < Len(heads[L].history)
              /\ PrefixOf(heads[m].history, heads[L].history)
          BY <3>1, <5>1 DEF Inv, HeadsLinked
        <5>3. /\ heads[m].history \in Seq(Events) /\ heads[L].history \in Seq(Events)
              /\ heads[m].at \in Nat /\ heads[L].at \in Nat
              /\ Len(heads[m].history) \in Nat /\ Len(heads[L].history) \in Nat
          <6>1. /\ heads[m].history \in Seq(Events) /\ heads[L].history \in Seq(Events)
                /\ heads[m].at \in Nat /\ heads[L].at \in Nat
            BY <3>1, RegistryAssumption, HeadFacts
          <6> QED BY <6>1, LenProperties
        <5>4. PrefixOf(heads[m].history, h)
          BY <1>1, <2>3, <3>1, <5>2, <5>3, PrefixOfTrans
        <5> QED BY <1>1, <2>2, <3>1, <4>1, <5>2, <5>3, <5>4
      <4> QED BY <4>2, <4>3
    <3> QED BY <3>2, <3>3
  <2>8. HeadsLinked'
    BY <2>6, <2>7 DEF HeadsLinked
  <2>9. Len(heads') \in DOMAIN heads' /\ LastOf(heads') = heads'[Len(heads')]
        /\ LastOf(heads').history = h
    BY <1>2, <2>4 DEF LastOf
  <2> QED BY <2>4, <2>5, <2>8, <2>9
<1> QED BY <1>3, <1>4

(* What was bound to a retained head stays bound. *)
LEMMA BoundKept ==
  ASSUME HeadsKept, NEW x, Bound(x)
  PROVE  /\ x.chain \in Chains
         /\ x.head \in DOMAIN heads'
         /\ heads'[x.head].at <= x.at
         /\ Standing(heads'[x.head].history, x.chain.key, x.chain.boot)
BY DEF Bound, HeadsKept

-----------------------------------------------------------------------------
(* RangerAuthorityCheckpointRegistry.retain.                                *)

(* Retaining an authority head keeps the invariant. *)
LEMMA RetainHeadInv ==
  ASSUME Inv, NEW r \in Registries, RetainHead(r) PROVE Inv'
<1>1. PICK h \in Histories, t \in 1..MaxTime :
        /\ HeadRetained(h, t)
        /\ heads' = HeadsAfter(h, t)
        /\ \/ UNCHANGED registry
           \/ \E c \in Chains :
                /\ KeyStands(h, c)
                /\ CheckpointAccepted(c, Len(heads'), LastOf(heads').at, t)
                /\ registry' = [registry EXCEPT ![r] =
                     [pc |-> "custody", chain |-> c, head |-> Len(heads'),
                      at |-> t, seen |-> Len(checkpoints)]]
  BY DEF RetainHead
<1>2. /\ heads' \in Seq(HeadRecords) /\ HeadsLinked' /\ HeadsKept
      /\ Len(heads') \in DOMAIN heads' /\ LastOf(heads') = heads'[Len(heads')]
      /\ LastOf(heads').history = h
  BY <1>1, HeadStep
<1>3. checkpoints' = checkpoints
  BY DEF RetainHead
<1>4. ASSUME NEW n \in DOMAIN checkpoints PROVE Bound(checkpoints[n])'
  <2>1. Bound(checkpoints[n])
    BY DEF Inv
  <2> QED BY <1>2, <1>3, <2>1, BoundKept DEF Bound
<1>5. CheckpointsLinked' /\ CustodyLinked'
  BY <1>3 DEF Inv, CheckpointsLinked, Follows, CustodyLinked
<1>6. ASSUME NEW x \in Registries, registry'[x] = registry[x]
      PROVE  CallSound(registry[x])'
  <2> SUFFICES ASSUME registry[x].pc = "custody"
               PROVE  /\ Bound(registry[x])'
                      /\ registry[x].at \in 1..MaxTime
                      /\ registry[x].seen <= Len(checkpoints)
                      /\ registry[x].seen = Len(checkpoints) /\ checkpoints # <<>> =>
                           Follows(LastOf(checkpoints), registry[x])
    BY <1>3, <1>6 DEF CallSound, Unmoved, Follows, LastOf
  <2>1. CallSound(registry[x])
    BY DEF Inv
  <2>2. Bound(registry[x])
    BY <2>1 DEF CallSound
  <2> QED BY <1>2, <1>6, <2>1, <2>2, BoundKept DEF CallSound, Unmoved, Bound
<1>7. registry' \in [Registries -> Calls] /\ \A x \in Registries : CallSound(registry[x])'
  <2>1. CASE UNCHANGED registry
    <3>1. registry' \in [Registries -> Calls]
      BY <2>1 DEF Inv, TypeOK
    <3> QED BY <1>6, <2>1, <3>1
  <2>2. ASSUME NEW c \in Chains, KeyStands(h, c),
               CheckpointAccepted(c, Len(heads'), LastOf(heads').at, t),
               registry' = [registry EXCEPT ![r] =
                 [pc |-> "custody", chain |-> c, head |-> Len(heads'),
                  at |-> t, seen |-> Len(checkpoints)]]
        PROVE  /\ registry' \in [Registries -> Calls]
               /\ \A x \in Registries : CallSound(registry[x])'
    <3> DEFINE q == [pc |-> "custody", chain |-> c, head |-> Len(heads'),
                     at |-> t, seen |-> Len(checkpoints)]
    <3>1. Len(checkpoints) \in Nat /\ Len(heads') \in Nat /\ t \in Nat
      BY <1>2, RegistryAssumption, HeadTypes, LenProperties DEF Inv
    <3>2. q \in Calls
      BY <3>1 DEF Calls
    <3>3. /\ q.pc = "custody" /\ q.chain = c /\ q.head = Len(heads') /\ q.at = t
          /\ q.seen = Len(checkpoints)
      OBVIOUS
    <3>4. registry' = [registry EXCEPT ![r] = q]
      BY <2>2
    <3> HIDE DEF q
    <3>5. /\ registry' \in [Registries -> Calls] /\ registry'[r] = q
          /\ \A x \in Registries : x # r => registry'[x] = registry[x]
      BY <3>2, <3>4 DEF Inv, TypeOK
    <3>6. Bound(registry[r])'
      <4>1. heads'[Len(heads')].at <= t
        BY <1>2, <2>2 DEF CheckpointAccepted
      <4>2. Standing(heads'[Len(heads')].history, c.key, c.boot)
        BY <1>2, <2>2 DEF KeyStands
      <4> QED BY <1>2, <3>3, <3>5, <4>1, <4>2 DEF Bound
    <3>7. ASSUME checkpoints # <<>> PROVE Follows(LastOf(checkpoints), q)
      BY <2>2, <3>3, <3>7 DEF CheckpointAccepted, Follows
    <3>8. CallSound(registry[r])'
      <4>1. q.seen <= Len(checkpoints')
        BY <1>3, <3>1, <3>3
      <4> QED BY <1>3, <3>3, <3>5, <3>6, <3>7, <4>1
              DEF CallSound, Unmoved, Follows, LastOf
    <3> QED BY <1>6, <3>5, <3>8
  <2> QED BY <1>1, <2>1, <2>2
<1>8. TypeOK'
  BY <1>2, <1>3, <1>7 DEF Inv, TypeOK, HeadRecords
<1>9. \A n \in DOMAIN checkpoints' : Bound(checkpoints[n])'
  BY <1>3, <1>4
<1> QED BY <1>2, <1>5, <1>7, <1>8, <1>9 DEF Inv


(* A registry object without a call. *)
LEMMA IdleFacts ==
  Idle \in Calls /\ Idle.pc = "idle"
BY DEF Idle, Calls

(* The retained checkpoints. *)
LEMMA CheckpointFacts ==
  ASSUME Inv
  PROVE  /\ checkpoints \in Seq(CheckpointRecords) /\ Len(checkpoints) \in Nat
         /\ DOMAIN checkpoints = 1..Len(checkpoints)
         /\ checkpoints # <<>> <=> Len(checkpoints) >= 1
         /\ \A n \in 1..Len(checkpoints) :
              /\ checkpoints[n] \in CheckpointRecords
              /\ checkpoints[n].chain \in Chains
              /\ checkpoints[n].at \in Nat /\ checkpoints[n].head \in Nat
              /\ checkpoints[n].ranger_advanced \in BOOLEAN
              /\ checkpoints[n].authority_advanced \in BOOLEAN
         /\ LastOf(checkpoints) = checkpoints[Len(checkpoints)]
<1>1. checkpoints \in Seq(CheckpointRecords)
  BY HeadTypes DEF Inv
<1>2. /\ Len(checkpoints) \in Nat /\ DOMAIN checkpoints = 1..Len(checkpoints)
      /\ checkpoints # <<>> <=> Len(checkpoints) >= 1
      /\ \A n \in 1..Len(checkpoints) : checkpoints[n] \in CheckpointRecords
  BY <1>1, SeqFacts
<1> QED BY <1>1, <1>2, RegistryAssumption DEF CheckpointRecords, LastOf

(* The checkpoint of a chain that follows the last one continues the custody
   of every checkpoint before it. *)
LEMMA CustodyExtends ==
  ASSUME Inv, NEW d \in Chains, NEW m \in DOMAIN checkpoints,
         d = LastOf(checkpoints).chain \/ RangerExtension(LastOf(checkpoints).chain, d)
  PROVE  LET c == checkpoints[m].chain
         IN /\ c.boot <= d.boot
            /\ c.boot = d.boot => Continues(c, d)
            /\ d.boot = c.boot + 1 => Continues(c, d.previous)
<1> DEFINE L == Len(checkpoints)
           c == checkpoints[m].chain
           last == checkpoints[L].chain
<1>1. L \in DOMAIN checkpoints /\ m \in 1..L /\ last \in Chains /\ c \in Chains
      /\ LastOf(checkpoints).chain = last
  BY CheckpointFacts
<1>2. c.boot \in Nat /\ d.boot \in Nat /\ last.boot \in Nat
  BY <1>1, ChainFacts
<1>3. /\ c.boot <= last.boot
      /\ c.boot = last.boot => Continues(c, last)
      /\ last.boot = c.boot + 1 => Continues(c, last.previous)
  <2>1. CASE m = L
    BY <1>1, <1>2, <2>1, ContinuesRefl
  <2>2. CASE m # L
    <3>1. m < L
      BY <1>1, <2>2, CheckpointFacts
    <3> QED BY <1>1, <3>1 DEF Inv, CustodyLinked
  <2> QED BY <2>1, <2>2
<1>4. CASE d = last
  BY <1>3, <1>4
<1>5. CASE Continues(last, d)
  <2>1. d.boot = last.boot /\ d.previous = last.previous
    BY <1>5 DEF Continues
  <2>2. c.boot = last.boot => Continues(c, d)
    BY <1>1, <1>3, <1>5, ContinuesTrans
  <2> QED BY <1>3, <2>1, <2>2
<1>6. CASE d.boot = last.boot + 1 /\ d.previous = last
  BY <1>2, <1>3, <1>6
<1>7. d = last \/ Continues(last, d) \/ (d.boot = last.boot + 1 /\ d.previous = last)
  BY <1>1, ExtensionFacts
<1> QED BY <1>4, <1>5, <1>6, <1>7

(* Retaining a checkpoint keeps the invariant. *)
LEMMA RetainCheckpointInv ==
  ASSUME Inv, NEW r \in Registries, RetainCheckpoint(r) PROVE Inv'
<1> DEFINE q == registry[r]
           L == Len(checkpoints)
           e == [chain |-> q.chain, head |-> q.head, at |-> q.at,
                 ranger_advanced |->
                   checkpoints # <<>> /\ LastOf(checkpoints).chain # q.chain,
                 authority_advanced |->
                   checkpoints # <<>> /\ LastOf(checkpoints).head # q.head]
<1>1. /\ q.pc = "custody" /\ Unmoved(q) /\ checkpoints' = Append(checkpoints, e)
      /\ registry' = [registry EXCEPT ![r] = Idle] /\ heads' = heads
  BY DEF RetainCheckpoint
<1>2. /\ Bound(q) /\ q.at \in 1..MaxTime
      /\ checkpoints # <<>> => Follows(LastOf(checkpoints), q)
  BY <1>1 DEF Inv, CallSound
<1>3. q.chain \in Chains /\ q.head \in Nat \ {0}
  BY <1>2, HeadFacts DEF Bound
<1>4. e \in CheckpointRecords
  BY <1>2, <1>3 DEF CheckpointRecords
<1>5. /\ e.chain = q.chain /\ e.head = q.head /\ e.at = q.at
      /\ e.ranger_advanced <=>
           checkpoints # <<>> /\ LastOf(checkpoints).chain # q.chain
      /\ e.authority_advanced <=>
           checkpoints # <<>> /\ LastOf(checkpoints).head # q.head
  OBVIOUS
<1> HIDE DEF e
<1>6. /\ checkpoints' \in Seq(CheckpointRecords) /\ Len(checkpoints') = L + 1
      /\ DOMAIN checkpoints' = 1..(L + 1) /\ L \in Nat
      /\ \A n \in 1..L : checkpoints'[n] = checkpoints[n]
      /\ checkpoints'[L + 1] = e
  BY <1>1, <1>4, CheckpointFacts, AppendFacts
<1>7. /\ registry' \in [Registries -> Calls] /\ registry'[r] = Idle
      /\ \A x \in Registries : x # r => registry'[x] = registry[x]
  BY <1>1, IdleFacts DEF Inv, TypeOK
<1>8. TypeOK'
  BY <1>1, <1>6, <1>7 DEF Inv, TypeOK, CheckpointRecords
<1>9. HeadsLinked'
  BY <1>1 DEF Inv, HeadsLinked
<1>10. ASSUME NEW n \in DOMAIN checkpoints' PROVE Bound(checkpoints[n])'
  <2>1. CASE n = L + 1
    BY <1>1, <1>2, <1>5, <1>6, <2>1 DEF Bound
  <2>2. CASE n # L + 1
    <3>1. n \in DOMAIN checkpoints /\ checkpoints'[n] = checkpoints[n]
      BY <1>6, <2>2, CheckpointFacts
    <3>2. Bound(checkpoints[n])
      BY <3>1 DEF Inv
    <3> QED BY <1>1, <3>1, <3>2 DEF Bound
  <2> QED BY <2>1, <2>2
<1>11. CheckpointsLinked'
  <2> SUFFICES ASSUME NEW n \in 1..L
               PROVE  /\ Follows(checkpoints'[n], checkpoints'[n + 1])
                      /\ checkpoints'[n + 1].ranger_advanced <=>
                           checkpoints'[n].chain # checkpoints'[n + 1].chain
                      /\ checkpoints'[n + 1].authority_advanced <=>
                           checkpoints'[n].head # checkpoints'[n + 1].head
    BY <1>6 DEF CheckpointsLinked, Follows
  <2>1. CASE n = L
    <3>1. checkpoints # <<>> /\ LastOf(checkpoints) = checkpoints[L]
      BY <2>1, CheckpointFacts
    <3>2. checkpoints'[n] = checkpoints[L] /\ checkpoints'[n + 1] = e
      BY <1>6, <2>1
    <3>3. Follows(checkpoints[L], e)
      BY <1>2, <1>5, <3>1 DEF Follows
    <3>4. /\ e.ranger_advanced <=> checkpoints[L].chain # e.chain
          /\ e.authority_advanced <=> checkpoints[L].head # e.head
      BY <1>5, <3>1
    <3> QED BY <3>2, <3>3, <3>4
  <2>2. CASE n # L
    <3>1. n \in 1..(L - 1) /\ n + 1 \in 1..L /\ n \in 1..L
      BY <1>6, <2>2
    <3>2. checkpoints'[n] = checkpoints[n] /\ checkpoints'[n + 1] = checkpoints[n + 1]
      BY <1>6, <3>1
    <3> QED BY <3>1, <3>2 DEF Inv, CheckpointsLinked
  <2> QED BY <2>1, <2>2
<1>12. CustodyLinked'
  <2> SUFFICES ASSUME NEW m \in 1..(L + 1), NEW n \in 1..(L + 1), m < n
               PROVE  LET c == checkpoints'[m].chain
                          d == checkpoints'[n].chain
                      IN /\ c.boot <= d.boot
                         /\ c.boot = d.boot => Continues(c, d)
                         /\ d.boot = c.boot + 1 => Continues(c, d.previous)
    BY <1>6 DEF CustodyLinked
  <2>1. m \in 1..L /\ m \in DOMAIN checkpoints /\ checkpoints'[m] = checkpoints[m]
        /\ checkpoints # <<>>
    BY <1>6, CheckpointFacts
  <2>2. CASE n = L + 1
    <3>1. checkpoints'[n].chain = q.chain
      BY <1>5, <1>6, <2>2
    <3>2. q.chain = LastOf(checkpoints).chain
          \/ RangerExtension(LastOf(checkpoints).chain, q.chain)
      BY <1>2, <2>1 DEF Follows
    <3> QED BY <1>3, <2>1, <3>1, <3>2, CustodyExtends
  <2>3. CASE n # L + 1
    <3>1. n \in DOMAIN checkpoints /\ checkpoints'[n] = checkpoints[n]
      BY <1>6, <2>3, CheckpointFacts
    <3> QED BY <2>1, <3>1 DEF Inv, CustodyLinked
  <2> QED BY <2>2, <2>3
<1>13. ASSUME NEW x \in Registries PROVE CallSound(registry[x])'
  <2>1. CASE x = r
    BY <1>7, <2>1, IdleFacts DEF CallSound
  <2>2. CASE x # r
    <3> SUFFICES ASSUME registry[x].pc = "custody"
                 PROVE  /\ Bound(registry[x])'
                        /\ registry[x].at \in 1..MaxTime
                        /\ registry[x].seen <= L + 1
                        /\ registry[x].seen # L + 1
      BY <1>6, <1>7, <2>2 DEF CallSound, Unmoved
    <3>1. registry'[x] = registry[x] /\ CallSound(registry[x]) /\ registry[x].seen \in Nat
      BY <1>7, <2>2 DEF Inv, TypeOK, Calls
    <3>2. Bound(registry[x])'
      BY <1>1, <3>1 DEF CallSound, Bound
    <3>3. registry[x].seen <= L
      BY <3>1 DEF CallSound
    <3> QED BY <1>6, <3>1, <3>2, <3>3 DEF CallSound
  <2> QED BY <2>1, <2>2
<1> QED BY <1>8, <1>9, <1>10, <1>11, <1>12, <1>13 DEF Inv

(* The end of a call of retain keeps the invariant. *)
LEMMA RetainEndsInv ==
  ASSUME Inv, NEW r \in Registries, RetainEnds(r) PROVE Inv'
<1>1. /\ registry' = [registry EXCEPT ![r] = Idle]
      /\ heads' = heads /\ checkpoints' = checkpoints
  BY DEF RetainEnds
<1>2. /\ registry' \in [Registries -> Calls] /\ registry'[r] = Idle
      /\ \A x \in Registries : x # r => registry'[x] = registry[x]
  BY <1>1, IdleFacts DEF Inv, TypeOK
<1>3. TypeOK'
  BY <1>1, <1>2 DEF Inv, TypeOK
<1>4. HeadsLinked' /\ CheckpointsLinked' /\ CustodyLinked'
  BY <1>1 DEF Inv, HeadsLinked, CheckpointsLinked, Follows, CustodyLinked
<1>5. \A n \in DOMAIN checkpoints' : Bound(checkpoints[n])'
  BY <1>1 DEF Inv, Bound
<1>6. ASSUME NEW x \in Registries PROVE CallSound(registry[x])'
  <2>1. CASE x = r
    BY <1>2, <2>1, IdleFacts DEF CallSound
  <2>2. CASE x # r
    BY <1>1, <1>2, <2>2 DEF Inv, CallSound, Bound, Unmoved, Follows, LastOf
  <2> QED BY <2>1, <2>2
<1> QED BY <1>3, <1>4, <1>5, <1>6 DEF Inv

-----------------------------------------------------------------------------
(***************************************************************************)
(* The theorems.                                                           *)
(***************************************************************************)

(* The inductive invariant holds whichever histories and chains are          *)
(* presented, and wherever a call of retain ends.                            *)
THEOREM Invariance == Spec => []Inv
<1>1. Init => Inv
  <2> SUFFICES ASSUME Init PROVE Inv
    OBVIOUS
  <2>1. heads = <<>> /\ checkpoints = <<>> /\ \A r \in Registries : registry[r] = Idle
    BY DEF Init
  <2>2. Len(<<>>) = 0 /\ DOMAIN <<>> = {}
    OBVIOUS
  <2>3. TypeOK
    BY <2>1, IdleFacts DEF Init, TypeOK
  <2>4. HeadsLinked /\ CheckpointsLinked /\ CustodyLinked
        /\ \A n \in DOMAIN checkpoints : Bound(checkpoints[n])
    BY <2>1, <2>2 DEF HeadsLinked, CheckpointsLinked, CustodyLinked
  <2>5. \A r \in Registries : CallSound(registry[r])
    BY <2>1, IdleFacts DEF CallSound
  <2> QED BY <2>3, <2>4, <2>5 DEF Inv
<1>2. Inv /\ [Next]_vars => Inv'
  <2> SUFFICES ASSUME Inv, [Next]_vars PROVE Inv'
    OBVIOUS
  <2>1. ASSUME NEW r \in Registries, RetainHead(r) \/ RetainCheckpoint(r) \/ RetainEnds(r)
        PROVE  Inv'
    BY <2>1, RetainHeadInv, RetainCheckpointInv, RetainEndsInv
  <2>2. CASE UNCHANGED vars
    BY <2>2 DEF vars, Inv, TypeOK, HeadsLinked, Bound, CheckpointsLinked, Follows,
       CustodyLinked, CallSound, Unmoved, LastOf
  <2> QED BY <2>1, <2>2 DEF Next
<1> QED BY <1>1, <1>2, PTL DEF Spec

(* Every variable has its type. *)
THEOREM TypeCorrect == Spec => []TypeOK
BY Invariance, PTL DEF Inv

(* A registry opens again after every crash (authority_checkpoint.py:398).   *)
THEOREM AlwaysReopens == Spec => []ReopenVerifies
<1>1. ASSUME Inv PROVE HeadChainVerifies
  <2> SUFFICES ASSUME NEW n \in 1..(Len(heads) - 1)
               PROVE  /\ heads[n].at < heads[n + 1].at
                      /\ Len(heads[n].history) < Len(heads[n + 1].history)
    BY DEF HeadChainVerifies
  <2>1. n \in DOMAIN heads /\ n + 1 \in DOMAIN heads /\ n < n + 1
    BY <1>1, HeadFacts
  <2> QED BY <1>1, <2>1 DEF Inv, HeadsLinked
<1>2. ASSUME Inv, NEW n \in 1..(Len(checkpoints) - 1)
      PROVE  CheckpointTransition(checkpoints[n], checkpoints[n + 1])
  <2> DEFINE c == checkpoints[n]
             d == checkpoints[n + 1]
  <2>1. n \in 1..Len(checkpoints) /\ n + 1 \in 1..Len(checkpoints)
        /\ n \in DOMAIN checkpoints /\ n + 1 \in DOMAIN checkpoints
    BY <1>2, CheckpointFacts
  <2>2. /\ c.chain \in Chains /\ d.chain \in Chains /\ c.head \in Nat /\ d.head \in Nat
        /\ d.ranger_advanced \in BOOLEAN /\ d.authority_advanced \in BOOLEAN
    BY <1>2, <2>1, CheckpointFacts
  <2>3. /\ Follows(c, d)
        /\ d.ranger_advanced <=> c.chain # d.chain
        /\ d.authority_advanced <=> c.head # d.head
    BY <1>2 DEF Inv, CheckpointsLinked
  <2>4. c.head \in DOMAIN heads /\ d.head \in DOMAIN heads
    BY <1>2, <2>1 DEF Inv, Bound
  <2> HIDE DEF c, d
  <2>5. d.ranger_advanced =>
          \/ /\ d.chain.boot = c.chain.boot /\ d.chain.id = c.chain.id
             /\ d.chain.key = c.chain.key /\ d.chain.previous = c.chain.previous
             /\ Len(c.chain.records) < Len(d.chain.records)
          \/ d.chain.boot = c.chain.boot + 1 /\ d.chain.previous = c.chain
    BY <2>2, <2>3, ExtensionFacts DEF Follows, Continues
  <2>6. d.authority_advanced =>
          c.head < d.head /\ Len(heads[c.head].history) < Len(heads[d.head].history)
    <3>1. d.authority_advanced => c.head < d.head
      BY <2>2, <2>3 DEF Follows
    <3> QED BY <1>2, <2>4, <3>1 DEF Inv, HeadsLinked
  <2>7. d.ranger_advanced = (c.chain # d.chain)
    BY <2>2, <2>3
  <2>8. d.authority_advanced = (c.head # d.head)
    BY <2>2, <2>3
  <2>9. c.at < d.at /\ (d.ranger_advanced \/ d.authority_advanced)
    BY <2>3 DEF Follows
  <2>10. CheckpointTransition(c, d)
    BY <2>5, <2>6, <2>7, <2>8, <2>9 DEF CheckpointTransition
  <2> QED BY <2>10 DEF c, d
<1>3. Inv => BindingsMatch
  BY DEF Inv, Bound, BindingsMatch
<1>4. Inv => ReopenVerifies
  BY <1>1, <1>2, <1>3 DEF ReopenVerifies, CheckpointChainVerifies
<1> QED BY <1>4, Invariance, PTL

(* The head bound by a checkpoint is a prefix of the last one retained. *)
LEMMA BoundPrefix ==
  ASSUME Inv, NEW n \in DOMAIN checkpoints
  PROVE  LET bound == heads[checkpoints[n].head].history
             h == LastOf(heads).history
         IN /\ heads # <<>>
            /\ bound \in Histories /\ bound \in Seq(Events)
            /\ h \in Histories /\ h \in Seq(Events)
            /\ PrefixOf(bound, h) /\ SubSeq(h, 1, Len(bound)) = bound
            /\ Standing(bound, checkpoints[n].chain.key, checkpoints[n].chain.boot)
<1> DEFINE k == checkpoints[n].head
           bound == heads[k].history
           L == Len(heads)
           h == heads[L].history
<1>1. /\ k \in DOMAIN heads
      /\ Standing(bound, checkpoints[n].chain.key, checkpoints[n].chain.boot)
  BY DEF Inv, Bound
<1>2. k \in 1..L /\ L \in DOMAIN heads /\ heads # <<>> /\ LastOf(heads) = heads[L]
  BY <1>1, HeadFacts
<1>3. /\ bound \in Histories /\ bound \in Seq(Events)
      /\ h \in Histories /\ h \in Seq(Events)
  BY <1>2, HeadFacts
<1>4. PrefixOf(bound, h)
  <2>1. CASE k = L
    BY <1>3, <2>1, PrefixOfRefl
  <2>2. CASE k # L
    <3>1. k < L
      BY <1>2, <2>2, HeadFacts
    <3> QED BY <1>1, <1>2, <3>1 DEF Inv, HeadsLinked
  <2> QED BY <2>1, <2>2
<1>5. SubSeq(h, 1, Len(bound)) = bound
  BY <1>3, <1>4, PrefixIsCut DEF PrefixOf
<1> QED BY <1>1, <1>2, <1>3, <1>4, <1>5

(* The retained record stays auditable (authority_checkpoint.py:674).        *)
THEOREM StaysAuditable == Spec => []BoundChainVerifies
<1>1. ASSUME Inv, checkpoints # <<>>
      PROVE  PresentedHistory(LastOf(heads).history) /\ BoundTo(LastOf(heads).history)
  <2>1. 1 \in DOMAIN checkpoints
    BY <1>1, CheckpointFacts
  <2>2. LastOf(heads).history \in Histories
    BY <1>1, <2>1, BoundPrefix
  <2>3. PresentedHistory(LastOf(heads).history)
    BY <2>2, HistoriesAssumption DEF PresentedHistory
  <2>4. BoundTo(LastOf(heads).history)
    BY <1>1, BoundPrefix, HistoriesAssumption DEF BoundTo
  <2> QED BY <2>3, <2>4
<1>2. Inv => BoundChainVerifies
  BY <1>1 DEF BoundChainVerifies
<1> QED BY <1>2, Invariance, PTL

(* The retained custody never forks (authority_checkpoint.py:992).           *)
THEOREM NeverForks == Spec => []CustodyNeverForks
<1>1. ASSUME Inv, NEW m \in DOMAIN checkpoints, NEW n \in DOMAIN checkpoints, m < n
      PROVE  LET c == checkpoints[m].chain
                 d == checkpoints[n].chain
             IN /\ c.boot <= d.boot
                /\ c.boot = d.boot => UpTo(d, Len(c.records)) = c
                /\ d.boot = c.boot + 1 => UpTo(d.previous, Len(c.records)) = c
  <2> DEFINE c == checkpoints[m].chain
             d == checkpoints[n].chain
  <2>1. /\ c.boot <= d.boot
        /\ c.boot = d.boot => Continues(c, d)
        /\ d.boot = c.boot + 1 => Continues(c, d.previous)
    BY <1>1 DEF Inv, CustodyLinked
  <2>2. c \in Chains /\ d \in Chains
    BY <1>1, CheckpointFacts
  <2>3. ASSUME NEW x \in Chains, Continues(c, x) PROVE UpTo(x, Len(c.records)) = c
    <3>1. Len(c.records) <= Len(x.records)
      BY <2>3 DEF Continues, PrefixOf
    <3> QED BY <2>2, <2>3, <3>1, CutContinues
  <2>4. d.boot = c.boot + 1 => d.previous \in Chains
    <3>1. c.boot \in Nat \ {0}
      BY <2>2, ChainFacts
    <3> QED BY <2>2, <3>1, ChainsAssumption
  <2> QED BY <2>1, <2>2, <2>3, <2>4
<1>2. Inv => CustodyNeverForks
  BY <1>1 DEF CustodyNeverForks
<1> QED BY <1>2, Invariance, PTL

(* The last checkpoint can be presented, unless the authority has meanwhile  *)
(* decided about a boot that had begun (authority_checkpoint.py:762).        *)
THEOREM LatestStaysPresentable == Spec => []LatestPresentable
<1>1. ASSUME Inv, ReopenVerifies, BoundChainVerifies, checkpoints # <<>>,
             LET last == LastOf(checkpoints)
                 h == LastOf(heads).history
             IN ~\E n \in (Len(heads[last.head].history) + 1)..Len(h) :
                   h[n].boot <= last.chain.boot
      PROVE  PresentedChain(LastOf(checkpoints).chain, LastOf(heads).history)
  <2> DEFINE L == Len(checkpoints)
             last == checkpoints[L]
             h == LastOf(heads).history
             bound == heads[last.head].history
  <2>1. L \in DOMAIN checkpoints /\ LastOf(checkpoints) = last /\ last.chain \in Chains
    BY <1>1, CheckpointFacts
  <2>2. last.chain.boot \in Nat
    BY <2>1, ChainFacts
  <2>3. /\ bound \in Seq(Events) /\ h \in Seq(Events) /\ PrefixOf(bound, h)
        /\ SubSeq(h, 1, Len(bound)) = bound
        /\ Standing(bound, last.chain.key, last.chain.boot)
    BY <1>1, <2>1, BoundPrefix
  <2>4. \A n \in (Len(bound) + 1)..Len(h) : ~(h[n].boot <= last.chain.boot)
    BY <1>1, <2>1
  <2>5. Standing(h, last.chain.key, last.chain.boot)
    BY <2>2, <2>3, <2>4, StandingExtends
  <2>6. HeadChainVerifies /\ BindingsMatch /\ PresentedHistory(h)
    BY <1>1 DEF ReopenVerifies, BoundChainVerifies
  <2> QED BY <2>1, <2>3, <2>5, <2>6 DEF PresentedChain
<1>2. Inv /\ ReopenVerifies /\ BoundChainVerifies => LatestPresentable
  BY <1>1 DEF LatestPresentable
<1> QED BY <1>2, Invariance, AlwaysReopens, StaysAuditable, PTL

(* A key that lost its standing never has it again (key_authority.py:968,    *)
(* authority_head.py:385).                                                   *)
THEOREM NeverRegained == Spec => StandingNeverRegained
<1>1. ASSUME Inv, [Next]_vars, heads # <<>>, NEW k \in Keys, NEW b \in 1..MaxBoot,
             Standing(LastOf(heads').history, k, b),
             ~Standing(LastOf(heads).history, k, b)
      PROVE  k \notin Named(LastOf(heads).history)
  <2> DEFINE h == LastOf(heads).history
  <2>1. heads' # heads
    BY <1>1
  <2>2. PICK r \in Registries : RetainHead(r)
    BY <1>1, <2>1 DEF Next, vars, RetainCheckpoint, RetainEnds
  <2>3. PICK g \in Histories, t \in 1..MaxTime :
          HeadRetained(g, t) /\ heads' = HeadsAfter(g, t)
    BY <2>2 DEF RetainHead
  <2>4. LastOf(heads').history = g
    BY <1>1, <2>3, HeadStep
  <2>5. g \in Seq(Events) /\ ValidHistory(g)
    BY HistoriesAssumption
  <2>6. h \in Seq(Events) /\ ValidHistory(h)
    <3>1. h \in Histories
      BY <1>1, HeadFacts
    <3> QED BY <3>1, HistoriesAssumption
  <2>7. PrefixOf(h, g)
    <3>1. g # h
      BY <1>1, <2>4
    <3>2. Len(g) > Len(h) /\ SubSeq(g, 1, Len(h)) = h
      BY <1>1, <2>3, <3>1 DEF HeadRetained, SameHistory, ExtendsHead
    <3>3. Len(g) \in Nat /\ Len(h) \in Nat
      BY <2>5, <2>6, LenProperties
    <3> QED BY <2>5, <2>6, <3>2, <3>3, PrefixIsCut
  <2>8. h # <<>> /\ b \in Nat
    BY <2>6, MaxBootAssumption DEF ValidHistory
  <2> QED BY <1>1, <2>4, <2>5, <2>6, <2>7, <2>8, StandingIsNew
<1>2. Inv /\ [Next]_vars =>
        [heads # <<>> =>
           LET h == LastOf(heads).history
               g == LastOf(heads').history
           IN \A k \in Keys, b \in 1..MaxBoot :
                Standing(g, k, b) /\ ~Standing(h, k, b) => k \notin Named(h)]_vars
  BY <1>1
<1> QED BY <1>2, Invariance, PTL DEF Spec, StandingNeverRegained

-----------------------------------------------------------------------------
(* The motion authority.                                                    *)


(* Fewer whole milliseconds than the timeout are less time than the timeout
   (mobility.py 491: the watchdog divides before it compares). *)
LEMMA WholeMilliseconds ==
  ASSUME NEW a \in Nat, NEW n \in Nat \ {0}, NEW w \in Nat, a \div n < w
  PROVE  a < w * n
<1>1. a \div n \in Nat /\ a % n \in 0..(n - 1) /\ a = n * (a \div n) + (a % n)
  OBVIOUS
<1>2. n * (a \div n) + n <= n * w
  <2>1. PICK k \in Nat : w = (a \div n) + 1 + k
    <3> DEFINE k == w - (a \div n) - 1
    <3>1. k \in Nat /\ w = (a \div n) + 1 + k
      BY <1>1
    <3> QED BY <3>1
  <2>2. \A x, y \in Nat : n * (x + 1 + y) = n * x + n + n * y
    OBVIOUS
  <2>3. n * w = n * (a \div n) + n + n * k /\ n * k \in Nat
    BY <1>1, <2>1, <2>2
  <2> QED BY <1>1, <2>3
<1>3. n * w = w * n
  OBVIOUS
<1> QED BY <1>1, <1>2, <1>3

(* The two limits are positive, and their sum is what MotionHasStanding says. *)
LEMMA Limits ==
  /\ NsPerMs \in Nat \ {0} /\ QueueAge \in Nat /\ Watchdog \in Nat \ {0}
  /\ QueueAge * NsPerMs \in Nat /\ Watchdog * NsPerMs \in Nat \ {0}
  /\ (QueueAge + Watchdog) * NsPerMs = QueueAge * NsPerMs + Watchdog * NsPerMs
<1>1. NsPerMs \in Nat \ {0} /\ QueueAge \in Nat /\ Watchdog \in Nat \ {0}
  BY PolicyAssumption
<1>2. \A x \in Nat, y \in Nat : x * y \in Nat
  OBVIOUS
<1>3. \A x \in Nat \ {0}, y \in Nat \ {0} : x * y \in Nat \ {0}
  OBVIOUS
<1>4. \A x, y, z \in Nat : (x + y) * z = x * z + y * z
  OBVIOUS
<1> QED BY <1>1, <1>2, <1>3, <1>4

(* The invariant holds of a new authority. *)
LEMMA MotionInvInit == MotionInit => MotionInv
<1> SUFFICES ASSUME MotionInit PROVE MotionInv
  OBVIOUS
<1>1. MotionTypeOK
  <2>1. moving \in BOOLEAN /\ raised \in BOOLEAN /\ held \in BOOLEAN
    BY DEF MotionInit
  <2> QED BY <2>1, BoundsAssumption DEF MotionInit, MotionTypeOK, SafetyModes, Times, NoTime
<1>2. MotionIsTimed /\ EstopHolds /\ RecordsFollowMode
  BY DEF MotionInit, MotionIsTimed, EstopHolds, RecordsFollowMode
<1> QED BY <1>1, <1>2 DEF MotionInv

(* A clock that runs backwards (mobility.py 589-595). *)
LEMMA ClockFaultInv ==
  ASSUME MotionInv, ClockFault, held' \in BOOLEAN PROVE MotionInv'
<1>1. MotionTypeOK'
  BY DEF MotionInv, ClockFault, Stopped, MotionTypeOK, SafetyModes
<1>2. (MotionIsTimed /\ EstopHolds /\ RecordsFollowMode)'
  BY DEF ClockFault, Stopped, MotionIsTimed, EstopHolds, RecordsFollowMode
<1> QED BY <1>1, <1>2 DEF MotionInv

(* arm keeps the invariant. *)
LEMMA ArmInv ==
  ASSUME MotionInv, NEW now \in Times, NEW estop \in BOOLEAN, NEW utc \in BOOLEAN,
         Arm(now, estop, utc)
  PROVE  MotionInv'
<1>1. MotionTypeOK'
  BY DEF MotionInv, Arm, ArmedMode, Stopped, Recorded, MotionTypeOK, SafetyModes
<1>2. MotionIsTimed' /\ RecordsFollowMode'
  BY DEF Arm, Stopped, Recorded, MotionIsTimed, RecordsFollowMode
<1>3. EstopHolds'
  BY DEF MotionInv, Arm, ArmedMode, Stopped, EstopHolds
<1> QED BY <1>1, <1>2, <1>3 DEF MotionInv

(* disarm, and a reset that is granted, leave the vehicle without authority. *)
LEMMA DisarmInv ==
  ASSUME MotionInv, NEW now \in Times, NEW utc \in BOOLEAN,
         Disarm(now, utc) \/ ResetEstop(now, utc)
  PROVE  MotionInv'
<1>1. MotionTypeOK'
  BY DEF MotionInv, Disarm, ResetEstop, Stopped, Recorded, MotionTypeOK, SafetyModes
<1>2. (MotionIsTimed /\ EstopHolds /\ RecordsFollowMode)'
  BY DEF Disarm, ResetEstop, Stopped, Recorded, MotionIsTimed, EstopHolds,
         RecordsFollowMode
<1> QED BY <1>1, <1>2 DEF MotionInv

(* A refused reset_estop keeps the invariant. *)
LEMMA ResetRefusedInv ==
  ASSUME MotionInv, NEW now \in Times, NEW estop \in BOOLEAN, ResetRefused(now, estop)
  PROVE  MotionInv'
<1>1. MotionTypeOK'
  BY DEF MotionInv, ResetRefused, Stopped, MotionTypeOK, SafetyModes
<1>2. MotionIsTimed' /\ RecordsFollowMode'
  BY DEF ResetRefused, Stopped, MotionIsTimed, RecordsFollowMode
<1>3. EstopHolds'
  BY DEF MotionInv, ResetRefused, Stopped, EstopHolds
<1> QED BY <1>1, <1>2, <1>3 DEF MotionInv

(* An allowed command starts the account of its motion: its delay in the
   queue is bounded, and no time has passed since (mobility.py 408-434). *)
LEMMA AllowInv ==
  ASSUME MotionInv, NEW command \in Commands, NEW receipt \in Times, NEW now \in Times,
         Allow(command, receipt, now)
  PROVE  MotionInv'
<1>1. MotionTypeOK'
  BY DEF MotionInv, Allow, Sequenced, Commands, MotionTypeOK
<1>2. mode = "armed" /\ mode' = "armed" /\ now - receipt <= QueueAge * NsPerMs
  BY DEF Allow, Stands, SeenMode
<1>3. held = FALSE /\ held' = FALSE
  BY <1>2 DEF MotionInv, MotionTypeOK, EstopHolds, Allow
<1>4. MotionIsTimed'
  <2> SUFFICES ASSUME moving'
               PROVE  /\ mode' = "armed" /\ ~held'
                      /\ lastControl' \in Times /\ received' \in Times
                      /\ lastControl' - received' <= QueueAge * NsPerMs
                      /\ lastEval' - lastControl' < Watchdog * NsPerMs
    BY DEF MotionIsTimed
  <2>1. lastControl' = now /\ lastEval' = now /\ received' = receipt
    BY DEF Allow
  <2>2. lastEval' - lastControl' < Watchdog * NsPerMs
    BY <2>1, Limits, BoundsAssumption DEF Times
  <2> QED BY <1>2, <1>3, <2>1, <2>2
<1>5. EstopHolds'
  BY <1>3 DEF EstopHolds
<1>6. RecordsFollowMode'
  BY DEF MotionInv, Allow, RecordsFollowMode
<1> QED BY <1>1, <1>4, <1>5, <1>6 DEF MotionInv

(* A mode that a mobility event changes is recorded, and one that it leaves
   alone was (lifecycle.py 291-326). *)
LEMMA TransitionIsRecorded ==
  ASSUME MotionInv, TransitionRecorded, mode' \in SafetyModes
  PROVE  recorded' \in SafetyModes /\ raised' \in BOOLEAN /\ RecordsFollowMode'
BY DEF MotionInv, MotionTypeOK, TransitionRecorded, Recorded, RecordsFollowMode

(* A denied command keeps the invariant. *)
LEMMA DenyInv ==
  ASSUME MotionInv, NEW command \in Commands, NEW receipt \in Times, NEW now \in Times,
         NEW estop \in BOOLEAN, Deny(command, receipt, now, estop)
  PROVE  MotionInv'
<1>1. mode' \in SafetyModes
  BY DEF MotionInv, MotionTypeOK, Deny, SeenMode, SafetyModes
<1>2. TransitionRecorded /\ moving' = FALSE /\ received' = NoTime
  BY DEF Deny, Stopped
<1>3. recorded' \in SafetyModes /\ raised' \in BOOLEAN /\ RecordsFollowMode'
  BY <1>1, <1>2, TransitionIsRecorded
<1>4. MotionTypeOK'
  <2>1. moving' \in BOOLEAN /\ held' \in BOOLEAN
    BY <1>2 DEF Deny
  <2>2. lastCommand' \in 0..MaxSequence
    BY DEF MotionInv, MotionTypeOK, Deny, Sequenced, Commands
  <2>3. lastEval' \in Times /\ lastControl' \in Times \cup {NoTime}
    BY DEF MotionInv, MotionTypeOK, Deny
  <2> QED BY <1>1, <1>2, <1>3, <2>1, <2>2, <2>3 DEF MotionTypeOK
<1>5. MotionIsTimed'
  BY <1>2 DEF MotionIsTimed
<1>6. EstopHolds'
  BY <1>2 DEF MotionInv, Deny, SeenMode, EstopHolds
<1> QED BY <1>3, <1>4, <1>5, <1>6 DEF MotionInv

(* A stop by the watchdog keeps the invariant. *)
LEMMA WatchdogStopsInv ==
  ASSUME MotionInv, NEW now \in Times, NEW estop \in BOOLEAN, WatchdogStops(now, estop)
  PROVE  MotionInv'
<1>1. mode' \in SafetyModes
  BY DEF MotionInv, MotionTypeOK, WatchdogStops, SafetyModes
<1>2. TransitionRecorded /\ moving' = FALSE /\ received' = NoTime
  BY DEF WatchdogStops, Stopped
<1>3. recorded' \in SafetyModes /\ raised' \in BOOLEAN /\ RecordsFollowMode'
  BY <1>1, <1>2, TransitionIsRecorded
<1>4. MotionTypeOK'
  <2>1. moving' \in BOOLEAN /\ held' \in BOOLEAN
    BY <1>2 DEF WatchdogStops
  <2>2. /\ lastCommand' \in 0..MaxSequence
        /\ lastEval' \in Times /\ lastControl' \in Times \cup {NoTime}
    BY DEF MotionInv, MotionTypeOK, WatchdogStops
  <2> QED BY <1>1, <1>2, <1>3, <2>1, <2>2 DEF MotionTypeOK
<1>5. MotionIsTimed'
  BY <1>2 DEF MotionIsTimed
<1>6. EstopHolds'
  BY <1>2 DEF MotionInv, WatchdogStops, WatchdogReason, EstopHolds
<1> QED BY <1>3, <1>4, <1>5, <1>6 DEF MotionInv

(* A check that passes finds the vehicle in time (mobility.py 483-505). *)
LEMMA WatchdogPassesInv ==
  ASSUME MotionInv, NEW now \in Times, NEW estop \in BOOLEAN, WatchdogPasses(now, estop)
  PROVE  MotionInv'
<1>1. MotionTypeOK'
  BY DEF MotionInv, WatchdogPasses, MotionTypeOK
<1>2. RecordsFollowMode'
  BY DEF MotionInv, WatchdogPasses, RecordsFollowMode
<1>3. estop => mode = "estop_latched"
  BY DEF WatchdogPasses, WatchdogReason
<1>4. EstopHolds'
  BY <1>3 DEF MotionInv, WatchdogPasses, EstopHolds, MotionIsTimed
<1>5. MotionIsTimed'
  <2> SUFFICES ASSUME moving'
               PROVE  /\ mode' = "armed" /\ ~held'
                      /\ lastControl' \in Times /\ received' \in Times
                      /\ lastControl' - received' <= QueueAge * NsPerMs
                      /\ lastEval' - lastControl' < Watchdog * NsPerMs
    BY DEF MotionIsTimed
  <2>1. moving
    BY DEF WatchdogPasses
  <2>2. /\ mode = "armed" /\ ~held
        /\ lastControl \in Times /\ received \in Times
        /\ lastControl - received <= QueueAge * NsPerMs
    BY <2>1 DEF MotionInv, MotionIsTimed
  <2>3. ~estop
    BY <1>3, <2>2
  <2>4. /\ mode' = mode /\ lastControl' = lastControl /\ received' = received
        /\ lastEval' = now
    BY DEF WatchdogPasses
  <2>5. ~held'
    BY <2>2, <2>3 DEF WatchdogPasses
  <2>6. now >= lastControl /\ ~Overdue(now)
    BY <2>2, <2>3, BoundsAssumption DEF WatchdogPasses, WatchdogReason, Times
  <2>7. now - lastControl \in Nat /\ (now - lastControl) \div NsPerMs < Watchdog
    BY <2>2, <2>6, Limits, BoundsAssumption DEF Overdue, Times
  <2>8. now - lastControl < Watchdog * NsPerMs
    BY <2>7, Limits, WholeMilliseconds
  <2> QED BY <2>2, <2>4, <2>5, <2>8
<1> QED BY <1>1, <1>2, <1>4, <1>5 DEF MotionInv

(* Every step keeps the invariant. *)
LEMMA MotionInvNext == MotionInv /\ [MotionNext]_motionVars => MotionInv'
<1> SUFFICES ASSUME MotionInv, [MotionNext]_motionVars PROVE MotionInv'
  OBVIOUS
<1>1. CASE UNCHANGED motionVars
  BY <1>1 DEF MotionInv, motionVars, authority, MotionTypeOK, MotionIsTimed, EstopHolds,
              RecordsFollowMode
<1>2. CASE MotionNext
  <2>1. PICK now \in Times, estop \in BOOLEAN :
          \/ \E utc \in BOOLEAN :
               Arm(now, estop, utc) \/ Disarm(now, utc) \/ ResetEstop(now, utc)
          \/ ResetRefused(now, estop)
          \/ LifecycleRegressed(now)
          \/ \E command \in Commands, receipt \in Times :
               Allow(command, receipt, now) \/ Deny(command, receipt, now, estop)
          \/ WatchdogStops(now, estop)
          \/ WatchdogPasses(now, estop)
          \/ WatchdogRegressed(now, estop)
    BY <1>2 DEF MotionNext
  <2>2. (LifecycleRegressed(now) \/ WatchdogRegressed(now, estop)) =>
          ClockFault /\ held' \in BOOLEAN
    BY DEF LifecycleRegressed, WatchdogRegressed, MotionInv, MotionTypeOK
  <2> QED BY <2>1, <2>2, ArmInv, DisarmInv, ResetRefusedInv, ClockFaultInv,
             AllowInv, DenyInv, WatchdogStopsInv, WatchdogPassesInv
<1> QED BY <1>1, <1>2

(* The inductive invariant holds in every reachable state. *)
THEOREM MotionInvariance == MotionSpec => []MotionInv
BY MotionInvInit, MotionInvNext, PTL DEF MotionSpec

(* The variables of the motion authority keep their types. *)
THEOREM MotionTypeCorrect == MotionSpec => []MotionTypeOK
<1>1. MotionInv => MotionTypeOK
  BY DEF MotionInv
<1> QED BY <1>1, MotionInvariance, PTL

(* No valid motion standing, no motion: the vehicle moves only while armed,
   since the last E-stop anew, and at every check by the watchdog its command is
   younger than the two limits of the policy together, for every policy
   (mobility.py 356-508). *)
THEOREM MotionStands == MotionSpec => []MotionHasStanding
<1>1. MotionInv => MotionHasStanding
  <2> SUFFICES ASSUME MotionInv, moving
               PROVE  /\ mode = "armed" /\ ~held
                      /\ lastEval - received < (QueueAge + Watchdog) * NsPerMs
    BY DEF MotionHasStanding
  <2>1. /\ mode = "armed" /\ ~held
        /\ lastControl \in Times /\ received \in Times
        /\ lastControl - received <= QueueAge * NsPerMs
        /\ lastEval - lastControl < Watchdog * NsPerMs
    BY DEF MotionInv, MotionIsTimed
  <2>2. lastEval \in Times
    BY DEF MotionInv, MotionTypeOK
  <2> QED BY <2>1, <2>2, Limits, BoundsAssumption DEF Times
<1> QED BY <1>1, MotionInvariance, PTL

(* Once a call has seen the E-stop, the vehicle is neither armed nor moving
   until a call that leaves the latch (a reset or a disarm, and also a clock
   that runs backwards or a command received after its evaluation) is followed
   by an arm that finds the E-stop clear (mobility.py 319-405, 464-508, 586-595). *)
THEOREM EstopNeedsRearming == MotionSpec => []EstopHolds
<1>1. MotionInv => EstopHolds
  BY DEF MotionInv
<1> QED BY <1>1, MotionInvariance, PTL

(* The last lifecycle record names the mode of the controller, unless a call
   has raised since (lifecycle.py 172-326). *)
THEOREM RecordsFollow == MotionSpec => []RecordsFollowMode
<1>1. MotionInv => RecordsFollowMode
  BY DEF MotionInv
<1> QED BY <1>1, MotionInvariance, PTL

=============================================================================
