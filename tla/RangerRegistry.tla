--------------------------- MODULE RangerRegistry ---------------------------
(***************************************************************************)
(* The custody registry of a Ranger vehicle.                               *)
(*                                                                         *)
(*  - RangerAuthorityHeadRegistry (ets/ranger/authority_head.py) retains   *)
(*    the head of every authority history that it was shown;               *)
(*  - RangerAuthorityCheckpointRegistry (authority_checkpoint.py) retains  *)
(*    a head of the vehicle's custody chain, bound to the authority head   *)
(*    under which its key has standing.                                    *)
(*                                                                         *)
(* The two stores are separate SQLite files: retain commits to the first   *)
(* and then to the second, and may crash or be refused in between.         *)
(* Several registry objects (processes) may share the stores.  Each acts   *)
(* on what it has cached, having compared it with the store, and the       *)
(* stores compare sequence and previous digest again as they insert, so    *)
(* what succeeds acts on the stores; what is stale is refused.             *)
(*                                                                         *)
(* Digests are collision free: the digest of an authority event stands for *)
(* the history up to it, the digest of a custody record for the chain up   *)
(* to it, and the digest of a retained record for its place in the store.  *)
(* A custody chain is its boot checkpoint, which names its predecessor's   *)
(* boot and custody head, and the records after it.                        *)
(***************************************************************************)
EXTENDS RangerKeyAuthority

CONSTANTS Registries,      \* registry objects over the same stores
          Histories,       \* the authority histories in circulation
          Contents,        \* what a custody record says
          Chains,          \* the custody chains that vehicles may present
          NoChain,         \* the predecessor of a genesis boot
          MaxTime,         \* bound on received_at_utc
          MaxCheckpoints   \* bound on the number of checkpoints

ASSUME RegistryAssumption == MaxTime \in Nat /\ MaxCheckpoints \in Nat

\* verify_history refuses every other history.  They need not extend each
\* other: an authority whose store is restored from a backup forks what it
\* signed before.
ASSUME HistoriesAssumption ==
  \A h \in Histories : h \in Seq(Events) /\ ValidHistory(h)

ASSUME ChainsAssumption ==
  \A c \in Chains :
    /\ c.boot \in Nat \ {0} /\ c.key \in Keys /\ c.previous \in Chains \cup {NoChain}
    /\ c.records \in Seq(Contents)
    /\ c.boot = 1 <=> c.previous = NoChain
    /\ c = [boot |-> c.boot, id |-> c.id, previous |-> c.previous, key |-> c.key,
            records |-> c.records]

VARIABLES heads,        \* ranger_retained_authority_heads
          checkpoints,  \* ranger_authority_bound_checkpoints
          registry      \* the call of retain that each registry object runs

vars == <<heads, checkpoints, registry>>

LastOf(s) == s[Len(s)]

\* A chain cut to n records.
UpTo(c, n) == [c EXCEPT !.records = SubSeq(c.records, 1, n)]

-----------------------------------------------------------------------------
(***************************************************************************)
(* RangerAuthorityHeadRegistry.retain.                                     *)
(***************************************************************************)

\* The presented history is the one retained last: retain returns its head.
SameHistory(h) == heads # <<>> /\ h = LastOf(heads).history

\* Mutant: a longer history is taken for an extension.
ExtendsHeadByLength(h) ==
  heads # <<>> => Len(h) > Len(LastOf(heads).history)

\* The presented history extends the one retained last, if there is one.
ExtendsHead(h) ==
  heads # <<>> =>
    LET last == LastOf(heads).history
    IN Len(h) > Len(last) /\ SubSeq(h, 1, Len(last)) = last

\* Mutant: the receipt time is left out.
HeadsAfterUnstamped(h, t) ==
  IF SameHistory(h) THEN heads ELSE Append(heads, [history |-> h, at |-> 0])

\* The heads after retain(h, t), which returns the last of them.
HeadsAfter(h, t) ==
  IF SameHistory(h) THEN heads ELSE Append(heads, [history |-> h, at |-> t])

\* retain accepts the valid history h at time t.
HeadRetained(h, t) ==
  \/ SameHistory(h)
  \/ ExtendsHead(h) /\ (heads # <<>> => t > LastOf(heads).at)

-----------------------------------------------------------------------------
(***************************************************************************)
(* RangerAuthorityCheckpointRegistry.retain.                               *)
(***************************************************************************)

\* Mutant: a chain of the retained boot only has to be longer.
RangerExtensionByLength(last, c) ==
  \/ /\ c.boot = last.boot /\ c.id = last.id /\ c.key = last.key
     /\ Len(c.records) > Len(last.records)
  \/ c.boot = last.boot + 1 /\ c.previous = last

\* _require_ranger_extension: c extends the retained chain within its boot, or
\* is the next boot and names the retained head as its predecessor.
RangerExtension(last, c) ==
  \/ /\ c.boot = last.boot /\ c.id = last.id /\ c.key = last.key
     /\ Len(c.records) > Len(last.records)
     /\ UpTo(c, Len(last.records)) = last
  \/ c.boot = last.boot + 1 /\ c.previous = last

\* Mutant: the receipt time is not compared with that of the head.
CheckpointAcceptedAnyTime(c, n, head_at, t) ==
  checkpoints # <<>> =>
    LET last == LastOf(checkpoints)
    IN /\ t > last.at
       /\ c = last.chain \/ RangerExtension(last.chain, c)
       /\ n >= last.head
       /\ <<c, n>> # <<last.chain, last.head>>

\* retain stores a checkpoint of chain c, bound to head n, at time t: it is
\* new, and nothing in the checkpoints retained so far refuses it.
CheckpointAccepted(c, n, head_at, t) ==
  /\ t >= head_at
  /\ checkpoints # <<>> =>
       LET last == LastOf(checkpoints)
       IN /\ t > last.at
          /\ c = last.chain \/ RangerExtension(last.chain, c)
          /\ n >= last.head
          /\ <<c, n>> # <<last.chain, last.head>>

Idle == [pc |-> "idle", chain |-> NoChain, head |-> 0, at |-> 0, seen |-> 0]

\* Mutant: the standing of the key is not asked for.
KeyKnown(h, c) == c.key \in Named(h)

\* authorize_key at the boot of the chain, in the history just retained.
KeyStands(h, c) == Standing(h, c.key, c.boot)

\* retain, up to the head registry's commit.  The chain is checked next,
\* against the checkpoints as read at the start: when it is refused, or known
\* already, the call ends and the authority head stays retained.
RetainHead(r) ==
  /\ registry[r].pc = "idle"
  /\ \E h \in Histories, t \in 1..MaxTime :
       /\ HeadRetained(h, t)
       /\ heads' = HeadsAfter(h, t)
       /\ \/ UNCHANGED registry
          \/ \E c \in Chains :
               /\ KeyStands(h, c)
               /\ CheckpointAccepted(c, Len(heads'), LastOf(heads').at, t)
               /\ registry' = [registry EXCEPT ![r] =
                    [pc |-> "custody", chain |-> c, head |-> Len(heads'),
                     at |-> t, seen |-> Len(checkpoints)]]
  /\ UNCHANGED checkpoints

\* append in the checkpoint store: sequence and previous digest are the ones
\* expected, that is, the store is as it was read.
Unmoved(q) == q.seen = Len(checkpoints)

\* The rest of retain: the checkpoint is signed and stored.
RetainCheckpoint(r) ==
  LET q == registry[r]
  IN /\ q.pc = "custody"
     /\ Len(checkpoints) < MaxCheckpoints
     /\ Unmoved(q)
     /\ checkpoints' = Append(checkpoints,
          [chain |-> q.chain, head |-> q.head, at |-> q.at,
           ranger_advanced |-> checkpoints # <<>> /\ LastOf(checkpoints).chain # q.chain,
           authority_advanced |-> checkpoints # <<>> /\ LastOf(checkpoints).head # q.head])
     /\ registry' = [registry EXCEPT ![r] = Idle]
     /\ UNCHANGED heads

\* The store has moved and refuses the checkpoint, or the process dies.
RetainEnds(r) ==
  /\ registry[r].pc = "custody"
  /\ registry' = [registry EXCEPT ![r] = Idle]
  /\ UNCHANGED <<heads, checkpoints>>

-----------------------------------------------------------------------------

Init ==
  /\ heads = <<>>
  /\ checkpoints = <<>>
  /\ registry = [r \in Registries |-> Idle]

Next ==
  \E r \in Registries : RetainHead(r) \/ RetainCheckpoint(r) \/ RetainEnds(r)

Spec == Init /\ [][Next]_vars

-----------------------------------------------------------------------------
(***************************************************************************)
(* What the registries and their verifiers check of retained records.      *)
(***************************************************************************)

\* RangerAuthorityHeadRegistry.verify_checkpoint_chain.
HeadChainVerifies ==
  \A n \in 1..(Len(heads) - 1) :
    /\ heads[n].at < heads[n + 1].at
    /\ Len(heads[n].history) < Len(heads[n + 1].history)

\* _checkpoint_transition_error finds no error between c and d.
CheckpointTransition(c, d) ==
  /\ c.at < d.at
  /\ d.ranger_advanced = (c.chain # d.chain)
  /\ d.authority_advanced = (c.head # d.head)
  /\ d.ranger_advanced \/ d.authority_advanced
  /\ d.ranger_advanced =>
       \/ /\ d.chain.boot = c.chain.boot /\ d.chain.id = c.chain.id
          /\ d.chain.key = c.chain.key /\ d.chain.previous = c.chain.previous
          /\ Len(c.chain.records) < Len(d.chain.records)
       \/ d.chain.boot = c.chain.boot + 1 /\ d.chain.previous = c.chain
  /\ d.authority_advanced =>
       /\ c.head < d.head
       /\ Len(heads[c.head].history) < Len(heads[d.head].history)

\* RangerAuthorityCheckpointRegistry.verify_checkpoint_chain.
CheckpointChainVerifies ==
  \A n \in 1..(Len(checkpoints) - 1) :
    CheckpointTransition(checkpoints[n], checkpoints[n + 1])

\* _checkpoint_matches_authority_head, for every checkpoint.
BindingsMatch ==
  \A n \in DOMAIN checkpoints :
    /\ checkpoints[n].head \in DOMAIN heads
    /\ heads[checkpoints[n].head].at <= checkpoints[n].at

\* verify_presented_history: h is exactly the history retained last.
PresentedHistory(h) == ValidHistory(h) /\ h = LastOf(heads).history

\* verify_bound_checkpoint_chain's loop: every checkpoint is bound to a prefix
\* of h in which its key has standing.
BoundTo(h) ==
  \A n \in DOMAIN checkpoints :
    LET bound == heads[checkpoints[n].head].history
        prefix == SubSeq(h, 1, Len(bound))
    IN /\ prefix = bound /\ ValidHistory(prefix)
       /\ Standing(prefix, checkpoints[n].chain.key, checkpoints[n].chain.boot)

\* verify_presented_chain accepts chain c with history h.
PresentedChain(c, h) ==
  LET last == LastOf(checkpoints)
      bound == heads[last.head].history
  IN /\ HeadChainVerifies /\ PresentedHistory(h) /\ BindingsMatch
     /\ SubSeq(h, 1, Len(bound)) = bound
     /\ Standing(h, c.key, c.boot)
     /\ c = last.chain

-----------------------------------------------------------------------------
(***************************************************************************)
(* Properties.                                                             *)
(***************************************************************************)

Calls == [pc : {"idle", "custody"}, chain : Chains \cup {NoChain}, head : Nat,
          at : Nat, seen : Nat]

(* Every variable has its type. *)
TypeOK ==
  /\ heads \in Seq([history : Seq(Events), at : 1..MaxTime])
  /\ checkpoints \in Seq([chain : Chains, head : Nat \ {0}, at : 1..MaxTime,
                          ranger_advanced : BOOLEAN, authority_advanced : BOOLEAN])
  /\ registry \in [Registries -> Calls]

(* A registry opens again after every crash (authority_checkpoint.py:398):   *)
(* what the constructors verify of the two stores holds between any two      *)
(* commits of any registry object, the head of a retain that then failed,    *)
(* or that another object overtook, included.                                *)
ReopenVerifies == HeadChainVerifies /\ CheckpointChainVerifies /\ BindingsMatch

(* The retained record stays auditable (authority_checkpoint.py:674):        *)
(* verify_bound_checkpoint_chain accepts the checkpoints with the retained   *)
(* heads and the history of the last one, although authority histories that  *)
(* fork each other are presented and keys lose their standing afterwards.    *)
BoundChainVerifies ==
  checkpoints # <<>> =>
    PresentedHistory(LastOf(heads).history) /\ BoundTo(LastOf(heads).history)

(* The retained custody never forks (authority_checkpoint.py:992): all the   *)
(* checkpoints of a boot are prefixes of one chain, and a boot's chain       *)
(* starts from a chain that contains every checkpoint of the boot before it. *)
CustodyNeverForks ==
  \A m, n \in DOMAIN checkpoints : m < n =>
    LET c == checkpoints[m].chain
        d == checkpoints[n].chain
    IN /\ c.boot <= d.boot
       /\ c.boot = d.boot => UpTo(d, Len(c.records)) = c
       /\ d.boot = c.boot + 1 => UpTo(d.previous, Len(c.records)) = c

(* A key that lost its standing never has it again (key_authority.py:968,    *)
(* authority_head.py:385): as the retained head moves on, a key gains        *)
(* standing at a boot only if no retained history named it before, whatever  *)
(* the authority signs and whichever of its histories are presented.         *)
StandingNeverRegained ==
  [][heads # <<>> =>
       LET h == LastOf(heads).history
           g == LastOf(heads').history
       IN \A k \in Keys, b \in 1..MaxBoot :
            Standing(g, k, b) /\ ~Standing(h, k, b) => k \notin Named(h)]_vars

(* The last checkpoint can be presented (authority_checkpoint.py:762) with   *)
(* the last history, unless the authority has meanwhile decided about a boot *)
(* that had begun: a decision that takes effect later leaves it alone.       *)
LatestPresentable ==
  checkpoints # <<>> =>
    LET last == LastOf(checkpoints)
        h == LastOf(heads).history
    IN \/ PresentedChain(last.chain, h)
       \/ \E n \in (Len(heads[last.head].history) + 1)..Len(h) :
            h[n].boot <= last.chain.boot

-----------------------------------------------------------------------------
(***************************************************************************)
(* The inductive invariant.                                                *)
(***************************************************************************)

PrefixOf(s, t) == Len(s) <= Len(t) /\ \A i \in 1..Len(s) : s[i] = t[i]

(* Chain d is chain c with no or more records after it. *)
Continues(c, d) ==
  /\ c.boot = d.boot /\ c.id = d.id /\ c.previous = d.previous /\ c.key = d.key
  /\ PrefixOf(c.records, d.records)

(* The retained histories are signed ones, each a proper prefix of the next. *)
HeadsLinked ==
  /\ \A n \in DOMAIN heads : heads[n].history \in Histories
  /\ \A m, n \in DOMAIN heads : m < n =>
       /\ heads[m].at < heads[n].at
       /\ Len(heads[m].history) < Len(heads[n].history)
       /\ PrefixOf(heads[m].history, heads[n].history)

(* A checkpoint, or one about to be stored, is bound to a retained head under
   which its key has standing. *)
Bound(x) ==
  /\ x.chain \in Chains
  /\ x.head \in DOMAIN heads
  /\ heads[x.head].at <= x.at
  /\ Standing(heads[x.head].history, x.chain.key, x.chain.boot)

(* Checkpoint y may follow x. *)
Follows(x, y) ==
  /\ x.at < y.at
  /\ y.chain = x.chain \/ RangerExtension(x.chain, y.chain)
  /\ x.head <= y.head
  /\ y.chain # x.chain \/ y.head # x.head

CheckpointsLinked ==
  \A n \in 1..(Len(checkpoints) - 1) :
    /\ Follows(checkpoints[n], checkpoints[n + 1])
    /\ checkpoints[n + 1].ranger_advanced <=>
         checkpoints[n].chain # checkpoints[n + 1].chain
    /\ checkpoints[n + 1].authority_advanced <=>
         checkpoints[n].head # checkpoints[n + 1].head

CustodyLinked ==
  \A m, n \in DOMAIN checkpoints : m < n =>
    LET c == checkpoints[m].chain
        d == checkpoints[n].chain
    IN /\ c.boot <= d.boot
       /\ c.boot = d.boot => Continues(c, d)
       /\ d.boot = c.boot + 1 => Continues(c, d.previous)

(* What a call is about to store was judged on the checkpoints as they are,
   or will be refused. *)
CallSound(q) ==
  q.pc = "custody" =>
    /\ Bound(q)
    /\ q.at \in 1..MaxTime
    /\ q.seen <= Len(checkpoints)
    /\ Unmoved(q) /\ checkpoints # <<>> => Follows(LastOf(checkpoints), q)

Inv ==
  /\ TypeOK
  /\ HeadsLinked
  /\ \A n \in DOMAIN checkpoints : Bound(checkpoints[n])
  /\ CheckpointsLinked /\ CustodyLinked
  /\ \A r \in Registries : CallSound(registry[r])

=============================================================================
