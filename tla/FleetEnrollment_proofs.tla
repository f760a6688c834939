------------------------ MODULE FleetEnrollment_proofs ------------------------
(***************************************************************************)
(* Proofs about FleetEnrollment, for any number of devices, enrollments,   *)
(* keys, requests and journal slots.                                       *)
(***************************************************************************)
EXTENDS FleetEnrollment, TLAPS

USE NoneAssumption, MarkersAssumption, FreshAssumption

-----------------------------------------------------------------------------
(* The part of the invariant that is about the enrollment store.             *)
StoreOK ==
  /\ record \in [Enrollments -> Records \cup {None}]
  /\ current \in [Devices -> Enrollments \cup {None}]
  /\ owner \in [Fingerprints -> Devices \cup {None}]
  /\ rotation \in [Devices -> Windows \cup {None}]
  /\ \A d \in Devices : rotation[d] # None => rotation[d].until <= now + MaxOverlap
  /\ RecordsOwned /\ FirstIsCurrent /\ DevicesHoldTheirs

(* No record is lost, none changes its device, its key or what it supersedes,
   none is withdrawn in vain and none becomes pending again. *)
Grows ==
  \A e \in Enrollments : record[e] # None =>
    /\ record'[e] # None
    /\ record'[e].device = record[e].device
    /\ record'[e].fingerprint = record[e].fingerprint
    /\ record'[e].supersedes = record[e].supersedes
    /\ record[e].state \in Withdrawn => record'[e].state \in Withdrawn
    /\ record'[e].state = "pending" => record[e].state = "pending"

NoneAdded == \A e \in Enrollments : record'[e] # None => record[e] # None

(* _with_state and put_enrollment, on a retained record. *)
LEMMA WithStateFacts ==
  ASSUME StoreOK, NEW e \in Enrollments, record[e] # None,
         NEW s \in States \ {"pending"}, record' = WithState(e, s),
         record[e].state \in Withdrawn => s \in Withdrawn
  PROVE  /\ record' \in [Enrollments -> Records \cup {None}]
         /\ record'[e].state = s
         /\ \A x \in Enrollments : x # e => record'[x] = record[x]
         /\ Grows /\ NoneAdded
<1>1. record[e] \in Records /\ record \in [Enrollments -> Records \cup {None}]
  BY DEF StoreOK
<1> DEFINE r == [record[e] EXCEPT !.state = s]
<1>2. /\ r \in Records /\ r.state = s /\ r.device = record[e].device
      /\ r.fingerprint = record[e].fingerprint /\ r.supersedes = record[e].supersedes
  BY <1>1 DEF Records
<1>3. record' = [record EXCEPT ![e] = r]
  BY DEF WithState
<1> HIDE DEF r
<1>4. record'[e] = r /\ \A x \in Enrollments : x # e => record'[x] = record[x]
  BY <1>1, <1>3
<1>5. record' \in [Enrollments -> Records \cup {None}]
  BY <1>1, <1>2, <1>3
<1>6. Grows
  <2> SUFFICES ASSUME NEW x \in Enrollments, record[x] # None
               PROVE  /\ record'[x] # None
                      /\ record'[x].device = record[x].device
                      /\ record'[x].fingerprint = record[x].fingerprint
                      /\ record'[x].supersedes = record[x].supersedes
                      /\ record[x].state \in Withdrawn => record'[x].state \in Withdrawn
                      /\ record'[x].state = "pending" => record[x].state = "pending"
    BY DEF Grows
  <2>1. CASE x = e
    BY <1>2, <1>4, <2>1
  <2>2. CASE x # e
    BY <1>4, <2>2
  <2> QED BY <2>1, <2>2
<1>7. NoneAdded
  BY <1>4 DEF NoneAdded
<1> QED BY <1>2, <1>4, <1>5, <1>6, <1>7

(* Whoever stays where it is keeps its own. *)
LEMMA OwnedKept ==
  ASSUME StoreOK, Grows, NoneAdded, owner' = owner,
         record' \in [Enrollments -> Records \cup {None}],
         \A d \in Devices : current[d] # None => current'[d] # None
  PROVE  RecordsOwned'
<1> SUFFICES ASSUME NEW e \in Enrollments, record'[e] # None
             PROVE  /\ owner[record'[e].fingerprint] = record'[e].device
                    /\ current'[record'[e].device] # None
  BY DEF RecordsOwned
<1>1. record[e] # None /\ record[e] \in Records
  BY DEF NoneAdded, StoreOK
<1>2. record[e].device \in Devices
  BY <1>1 DEF Records
<1> QED BY <1>1, <1>2 DEF StoreOK, RecordsOwned, Grows

-----------------------------------------------------------------------------
(* DeviceEnrollmentService: what each operation does to the store.          *)

(* submit keeps the registry sound and loses nothing. *)
LEMMA SubmitStore ==
  ASSUME StoreOK, NEW e \in Enrollments, NEW r \in Submissions, Submit(e, r)
  PROVE  StoreOK' /\ Grows
<1> DEFINE d == r.device
           f == r.fingerprint
<1>1. /\ r \in Records /\ d \in Devices /\ f \in Fingerprints
      /\ r.supersedes \in Enrollments \cup {None}
  BY TimesAssumption, StatesAssumption DEF Submissions, Records
<1>2. /\ record[e] = None /\ owner[f] \in {None, d}
      /\ current[d] # None => r.supersedes = current[d]
      /\ record' = [record EXCEPT ![e] = r]
      /\ owner' = [owner EXCEPT ![f] = d]
      /\ current' = [current EXCEPT ![d] = IF current[d] = None THEN e ELSE current[d]]
      /\ UNCHANGED <<rotation, now>>
  BY DEF Submit, IdentityFree, ValidReplacement
<1>3. r # None
  BY <1>1
<1>4. /\ record' \in [Enrollments -> Records \cup {None}]
      /\ record'[e] = r /\ \A x \in Enrollments : x # e => record'[x] = record[x]
  BY <1>1, <1>2 DEF StoreOK
<1>5. /\ owner' \in [Fingerprints -> Devices \cup {None}] /\ owner'[f] = d
      /\ \A g \in Fingerprints : g # f => owner'[g] = owner[g]
  BY <1>1, <1>2 DEF StoreOK
<1>6. /\ current' \in [Devices -> Enrollments \cup {None}]
      /\ \A x \in Devices : current[x] # None => current'[x] = current[x]
      /\ current[d] = None => current'[d] = e
      /\ \A x \in Devices : x # d => current'[x] = current[x]
  BY <1>1, <1>2 DEF StoreOK
<1>7. rotation' \in [Devices -> Windows \cup {None}]
      /\ \A x \in Devices : rotation'[x] # None => rotation'[x].until <= now' + MaxOverlap
  BY <1>2 DEF StoreOK
<1>8. Grows
  BY <1>2, <1>4 DEF Grows
<1>9. RecordsOwned'
  <2> SUFFICES ASSUME NEW x \in Enrollments, record'[x] # None
               PROVE  /\ owner'[record'[x].fingerprint] = record'[x].device
                      /\ current'[record'[x].device] # None
    BY DEF RecordsOwned
  <2>1. CASE x = e
    BY <1>1, <1>4, <1>5, <1>6, <2>1
  <2>2. CASE x # e
    <3>1. record'[x] = record[x] /\ record[x] \in Records
      BY <1>4, <2>2 DEF StoreOK
    <3>2. record[x].device \in Devices /\ record[x].fingerprint \in Fingerprints
      BY <3>1 DEF Records
    <3>3. /\ owner[record[x].fingerprint] = record[x].device
          /\ current[record[x].device] # None
      BY <3>1 DEF StoreOK, RecordsOwned
    <3> QED BY <1>2, <1>5, <1>6, <3>1, <3>2, <3>3
  <2> QED BY <2>1, <2>2
<1>10. FirstIsCurrent'
  <2> SUFFICES ASSUME NEW x \in Enrollments, record'[x] # None,
                      record'[x].supersedes = None, record'[x].state = "pending"
               PROVE  current'[record'[x].device] = x
    BY DEF FirstIsCurrent
  <2>1. CASE x = e
    BY <1>1, <1>2, <1>4, <1>6, <2>1
  <2>2. CASE x # e
    <3>1. record'[x] = record[x] /\ record[x] \in Records
      BY <1>4, <2>2 DEF StoreOK
    <3>2. record[x].device \in Devices /\ current[record[x].device] = x
      BY <3>1 DEF Records, StoreOK, FirstIsCurrent
    <3> QED BY <1>6, <3>1, <3>2
  <2> QED BY <2>1, <2>2
<1>11. DevicesHoldTheirs'
  <2> SUFFICES ASSUME NEW x \in Devices
               PROVE  /\ current'[x] # None =>
                           /\ record'[current'[x]] # None
                           /\ record'[current'[x]].device = x
                      /\ rotation'[x] # None =>
                           /\ record'[rotation'[x].old] # None
                           /\ record'[rotation'[x].old].device = x
    BY DEF DevicesHoldTheirs
  <2>1. ASSUME current'[x] # None
        PROVE  record'[current'[x]] # None /\ record'[current'[x]].device = x
    <3>1. CASE current[x] # None
      BY <1>6, <1>8, <3>1 DEF StoreOK, DevicesHoldTheirs, Grows
    <3>2. CASE current[x] = None
      BY <1>3, <1>4, <1>6, <2>1, <3>2
    <3> QED BY <3>1, <3>2
  <2>2. ASSUME rotation'[x] # None
        PROVE  record'[rotation'[x].old] # None /\ record'[rotation'[x].old].device = x
    <3>1. rotation[x] = rotation'[x] /\ rotation[x] \in Windows
      BY <1>2, <2>2 DEF StoreOK
    <3>2. rotation[x].old \in Enrollments
      BY <3>1 DEF Windows
    <3> QED BY <1>8, <2>2, <3>1, <3>2 DEF StoreOK, DevicesHoldTheirs, Grows
  <2> QED BY <2>1, <2>2
<1> QED BY <1>4, <1>5, <1>6, <1>7, <1>8, <1>9, <1>10, <1>11 DEF StoreOK


(* The device's window and current enrollment are its own as long as both
   stay. *)
LEMMA HeldKept ==
  ASSUME StoreOK, Grows, NEW d \in Devices
  PROVE  /\ current[d] # None /\ current'[d] = current[d] =>
              record'[current'[d]] # None /\ record'[current'[d]].device = d
         /\ rotation[d] # None /\ rotation'[d] = rotation[d] =>
              record'[rotation'[d].old] # None /\ record'[rotation'[d].old].device = d
<1>1. ASSUME rotation[d] # None PROVE rotation[d].old \in Enrollments
  BY <1>1 DEF StoreOK, Windows
<1>2. current[d] # None => current[d] \in Enrollments
  BY DEF StoreOK
<1> QED BY <1>1, <1>2 DEF StoreOK, DevicesHoldTheirs, Grows

(* An operation that writes one state and moves neither pointer. *)
LEMMA StateOnlyStore ==
  ASSUME StoreOK, Grows, NoneAdded, UNCHANGED <<current, owner, now>>,
         record' \in [Enrollments -> Records \cup {None}],
         rotation' \in [Devices -> Windows \cup {None}],
         \A d \in Devices : rotation'[d] \in {rotation[d], None}
  PROVE  StoreOK'
<1>1. RecordsOwned'
  BY OwnedKept
<1>2. FirstIsCurrent'
  <2> SUFFICES ASSUME NEW x \in Enrollments, record'[x] # None,
                      record'[x].supersedes = None, record'[x].state = "pending"
               PROVE  current[record'[x].device] = x
    BY DEF FirstIsCurrent
  <2> QED BY DEF NoneAdded, Grows, StoreOK, FirstIsCurrent
<1>3. ASSUME NEW d \in Devices
      PROVE  /\ current'[d] # None =>
                  record'[current'[d]] # None /\ record'[current'[d]].device = d
             /\ rotation'[d] # None =>
                  record'[rotation'[d].old] # None /\ record'[rotation'[d].old].device = d
             /\ rotation'[d] # None => rotation'[d].until <= now' + MaxOverlap
  <2>1. rotation'[d] # None => rotation'[d] = rotation[d]
    OBVIOUS
  <2> QED BY <2>1, HeldKept DEF StoreOK
<1>4. DevicesHoldTheirs'
  BY <1>3 DEF DevicesHoldTheirs
<1> QED BY <1>1, <1>2, <1>3, <1>4 DEF StoreOK

(* What activate does to the registry. *)
LEMMA ActivateStore ==
  ASSUME StoreOK, NEW e \in Enrollments, record[e] # None, NEW t,
         Activate(e, t), now' = now
  PROVE  StoreOK' /\ Grows /\ NoneAdded /\ current' = current
<1>1. /\ record[e].state = "pending" /\ record' = WithState(e, "enrolled")
      /\ UNCHANGED <<owner, rotation>>
  BY DEF Activate, PendingAndUsable
<1>2. current' = current
  <2>1. CASE record[e].supersedes = None
    <3>1. current[record[e].device] = e
      BY <1>1, <2>1 DEF StoreOK, FirstIsCurrent
    <3>2. current' = [current EXCEPT ![record[e].device] = e]
      BY <2>1 DEF Activate
    <3> QED BY <3>1, <3>2 DEF StoreOK
  <2>2. CASE record[e].supersedes # None
    BY <2>2 DEF Activate
  <2> QED BY <2>1, <2>2
<1>3. /\ record' \in [Enrollments -> Records \cup {None}] /\ Grows /\ NoneAdded
  <2>1. "enrolled" \in States \ {"pending"} /\ record[e].state \notin Withdrawn
    BY <1>1 DEF States, Withdrawn
  <2> QED BY <1>1, <2>1, WithStateFacts
<1>4. rotation' \in [Devices -> Windows \cup {None}]
  BY <1>1 DEF StoreOK
<1>5. StoreOK'
  BY <1>1, <1>2, <1>3, <1>4, StateOnlyStore
<1> QED BY <1>2, <1>3, <1>5

(* No transition leads back to pending, nor out of withdrawal. *)
LEMMA AllowedTransitionsFacts ==
  ASSUME NEW s \in States, NEW target \in AllowedTransitions[s]
  PROVE  /\ target \in States \ {"pending"}
         /\ s \in Withdrawn => target \in Withdrawn
BY DEF AllowedTransitions, States, Withdrawn

(* transition keeps the registry sound and loses nothing. *)
LEMMA TransitionStore ==
  ASSUME StoreOK, NEW e \in Enrollments, record[e] # None, NEW target,
         Transition(e, target), now' = now
  PROVE  StoreOK' /\ Grows /\ NoneAdded /\ record'[e].state = target
<1>1. /\ target \in AllowedTransitions[record[e].state]
      /\ record' = WithState(e, target)
      /\ UNCHANGED <<current, owner, rotation>>
  BY DEF Transition
<1>2. record[e].state \in States
  BY DEF StoreOK, Records
<1>3. /\ target \in States \ {"pending"}
      /\ record[e].state \in Withdrawn => target \in Withdrawn
  BY <1>1, <1>2, AllowedTransitionsFacts
<1>4. /\ record' \in [Enrollments -> Records \cup {None}] /\ Grows /\ NoneAdded
      /\ record'[e].state = target
  BY <1>1, <1>3, WithStateFacts
<1>5. rotation' \in [Devices -> Windows \cup {None}]
  BY <1>1 DEF StoreOK
<1>6. StoreOK'
  BY <1>1, <1>4, <1>5, StateOnlyStore
<1> QED BY <1>4, <1>6

(* complete_rotation keeps the registry sound and loses nothing. *)
LEMMA CompleteRotationStore ==
  ASSUME StoreOK, NEW d \in Devices, CompleteRotation(d), now' = now
  PROVE  /\ StoreOK' /\ Grows /\ NoneAdded /\ current' = current
         /\ rotation[d] # None
         /\ \A x \in Devices : x # d => rotation'[x] = rotation[x]
<1>1. /\ rotation[d] # None /\ record' = WithState(rotation[d].old, "revoked")
      /\ rotation' = [rotation EXCEPT ![d] = None]
      /\ UNCHANGED <<current, owner>>
  BY DEF CompleteRotation
<1>2. rotation[d].old \in Enrollments /\ record[rotation[d].old] # None
  BY <1>1 DEF StoreOK, Windows, DevicesHoldTheirs
<1>3. "revoked" \in States \ {"pending"} /\ "revoked" \in Withdrawn
  BY DEF States, Withdrawn
<1>4. /\ record' \in [Enrollments -> Records \cup {None}] /\ Grows /\ NoneAdded
  BY <1>1, <1>2, <1>3, WithStateFacts
<1>5. /\ rotation' \in [Devices -> Windows \cup {None}]
      /\ \A x \in Devices : rotation'[x] \in {rotation[x], None}
      /\ \A x \in Devices : x # d => rotation'[x] = rotation[x]
  BY <1>1 DEF StoreOK
<1>6. StoreOK'
  BY <1>1, <1>4, <1>5, StateOnlyStore
<1> QED BY <1>1, <1>4, <1>5, <1>6

(* A rotation begins: the replacement takes the place of an enrolled one. *)
LEMMA BeginRotationStore ==
  ASSUME StoreOK, NEW e \in Enrollments, record[e] # None, NEW t \in Times,
         t <= now, now \in Times, NEW until \in Overlaps(t),
         BeginRotation(e, until, t), current[record[e].device] # None, now' = now
  PROVE  StoreOK' /\ Grows /\ NoneAdded
<1> DEFINE d == record[e].device
           old == current[d]
           w == [old |-> old, new |-> e, until |-> until]
<1>1. /\ record[old].state = "enrolled" /\ record[e].state = "pending"
      /\ record' = WithState(e, "enrolled")
      /\ current' = [current EXCEPT ![d] = e]
      /\ rotation' = [rotation EXCEPT ![d] = w]
      /\ owner' = owner
  BY DEF BeginRotation, MayRotate, PendingAndUsable
<1>2. d \in Devices /\ old \in Enrollments /\ record[old] # None /\ record[old].device = d
  BY DEF StoreOK, Records, DevicesHoldTheirs
<1>3. /\ record' \in [Enrollments -> Records \cup {None}] /\ Grows /\ NoneAdded
  <2>1. "enrolled" \in States \ {"pending"} /\ record[e].state \notin Withdrawn
    BY <1>1 DEF States, Withdrawn
  <2> QED BY <1>1, <2>1, WithStateFacts
<1>4. /\ w \in Windows /\ w.old = old /\ w.until = until /\ until <= now + MaxOverlap
  <2>1. until \in 0..MaxTime + MaxOverlap /\ until <= now + MaxOverlap
    BY TimesAssumption DEF Overlaps, Times
  <2> QED BY <1>2, <2>1 DEF Windows
<1> HIDE DEF w
<1>5. /\ current' \in [Devices -> Enrollments \cup {None}] /\ current'[d] = e
      /\ \A x \in Devices : x # d => current'[x] = current[x]
  BY <1>1, <1>2 DEF StoreOK
<1>6. /\ rotation' \in [Devices -> Windows \cup {None}] /\ rotation'[d] = w
      /\ \A x \in Devices : x # d => rotation'[x] = rotation[x]
  BY <1>1, <1>2, <1>4 DEF StoreOK
<1>7. owner' \in [Fingerprints -> Devices \cup {None}]
  BY <1>1 DEF StoreOK
<1>8. ASSUME NEW x \in Devices, rotation'[x] # None
      PROVE  rotation'[x].until <= now' + MaxOverlap
  BY <1>4, <1>6, <1>8 DEF StoreOK
<1>9. RecordsOwned'
  BY <1>1, <1>3, <1>5, OwnedKept
<1>10. FirstIsCurrent'
  <2> SUFFICES ASSUME NEW x \in Enrollments, record'[x] # None,
                      record'[x].supersedes = None, record'[x].state = "pending"
               PROVE  current'[record'[x].device] = x
    BY DEF FirstIsCurrent
  <2>1. /\ record[x] # None /\ record[x].supersedes = None /\ record[x].state = "pending"
        /\ record'[x].device = record[x].device /\ record[x].device \in Devices
    BY <1>3 DEF NoneAdded, Grows, StoreOK, Records
  <2>2. current[record[x].device] = x
    BY <2>1 DEF StoreOK, FirstIsCurrent
  <2>3. record[x].device # d
    BY <1>1, <2>1, <2>2
  <2> QED BY <1>5, <2>1, <2>2, <2>3
<1>11. ASSUME NEW x \in Devices
       PROVE  /\ current'[x] # None =>
                   record'[current'[x]] # None /\ record'[current'[x]].device = x
              /\ rotation'[x] # None =>
                   record'[rotation'[x].old] # None /\ record'[rotation'[x].old].device = x
  <2>1. CASE x = d
    BY <1>2, <1>3, <1>4, <1>5, <1>6, <2>1 DEF Grows
  <2>2. CASE x # d
    BY <1>3, <1>5, <1>6, <2>2, HeldKept
  <2> QED BY <2>1, <2>2
<1>12. DevicesHoldTheirs'
  BY <1>11 DEF DevicesHoldTheirs
<1> QED BY <1>3, <1>5, <1>6, <1>7, <1>8, <1>9, <1>10, <1>12 DEF StoreOK

(* The operation that _apply runs (portal_admin.py 238-315). *)
LEMMA OperationStore ==
  ASSUME StoreOK, NEW e \in Enrollments, record[e] # None, NEW t \in Times,
         t <= now, now \in Times, NEW action \in Actions, Operation(action, e, t),
         now' = now
  PROVE  /\ StoreOK' /\ Grows
         /\ action \in {"revoke", "decommission"} => record'[e].state \in Withdrawn
<1>1. CASE action = "approve" /\ Activate(e, t)
  BY <1>1, ActivateStore
<1>2. CASE action \in DOMAIN Target /\ Transition(e, Target[action])
  <2>1. StoreOK' /\ Grows /\ record'[e].state = Target[action]
    BY <1>2, TransitionStore
  <2>2. action \in {"revoke", "decommission"} => Target[action] \in Withdrawn
    BY DEF Target, Withdrawn
  <2> QED BY <2>1, <2>2
<1>3. ASSUME action = "begin_rotation",
             NEW replacement \in Enrollments, NEW until \in Overlaps(t),
             record[replacement] # None, BeginRotation(replacement, until, t)
      PROVE  StoreOK' /\ Grows
  <2>1. current[record[replacement].device] # None
    BY <1>3 DEF StoreOK, RecordsOwned
  <2> QED BY <1>3, <2>1, BeginRotationStore
<1>4. CASE action = "complete_rotation" /\ CompleteRotation(record[e].device)
  <2>1. record[e].device \in Devices
    BY DEF StoreOK, Records
  <2> QED BY <1>4, <2>1, CompleteRotationStore
<1> QED BY <1>1, <1>2, <1>3, <1>4 DEF Operation

-----------------------------------------------------------------------------
(* The journal and the requests.                                            *)

JournalEvidenced ==
  \A s \in Slots : journal[s] \notin {None, Pending} => Evidenced(journal[s])

(* The parts of the invariant. *)
LEMMA InvParts ==
  Inv <=> /\ StoreOK
          /\ journal \in [Slots -> Results \cup {None, Pending}]
          /\ request \in [Requests -> Calls \cup {None}]
          /\ now \in Times
          /\ applied \in [Slots -> Nat]
          /\ SlotsHeld /\ \A q \in Requests : RequestSound(q)
          /\ JournalTruthful /\ JournalEvidenced
BY DEF Inv, TypeOK, StoreOK, JournalEvidenced

(* The parts of the invariant, after a step. *)
LEMMA InvPartsNext ==
  ASSUME StoreOK',
         journal' \in [Slots -> Results \cup {None, Pending}],
         request' \in [Requests -> Calls \cup {None}],
         now' \in Times,
         applied' \in [Slots -> Nat],
         SlotsHeld', \A q \in Requests : RequestSound(q)',
         JournalTruthful', JournalEvidenced'
  PROVE  Inv'
BY DEF Inv, TypeOK, StoreOK, JournalEvidenced

(* A registry that does not change loses nothing. *)
LEMMA NothingLost ==
  ASSUME StoreOK, UNCHANGED store
  PROVE  Grows
BY DEF Grows, store

(* A registry that does not change stays sound as time passes. *)
LEMMA StoreStays ==
  ASSUME StoreOK, UNCHANGED store, now \in Times, now' \in Times, now <= now'
  PROVE  StoreOK'
<1>1. UNCHANGED <<record, current, owner, rotation>>
  BY DEF store
<1>2. RecordsOwned' /\ FirstIsCurrent' /\ DevicesHoldTheirs'
  BY <1>1 DEF StoreOK, RecordsOwned, FirstIsCurrent, DevicesHoldTheirs
<1>3. ASSUME NEW d \in Devices, rotation[d] # None
      PROVE  rotation[d].until <= now' + MaxOverlap
  <2>1. rotation[d].until \in Nat /\ rotation[d].until <= now + MaxOverlap
    BY <1>3, TimesAssumption DEF StoreOK, Windows
  <2> QED BY <2>1, TimesAssumption DEF Times
<1> QED BY <1>1, <1>2, <1>3 DEF StoreOK

(* Evidence stays true as the store goes on. *)
LEMMA EvidenceStands ==
  ASSUME Grows, NEW r \in Results, Evidenced(r)
  PROVE  /\ record'[r.enrollment] # None
         /\ r.action \in {"revoke", "decommission"} =>
              record'[r.enrollment].state \in Withdrawn
<1>1. r.enrollment \in Enrollments
  BY DEF Results
<1> QED BY <1>1 DEF Grows, Evidenced

(* A request that does not move stays sound. *)
LEMMA SoundKept ==
  ASSUME Inv, Grows, now' \in Times, now <= now', NEW q \in Requests,
         request'[q] = request[q]
  PROVE  RequestSound(q)'
<1> SUFFICES ASSUME request[q] # None
             PROVE  /\ record'[request[q].current] # None
                    /\ request[q].at <= now'
                    /\ request[q].pc # "apply" => request[q].slot # Fresh
                    /\ request[q].pc \in {"read_back", "commit"} =>
                         request[q].result # None
                    /\ request[q].pc = "read_back" =>
                         request[q].result.action \in RotationActions
                    /\ request[q].pc = "commit" =>
                         /\ record'[request[q].result.enrollment] # None
                         /\ request[q].result.action \in {"revoke", "decommission"} =>
                              record'[request[q].result.enrollment].state \in Withdrawn
  BY DEF RequestSound, Evidenced
<1>1. RequestSound(q) /\ request[q] \in Calls /\ now \in Times
  BY DEF Inv, TypeOK
<1>2. /\ request[q].current \in Enrollments /\ request[q].at \in Times
      /\ request[q].result \in Results \cup {None}
  BY <1>1 DEF Calls
<1>3. record'[request[q].current] # None
  BY <1>1, <1>2 DEF RequestSound, Grows
<1>4. request[q].at <= now'
  <2>1. request[q].at <= now
    BY <1>1 DEF RequestSound
  <2> QED BY <1>1, <1>2, <2>1, TimesAssumption DEF Times
<1>5. ASSUME request[q].pc = "commit"
      PROVE  /\ record'[request[q].result.enrollment] # None
             /\ request[q].result.action \in {"revoke", "decommission"} =>
                  record'[request[q].result.enrollment].state \in Withdrawn
  <2>1. request[q].result \in Results /\ Evidenced(request[q].result)
    BY <1>1, <1>2, <1>5 DEF RequestSound
  <2> QED BY <2>1, EvidenceStands
<1> QED BY <1>1, <1>3, <1>4, <1>5 DEF RequestSound

(* The journal's evidence, when no row is written. *)
LEMMA JournalStands ==
  ASSUME Inv, Grows, journal' = journal
  PROVE  /\ JournalEvidenced'
         /\ \A s \in Slots :
              /\ journal[s] \notin {None, Pending}
              /\ journal[s].action \in {"revoke", "decommission"}
              => record'[journal[s].enrollment].state \in Withdrawn
<1>1. ASSUME NEW s \in Slots, journal[s] \notin {None, Pending}
      PROVE  /\ record'[journal[s].enrollment] # None
             /\ journal[s].action \in {"revoke", "decommission"} =>
                  record'[journal[s].enrollment].state \in Withdrawn
  <2>1. journal[s] \in Results /\ Evidenced(journal[s])
    BY <1>1 DEF Inv, TypeOK
  <2> QED BY <2>1, EvidenceStands
<1> QED BY <1>1 DEF JournalEvidenced, Evidenced

(* The journal stays truthful while the registry only grows. *)
LEMMA JournalKept ==
  ASSUME Inv, Grows, UNCHANGED <<journal, applied>>
  PROVE  JournalTruthful' /\ JournalEvidenced'
BY JournalStands DEF Inv, JournalTruthful

(* Holding no more slots than before, with the pc that it had. *)
LEMMA HeldSlotsKept ==
  ASSUME Inv, UNCHANGED <<journal, applied>>,
         \A q \in Requests, s \in Slots : Holds(q, s)' =>
           Holds(q, s) /\ (request'[q].pc = "apply" <=> request[q].pc = "apply")
  PROVE  SlotsHeld'
<1> SUFFICES ASSUME NEW q \in Requests, NEW s \in Slots, Holds(q, s)'
             PROVE  /\ journal[s] = Pending
                    /\ applied[s] = IF request'[q].pc = "apply" THEN 0 ELSE 1
                    /\ \A other \in Requests : Holds(other, s)' => other = q
  BY DEF SlotsHeld
<1>1. Holds(q, s) /\ (request'[q].pc = "apply" <=> request[q].pc = "apply")
  OBVIOUS
<1>2. /\ journal[s] = Pending
      /\ applied[s] = IF request[q].pc = "apply" THEN 0 ELSE 1
      /\ \A other \in Requests : Holds(other, s) => other = q
  BY <1>1 DEF Inv, SlotsHeld
<1> QED BY <1>1, <1>2

(* One request moves. *)
LEMMA OneRequest ==
  ASSUME Inv, NEW q \in Requests, NEW c \in Calls \cup {None},
         request' = [request EXCEPT ![q] = c]
  PROVE  /\ request' \in [Requests -> Calls \cup {None}]
         /\ request'[q] = c
         /\ \A x \in Requests : x # q => request'[x] = request[x]
BY DEF Inv, TypeOK

(* A request that does not move holds the slot that it held. *)
LEMMA OthersHold ==
  ASSUME NEW x \in Requests, request'[x] = request[x], NEW s \in Slots
  PROVE  Holds(x, s)' <=> Holds(x, s)
BY DEF Holds

-----------------------------------------------------------------------------
(* DurableFleetPortalAdminService.mutate, step by step.                     *)

(* Accepting a request keeps the invariant. *)
LEMMA OpenInv ==
  ASSUME Inv, NEW q \in Requests, NEW s \in Slots \cup {Fresh}, NEW d \in Devices,
         Open(q, s, d)
  PROVE  Inv'
<1> DEFINE c == [pc |-> IF s = Fresh THEN "apply" ELSE "reserve", slot |-> s,
                 current |-> current[d], at |-> now, result |-> None]
<1>1. /\ StoreOK /\ now \in Times /\ journal \in [Slots -> Results \cup {None, Pending}]
      /\ applied \in [Slots -> Nat]
  BY InvParts
<1>2. /\ request[q] = None /\ current[d] # None /\ request' = [request EXCEPT ![q] = c]
      /\ UNCHANGED <<store, journal, now, applied>>
  BY DEF Open
<1>3. current[d] \in Enrollments /\ record[current[d]] # None
  BY <1>1, <1>2 DEF StoreOK, DevicesHoldTheirs
<1>4. c \in Calls
  BY <1>1, <1>3 DEF Calls
<1>5. /\ c.pc = (IF s = Fresh THEN "apply" ELSE "reserve") /\ c.slot = s
      /\ c.current = current[d] /\ c.at = now
  OBVIOUS
<1> HIDE DEF c
<1>6. /\ request' \in [Requests -> Calls \cup {None}] /\ request'[q] = c
      /\ \A x \in Requests : x # q => request'[x] = request[x]
  BY <1>2, <1>4, OneRequest
<1>7. now' \in Times /\ now <= now'
  BY <1>1, <1>2, TimesAssumption DEF Times
<1>8. StoreOK' /\ Grows
  BY <1>1, <1>2, <1>7, StoreStays, NothingLost
<1>9. SlotsHeld'
  <2>1. ASSUME NEW x \in Requests, NEW z \in Slots, Holds(x, z)'
        PROVE  Holds(x, z) /\ (request'[x].pc = "apply" <=> request[x].pc = "apply")
    <3>1. x # q
      BY <1>5, <1>6, <2>1 DEF Holds
    <3> QED BY <1>6, <2>1, <3>1, OthersHold
  <2> QED BY <1>2, <2>1, HeldSlotsKept
<1>10. ASSUME NEW x \in Requests PROVE RequestSound(x)'
  <2>1. CASE x = q
    <3>1. record'[c.current] # None
      BY <1>2, <1>3, <1>5 DEF store
    <3>2. c.at <= now'
      BY <1>2, <1>5, <1>7
    <3>3. c.pc \notin {"read_back", "commit"} /\ (c.pc # "apply" => c.slot # Fresh)
      BY <1>5
    <3> QED BY <1>6, <2>1, <3>1, <3>2, <3>3 DEF RequestSound
  <2>2. CASE x # q
    BY <1>6, <1>7, <1>8, <2>2, SoundKept
  <2> QED BY <2>1, <2>2
<1>11. JournalTruthful' /\ JournalEvidenced'
  BY <1>2, <1>8, JournalKept
<1>12. journal' \in [Slots -> Results \cup {None, Pending}] /\ applied' \in [Slots -> Nat]
  BY <1>1, <1>2
<1> QED BY <1>6, <1>7, <1>8, <1>9, <1>10, <1>11, <1>12, InvPartsNext

(* A request ends and nothing is written. *)
LEMMA EndInv ==
  ASSUME Inv, NEW q \in Requests, request' = [request EXCEPT ![q] = None],
         UNCHANGED <<store, journal, now, applied>>
  PROVE  Inv'
<1>1. /\ StoreOK /\ now \in Times /\ journal \in [Slots -> Results \cup {None, Pending}]
      /\ applied \in [Slots -> Nat]
  BY InvParts
<1>2. /\ request' \in [Requests -> Calls \cup {None}] /\ request'[q] = None
      /\ \A x \in Requests : x # q => request'[x] = request[x]
  BY OneRequest
<1>3. now' \in Times /\ now <= now'
  BY <1>1, TimesAssumption DEF Times
<1>4. StoreOK' /\ Grows
  BY <1>1, <1>3, StoreStays, NothingLost
<1>5. SlotsHeld'
  <2>1. ASSUME NEW x \in Requests, NEW z \in Slots, Holds(x, z)'
        PROVE  Holds(x, z) /\ (request'[x].pc = "apply" <=> request[x].pc = "apply")
    <3>1. x # q
      BY <1>2, <2>1 DEF Holds
    <3> QED BY <1>2, <2>1, <3>1, OthersHold
  <2> QED BY <2>1, HeldSlotsKept
<1>6. ASSUME NEW x \in Requests PROVE RequestSound(x)'
  <2>1. CASE x = q
    BY <1>2, <2>1 DEF RequestSound
  <2>2. CASE x # q
    BY <1>2, <1>3, <1>4, <2>2, SoundKept
  <2> QED BY <2>1, <2>2
<1>7. JournalTruthful' /\ JournalEvidenced'
  BY <1>4, JournalKept
<1>8. journal' \in [Slots -> Results \cup {None, Pending}] /\ applied' \in [Slots -> Nat]
  BY <1>1
<1> QED BY <1>2, <1>3, <1>4, <1>5, <1>6, <1>7, <1>8, InvPartsNext


(* A replayed answer keeps the invariant. *)
LEMMA AnsweredInv ==
  ASSUME Inv, NEW q \in Requests, Answered(q) PROVE Inv'
BY EndInv DEF Answered

(* A refused or failed request keeps the invariant. *)
LEMMA FailInv ==
  ASSUME Inv, NEW q \in Requests, Fail(q) PROVE Inv'
BY EndInv DEF Fail

(* The reservation of a journal slot keeps the invariant. *)
LEMMA ReserveInv ==
  ASSUME Inv, NEW q \in Requests, Reserve(q) PROVE Inv'
<1> DEFINE s == request[q].slot
           c == [request[q] EXCEPT !.pc = "apply"]
<1>1. /\ StoreOK /\ now \in Times /\ journal \in [Slots -> Results \cup {None, Pending}]
      /\ applied \in [Slots -> Nat] /\ RequestSound(q) /\ SlotsHeld /\ JournalTruthful
      /\ request \in [Requests -> Calls \cup {None}]
  BY InvParts
<1>2. /\ request[q] # None /\ request[q].pc = "reserve" /\ journal[s] = None
      /\ journal' = [journal EXCEPT ![s] = Pending]
      /\ request' = [request EXCEPT ![q] = c]
      /\ UNCHANGED <<store, now, applied>>
  BY DEF Reserve, SlotFree
<1>3. request[q] \in Calls /\ s \in Slots
  <2>1. request[q] \in Calls
    BY <1>1, <1>2
  <2>2. s # Fresh
    BY <1>1, <1>2 DEF RequestSound
  <2> QED BY <2>1, <2>2 DEF Calls
<1>4. /\ c \in Calls /\ c.pc = "apply" /\ c.slot = s
      /\ c.current = request[q].current /\ c.at = request[q].at
  BY <1>3 DEF Calls
<1> HIDE DEF c
<1>5. /\ request' \in [Requests -> Calls \cup {None}] /\ request'[q] = c
      /\ \A x \in Requests : x # q => request'[x] = request[x]
  BY <1>2, <1>4, OneRequest
<1>6. now' \in Times /\ now <= now'
  BY <1>1, <1>2, TimesAssumption DEF Times
<1>7. StoreOK' /\ Grows
  BY <1>1, <1>2, <1>6, StoreStays, NothingLost
<1>8. /\ journal' \in [Slots -> Results \cup {None, Pending}] /\ journal'[s] = Pending
      /\ \A z \in Slots : z # s => journal'[z] = journal[z]
      /\ applied' \in [Slots -> Nat]
  BY <1>1, <1>2, <1>3
<1>9. SlotsHeld'
  <2> SUFFICES ASSUME NEW x \in Requests, NEW z \in Slots, Holds(x, z)'
               PROVE  /\ journal'[z] = Pending
                      /\ applied[z] = IF request'[x].pc = "apply" THEN 0 ELSE 1
                      /\ \A other \in Requests : Holds(other, z)' => other = x
    BY <1>2 DEF SlotsHeld
  <2>1. \A y \in Requests : ~Holds(y, s)
    BY <1>1, <1>2, <1>3 DEF SlotsHeld
  <2>2. ASSUME NEW y \in Requests, NEW u \in Slots, Holds(y, u)', y # q
        PROVE  Holds(y, u) /\ u # s
    BY <1>5, <2>1, <2>2, OthersHold
  <2>3. ASSUME NEW u \in Slots, Holds(q, u)' PROVE u = s
    BY <1>4, <1>5, <2>3 DEF Holds
  <2>4. CASE x = q
    <3>1. applied[s] = 0
      BY <1>1, <1>2, <1>3 DEF JournalTruthful
    <3> QED BY <1>4, <1>5, <1>8, <2>2, <2>3, <2>4, <3>1
  <2>5. CASE x # q
    BY <1>1, <1>5, <1>8, <2>2, <2>3, <2>5 DEF SlotsHeld
  <2> QED BY <2>4, <2>5
<1>10. ASSUME NEW x \in Requests PROVE RequestSound(x)'
  <2>1. CASE x = q
    <3>1. record'[c.current] # None /\ c.at <= now'
      BY <1>1, <1>2, <1>4 DEF store, RequestSound
    <3> QED BY <1>4, <1>5, <2>1, <3>1 DEF RequestSound
  <2>2. CASE x # q
    BY <1>5, <1>6, <1>7, <2>2, SoundKept
  <2> QED BY <2>1, <2>2
<1>11. JournalTruthful' /\ JournalEvidenced'
  <2>1. record' = record /\ applied' = applied
    BY <1>2 DEF store
  <2>2. ASSUME NEW z \in Slots, z # s PROVE journal'[z] = journal[z]
    BY <1>8, <2>2
  <2>3. JournalTruthful'
    <3> SUFFICES ASSUME NEW z \in Slots
                 PROVE  /\ applied[z] <= 1
                        /\ journal'[z] = None => applied[z] = 0
                        /\ journal'[z] \notin {None, Pending} =>
                             /\ applied[z] = 1
                             /\ journal'[z].action \in {"revoke", "decommission"} =>
                                  record[journal'[z].enrollment].state \in Withdrawn
      BY <2>1 DEF JournalTruthful
    <3> QED BY <1>1, <1>8 DEF JournalTruthful
  <2>4. JournalEvidenced'
    <3>1. JournalEvidenced
      BY InvParts
    <3> QED BY <1>8, <2>1, <3>1 DEF JournalEvidenced, Evidenced
  <2> QED BY <2>3, <2>4
<1> QED BY <1>5, <1>6, <1>7, <1>8, <1>9, <1>10, <1>11, InvPartsNext

(* The operation itself keeps the invariant. *)
LEMMA ApplyInv ==
  ASSUME Inv, NEW q \in Requests, NEW action \in Actions, Apply(q, action)
  PROVE  Inv'
<1> DEFINE c == request[q]
           s == c.slot
           pc == IF action \in RotationActions THEN "read_back" ELSE "commit"
           result == [action |-> action, enrollment |-> c.current]
           next == IF s = Fresh THEN None
                   ELSE [c EXCEPT !.pc = pc, !.result = result]
<1>1. /\ StoreOK /\ now \in Times /\ journal \in [Slots -> Results \cup {None, Pending}]
      /\ applied \in [Slots -> Nat] /\ RequestSound(q) /\ SlotsHeld /\ JournalTruthful
      /\ request \in [Requests -> Calls \cup {None}]
  BY InvParts
<1>2. /\ c # None /\ c.pc = "apply" /\ Operation(action, c.current, c.at)
      /\ request' = [request EXCEPT ![q] = next]
      /\ applied' = [z \in Slots |-> IF z = s THEN applied[z] + 1 ELSE applied[z]]
      /\ UNCHANGED <<journal, now>>
  BY DEF Apply
<1>3. /\ c \in Calls /\ c.current \in Enrollments /\ c.at \in Times
      /\ s \in Slots \cup {Fresh} /\ record[c.current] # None /\ c.at <= now
  BY <1>1, <1>2 DEF Calls, RequestSound
<1>4. result \in Results /\ result.action = action /\ result.enrollment = c.current
  BY <1>3 DEF Results
<1> HIDE DEF result
<1>5. ASSUME s # Fresh
      PROVE  /\ next \in Calls /\ next.pc = pc /\ next.slot = s /\ next.result = result
             /\ next.current = c.current /\ next.at = c.at
  BY <1>3, <1>4, <1>5 DEF Calls
<1>6. (s = Fresh => next = None) /\ next \in Calls \cup {None}
  BY <1>5
<1> HIDE DEF next
<1>7. /\ request' \in [Requests -> Calls \cup {None}] /\ request'[q] = next
      /\ \A x \in Requests : x # q => request'[x] = request[x]
  BY <1>2, <1>6, OneRequest
<1>8. now' \in Times /\ now <= now'
  BY <1>1, <1>2, TimesAssumption DEF Times
<1>9. /\ StoreOK' /\ Grows
      /\ action \in {"revoke", "decommission"} => record'[c.current].state \in Withdrawn
  BY <1>1, <1>2, <1>3, OperationStore
<1>10. /\ applied' \in [Slots -> Nat]
       /\ \A z \in Slots : z # s => applied'[z] = applied[z]
       /\ s \in Slots => applied'[s] = applied[s] + 1
  BY <1>1, <1>2
<1>11. s \in Slots => Holds(q, s) /\ journal[s] = Pending /\ applied[s] = 0
                      /\ \A other \in Requests : Holds(other, s) => other = q
  BY <1>1, <1>2 DEF Holds, SlotsHeld
<1>12. SlotsHeld'
  <2> SUFFICES ASSUME NEW x \in Requests, NEW z \in Slots, Holds(x, z)'
               PROVE  /\ journal[z] = Pending
                      /\ applied'[z] = IF request'[x].pc = "apply" THEN 0 ELSE 1
                      /\ \A other \in Requests : Holds(other, z)' => other = x
    BY <1>2 DEF SlotsHeld
  <2>1. ASSUME NEW y \in Requests, NEW u \in Slots, Holds(y, u)', y # q
        PROVE  Holds(y, u) /\ u # s
    BY <1>7, <1>11, <2>1, OthersHold
  <2>2. ASSUME NEW u \in Slots, Holds(q, u)' PROVE u = s
    BY <1>5, <1>6, <1>7, <2>2 DEF Holds
  <2>3. CASE x = q
    <3>1. z = s /\ s # Fresh
      BY <2>2, <2>3
    <3>2. request'[q].pc # "apply"
      BY <1>5, <1>7, <3>1
    <3> QED BY <1>10, <1>11, <2>1, <2>3, <3>1, <3>2
  <2>4. CASE x # q
    <3>1. Holds(x, z) /\ z # s
      BY <2>1, <2>4
    <3> QED BY <1>1, <1>7, <1>10, <2>1, <2>2, <2>4, <3>1 DEF SlotsHeld
  <2> QED BY <2>3, <2>4
<1>13. ASSUME NEW x \in Requests PROVE RequestSound(x)'
  <2>1. CASE x = q /\ s = Fresh
    BY <1>6, <1>7, <2>1 DEF RequestSound
  <2>2. CASE x = q /\ s # Fresh
    <3>1. record'[next.current] # None /\ next.at <= now'
      BY <1>2, <1>3, <1>5, <1>9, <2>2 DEF Grows
    <3>2. next.pc = "read_back" => next.result.action \in RotationActions
      BY <1>4, <1>5, <2>2
    <3>3. /\ record'[next.result.enrollment] # None
          /\ next.result.action \in {"revoke", "decommission"} =>
               record'[next.result.enrollment].state \in Withdrawn
      BY <1>4, <1>5, <1>9, <2>2, <3>1
    <3>4. next.slot # Fresh /\ next.result # None
      BY <1>4, <1>5, <2>2
    <3> QED BY <1>7, <2>2, <3>1, <3>2, <3>3, <3>4 DEF RequestSound, Evidenced
  <2>3. CASE x # q
    BY <1>7, <1>8, <1>9, <2>3, SoundKept
  <2> QED BY <2>1, <2>2, <2>3
<1>14. JournalTruthful'
  <2> SUFFICES ASSUME NEW z \in Slots
               PROVE  /\ applied'[z] <= 1
                      /\ journal[z] = None => applied'[z] = 0
                      /\ journal[z] \notin {None, Pending} =>
                           /\ applied'[z] = 1
                           /\ journal[z].action \in {"revoke", "decommission"} =>
                                record'[journal[z].enrollment].state \in Withdrawn
    BY <1>2 DEF JournalTruthful
  <2>1. CASE z = s
    BY <1>10, <1>11, <2>1
  <2>2. CASE z # s
    BY <1>1, <1>2, <1>9, <1>10, <2>2, JournalStands DEF JournalTruthful
  <2> QED BY <2>1, <2>2
<1>15. JournalEvidenced' /\ journal' \in [Slots -> Results \cup {None, Pending}]
  BY <1>1, <1>2, <1>9, JournalStands
<1> QED BY <1>7, <1>8, <1>9, <1>10, <1>12, <1>13, <1>14, <1>15, InvPartsNext


(* The reading back of the result keeps the invariant. *)
LEMMA ReadBackInv ==
  ASSUME Inv, NEW q \in Requests, ReadBack(q) PROVE Inv'
<1> DEFINE c == request[q]
           e == current[record[c.current].device]
           result == [c.result EXCEPT !.enrollment = e]
           next == [c EXCEPT !.pc = "commit", !.result = result]
<1>1. /\ StoreOK /\ now \in Times /\ journal \in [Slots -> Results \cup {None, Pending}]
      /\ applied \in [Slots -> Nat] /\ RequestSound(q)
      /\ request \in [Requests -> Calls \cup {None}]
  BY InvParts
<1>2. /\ c # None /\ c.pc = "read_back" /\ request' = [request EXCEPT ![q] = next]
      /\ UNCHANGED <<store, journal, now, applied>>
  BY DEF ReadBack
<1>3. /\ c \in Calls /\ c.current \in Enrollments /\ c.result \in Results
      /\ record[c.current] # None /\ c.at <= now /\ c.slot # Fresh
      /\ c.result.action \in RotationActions
  BY <1>1, <1>2 DEF Calls, RequestSound
<1>4. e \in Enrollments /\ record[e] # None
  <2>1. record[c.current].device \in Devices /\ e # None
    BY <1>1, <1>3 DEF StoreOK, Records, RecordsOwned
  <2> QED BY <1>1, <2>1 DEF StoreOK, DevicesHoldTheirs
<1>5. result \in Results /\ result.enrollment = e /\ result.action = c.result.action
  BY <1>3, <1>4 DEF Results
<1> HIDE DEF result
<1>6. /\ next \in Calls /\ next.pc = "commit" /\ next.slot = c.slot /\ next.at = c.at
      /\ next.current = c.current /\ next.result = result
  BY <1>3, <1>5 DEF Calls
<1> HIDE DEF next
<1>7. /\ request' \in [Requests -> Calls \cup {None}] /\ request'[q] = next
      /\ \A x \in Requests : x # q => request'[x] = request[x]
  BY <1>2, <1>6, OneRequest
<1>8. now' \in Times /\ now <= now'
  BY <1>1, <1>2, TimesAssumption DEF Times
<1>9. StoreOK' /\ Grows
  BY <1>1, <1>2, <1>8, StoreStays, NothingLost
<1>10. SlotsHeld'
  <2>1. ASSUME NEW x \in Requests, NEW z \in Slots, Holds(x, z)'
        PROVE  Holds(x, z) /\ (request'[x].pc = "apply" <=> request[x].pc = "apply")
    <3>1. CASE x = q
      BY <1>2, <1>6, <1>7, <2>1, <3>1 DEF Holds
    <3>2. CASE x # q
      BY <1>7, <2>1, <3>2, OthersHold
    <3> QED BY <3>1, <3>2
  <2> QED BY <1>2, <2>1, HeldSlotsKept
<1>11. ASSUME NEW x \in Requests PROVE RequestSound(x)'
  <2>1. CASE x = q
    <3>1. record' = record /\ now' = now
      BY <1>2 DEF store
    <3>2. result.action \notin {"revoke", "decommission"}
      BY <1>3, <1>5 DEF RotationActions
    <3>3. result # None
      BY <1>5
    <3> QED BY <1>3, <1>4, <1>5, <1>6, <1>7, <2>1, <3>1, <3>2, <3>3
            DEF RequestSound, Evidenced
  <2>2. CASE x # q
    BY <1>7, <1>8, <1>9, <2>2, SoundKept
  <2> QED BY <2>1, <2>2
<1>12. JournalTruthful' /\ JournalEvidenced'
  BY <1>2, <1>9, JournalKept
<1>13. journal' \in [Slots -> Results \cup {None, Pending}] /\ applied' \in [Slots -> Nat]
  BY <1>1, <1>2
<1> QED BY <1>7, <1>8, <1>9, <1>10, <1>11, <1>12, <1>13, InvPartsNext

(* The commit of the journal slot keeps the invariant. *)
LEMMA CommitInv ==
  ASSUME Inv, NEW q \in Requests, Commit(q) PROVE Inv'
<1> DEFINE c == request[q]
           s == c.slot
<1>1. /\ StoreOK /\ now \in Times /\ journal \in [Slots -> Results \cup {None, Pending}]
      /\ applied \in [Slots -> Nat] /\ RequestSound(q) /\ SlotsHeld
      /\ JournalTruthful /\ JournalEvidenced
      /\ request \in [Requests -> Calls \cup {None}]
  BY InvParts
<1>2. /\ c # None /\ c.pc = "commit" /\ journal[s] = Pending
      /\ journal' = [journal EXCEPT ![s] = c.result]
      /\ request' = [request EXCEPT ![q] = None]
      /\ UNCHANGED <<store, now, applied>>
  BY DEF Commit
<1>3. c \in Calls /\ s \in Slots /\ c.result \in Results /\ Evidenced(c.result)
  BY <1>1, <1>2 DEF Calls, RequestSound
<1>4. Holds(q, s) /\ applied[s] = 1 /\ \A other \in Requests : Holds(other, s) => other = q
  BY <1>1, <1>2, <1>3 DEF Holds, SlotsHeld
<1>5. /\ request' \in [Requests -> Calls \cup {None}] /\ request'[q] = None
      /\ \A x \in Requests : x # q => request'[x] = request[x]
  BY <1>2, OneRequest
<1>6. now' \in Times /\ now <= now'
  BY <1>1, <1>2, TimesAssumption DEF Times
<1>7. StoreOK' /\ Grows /\ record' = record
  BY <1>1, <1>2, <1>6, StoreStays, NothingLost DEF store
<1>8. /\ journal' \in [Slots -> Results \cup {None, Pending}] /\ journal'[s] = c.result
      /\ \A z \in Slots : z # s => journal'[z] = journal[z]
      /\ applied' \in [Slots -> Nat] /\ applied' = applied
  BY <1>1, <1>2, <1>3
<1>9. SlotsHeld'
  <2> SUFFICES ASSUME NEW x \in Requests, NEW z \in Slots, Holds(x, z)'
               PROVE  /\ journal'[z] = Pending
                      /\ applied[z] = IF request'[x].pc = "apply" THEN 0 ELSE 1
                      /\ \A other \in Requests : Holds(other, z)' => other = x
    BY <1>2 DEF SlotsHeld
  <2>1. ASSUME NEW y \in Requests, NEW u \in Slots, Holds(y, u)'
        PROVE  y # q /\ Holds(y, u) /\ u # s
    <3>1. y # q
      BY <1>5, <2>1 DEF Holds
    <3> QED BY <1>4, <1>5, <2>1, <3>1, OthersHold
  <2>2. x # q /\ Holds(x, z) /\ z # s
    BY <2>1
  <2> QED BY <1>1, <1>5, <1>8, <2>1, <2>2 DEF SlotsHeld
<1>10. ASSUME NEW x \in Requests PROVE RequestSound(x)'
  <2>1. CASE x = q
    BY <1>5, <2>1 DEF RequestSound
  <2>2. CASE x # q
    BY <1>5, <1>6, <1>7, <2>2, SoundKept
  <2> QED BY <2>1, <2>2
<1>11. JournalTruthful'
  <2> SUFFICES ASSUME NEW z \in Slots
               PROVE  /\ applied[z] <= 1
                      /\ journal'[z] = None => applied[z] = 0
                      /\ journal'[z] \notin {None, Pending} =>
                           /\ applied[z] = 1
                           /\ journal'[z].action \in {"revoke", "decommission"} =>
                                record[journal'[z].enrollment].state \in Withdrawn
    BY <1>7, <1>8 DEF JournalTruthful
  <2>1. CASE z = s
    BY <1>3, <1>4, <1>8, <2>1 DEF Evidenced
  <2>2. CASE z # s
    BY <1>1, <1>8, <2>2 DEF JournalTruthful
  <2> QED BY <2>1, <2>2
<1>12. JournalEvidenced'
  BY <1>1, <1>3, <1>7, <1>8 DEF JournalEvidenced, Evidenced
<1> QED BY <1>5, <1>6, <1>7, <1>8, <1>9, <1>10, <1>11, <1>12, InvPartsNext

(* No request moves, and no journal row is written. *)
LEMMA RequestsStayInv ==
  ASSUME Inv, UNCHANGED <<journal, request, applied>>, StoreOK', Grows,
         now' \in Times, now <= now'
  PROVE  Inv'
<1>1. /\ journal \in [Slots -> Results \cup {None, Pending}]
      /\ applied \in [Slots -> Nat] /\ request \in [Requests -> Calls \cup {None}]
  BY InvParts
<1>2. SlotsHeld'
  BY HeldSlotsKept DEF Holds
<1>3. \A q \in Requests : RequestSound(q)'
  BY SoundKept
<1>4. JournalTruthful' /\ JournalEvidenced'
  BY JournalKept
<1> QED BY <1>1, <1>2, <1>3, <1>4, InvPartsNext

(* submit keeps the invariant. *)
LEMMA SubmitInv ==
  ASSUME Inv, NEW e \in Enrollments, NEW r \in Submissions, Submit(e, r)
  PROVE  Inv'
<1>1. StoreOK /\ now \in Times
  BY InvParts
<1>2. StoreOK' /\ Grows
  BY <1>1, SubmitStore
<1>3. UNCHANGED <<journal, request, applied>> /\ now' \in Times /\ now <= now'
  BY <1>1, TimesAssumption DEF Submit, Times
<1> QED BY <1>2, <1>3, RequestsStayInv

(* The clock keeps the invariant. *)
LEMMA TickInv ==
  ASSUME Inv, Tick PROVE Inv'
<1>1. StoreOK /\ now \in Times
  BY InvParts
<1>2. UNCHANGED <<journal, request, applied, store>> /\ now' \in Times /\ now <= now'
  BY <1>1, TimesAssumption DEF Tick, Times
<1>3. StoreOK' /\ Grows
  BY <1>1, <1>2, StoreStays, NothingLost
<1> QED BY <1>2, <1>3, RequestsStayInv

-----------------------------------------------------------------------------
(***************************************************************************)
(* The theorems.                                                           *)
(***************************************************************************)

(* The inductive invariant holds whatever requests race, fail half way or    *)
(* are repeated.                                                             *)
THEOREM Invariance == Spec => []Inv
<1>1. Init => Inv
  <2> SUFFICES ASSUME Init PROVE Inv
    OBVIOUS
  <2>1. /\ StoreOK /\ now \in Times
        /\ journal \in [Slots -> Results \cup {None, Pending}]
        /\ request \in [Requests -> Calls \cup {None}]
        /\ applied \in [Slots -> Nat]
    BY TimesAssumption DEF Init, StoreOK, Times, RecordsOwned, FirstIsCurrent,
       DevicesHoldTheirs
  <2>2. SlotsHeld /\ \A q \in Requests : RequestSound(q)
    BY DEF Init, SlotsHeld, Holds, RequestSound
  <2>3. JournalTruthful /\ JournalEvidenced
    BY DEF Init, JournalTruthful, JournalEvidenced
  <2> QED BY <2>1, <2>2, <2>3, InvParts
<1>2. Inv /\ [Next]_vars => Inv'
  <2> SUFFICES ASSUME Inv, [Next]_vars PROVE Inv'
    OBVIOUS
  <2>1. ASSUME NEW e \in Enrollments, NEW r \in Submissions, Submit(e, r) PROVE Inv'
    BY <2>1, SubmitInv
  <2>2. ASSUME NEW q \in Requests, NEW s \in Slots \cup {Fresh}, NEW d \in Devices,
               Open(q, s, d)
        PROVE  Inv'
    BY <2>2, OpenInv
  <2>3. ASSUME NEW q \in Requests, NEW action \in Actions, Apply(q, action) PROVE Inv'
    BY <2>3, ApplyInv
  <2>4. ASSUME NEW q \in Requests,
               Reserve(q) \/ Answered(q) \/ ReadBack(q) \/ Commit(q) \/ Fail(q)
        PROVE  Inv'
    BY <2>4, ReserveInv, AnsweredInv, ReadBackInv, CommitInv, FailInv
  <2>5. CASE Tick
    BY <2>5, TickInv
  <2>6. CASE UNCHANGED vars
    <3>1. StoreOK /\ now \in Times
      BY InvParts
    <3>2. UNCHANGED <<journal, request, applied, store>> /\ now' \in Times /\ now <= now'
      BY <2>6, <3>1, TimesAssumption DEF vars, store, Times
    <3>3. StoreOK' /\ Grows
      BY <3>1, <3>2, StoreStays, NothingLost
    <3> QED BY <3>2, <3>3, RequestsStayInv
  <2> QED BY <2>1, <2>2, <2>3, <2>4, <2>5, <2>6 DEF Next
<1> QED BY <1>1, <1>2, PTL DEF Spec

(* Every variable has its type, and no overlap window reaches further than   *)
(* the policy allows from now (service.py 154-159).                          *)
THEOREM TypeCorrect == Spec => []TypeOK
BY Invariance, PTL DEF Inv

(* A journal slot runs its operation once at most, and what its evidence     *)
(* says of an enrollment stays so (portal_admin_durable.py 81-154).          *)
THEOREM JournalStaysTruthful == Spec => []JournalTruthful
BY Invariance, PTL DEF Inv

(* No public key authorizes two devices (service.py 213-250).                *)
THEOREM OneDeviceAuthorized == Spec => []OneDevicePerIdentity
<1>1. ASSUME Inv, NEW d \in Devices, NEW f \in Fingerprints, Authorized(d, f)
      PROVE  owner[f] = d
  <2>1. StoreOK
    BY <1>1, InvParts
  <2>2. /\ current[d] # None
        /\ \/ f = record[current[d]].fingerprint
           \/ rotation[d] # None /\ f = record[rotation[d].old].fingerprint
    BY <1>1 DEF Authorized
  <2>3. current[d] \in Enrollments /\ record[current[d]] # None
        /\ record[current[d]].device = d
    BY <2>1, <2>2 DEF StoreOK, DevicesHoldTheirs
  <2>4. CASE f = record[current[d]].fingerprint
    BY <2>1, <2>3, <2>4 DEF StoreOK, RecordsOwned
  <2>5. CASE rotation[d] # None /\ f = record[rotation[d].old].fingerprint
    <3>1. rotation[d].old \in Enrollments
      BY <2>1, <2>5 DEF StoreOK, Windows
    <3> QED BY <2>1, <2>5, <3>1 DEF StoreOK, DevicesHoldTheirs, RecordsOwned
  <2> QED BY <2>2, <2>4, <2>5
<1>2. Inv => OneDevicePerIdentity
  BY <1>1 DEF OneDevicePerIdentity
<1> QED BY <1>2, Invariance, PTL

(* A device whose enrollment was withdrawn never comes back                  *)
(* (service.py 62-190).                                                      *)
THEOREM WithdrawnStaysOut == Spec => WithdrawnDeviceStaysOut
<1>1. ASSUME Inv, [Next]_vars, NEW d \in Devices, Out(d) PROVE Out(d)'
  <2> DEFINE c == current[d]
  <2>1. StoreOK /\ c # None /\ record[c].state \in Withdrawn /\ rotation[d] = None
        /\ now \in Times
    BY <1>1, InvParts DEF Out
  <2>2. c \in Enrollments /\ record[c] # None
    BY <2>1 DEF StoreOK, DevicesHoldTheirs
  <2>3. ASSUME Grows, current'[d] = c, rotation'[d] = None PROVE Out(d)'
    BY <2>1, <2>2, <2>3 DEF Out, Grows
  <2>4. ASSUME NEW e \in Enrollments, NEW r \in Submissions, Submit(e, r)
        PROVE  Out(d)'
    <3>1. Grows
      BY <2>1, <2>4, SubmitStore
    <3>2. current'[d] = c /\ rotation'[d] = None
      <4>1. r.device \in Devices
        BY DEF Submissions
      <4> QED BY <2>1, <2>4, <4>1 DEF Submit, StoreOK
    <3> QED BY <2>3, <3>1, <3>2
  <2>5. ASSUME UNCHANGED store PROVE Out(d)'
    BY <2>1, <2>5 DEF Out, store
  <2>6. ASSUME NEW q \in Requests, NEW action \in Actions, Apply(q, action)
        PROVE  Out(d)'
    <3> DEFINE e == request[q].current
               t == request[q].at
    <3>1. Operation(action, e, t) /\ now' = now /\ request[q] # None
      BY <2>6 DEF Apply
    <3>2. e \in Enrollments /\ t \in Times /\ record[e] # None /\ t <= now
      BY <1>1, <3>1, InvParts DEF Calls, RequestSound
    <3>3. Grows
      BY <2>1, <3>1, <3>2, OperationStore
    <3>4. CASE Activate(e, t)
      <4>1. current' = current
        BY <2>1, <3>1, <3>2, <3>4, ActivateStore
      <4> QED BY <2>1, <2>3, <3>3, <3>4, <4>1 DEF Activate
    <3>5. CASE action \in DOMAIN Target /\ Transition(e, Target[action])
      BY <2>1, <2>3, <3>3, <3>5 DEF Transition
    <3>6. ASSUME NEW new \in Enrollments, NEW until \in Overlaps(t),
                 record[new] # None, BeginRotation(new, until, t)
          PROVE  Out(d)'
      <4>1. record[new].device \in Devices
        BY <2>1, <3>6 DEF StoreOK, Records
      <4>2. record[new].device # d
        BY <2>1, <3>6 DEF BeginRotation, MayRotate, Withdrawn
      <4>3. current'[d] = c /\ rotation'[d] = None
        BY <2>1, <3>6, <4>1, <4>2 DEF BeginRotation, StoreOK
      <4> QED BY <2>3, <3>3, <4>3
    <3>7. CASE CompleteRotation(record[e].device)
      <4>1. record[e].device \in Devices
        BY <2>1, <3>2 DEF StoreOK, Records
      <4>2. /\ current' = current /\ rotation[record[e].device] # None
            /\ \A x \in Devices : x # record[e].device => rotation'[x] = rotation[x]
        BY <2>1, <3>1, <3>7, <4>1, CompleteRotationStore
      <4>3. d # record[e].device
        BY <2>1, <4>2
      <4> QED BY <2>1, <2>3, <3>3, <4>2, <4>3
    <3> QED BY <3>1, <3>4, <3>5, <3>6, <3>7 DEF Operation
  <2>7. ASSUME NEW q \in Requests,
               Reserve(q) \/ Answered(q) \/ ReadBack(q) \/ Commit(q) \/ Fail(q)
        PROVE  UNCHANGED store
    BY <2>7 DEF Reserve, Answered, ReadBack, Commit, Fail
  <2>8. ASSUME NEW q \in Requests, NEW s \in Slots \cup {Fresh}, NEW x \in Devices,
               Open(q, s, x)
        PROVE  UNCHANGED store
    BY <2>8 DEF Open
  <2>9. Tick => UNCHANGED store
    BY DEF Tick
  <2>10. UNCHANGED vars => UNCHANGED store
    BY DEF vars, store
  <2> QED BY <1>1, <2>4, <2>5, <2>6, <2>7, <2>8, <2>9, <2>10 DEF Next
<1>2. Inv /\ [Next]_vars => [\A d \in Devices : Out(d) => Out(d)']_vars
  BY <1>1
<1> QED BY <1>2, Invariance, PTL DEF Spec, WithdrawnDeviceStaysOut

=============================================================================
