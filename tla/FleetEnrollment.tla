--------------------------- MODULE FleetEnrollment ---------------------------
(***************************************************************************)
(* Fleet enrollment and its administration.                                *)
(*                                                                         *)
(*  - DeviceEnrollmentService (ets/fleet/service.py) keeps the enrollments *)
(*    of the devices in an EnrollmentStore (store.py, postgres.py).  Each  *)
(*    call is one transaction, SERIALIZABLE in PostgreSQL: one step here;  *)
(*  - DurableFleetPortalAdminService.mutate (portal_admin_durable.py, with *)
(*    _apply of portal_admin.py) is the only caller of the lifecycle       *)
(*    operations.  It reads the current enrollment, reserves a journal     *)
(*    slot, applies the operation and commits the outcome in transactions  *)
(*    of their own: requests of two replicas interleave between them, and  *)
(*    a request may end after any of them.                                 *)
(*                                                                         *)
(* Times are whole units of a clock that every replica reads.              *)
(***************************************************************************)
EXTENDS Naturals

CONSTANTS Devices, Enrollments,
          Fingerprints,  \* SHA-256 of a public key
          Boundaries,    \* product, profile, auth method, scope, custody and
                         \* attestation of a record, as one value
          Expiries,      \* certificate_not_after_utc of the records submitted
          SubmittedAs,   \* registration_state of the records submitted
          Requests,      \* requests that the portal may have in progress
          Slots,         \* (actor_subject, idempotency_key_sha256) used again
          Fresh,         \* stands for each slot that one request alone uses
          MaxOverlap,    \* max_rotation_overlap
          MaxTime,       \* bound on the clock
          None, Pending  \* no value; a journal row without a result

\* A TPM record has no certificate, and an X.509 record may lack the date.
Never == MaxTime + 1
Undated == MaxTime + 2

\* RegistrationState.
States == {"pending", "enrolled", "quarantined", "revoked", "decommissioned"}

ASSUME TimesAssumption ==
  /\ MaxOverlap \in Nat /\ MaxTime \in Nat
  /\ Expiries \subseteq 0..Undated
ASSUME StatesAssumption == SubmittedAs \subseteq States
ASSUME NoneAssumption == None \notin Devices \cup Enrollments
ASSUME FreshAssumption == Fresh \notin Slots

VARIABLES record,    \* enrollments, None where the id is not retained
          current,   \* current enrollment id of each device
          owner,     \* the device that owns a public identity
          rotation,  \* the RotationWindow of each device
          journal,   \* fleet_admin_mutations, with the evidence of a commit
          request,   \* the mutate calls in progress
          now,
          applied    \* history: lifecycle operations run for each slot

vars == <<record, current, owner, rotation, journal, request, now, applied>>
store == <<record, current, owner, rotation>>

Withdrawn == {"revoked", "decommissioned"}
Times == 0..MaxTime

Records == [device : Devices, fingerprint : Fingerprints, boundary : Boundaries,
            supersedes : Enrollments \cup {None}, expires : 0..Undated,
            state : States]

Windows == [old : Enrollments, new : Enrollments, until : 0..MaxTime + MaxOverlap]

\* FleetAdminAction, and the target of the actions that call transition.
Target == [quarantine |-> "quarantined", restore |-> "enrolled",
           revoke |-> "revoked", decommission |-> "decommissioned"]
RotationActions == {"begin_rotation", "complete_rotation"}
Actions == {"approve"} \cup DOMAIN Target \cup RotationActions

\* What an operation did: the action and the enrollment that its result and
\* its administrative evidence name.
Results == [action : Actions, enrollment : Enrollments]

\* Each mutate call holds the enrollment and the time that it read first.
Calls == [pc : {"reserve", "apply", "read_back", "commit"},
          slot : Slots \cup {Fresh}, current : Enrollments, at : Times,
          result : Results \cup {None}]

ASSUME MarkersAssumption ==
  /\ None \notin Records \cup Windows \cup Results \cup Calls
  /\ Pending \notin Results \cup {None}

Init ==
  /\ record = [e \in Enrollments |-> None]
  /\ current = [d \in Devices |-> None]
  /\ owner = [f \in Fingerprints |-> None]
  /\ rotation = [d \in Devices |-> None]
  /\ journal = [s \in Slots |-> None]
  /\ request = [q \in Requests |-> None]
  /\ now = 0
  /\ applied = [s \in Slots |-> 0]

-----------------------------------------------------------------------------
(* DeviceEnrollmentService *)

AllowedTransitions ==
  [pending |-> {"enrolled"}, enrolled |-> {"quarantined", "revoked"},
   quarantined |-> {"enrolled", "revoked"}, revoked |-> {"decommissioned"},
   decommissioned |-> {}]

\* Mutant: any identity that the validator accepts is taken.
IdentityFreeFor(f, d) == TRUE

IdentityFree(f, d) == owner[f] \in {None, d}

\* _validate_replacement.
ValidReplacement(r, e) ==
  /\ r.device = record[e].device
  /\ r.boundary = record[e].boundary
  /\ r.supersedes = e
  /\ r.fingerprint # record[e].fingerprint

(***************************************************************************)
(* submit.  The caller's scope is the authoritative one and the provider's *)
(* validator accepts the record: otherwise nothing happens.                *)
(***************************************************************************)
Submit(e, r) ==
  /\ record[e] = None
  /\ r.supersedes # e
  /\ IdentityFree(r.fingerprint, r.device)
  /\ current[r.device] # None =>
       rotation[r.device] = None /\ ValidReplacement(r, current[r.device])
  /\ record' = [record EXCEPT ![e] = r]
  /\ owner' = [owner EXCEPT ![r.fingerprint] = r.device]
  /\ current' = [current EXCEPT ![r.device] = IF @ = None THEN e ELSE @]
  /\ UNCHANGED <<rotation, journal, request, now, applied>>

\* _require_pending_and_usable.
PendingAndUsable(e, t) ==
  /\ record[e].state = "pending"
  /\ record[e].expires # Undated
  /\ t < record[e].expires

\* _with_state and put_enrollment.
WithState(e, s) == [record EXCEPT ![e].state = s]

Activate(e, t) ==
  /\ PendingAndUsable(e, t)
  /\ record' = WithState(e, "enrolled")
  /\ current' = IF record[e].supersedes = None
                THEN [current EXCEPT ![record[e].device] = e] ELSE current
  /\ UNCHANGED <<owner, rotation>>

Transition(e, target) ==
  /\ target \in AllowedTransitions[record[e].state]
  /\ record' = WithState(e, target)
  /\ UNCHANGED <<current, owner, rotation>>

\* Mutant: a device that is not enrolled may rotate too.
MayRotateUnlessPending(d) == record[current[d]].state # "pending"

\* begin_rotation: "only an enrolled device may rotate credentials".
MayRotate(d) == record[current[d]].state = "enrolled"

\* begin_rotation: "rotation overlap exceeds policy".
Overlaps(t) == t..t + MaxOverlap

\* begin_rotation, with the activate that it nests.
BeginRotation(e, until, t) ==
  LET d == record[e].device IN
  /\ MayRotate(d)
  /\ rotation[d] = None
  /\ ValidReplacement(record[e], current[d])
  /\ PendingAndUsable(e, t)
  /\ record' = WithState(e, "enrolled")
  /\ current' = [current EXCEPT ![d] = e]
  /\ rotation' = [rotation EXCEPT ![d] = [old |-> current[d], new |-> e, until |-> until]]
  /\ UNCHANGED owner

CompleteRotation(d) ==
  /\ rotation[d] # None
  /\ record' = WithState(rotation[d].old, "revoked")
  /\ rotation' = [rotation EXCEPT ![d] = None]
  /\ UNCHANGED <<current, owner>>

\* _authorize_record: an undated certificate does not expire here.
Standing(e) == record[e].state = "enrolled" /\ now < record[e].expires

\* authorize, for the scope of the device.
Authorized(d, f) ==
  LET e == current[d] IN
  /\ e # None
  /\ \/ f = record[e].fingerprint /\ Standing(e)
     \/ /\ f # record[e].fingerprint
        /\ rotation[d] # None
        /\ f = record[rotation[d].old].fingerprint
        /\ now <= rotation[d].until
        /\ Standing(rotation[d].old)

-----------------------------------------------------------------------------
(* DurableFleetPortalAdminService.mutate *)

(***************************************************************************)
(* Role, CSRF, step-up and confirmation hold; the device has a current     *)
(* enrollment.  It, and the time, are read here and used to the end.  What *)
(* the request asks for is first looked at when it is applied, and is      *)
(* chosen there.  No other request meets the row of a fresh slot: reserving *)
(* it, and all that follows the operation, is left out for such a request. *)
(***************************************************************************)
Open(q, s, d) ==
  /\ request[q] = None
  /\ current[d] # None
  /\ request' = [request EXCEPT ![q] =
       [pc |-> IF s = Fresh THEN "apply" ELSE "reserve", slot |-> s,
        current |-> current[d], at |-> now, result |-> None]]
  /\ UNCHANGED <<store, journal, now, applied>>

\* Mutant: a reservation without a result may be taken over.
SlotUnsettled(s) == journal[s] \in {None, Pending}

\* journal.reserve inserts only where no row exists.
SlotFree(s) == journal[s] = None

Reserve(q) ==
  LET s == request[q].slot IN
  /\ request[q] # None /\ request[q].pc = "reserve"
  /\ SlotFree(s)
  /\ journal' = [journal EXCEPT ![s] = Pending]
  /\ request' = [request EXCEPT ![q].pc = "apply"]
  /\ UNCHANGED <<store, now, applied>>

\* journal.reserve finds a row: a retained result is replayed, and another
\* request's fingerprint or a pending reservation is an error.
Answered(q) ==
  /\ request[q] # None /\ request[q].pc = "reserve"
  /\ ~SlotFree(request[q].slot)
  /\ request' = [request EXCEPT ![q] = None]
  /\ UNCHANGED <<store, journal, now, applied>>

\* The lifecycle operation that _apply runs for the action, with the
\* enrollment and the time that the request read.
Operation(action, e, t) ==
  \/ action = "approve" /\ Activate(e, t)
  \/ action \in DOMAIN Target /\ Transition(e, Target[action])
  \/ /\ action = "begin_rotation"
     /\ \E replacement \in Enrollments, until \in Overlaps(t) :
          /\ record[replacement] # None
          /\ record[replacement].device = record[e].device
          /\ BeginRotation(replacement, until, t)
  \/ action = "complete_rotation" /\ CompleteRotation(record[e].device)

\* _apply returns the record that it wrote, but reads the device's current
\* record back after a rotation operation.
Apply(q, action) ==
  LET c == request[q]
      pc == IF action \in RotationActions THEN "read_back" ELSE "commit" IN
  /\ c # None /\ c.pc = "apply"
  /\ Operation(action, c.current, c.at)
  /\ request' = [request EXCEPT ![q] =
       IF c.slot = Fresh THEN None
       ELSE [c EXCEPT !.pc = pc,
                      !.result = [action |-> action, enrollment |-> c.current]]]
  /\ applied' = [s \in Slots |-> IF s = c.slot THEN applied[s] + 1 ELSE applied[s]]
  /\ UNCHANGED <<journal, now>>

\* _current_record_or_raise.
ReadBack(q) ==
  LET c == request[q] IN
  /\ c # None /\ c.pc = "read_back"
  /\ request' = [request EXCEPT ![q] =
       [c EXCEPT !.pc = "commit",
                 !.result.enrollment = current[record[c.current].device]]]
  /\ UNCHANGED <<store, journal, now, applied>>

\* journal.commit: the result and the administrative evidence together.
Commit(q) ==
  LET c == request[q] IN
  /\ c # None /\ c.pc = "commit"
  /\ journal[c.slot] = Pending
  /\ journal' = [journal EXCEPT ![c.slot] = c.result]
  /\ request' = [request EXCEPT ![q] = None]
  /\ UNCHANGED <<store, now, applied>>

\* The replica stops, a transaction meets a serialization conflict, or the
\* service refuses the operation: a reservation that was made stays pending.
Fail(q) ==
  /\ request[q] # None
  /\ request' = [request EXCEPT ![q] = None]
  /\ UNCHANGED <<store, journal, now, applied>>

Tick ==
  /\ now < MaxTime
  /\ now' = now + 1
  /\ UNCHANGED <<store, journal, request, applied>>

\* submit looks neither at the state nor at the dates of the record.
Submissions == [device : Devices, fingerprint : Fingerprints,
                boundary : Boundaries, supersedes : Enrollments \cup {None},
                expires : Expiries, state : SubmittedAs]

Next ==
  \/ \E e \in Enrollments, r \in Submissions : Submit(e, r)
  \/ \E q \in Requests, s \in Slots \cup {Fresh}, d \in Devices : Open(q, s, d)
  \/ \E q \in Requests, action \in Actions : Apply(q, action)
  \/ \E q \in Requests :
       Reserve(q) \/ Answered(q) \/ ReadBack(q) \/ Commit(q) \/ Fail(q)
  \/ Tick

Spec == Init /\ [][Next]_vars

-----------------------------------------------------------------------------
(* Properties *)

(* Every variable has its type, and no overlap window is longer than policy
   allows from now (service.py 154-159). *)
TypeOK ==
  /\ record \in [Enrollments -> Records \cup {None}]
  /\ current \in [Devices -> Enrollments \cup {None}]
  /\ owner \in [Fingerprints -> Devices \cup {None}]
  /\ rotation \in [Devices -> Windows \cup {None}]
  /\ journal \in [Slots -> Results \cup {None, Pending}]
  /\ request \in [Requests -> Calls \cup {None}]
  /\ now \in Times
  /\ applied \in [Slots -> Nat]
  /\ \A d \in Devices : rotation[d] # None => rotation[d].until <= now + MaxOverlap

(***************************************************************************)
(* A public key never authorizes two devices, through submissions,         *)
(* rotations, overlaps and revocations in any order: authorize             *)
(* (service.py 213-250) looks the key up in the records of one device      *)
(* only, so all rests on submit's owner check and on owners staying.       *)
(***************************************************************************)
OneDevicePerIdentity ==
  \A d1, d2 \in Devices, f \in Fingerprints :
    Authorized(d1, f) /\ Authorized(d2, f) => d1 = d2

(***************************************************************************)
(* Whatever requests race, fail half way or are repeated, a journal slot   *)
(* runs its lifecycle operation at most once, a retained result is that of *)
(* an operation that ran, and an enrollment that the evidence says was     *)
(* revoked or decommissioned is withdrawn for good (mutate,                *)
(* portal_admin_durable.py 81-154).                                        *)
(***************************************************************************)
JournalTruthful ==
  \A s \in Slots :
    /\ applied[s] <= 1
    /\ journal[s] = None => applied[s] = 0
    /\ journal[s] \notin {None, Pending} =>
         /\ applied[s] = 1
         /\ journal[s].action \in {"revoke", "decommission"} =>
              record[journal[s].enrollment].state \in Withdrawn

\* The current enrollment of device d is withdrawn, with no overlap open.
Out(d) ==
  /\ current[d] # None
  /\ record[current[d]].state \in Withdrawn
  /\ rotation[d] = None

(***************************************************************************)
(* A device whose enrollment was withdrawn never comes back: no order of   *)
(* submissions, activations and rotations, requests that read the old      *)
(* current enrollment before it included, gives it an enrollment that      *)
(* authorizes (service.py 62-190).                                         *)
(***************************************************************************)
WithdrawnDeviceStaysOut == [][\A d \in Devices : Out(d) => Out(d)']_vars

(***************************************************************************)
(* docs/fleet/ETS_FLEET_ENROLLMENT_RUNTIME_V1.md:74 says "Authorization    *)
(* evaluates the current Fleet lifecycle before accepting a credential, so *)
(* quarantine/revocation blocks the device regardless of which credential  *)
(* it presents".  authorize (service.py 241-250) judges the old credential *)
(* of an open rotation by its own enrollment's state only.                 *)
(***************************************************************************)
QuarantineBlocksDevice ==
  \A d \in Devices, f \in Fingerprints :
    Authorized(d, f) => record[current[d]].state = "enrolled"
-----------------------------------------------------------------------------
(***************************************************************************)
(* The inductive invariant.                                                *)
(***************************************************************************)

(* A record's identity is its device's, and a device with a record has a
   current one. *)
RecordsOwned ==
  \A e \in Enrollments : record[e] # None =>
    /\ owner[record[e].fingerprint] = record[e].device
    /\ current[record[e].device] # None

(* Only the current enrollment can be a first one that awaits approval: its
   activation takes no other one's place. *)
FirstIsCurrent ==
  \A e \in Enrollments :
    record[e] # None /\ record[e].supersedes = None /\ record[e].state = "pending" =>
      current[record[e].device] = e

(* The enrollments that authorize looks at for a device are its own. *)
DevicesHoldTheirs ==
  \A d \in Devices :
    /\ current[d] # None =>
         record[current[d]] # None /\ record[current[d]].device = d
    /\ rotation[d] # None =>
         record[rotation[d].old] # None /\ record[rotation[d].old].device = d

(* What a result says of its enrollment is so. *)
Evidenced(r) ==
  /\ record[r.enrollment] # None
  /\ r.action \in {"revoke", "decommission"} =>
       record[r.enrollment].state \in Withdrawn

(* Request q has reserved the slot s and not yet committed. *)
Holds(q, s) ==
  request[q] # None /\ request[q].slot = s /\ request[q].pc # "reserve"

(* A reserved slot is pending, has one holder, and its operation has run once
   the holder is past it. *)
SlotsHeld ==
  \A q \in Requests, s \in Slots : Holds(q, s) =>
    /\ journal[s] = Pending
    /\ applied[s] = IF request[q].pc = "apply" THEN 0 ELSE 1
    /\ \A other \in Requests : Holds(other, s) => other = q

(* A request reads a retained enrollment, at a time that has come, and
   carries the result of the operation that it ran. *)
RequestSound(q) ==
  request[q] # None =>
    /\ record[request[q].current] # None
    /\ request[q].at <= now
    /\ request[q].pc # "apply" => request[q].slot # Fresh
    /\ request[q].pc \in {"read_back", "commit"} => request[q].result # None
    /\ request[q].pc = "read_back" => request[q].result.action \in RotationActions
    /\ request[q].pc = "commit" => Evidenced(request[q].result)

Inv ==
  /\ TypeOK
  /\ RecordsOwned /\ FirstIsCurrent /\ DevicesHoldTheirs
  /\ SlotsHeld /\ \A q \in Requests : RequestSound(q)
  /\ JournalTruthful
  /\ \A s \in Slots : journal[s] \notin {None, Pending} => Evidenced(journal[s])

=============================================================================
