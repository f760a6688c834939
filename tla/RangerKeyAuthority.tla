------------------------- MODULE RangerKeyAuthority -------------------------
(***************************************************************************)
(* RangerKeyAuthorityLedger (ets/ranger/key_authority.py): the signed      *)
(* history of enrollments, rotations and revocations of a vehicle's        *)
(* custody key, and what standing it gives a key at a boot.                *)
(*                                                                         *)
(* A digest is collision free, so the digest of an event, which covers its *)
(* predecessor's, stands for the history up to it.  Requests whose proofs  *)
(* of possession, identity or scope do not check are refused before        *)
(* anything is looked at.  Every event is a new request.                   *)
(*                                                                         *)
(* append works on the events that the ledger object has cached, having    *)
(* compared them with the store; the store compares sequence and previous  *)
(* digest again inside its transaction.  An append that succeeds therefore *)
(* adds one event that _request_transition_error allows to the history in  *)
(* the store, whichever ledger object makes it.                            *)
(***************************************************************************)
EXTENDS Naturals, Sequences

CONSTANTS Keys,       \* signing key descriptors
          MaxBoot     \* bound on effective_boot_sequence

ASSUME MaxBootAssumption == MaxBoot \in Nat

NoKey == "no key"

ASSUME NoKeyAssumption == NoKey \notin Keys

Kinds == {"enroll", "rotate", "revoke"}

\* A RangerKeyBindingIntent; a rotation names a different replacement.
Events ==
  {e \in [kind : Kinds, subject : Keys, replacement : Keys \cup {NoKey},
          boot : 1..MaxBoot] :
     /\ e.kind = "rotate" <=> e.replacement # NoKey
     /\ e.replacement # e.subject}

\* _resulting_descriptor: the key in force once event e has taken effect.
Resulting(e) ==
  IF e.kind = "revoke" THEN NoKey
  ELSE IF e.kind = "rotate" THEN e.replacement ELSE e.subject

\* _request_descriptors over a history: the keys it names.
Named(h) ==
  {k \in Keys : \E n \in DOMAIN h : k \in {h[n].subject, h[n].replacement}}

\* _request_transition_error finds no error.
TransitionOK(h, e) ==
  IF h = <<>> THEN e.kind = "enroll"
  ELSE LET last == h[Len(h)]
       IN /\ e.kind # "enroll"
          /\ Resulting(last) # NoKey
          /\ e.subject = Resulting(last)
          /\ e.boot >= last.boot
          /\ e.kind = "rotate" => e.boot > last.boot /\ e.replacement \notin Named(h)

\* verify_history accepts h.
ValidHistory(h) ==
  /\ h # <<>>
  /\ \A n \in DOMAIN h : TransitionOK(SubSeq(h, 1, n - 1), h[n])

\* The events that have taken effect at boot b.
Applied(h, b) == {n \in DOMAIN h : h[n].boot <= b}

\* authorize_key allows key k at boot b: k results from the last event that
\* has taken effect.
Standing(h, k, b) ==
  \E n \in Applied(h, b) :
    /\ \A m \in Applied(h, b) : m <= n
    /\ Resulting(h[n]) = k

\* append, on each of a set of histories: the authority's next decision.
Appended(hs) ==
  UNION {{Append(h, e) : e \in {x \in Events : TransitionOK(h, x)}} : h \in hs}

=============================================================================
