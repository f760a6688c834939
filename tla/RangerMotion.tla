---------------------------- MODULE RangerMotion ----------------------------
(***************************************************************************)
(* The motion authority of Ranger: RangerMobilityController                *)
(* (ets/ranger/mobility.py), which decides whether the vehicle may move,   *)
(* behind RangerLifecycleController (ets/ranger/lifecycle.py), which       *)
(* leaves a record of every change of its mode.                            *)
(*                                                                         *)
(* One action is one call.  Its times are whatever the local monotonic     *)
(* clock gave the caller, so a clock that runs backwards is an input like  *)
(* any other.  A call may raise after it has changed the mode: then there  *)
(* is no record.                                                           *)
(***************************************************************************)
EXTENDS Integers

CONSTANTS NsPerMs,      \* nanoseconds in a millisecond
          QueueAge,     \* policy.max_command_queue_age_ms
          Watchdog,     \* policy.watchdog_timeout_ms
          MaxClock,     \* bound on the monotonic clock, in nanoseconds
          MaxSequence   \* bound on command_sequence

ASSUME PolicyAssumption ==
  /\ NsPerMs \in Nat \ {0} /\ QueueAge \in Nat \ {0} /\ Watchdog \in Nat
  /\ Watchdog >= QueueAge
ASSUME BoundsAssumption == MaxClock \in Nat /\ MaxSequence \in Nat

VARIABLES mode,         \* _mode
          moving,       \* _applied_motion is not zero
          lastCommand,  \* _last_command_sequence, 0 for None
          lastControl,  \* _last_control_monotonic_ns
          lastEval,     \* _last_evaluation_monotonic_ns, 0 for None
          recorded,     \* mode_after of the last lifecycle record
          raised,       \* history: a call has raised since that record
          received,     \* history: when the command in motion was received
          held          \* history: a call has seen the E-stop asserted, and
                        \* since then none has armed the vehicle anew, with
                        \* the E-stop clear and the latch gone

authority == <<mode, moving, lastCommand, lastControl, lastEval>>
motionVars == <<authority, recorded, raised, received, held>>

SafetyModes == {"disarmed", "armed", "estop_latched", "command_timeout"}
Times == 0..MaxClock
NoTime == -1

\* What a RangerDriveCommand is judged by: identity is that of vehicle,
\* mission, controller and session; within, that the deadman is held and the
\* motion within policy.
Commands == [sequence : 1..MaxSequence, identity : BOOLEAN, within : BOOLEAN]

MotionInit ==
  /\ mode = "disarmed" /\ moving = FALSE
  /\ lastCommand = 0 /\ lastControl = NoTime /\ lastEval = 0
  /\ recorded = "disarmed" /\ raised = FALSE
  /\ received = NoTime /\ held = FALSE

Stopped == moving' = FALSE /\ received' = NoTime

\* The lifecycle record of a call that returns; without a time zone in
\* occurred_at_utc, its construction raises.
Recorded(utc) ==
  /\ recorded' = IF utc THEN mode' ELSE recorded
  /\ raised' = ~utc

-----------------------------------------------------------------------------
(* Arming, disarming and resetting *)

\* _accept_lifecycle_time: now lies before the last evaluation.
Regressed(now) == now < lastEval

\* The mode is changed, a latched one too, and the call raises.
ClockFault ==
  /\ mode' = "command_timeout"
  /\ Stopped
  /\ raised' = TRUE
  /\ UNCHANGED <<lastCommand, lastControl, lastEval, recorded>>

\* Mutant: arming releases the E-stop latch.
ArmedModeUnlatched(estop) == IF estop THEN "estop_latched" ELSE "armed"

ArmedMode(estop) ==
  IF estop \/ mode = "estop_latched" THEN "estop_latched" ELSE "armed"

Arm(now, estop, utc) ==
  /\ ~Regressed(now)
  /\ lastEval' = now
  /\ mode' = ArmedMode(estop)
  /\ lastControl' = IF estop THEN NoTime
                   ELSE IF mode = "estop_latched" THEN lastControl ELSE now
  /\ Stopped
  /\ Recorded(utc)
  /\ held' = (estop \/ (held /\ mode = "estop_latched"))
  /\ UNCHANGED lastCommand

Disarm(now, utc) ==
  /\ ~Regressed(now)
  /\ lastEval' = now
  /\ mode' = "disarmed"
  /\ lastControl' = NoTime
  /\ Stopped
  /\ Recorded(utc)
  /\ UNCHANGED <<lastCommand, held>>

ResetEstop(now, utc) ==
  /\ ~Regressed(now)
  /\ mode = "estop_latched"
  /\ lastEval' = now
  /\ mode' = "disarmed"
  /\ lastControl' = NoTime
  /\ Stopped
  /\ Recorded(utc)
  /\ UNCHANGED <<lastCommand, held>>

\* reset_estop raises: the E-stop is asserted, which latches it, or it is not
\* latched.
ResetRefused(now, estop) ==
  /\ ~Regressed(now)
  /\ estop \/ mode # "estop_latched"
  /\ lastEval' = now
  /\ mode' = IF estop THEN "estop_latched" ELSE mode
  /\ Stopped
  /\ raised' = TRUE
  /\ held' = (held \/ estop)
  /\ UNCHANGED <<lastCommand, lastControl, recorded>>

\* Each of arm, disarm and reset_estop, on a clock that runs backwards: they
\* raise before they look at the E-stop.
LifecycleRegressed(now) == Regressed(now) /\ ClockFault /\ UNCHANGED held

-----------------------------------------------------------------------------
(* Commands *)

\* valid_monotonic_order.
ValidOrder(receipt, now) == now >= receipt /\ now >= lastEval

SeenMode(estop) == IF estop THEN "estop_latched" ELSE mode

Fresh(command) == command.sequence > lastCommand

\* No reason for denial: authorize, 355-421.
Stands(command, receipt, now, estop) ==
  /\ SeenMode(estop) = "armed"
  /\ command.identity /\ Fresh(command) /\ command.within
  /\ ValidOrder(receipt, now)
  /\ now - receipt <= QueueAge * NsPerMs

Sequenced(command) ==
  lastCommand' = IF command.identity /\ Fresh(command)
                   THEN command.sequence ELSE lastCommand

\* Mutant: a mobility event that ends in the E-stop leaves no record.
TransitionRecordedTimeoutOnly ==
  IF mode' # mode /\ mode' = "command_timeout" THEN Recorded(TRUE)
  ELSE UNCHANGED <<recorded, raised>>

\* _transition_from_mobility_event: the mode changes to one of the two latched
\* modes, or not at all.
TransitionRecorded ==
  IF mode' # mode THEN Recorded(TRUE) ELSE UNCHANGED <<recorded, raised>>

\* The command is allowed; the motion that it asks for may be zero.
Allow(command, receipt, now) ==
  /\ Stands(command, receipt, now, FALSE)
  /\ Sequenced(command)
  /\ lastEval' = now /\ lastControl' = now
  /\ moving' \in BOOLEAN
  /\ received' = IF moving' THEN receipt ELSE NoTime
  /\ UNCHANGED <<mode, recorded, raised, held>>

\* It is denied, and the vehicle stops.  A disorder of the clock overrides the
\* latch, and the E-stop that the same call has seen.
Deny(command, receipt, now, estop) ==
  LET valid == ValidOrder(receipt, now) IN
  /\ ~Stands(command, receipt, now, estop)
  /\ Sequenced(command)
  /\ mode' = IF valid THEN SeenMode(estop) ELSE "command_timeout"
  /\ lastEval' = IF valid THEN now ELSE lastEval
  /\ Stopped
  /\ TransitionRecorded
  /\ held' = (held \/ estop)
  /\ UNCHANGED lastControl

-----------------------------------------------------------------------------
(* enforce_watchdog *)

\* Mutant: one millisecond more than the timeout.
OverdueLate(now) == (now - lastControl) \div NsPerMs > Watchdog

\* In whole milliseconds.
Overdue(now) == (now - lastControl) \div NsPerMs >= Watchdog

\* The reason to stop, or "none".
WatchdogReason(now, estop) ==
  IF estop /\ mode # "estop_latched" THEN "hardware_estop_asserted"
  ELSE IF mode = "armed" /\ (lastControl = NoTime \/ now < lastControl \/ Overdue(now))
    THEN "timeout" ELSE "none"

WatchdogStops(now, estop) ==
  LET reason == WatchdogReason(now, estop) IN
  /\ reason # "none"
  /\ mode' = IF reason = "timeout" THEN "command_timeout" ELSE "estop_latched"
  /\ lastControl' = NoTime
  /\ lastEval' = IF now >= lastEval THEN now ELSE lastEval
  /\ Stopped
  /\ TransitionRecorded
  /\ held' = (held \/ estop)
  /\ UNCHANGED lastCommand

WatchdogPasses(now, estop) ==
  /\ WatchdogReason(now, estop) = "none"
  /\ ~Regressed(now)
  /\ lastEval' = now
  /\ held' = (held \/ estop)
  /\ UNCHANGED <<mode, moving, lastCommand, lastControl, recorded, raised, received>>

WatchdogRegressed(now, estop) ==
  /\ WatchdogReason(now, estop) = "none"
  /\ Regressed(now)
  /\ ClockFault
  /\ held' = (held \/ estop)

-----------------------------------------------------------------------------

MotionNext ==
  \E now \in Times, estop \in BOOLEAN :
    \/ \E utc \in BOOLEAN :
         Arm(now, estop, utc) \/ Disarm(now, utc) \/ ResetEstop(now, utc)
    \/ ResetRefused(now, estop)
    \/ LifecycleRegressed(now)
    \/ \E command \in Commands, receipt \in Times :
         Allow(command, receipt, now) \/ Deny(command, receipt, now, estop)
    \/ WatchdogStops(now, estop)
    \/ WatchdogPasses(now, estop)
    \/ WatchdogRegressed(now, estop)

MotionSpec == MotionInit /\ [][MotionNext]_motionVars

-----------------------------------------------------------------------------
(* Properties *)

(* Every variable has its type. *)
MotionTypeOK ==
  /\ mode \in SafetyModes /\ moving \in BOOLEAN
  /\ lastCommand \in 0..MaxSequence
  /\ lastControl \in Times \cup {NoTime} /\ lastEval \in Times
  /\ recorded \in SafetyModes /\ raised \in BOOLEAN
  /\ received \in Times \cup {NoTime} /\ held \in BOOLEAN

(***************************************************************************)
(* "No valid motion standing -> no non-zero actuator command": whatever    *)
(* sequence of calls and clock readings led here, the vehicle moves only   *)
(* while it is armed, and after every check of the watchdog (mobility.py   *)
(* 464-508) its motion comes from a command that was received less than    *)
(* the queue age and the watchdog timeout together before that check.      *)
(***************************************************************************)
MotionHasStanding ==
  moving =>
    /\ mode = "armed" /\ ~held
    /\ lastEval - received < (QueueAge + Watchdog) * NsPerMs

(***************************************************************************)
(* Releasing the E-stop does not restore authority: once any call has seen *)
(* it asserted (mobility.py 319-405, 464-508), the vehicle is not armed    *)
(* and does not move until one call has left the latch and a later arm has *)
(* found the E-stop clear.  No order of arms, commands, watchdog checks    *)
(* and clock readings does with less.  The first of the two calls need not *)
(* be the reset that safety-architecture.md 33-34 and 64 ask for: a        *)
(* disarm, a clock that runs backwards and a command that was received     *)
(* after its evaluation leave the latch as well.                           *)
(***************************************************************************)
EstopHolds == held => mode # "armed" /\ ~moving

(***************************************************************************)
(* Motion authority can be reconstructed: unless a call has raised since,  *)
(* the last lifecycle record names the mode that the controller is in, so  *)
(* that the records form a chain (lifecycle.py 172-320).                   *)
(***************************************************************************)
RecordsFollowMode == ~raised => recorded = mode

-----------------------------------------------------------------------------
(* The inductive invariant *)

(* The two delays of a motion: in the queue, and since its command was
   allowed, up to the last evaluation that was not refused. *)
MotionIsTimed ==
  moving =>
    /\ mode = "armed" /\ ~held
    /\ lastControl \in Times /\ received \in Times
    /\ lastControl - received <= QueueAge * NsPerMs
    /\ lastEval - lastControl < Watchdog * NsPerMs

MotionInv == MotionTypeOK /\ MotionIsTimed /\ EstopHolds /\ RecordsFollowMode
=============================================================================
