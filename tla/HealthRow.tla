------------------------------ MODULE HealthRow ------------------------------
(***************************************************************************)
(* The health columns of one row of `accounts' or of `endpoints', and what  *)
(* the state machine, the probe engine and the registry store do to them.   *)
(* The two tables have the same health columns and the source duplicates    *)
(* every function for the two (transition_account_state and                 *)
(* transition_endpoint_state, ...), so one definition stands for the pair.  *)
(*                                                                         *)
(* Abstractions of the data:                                                *)
(*  - cooldown_until is kept as the ticks left until it passes (NoTimer for *)
(*    SQL NULL), because the code only ever compares it with the clock;     *)
(*  - failure_count saturates at FailureThreshold, because the code only    *)
(*    compares it with 0 and with the threshold;                            *)
(*  - an account has no manual_override; its row carries "none" for ever.   *)
(***************************************************************************)
EXTENDS Naturals

CONSTANTS
  FailureThreshold,  \* FAILURE_THRESHOLD
  CooldownTicks,     \* COOLDOWN_DURATION_SEC in ticks of the model's clock
  NoTimer            \* cooldown_until IS NULL

ASSUME ThresholdAssumption == FailureThreshold \in Nat \ {0}
ASSUME CooldownAssumption  == CooldownTicks \in Nat \ {0}
ASSUME NoTimerAssumption   == NoTimer \notin Nat

Statuses ==
  {"active", "inactive", "degraded", "cooldown", "disabled", "probe", "recovered"}

Overrides == {"none", "force-active", "force-disabled"}

Timers == {NoTimer} \cup 0..CooldownTicks

Rows == [status : Statuses, timer : Timers,
         fails : 0..FailureThreshold, override : Overrides]

\* What the INSERT of the store writes: cooldown_until and failure_count are
\* not among its columns and take their defaults.
NewRow(s, o) == [status |-> s, timer |-> NoTimer, fails |-> 0, override |-> o]

\* No such row: never created, or deleted.
NoRow == NewRow("absent", "none")

Present(w) == w.status # "absent"

-----------------------------------------------------------------------------
(* Writes of the registry store *)

\* Wrong on purpose: an activation that forgets the cooldown and the counter.
SetStatusWithoutReset(w, s) == [w EXCEPT !.status = s]

\* update_*_status: entering "active" also resets the cooldown and the counter.
SetStatus(w, s) ==
  IF s = "active" THEN [w EXCEPT !.status = s, !.timer = NoTimer, !.fails = 0]
                  ELSE [w EXCEPT !.status = s]

\* set_*_cooldown
SetCooldown(w) == [w EXCEPT !.status = "cooldown", !.timer = CooldownTicks]

\* UPDATE ... SET failure_count = 0
ClearFailures(w) == [w EXCEPT !.fails = 0]

\* UPDATE ... SET failure_count = failure_count + 1
AddFailure(w) ==
  [w EXCEPT !.fails = IF @ = FailureThreshold THEN @ ELSE @ + 1]

-----------------------------------------------------------------------------
(* The state machine *)

\* Wrong on purpose: a transition that passes manual_override="none" on.
EnterResettingOverride(w, s) ==
  IF ~Present(w) THEN w
  ELSE IF s = "cooldown" THEN SetCooldown(w)
       ELSE [SetStatus(w, s) EXCEPT !.override = "none"]

\* transition_*_state once its check of the old status has passed.  A row that
\* was deleted since makes the UPDATE a no-op.
Enter(w, s) ==
  IF ~Present(w) THEN w
  ELSE IF s = "cooldown" THEN SetCooldown(w) ELSE SetStatus(w, s)

\* transition_*_state: nothing for a missing row or for the status it has.
Move(w, s) == IF w.status = s THEN w ELSE Enter(w, s)

\* The last branch of handle_*_failure: timeouts, 5xx, connection errors.
CountFailure(w) ==
  IF ~Present(w) THEN w
  ELSE IF AddFailure(w).fails >= FailureThreshold
       THEN Move(AddFailure(w), "degraded")
       ELSE AddFailure(w)

FailureClasses == {"auth", "rate", "other"}

\* handle_*_failure, after classification of the error.
Failure(w, class) ==
  CASE class = "auth"  -> Move(w, "disabled")
    [] class = "rate"  -> Move(w, "cooldown")
    [] class = "other" -> CountFailure(w)

\* handle_*_success.  Its branch for actor "probe" is dead: no caller passes
\* that name (the probe engine runs as "probe-engine" or "reconcile-worker").
Success(w) ==
  IF w.status \in {"degraded", "recovered"} THEN Move(w, "active")
  ELSE IF w.status = "active" THEN ClearFailures(w)
  ELSE w

-----------------------------------------------------------------------------
(* The probe engine *)

\* What probing an endpoint can meet: the secret cannot be resolved, HTTP 200,
\* or an HTTP failure of each class (a connection exception counts as 503).
Outcomes == {"nosecret", "ok"} \cup FailureClasses

\* probe_endpoint, whose reads and writes share one transaction.
Probe(w, outcome) ==
  CASE outcome = "nosecret" -> Failure(w, "auth")
    [] outcome = "ok"       -> Success(Move(Move(w, "probe"), "recovered"))
    [] OTHER                -> Failure(Move(w, "probe"), outcome)

\* Probing this row would write nothing, so would not take the write lock.
ProbeIsVoid(w, outcome) ==
  \/ ~Present(w)
  \/ outcome = "nosecret" /\ w.status = "disabled"

\* The WHERE clause of the two scans of reconcile_cooldowns.
Expired(w) == w.status = "cooldown" /\ w.timer \in {NoTimer, 0}

\* The clock advances by one tick.
Elapse(w) == [w EXCEPT !.timer = IF @ \in {NoTimer, 0} THEN @ ELSE @ - 1]
==============================================================================
