------------------------------ MODULE Lifecycle ------------------------------
(***************************************************************************)
(* The instance state machine and the bounded-restart policy shared by a   *)
(* node's workload host and by the controller                              *)
(* (crates/clawft-kernel/src/workload_ctl/lifecycle.rs).  The module is    *)
(* pure: every operator is a function of its arguments, as in the code.    *)
(*                                                                         *)
(* A life is a record with at least the fields state and misses;           *)
(* restarts is the sequence of restart times still remembered.             *)
(* since_ms (display only) and last_poll_ms (the poll cadence) are left    *)
(* out.                                                                    *)
(***************************************************************************)
EXTENDS Integers, Sequences, Retain

LifecycleState ==
  {"Requested", "Placed", "Fetching", "Verified", "Loaded", "Running",
   "Unhealthy", "Restarting", "Stopping", "Stopped", "Finished", "Failed",
   "Lost", "Rescheduled", "Revoked", "Unloaded"}

is_terminal(s) == s = "Unloaded"

(* "The instance is meant to be doing work." *)
is_live(s) == s \in {"Running", "Unhealthy", "Restarting"}

(* The table of the match in can_transition; the interruptions by a        *)
(* revocation or a node loss are treated before it.                        *)
Steps ==
  [s \in LifecycleState |->
    CASE s = "Requested"   -> {"Placed", "Failed"}
      [] s = "Placed"      -> {"Fetching", "Loaded", "Running", "Failed"}
      [] s = "Fetching"    -> {"Verified", "Failed"}
      [] s = "Verified"    -> {"Loaded", "Failed"}
      [] s = "Loaded"      -> {"Running", "Unloaded", "Failed"}
      [] s = "Running"     -> {"Unhealthy", "Stopping", "Stopped", "Finished",
                               "Failed", "Unloaded"}
      [] s = "Unhealthy"   -> {"Running", "Restarting", "Stopping", "Failed",
                               "Unloaded"}
      [] s = "Restarting"  -> {"Running", "Unhealthy", "Failed", "Stopping"}
      [] s = "Stopping"    -> {"Stopped", "Unloaded", "Failed"}
      [] s = "Stopped"     -> {"Running", "Unloaded", "Failed"}
      [] s = "Finished"    -> {"Running", "Unloaded"}
      [] s = "Failed"      -> {"Running", "Unloaded"}
      [] s = "Lost"        -> {"Running", "Rescheduled", "Unloaded", "Failed"}
      [] s = "Rescheduled" -> {"Unloaded"}
      [] s = "Revoked"     -> {"Unloaded", "Failed"}
      [] s = "Unloaded"    -> {}]

can_transition(from, to) ==
  /\ from # to
  /\ ~is_terminal(from)
  /\ IF from # "Rescheduled" /\ to \in {"Revoked", "Lost"}
       THEN ~(from = "Revoked" /\ to = "Lost")
       ELSE to \in Steps[from]

(* InstanceLife::transition, as the host uses it through enter: an illegal *)
(* step changes nothing; entering Running clears the miss count.           *)
enter(life, to) ==
  IF can_transition(life.state, to)
    THEN [life EXCEPT !.state = to,
                      !.misses = IF to = "Running" THEN 0 ELSE @]
    ELSE life

-----------------------------------------------------------------------------
(* Restart policies: [max, window, base, cap], times in one unit.          *)

SaturatingSub(a, b) == IF a > b THEN a - b ELSE 0

MinOf(a, b) == IF a < b THEN a ELSE b

(* The restarts that still count at time now: those less than one window   *)
(* old.  A restart recorded in the future of now (the wall clock stepped   *)
(* back) has age 0 and counts.                                             *)
Recent(policy, restarts, now) ==
  Retain(restarts, {t \in {restarts[k] : k \in 1..Len(restarts)} :
                      SaturatingSub(now, t) < policy.window})

(* The wait before restart n+1: the base for n <= 1, doubling after that,  *)
(* never above the cap.                                                    *)
Backoff(policy, n) ==
  MinOf(policy.base * 2^MinOf(SaturatingSub(n, 1), 20), policy.cap)

RestartDecision == {"Restart", "Wait", "Exhausted"}

(* Mutants of restart_decision: the budget compared with > instead of >=;  *)
(* the backoff measured from the oldest restart of the window; no backoff. *)
DecisionOffByOne(policy, restarts, now) ==
  LET recent == Recent(policy, restarts, now)
      n == Len(recent)
  IN  IF n > policy.max THEN "Exhausted"
      ELSE IF n > 0 /\ now < recent[n] + Backoff(policy, n) THEN "Wait"
      ELSE "Restart"

DecisionFromOldest(policy, restarts, now) ==
  LET recent == Recent(policy, restarts, now)
      n == Len(recent)
  IN  IF n >= policy.max THEN "Exhausted"
      ELSE IF n > 0 /\ now < recent[1] + Backoff(policy, n) THEN "Wait"
      ELSE "Restart"

DecisionNoWait(policy, restarts, now) ==
  IF Len(Recent(policy, restarts, now)) >= policy.max THEN "Exhausted" ELSE "Restart"

restart_decision(policy, restarts, now) ==
  LET recent == Recent(policy, restarts, now)
      n == Len(recent)
  IN  IF n >= policy.max THEN "Exhausted"
      ELSE IF n > 0 /\ now < recent[n] + Backoff(policy, n) THEN "Wait"
      ELSE "Restart"

record_restart(policy, restarts, now) ==
  Append(Recent(policy, restarts, now), now)
==============================================================================
