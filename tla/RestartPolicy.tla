---------------------------- MODULE RestartPolicy ----------------------------
(***************************************************************************)
(* One supervised instance under the node's wall clock: what the restart   *)
(* policy of lifecycle.rs promises over time, as the Unhealthy branch of   *)
(* apply_verdict (host_supervise.rs) and the START verb                    *)
(* (host_instances.rs) use it.  The instance fails every poll: health that *)
(* recovers only makes restarts rarer.                                     *)
(*                                                                         *)
(* The clock is chrono::Utc, so it can be stepped: forward by any amount,  *)
(* and back.                                                               *)
(***************************************************************************)
EXTENDS Lifecycle, FiniteSets

CONSTANTS Policy,       \* [max, window, base, cap]
          MissLimit,    \* HealthSpec.miss_limit, at least 1
          MaxNow,       \* bound: the latest clock reading
          MaxMisses,    \* bound: consecutive misses counted
          MaxBack,      \* bound: how many times the clock is stepped back
          MaxStarts     \* bound: operator starts

ASSUME RestartPolicyAssumption ==
  /\ Policy \in [max : Nat, window : Nat, base : Nat, cap : Nat]
  /\ MissLimit \in Nat \ {0}
  /\ MaxNow \in Nat /\ MaxMisses \in Nat /\ MaxBack \in Nat /\ MaxStarts \in Nat

VARIABLES life,      \* [state, misses, restarts] of the instance
          desired,   \* Placed.desired_running
          clock,     \* the wall clock
          back,      \* steps back taken so far
          starts,    \* operator starts so far
          history    \* every restart since the last explicit start

vars == <<life, desired, clock, back, starts, history>>

Times == 0..MaxNow

TypeOK ==
  /\ life.state \in {"Running", "Unhealthy", "Restarting", "Failed"}
  /\ life.misses \in 0..MaxMisses
  /\ life.restarts \in Seq(Times) /\ Len(life.restarts) <= Policy.max
  /\ desired \in BOOLEAN
  /\ clock \in Times
  /\ back \in 0..MaxBack /\ starts \in 0..MaxStarts
  /\ history \in Seq(Times)

Init ==
  /\ life = [state |-> "Running", misses |-> 0, restarts |-> <<>>]
  /\ desired = TRUE
  /\ clock = 0
  /\ back = 0 /\ starts = 0
  /\ history = <<>>

(* Time passes, or the clock is stepped forward.                           *)
Tick ==
  /\ clock' \in (clock + 1)..MaxNow
  /\ UNCHANGED <<life, desired, back, starts, history>>

(* The clock is stepped back.                                              *)
StepBack ==
  /\ back < MaxBack
  /\ clock' \in 0..(clock - 1)
  /\ back' = back + 1
  /\ UNCHANGED <<life, desired, starts, history>>

(* apply_verdict on a bad poll: the miss is counted, and from the limit on *)
(* a Running instance is Unhealthy.                                        *)
Missed ==
  LET missed == [life EXCEPT !.misses = @ + 1]
  IN  IF missed.misses >= MissLimit /\ life.state = "Running"
        THEN enter(missed, "Unhealthy")
        ELSE missed

(* Mutant of BadPoll: a pass polls every instance it lists.                *)
BadPollAny ==
  /\ life.misses < MaxMisses
  /\ UNCHANGED <<clock, back, starts>>

(* supervise polls what is meant to run and is in a live state.            *)
BadPoll ==
  /\ desired /\ is_live(life.state)
  /\ life.misses < MaxMisses
  /\ UNCHANGED <<clock, back, starts>>

AtLimit == life.misses + 1 >= MissLimit

Verdict == restart_decision(Policy, life.restarts, clock)

(* Below the miss limit, or still backing off: nothing but the count.      *)
JustMiss ==
  /\ BadPoll
  /\ ~AtLimit \/ Verdict = "Wait"
  /\ life' = Missed
  /\ UNCHANGED <<desired, history>>

(* The budget is spent: Failed, and no longer meant to run.                *)
GiveUp ==
  /\ BadPoll /\ AtLimit /\ Verdict = "Exhausted"
  /\ life' = enter(Missed, "Failed")
  /\ desired' = FALSE
  /\ UNCHANGED history

(* A restart, recorded before it is attempted; if the start fails the      *)
(* instance is Unhealthy again.                                            *)
Restart ==
  /\ BadPoll /\ AtLimit /\ Verdict = "Restart"
  /\ \E outcome \in {"Running", "Unhealthy"} :
       life' = enter([enter(Missed, "Restarting") EXCEPT
                        !.restarts = record_restart(Policy, @, clock)], outcome)
  /\ history' = Append(history, clock)
  /\ UNCHANGED desired

(* A START that succeeded: a fresh budget.                                 *)
OperatorStart ==
  /\ starts < MaxStarts
  /\ starts' = starts + 1
  /\ life' = enter([life EXCEPT !.misses = 0, !.restarts = <<>>], "Running")
  /\ desired' = TRUE
  /\ history' = <<>>
  /\ UNCHANGED <<clock, back>>

Next == Tick \/ StepBack \/ JustMiss \/ GiveUp \/ Restart \/ OperatorStart

Spec == Init /\ [][Next]_vars

-----------------------------------------------------------------------------
(* lifecycle.rs, RestartPolicy: "at most max_restarts inside window_ms".   *)
(* Whatever the clock does, no interval of one window's length holds more  *)
(* than max restarts since the operator last started the instance.         *)
BudgetHolds ==
  \A k \in 1..Len(history) :
    Cardinality({j \in 1..Len(history) :
                   history[j] >= history[k] /\ history[j] < history[k] + Policy.window})
      <= Policy.max

(* lifecycle.rs, InstanceLife::restarts: "ascending".  restart_decision    *)
(* takes the last element for the latest restart, which a clock stepped    *)
(* back could break.                                                       *)
Ascending ==
  \A j, k \in 1..Len(history) : j < k => history[j] <= history[k]

(* lifecycle.rs, RestartPolicy: "spaced by an exponential backoff".  The   *)
(* wait before a restart is at least the backoff for the number of         *)
(* restarts in the window that ends with it.                               *)
Spaced ==
  \A k \in 2..Len(history) :
    LET before == {j \in 1..(k - 1) : history[k] - history[j] < Policy.window}
    IN  before # {} =>
          history[k] - history[k - 1] >=
            MinOf(Policy.base * 2^(Cardinality(before) - 1), Policy.cap)

(* lifecycle.rs, LifecycleState::Failed: "Held for the operator; not       *)
(* retried by itself".  Only an explicit start leaves Failed.              *)
FailedIsHeld ==
  [][life.state = "Failed" /\ life'.state # "Failed" => starts' # starts]_vars
==============================================================================
