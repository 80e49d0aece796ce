------------------------------- MODULE MCPlane -------------------------------
(* Model checking Plane: how much of each external event a run has.        *)
EXTENDS Plane, TLC

Events(place, verb_, settle, cut, lose, refuse, reboot, crash, vouch_, remove_) ==
  [place |-> place, verb |-> verb_, settle |-> settle, cut |-> cut, lose |-> lose,
   refuse |-> refuse, reboot |-> reboot, crash |-> crash, vouch |-> vouch_, remove |-> remove_]

SafeBudget == Events(1, 1, 1, 1, 1, 0, 0, 1, 0, 1)
LiveBudget == Events(1, 0, 0, 1, 0, 1, 1, 0, 1, 0)
TwoCuts == Events(1, 1, 0, 2, 0, 0, 0, 0, 0, 0)
CutAndCrash == Events(1, 0, 0, 1, 0, 0, 0, 1, 0, 0)
==============================================================================
