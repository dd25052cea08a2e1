CONSTANTS
  u1 = u1
  u2 = u2
  Writers = {u1}
  Slopes = {2, 3, 9}
  \* What makes the slope go wrong, one at a time:
  \*   a change of the schedule is prepared while the old one runs (as below);
  \*   the gates are switched off: Disciplines <- OnlyOff, Events with "gate_off" too;
  \*   the slope overflows the register: Rates <- RateSmall, Disciplines <- OnlyOrderly;
  \*   the product overflows, the fraction is lost: Rates <- RateLong (or, for a gate open
  \*     longer than the cycle lasts, RateLonger), Disciplines <- OnlyOrderly;
  \*   two users, handlers overlap: Writers = {u1, u2}, Disciplines <- OnlyOverlap,
  \*     Events = {"slope", "tsa"}, MaxEvents = 2;
  \*   a user and the scheduler overlap: Disciplines <- OnlyOverlap, MaxEvents = 5.
  Rates <- RatesPlain
  LinkSpeed = 8
  Scale = 4
  Clk = 3
  Width = 16
  BitRange = 32
  ProdMax = 63
  Disciplines <- OnlyEarly
  Events = {"slope", "prepare", "swap", "gate_on"}
  MaxEvents = 6
SPECIFICATION ShaperSpec
INVARIANT SlopeAlwaysFollows
CHECK_DEADLOCK FALSE
