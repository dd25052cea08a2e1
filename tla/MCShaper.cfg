CONSTANTS
  u1 = u1
  u2 = u2
  Writers = {u1, u2}
  Slopes = {2, 3, 9}
  Rates <- RatesAll
  LinkSpeed = 8
  Scale = 4
  Clk = 3
  Width = 16
  BitRange = 32
  ProdMax = 63
  Disciplines <- OrderlyOrNot
  Events = {"tsa", "slope", "prepare", "swap", "gate_on", "gate_off"}
  MaxEvents = 7
SPECIFICATION ShaperSpec
INVARIANTS ShaperInv SlopeFollows
CHECK_DEADLOCK FALSE
