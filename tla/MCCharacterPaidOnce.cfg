\* Whether a wrap-up sent twice is paid once.
SPECIFICATION MCSpec
CONSTANTS
  p1 = p1
  p2 = p2
  g1 = g1
  g2 = g2
  cortex = cortex
  os1 = os1
  os2 = os2
  NoProc = NoProc
  NoRow = NoRow
  Proc = {p1, p2}
  Gig = {g1}
  Cost <- MCCost
  RequiredMoral <- MCRequiredMoral
  Heat <- MCHeat
  Payout <- MCPayout
  Gain <- MCGain
  MaxMoral = 2
  InitNil = 1
  InitMoral = 0
  InitPower = {"tongue"}
  ImplantPrice = 1
  MaxOpen = 1
  Implant = {cortex, os1, os2}
  Price <- MCPrice
  HumanityCost <- MCHumanityCost
  NilBonus <- MCNilBonus
  Slot <- MCSlot
  Capacity <- MCCapacity
  Restore <- MCRestore
  TherapyRestore = {1, 2}
  MaxUses = 2
  BandCap = 3
  MaxHumanity = 4
  BaseNil = 1
  TherapyCost = {1}
  InitHumanity = 3
  InitBalance = 2
  InitQuantity = 3
  InitOverclock = {FALSE, TRUE}
  Parts = {"loop"}
SYMMETRY Symmetry
INVARIANT PaidOncePerGig
