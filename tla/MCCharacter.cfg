\* The trampo loop and the body.
SPECIFICATION MCSpec
CONSTANTS
  p1 = p1
  p2 = p2
  g1 = g1
  g2 = g2
  cortex = cortex
  os1 = os1
  os2 = os2
  NoProc = NoProc
  NoRow = NoRow
  Proc = {p1, p2}
  Gig = {g1, g2}
  Cost <- MCCost
  RequiredMoral <- MCRequiredMoral
  Heat <- MCHeat
  Payout <- MCPayout
  Gain <- MCGain
  MaxMoral = 2
  InitNil = 2
  InitMoral = 0
  InitPower = {"tongue", "haul"}
  ImplantPrice = 1
  MaxOpen = 2
  Implant = {cortex, os1, os2}
  Price <- MCPrice
  HumanityCost <- MCHumanityCost
  NilBonus <- MCNilBonus
  Slot <- MCSlot
  Capacity <- MCCapacity
  Restore <- MCRestore
  TherapyRestore = {1, 2}
  MaxUses = 2
  BandCap = 3
  MaxHumanity = 4
  BaseNil = 1
  TherapyCost = {1}
  InitHumanity = 3
  InitBalance = 2
  InitQuantity = 3
  InitOverclock = {FALSE, TRUE}
  Parts = {"loop", "chrome"}
SYMMETRY Symmetry
INVARIANTS TypeOK BooksBalance NoWaitCycle Accounted ZeroIsApagado
PROPERTY SoloCharacter
