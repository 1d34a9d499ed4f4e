---------------------------- MODULE MCCharacter ----------------------------
(* Small instances of what one character does; each behaviour follows one part. *)
(* "loop": GigLoop, with a client that sends one request at a time (solo) over   *)
(* two templates and either role ability, or with two requests at a time over   *)
(* one template.  "chrome": Chrome, one request at a time over a cortex implant *)
(* and two operating systems, with or without Overclock, or two at a time over  *)
(* one implant of each kind, within one day.                                    *)
EXTENDS Character, TLC

CONSTANTS p1, p2, g1, g2, cortex, os1, os2,
          Parts   \* the parts this run follows

VARIABLES solo, part

MCCost == [g \in Gig |-> 1]
MCRequiredMoral == [g \in Gig |-> IF g = g2 THEN 1 ELSE 0]
MCHeat == [g \in Gig |-> 1]
MCPayout == [g \in Gig |-> [legwork \in BOOLEAN |-> [tongue \in BOOLEAN |->
               (IF legwork THEN 2 ELSE 1) + (IF tongue THEN 1 ELSE 0)]]]
MCGain == [tongue \in BOOLEAN |-> IF tongue THEN {2} ELSE {1}]
MCPrice == [i \in Implant |-> 1]
MCHumanityCost == [i \in Implant |-> IF i = cortex THEN 2 ELSE 1]
MCNilBonus == [i \in Implant |-> IF i = cortex THEN 1 ELSE 0]
MCSlot == [i \in Implant |-> IF i = cortex THEN "frontal_cortex" ELSE "operating_system"]
MCCapacity == [s \in {MCSlot[i] : i \in Implant} |-> IF s = "operating_system" THEN 1 ELSE 3]
\* The second and last use of a window restores less.
MCRestore == [n \in 0 .. 1 |-> 2 - n]
Symmetry == Permutations(Proc)

ASSUME Body!ChromeAssumption

allVars == <<vars, bodyVars, solo, part>>

MCInit ==
  /\ part \in Parts /\ solo \in BOOLEAN
  /\ CharacterInit
  /\ part # "chrome" \/ ~solo => ~rows["character"].overclock
  /\ part # "loop" \/ ~solo => db["character"].power = "tongue"

LoopNext ==
  /\ Next
  /\ IF solo THEN alone'
     ELSE \A p \in Proc : req'[p] # NoRequest => req'[p].gig = g1
ChromeNext ==
  /\ Body!Next
  /\ IF solo THEN lone'
     ELSE /\ \A p \in Proc : asks'[p].op \in {"install", "uninstall"} => asks'[p].implant # os2
          /\ used' >= used

MCNext ==
  /\ UNCHANGED <<solo, part>>
  /\ \/ part = "loop" /\ LoopNext /\ UNCHANGED bodyVars
     \/ part = "chrome" /\ ChromeNext /\ UNCHANGED vars

MCSpec == MCInit /\ [][MCNext]_allVars
-----------------------------------------------------------------------------
\* However installs overlap, each costs its humanity.
HumanityAccounted == part = "chrome" => Body!HumanityAccounted
=============================================================================
