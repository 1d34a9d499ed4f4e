----------------------------- MODULE Character -----------------------------
(***************************************************************************)
(* One character before the server: its trampo loop (GigLoop) and what its *)
(* body goes through (Chrome), two sets of requests that interleave.  They *)
(* run over rows of their own: an install that drains the last humanity    *)
(* reaches the trampo loop as GigLoop's own flatline.                      *)
(***************************************************************************)
EXTENDS GigLoop

CONSTANTS Implant, Price, HumanityCost, NilBonus, Slot, Capacity, TherapyCost, TherapyRestore,
          Restore, MaxUses, BandCap, MaxHumanity, BaseNil,
          InitHumanity, InitBalance, InitQuantity, InitOverclock

VARIABLES rows, pending, holder,                 \* the body's rows
          total, rested, used, at, asks, body, purse, aim,
          lone                                   \* history: its requests have not overlapped

Body == INSTANCE Chrome WITH db <- rows, pend <- pending, owner <- holder,
                             pc <- at, req <- asks, chr <- body, wal <- purse,
                             alone <- lone

bodyVars == <<rows, pending, holder, at, asks, body, purse, total, rested, used, aim, lone>>

CharacterInit == Init /\ Body!Init
CharacterNext ==
  \/ Next /\ UNCHANGED bodyVars
  \/ Body!Next /\ UNCHANGED vars

CharacterSpec == CharacterInit /\ [][CharacterNext]_<<vars, bodyVars>>
-----------------------------------------------------------------------------
\* Nothing paid for is lost, however requests overlap: the wallet is down by what the
\* installs and sessions that took effect recorded, the stock by the uses counted, and
\* until an install is committed every point of humanity restored is there.
Accounted == Body!Accounted

\* No interleaving of installs, uninstalls, therapy and consumables drains a character
\* without flatlining it, though the flatline goes by a stale read of its humanity.
ZeroIsApagado == Body!ZeroIsApagado

\* The body's values have their types; and one request at a time, installs too cost
\* what humanity they drain, the NIL ceiling follows what is installed and flatline is
\* permanent.
SoloChrome == []Body!TypeOK /\ Body!SoloBody

\* Both together, of one character: while its trampos' requests come one at a time the
\* loop follows its phase machine and resolves every trampo once (SoloLoop); while its
\* body's do, flatline is permanent and what installs cost is what they drain.
SoloCharacter == SoloLoop /\ SoloChrome
=============================================================================
