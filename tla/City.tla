-------------------------------- MODULE City ---------------------------------
(***************************************************************************)
(* A character against the content of the game (module Catalog): the form   *)
(* that makes it, the server that takes it, and the trampos its attributes  *)
(* and its Moral open from its first day to the reset.                      *)
(*                                                                         *)
(* A trampo runs from its acceptance to its wrap-up in one step (module     *)
(* GigLoop has the phases), cooldowns are module Board's and NIL is full.   *)
(***************************************************************************)
EXTENDS Catalog

CONSTANT None

VARIABLES attributes,  \* of the form
          identified,  \* which of its other fields are filled in
          request,     \* what the page waits for: none, sent or lost
          notice,      \* the error shown
          character,   \* its attributes on the server, or None
          moral,
          resets       \* the rounds it has seen end

vars == <<attributes, identified, request, notice, character, moral, resets>>
-----------------------------------------------------------------------------
\* The form of a new character, and the server that takes it.

ATTRIBUTE_KEYS == {"body", "reflexes", "intelligence", "technical", "cool"}
BASE_ATTRIBUTES == 3
ATTR_TOTAL == 22
MAX_ATTR == 20
SOFT_CAP == 15
Base == [k \in ATTRIBUTE_KEYS |-> BASE_ATTRIBUTES]
spent(attrs) == FoldFunction(+, 0, attrs)
softCapPenalty(attrs) == FoldFunction(+, 0, [k \in ATTRIBUTE_KEYS |-> Max({0, attrs[k] - SOFT_CAP})])
remaining(attrs) == ATTR_TOTAL - spent(attrs) - softCapPenalty(attrs)
\* What is filled in apart from the attributes: the codinome; the district and the banca.
Fields == {"name", "choices"}
canIncrease(k) ==
  /\ remaining(attributes) >= (IF attributes[k] >= SOFT_CAP THEN 2 ELSE 1)
  /\ attributes[k] < MAX_ATTR
canDecrease(k) == attributes[k] > BASE_ATTRIBUTES
\* The two buttons of an attribute, those that are not disabled.
Offered(k) == {d \in {1, -1} : IF d = 1 THEN canIncrease(k) ELSE canDecrease(k)}
valid == identified = Fields /\ remaining(attributes) = 0

Refusals == {"VALIDATION_ERROR", "INVALID_ATTRIBUTES", "CHARACTER_EXISTS", "NAME_TAKEN"}
createCharacterSchema(attrs) == \A k \in ATTRIBUTE_KEYS : attrs[k] \in BASE_ATTRIBUTES .. MAX_ATTR
\* taken: somebody else has the name.
Verdict(attrs, taken) ==
  CASE ~createCharacterSchema(attrs) -> "VALIDATION_ERROR"
    [] spent(attrs) # ATTR_TOTAL -> "INVALID_ATTRIBUTES"
    [] character # None -> "CHARACTER_EXISTS"
    [] taken -> "NAME_TAKEN"
    [] OTHER -> "created"

Init ==
  /\ attributes = Base /\ identified = {} /\ request = "none" /\ notice = "none"
  /\ character = None /\ moral = 0 /\ resets = 0

Editing == request = "none" /\ notice # "dashboard"
Adjust(k) ==
  /\ Editing
  /\ \E d \in Offered(k) : attributes' = [attributes EXCEPT ![k] = @ + d]
  /\ UNCHANGED <<identified, request, notice, character, moral, resets>>
\* Changing the name, to one long enough or not, clears its error.
TypeName ==
  /\ Editing
  /\ \E long \in BOOLEAN : identified' = IF long THEN identified \cup {"name"} ELSE identified \ {"name"}
  /\ notice' = IF notice = "NAME_TAKEN" THEN "none" ELSE notice
  /\ UNCHANGED <<attributes, request, character, moral, resets>>
\* A district and a banca, once chosen, are only exchanged for others.
Choose ==
  /\ Editing
  /\ identified' = identified \cup {"choices"}
  /\ UNCHANGED <<attributes, request, notice, character, moral, resets>>
HandleSubmit ==
  /\ Editing /\ valid
  /\ request' = "sent" /\ notice' = "none"
  /\ UNCHANGED <<attributes, identified, character, moral, resets>>
CreateCharacter ==
  /\ request = "sent"
  /\ \E taken, lost \in BOOLEAN :
       LET verdict == Verdict(attributes, taken)
       IN /\ character' = IF verdict = "created" THEN attributes ELSE character
          /\ notice' = IF lost THEN "Falha na conexao" ELSE IF verdict = "created" THEN "dashboard" ELSE verdict
  /\ request' = "none"
  /\ UNCHANGED <<attributes, identified, moral, resets>>
-----------------------------------------------------------------------------
\* The trampos a character may take, as the board shows them and as accept does.

meetsStatRequirements(attrs, needs) == \A k \in DOMAIN needs : attrs[k] >= Max({0, needs[k]})
meetsRequirements(tier, t) == meetsStatRequirements(character, t.needs) /\ moral >= requiredStreetCred[tier]
AcceptGig(tier, t) ==
  CASE moral < requiredStreetCred[tier] -> "INSUFFICIENT_STREET_CRED"
    [] ~meetsStatRequirements(character, t.needs) -> "INSUFFICIENT_STATS"
    [] OTHER -> "ok"

Playing == character # None /\ notice = "dashboard"
WrapUpGig(tier) ==
  /\ Playing
  /\ \E t \in GIG_TEMPLATES[tier] : AcceptGig(tier, t) = "ok"
  /\ \E r \in {Min(SC_RANGES[tier]), Max(SC_RANGES[tier])} : moral' = Min({100, moral + r})
  /\ UNCHANGED <<attributes, identified, request, notice, character, resets>>
\* A fight lost, or days without activity.
LoseMoral ==
  /\ Playing /\ moral > 0
  /\ moral' = moral - 1
  /\ UNCHANGED <<attributes, identified, request, notice, character, resets>>
\* The character stays; its attributes are those before the free points.
ResetCharacters ==
  /\ Playing /\ resets = 0
  /\ character' = Base /\ moral' = 0 /\ resets' = 1
  /\ UNCHANGED <<attributes, identified, request, notice>>

Next ==
  \/ \E k \in ATTRIBUTE_KEYS : Adjust(k)
  \/ TypeName \/ Choose \/ HandleSubmit \/ CreateCharacter
  \/ \E tier \in Tiers : WrapUpGig(tier)
  \/ LoseMoral \/ ResetCharacters
Spec == Init /\ [][Next]_vars
-----------------------------------------------------------------------------
\* What the form posts the server takes, whatever was clicked before; points are
\* never overspent, and as long as some are left one can be given out.
FormHonest ==
  /\ remaining(attributes) >= 0
  /\ remaining(attributes) > 0 => \E k \in ATTRIBUTE_KEYS : 1 \in Offered(k)
  /\ notice \notin {"VALIDATION_ERROR", "INVALID_ATTRIBUTES"}

\* Every character, however it was made and however low it has fallen, always has
\* a trampo to do, also in the round after the reset; and the board offers
\* exactly the trampos that accept takes.
AlwaysWork ==
  character # None =>
    /\ \E t \in TierOne : AcceptGig(1, t) = "ok"
    /\ \A tier \in Tiers : \A t \in GIG_TEMPLATES[tier] : meetsRequirements(tier, t) <=> AcceptGig(tier, t) = "ok"

CityHolds == FormHonest /\ AlwaysWork
=============================================================================
