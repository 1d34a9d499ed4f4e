------------------------------ MODULE Readouts -------------------------------
(***************************************************************************)
(* What the client says of the character: the stores of the readouts (NIL, *)
(* Moral, and the HUD's grana, humanity, OS and implants), which live as   *)
(* long as the page is not reloaded, and a panel of the dashboard, which   *)
(* keeps its own and drops the answers that come after it has gone.        *)
(*                                                                         *)
(* The stores fetch on their own and in any number; answers may overtake   *)
(* each other, and one asked for by an account may land when another is    *)
(* logged in.  A value is whose it is and the count of the moves of its    *)
(* account when the server read it.                                        *)
(***************************************************************************)
EXTENDS Integers, FiniteSets

CONSTANTS Account, Nobody,
          Copies,               \* bound: fetches of a kind under way at once
          MaxMoves, MaxLogins   \* bounds: what changes at the server, sessions

VARIABLES who,      \* the account whose character is logged in
          moves,    \* account -> what has changed at the server
          readout,  \* what a store holds: value and error
          hud,      \* part -> value, all set at once
          hudError, \* balanceError and humanityError
          panel,    \* a panel of the dashboard or the page of the economy
          gets,     \* the fetches under way
          logins,
          patient,  \* history: whether the player waits for every answer
          watch     \* history: the kind this behaviour follows, as none touches another

readoutVars == <<who, moves, readout, hud, hudError, panel, gets, logins, patient, watch>>

None == [of |-> Nobody, at |-> 0]
Empty == [value |-> None, error |-> FALSE]
HudParts == {"balance", "humanity", "os", "chrome"}
NoHud == [p \in HudParts |-> None]
NoHudError == [balance |-> FALSE, humanity |-> FALSE]
Closed == [open |-> FALSE, loading |-> FALSE, value |-> None, error |-> FALSE]
Stores == {"nil", "moral", "active gig", "ranking"}
Panels == {"identity", "chrome", "events", "economy"}
Kinds == Stores \cup Panels \cup {"hud"}
NoGet == [state |-> "idle", of |-> Nobody, at |-> 0]

Init ==
  /\ who = Nobody /\ moves = [a \in Account |-> 0]
  /\ readout = Empty /\ hud = NoHud /\ hudError = NoHudError
  /\ panel = Closed
  /\ gets = [c \in Copies |-> NoGet]
  /\ logins = 0 /\ patient \in BOOLEAN /\ watch \in Kinds

Settled == \A c \in Copies : gets[c] = NoGet
Player == patient => Settled
\* A fetch of the kind followed is sent with the session of the moment; `at` counts
\* the moves when it was sent and then, but for the HUD, when it was served.
Sent(account) == [state |-> "sent", of |-> account, at |-> moves'[account]]
Send(kinds, account) ==
  /\ readout' = IF watch \in kinds THEN [readout EXCEPT !.error = FALSE] ELSE readout
  /\ IF watch \in kinds
       THEN \E c \in Copies : gets[c] = NoGet /\ gets' = [gets EXCEPT ![c] = Sent(account)]
       ELSE UNCHANGED gets
-----------------------------------------------------------------------------
\* The session.  The shell's HUD fetches all three for each new character.

HudFetches(account) == Send({"nil", "moral", "hud"}, account)
LogIn(a) ==
  /\ who = Nobody /\ logins < MaxLogins /\ Player
  /\ who' = a /\ logins' = logins + 1 /\ UNCHANGED moves
  /\ HudFetches(a)
  /\ UNCHANGED <<hud, hudError, panel, patient, watch>>
\* clearAuth empties the readout of NIL, which is in the store of the session, and
\* takes the dashboard down; the other stores are not told.
Cancelled == IF watch \in Panels THEN [c \in Copies |-> NoGet] ELSE gets
clearAuth ==
  /\ who # Nobody /\ Player
  /\ who' = Nobody /\ panel' = Closed /\ gets' = Cancelled
  /\ readout' = IF watch = "nil" THEN Empty ELSE readout
  /\ UNCHANGED <<moves, hud, hudError, logins, patient, watch>>
-----------------------------------------------------------------------------
\* What fetches.

\* A trampo, a fight, a purchase, an implant: the server changes, then the readouts of
\* the HUD are asked for again.
Move ==
  /\ who # Nobody /\ moves[who] < MaxMoves /\ Player
  /\ moves' = [moves EXCEPT ![who] = @ + 1]
  /\ HudFetches(who)
  /\ UNCHANGED <<who, hud, hudError, panel, logins, patient, watch>>
\* The widgets of the dashboard fetch what nobody has fetched or is fetching, and
\* have a button for what failed.
Unfetched == readout.value = None /\ Settled /\ ~readout.error
NilWidget == watch = "nil" /\ (Unfetched \/ readout = [Empty EXCEPT !.error = TRUE])
MoralWidget == watch = "moral" /\ Unfetched
FundsWidget == watch = "hud" /\ (hud["balance"] = None \/ hudError.balance)
\* These fetch each time they are mounted.
ActiveGigWidget == watch = "active gig"
Leaderboard == watch = "ranking"
WidgetFetches ==
  /\ who # Nobody /\ Player
  /\ NilWidget \/ MoralWidget \/ FundsWidget \/ ActiveGigWidget \/ Leaderboard
  /\ UNCHANGED moves
  /\ Send({watch}, who)
  /\ UNCHANGED <<who, hud, hudError, panel, logins, patient, watch>>

\* A panel loads when it is opened, and those with a button after an error; the answer
\* to a load before is dropped.
Retries == {"chrome", "events"}
PanelLoads ==
  /\ watch \in Panels /\ who # Nobody
  /\ panel.open => panel.error /\ watch \in Retries
  /\ UNCHANGED moves
  /\ gets' = [c \in Copies |-> IF c = 1 THEN Sent(who) ELSE NoGet]
  /\ panel' = [panel EXCEPT !.open = TRUE, !.loading = TRUE, !.error = FALSE]
  /\ UNCHANGED <<who, readout, hud, hudError, logins, patient, watch>>
PanelCloses ==
  /\ panel.open
  /\ panel' = Closed /\ gets' = Cancelled
  /\ UNCHANGED <<who, moves, readout, hud, hudError, logins, patient, watch>>
-----------------------------------------------------------------------------
\* The answers.

Serve(c) ==
  /\ watch # "hud" /\ gets[c].state = "sent"
  /\ gets' = [gets EXCEPT ![c].state = "read", ![c].at = moves[gets[c].of]]
  /\ UNCHANGED <<who, moves, readout, hud, hudError, panel, logins, patient, watch>>
Gone(c) == gets' = [gets EXCEPT ![c] = NoGet]
Value(c) == [of |-> gets[c].of, at |-> gets[c].at]
\* What is not the HUD's: the value, or an error beside the value there was.
Answer(c) ==
  /\ watch # "hud" /\ gets[c].state = "read" /\ Gone(c)
  /\ readout' = IF watch \in Stores THEN [readout EXCEPT !.value = Value(c)] ELSE readout
  /\ panel' = IF watch \in Panels THEN [panel EXCEPT !.loading = FALSE, !.value = Value(c)] ELSE panel
  /\ UNCHANGED <<who, moves, hud, hudError, logins, patient, watch>>
Fail(c) ==
  /\ watch # "hud" /\ gets[c].state = "sent" /\ Gone(c)
  /\ readout' = IF watch \in Stores THEN [readout EXCEPT !.error = TRUE] ELSE readout
  /\ panel' = IF watch \in Panels THEN [panel EXCEPT !.loading = FALSE, !.error = TRUE] ELSE panel
  /\ UNCHANGED <<who, moves, hud, hudError, logins, patient, watch>>

\* refresh waits for its four GETs, each served at a moment of its own since it was
\* sent, and sets the store at once: what failed is null, but humanity has the readout
\* of the implants to fall back to.
Refreshed(ok, part) ==
  [p \in HudParts |-> IF p \in ok THEN part[p]
                     ELSE IF p = "humanity" /\ "chrome" \in ok THEN part["chrome"] ELSE None]
AnswerHud(c) ==
  /\ watch = "hud" /\ gets[c].state = "sent" /\ Gone(c)
  /\ \E ok \in SUBSET HudParts, at \in [HudParts -> gets[c].at .. moves[gets[c].of]] :
       /\ hud' = Refreshed(ok, [p \in HudParts |-> [of |-> gets[c].of, at |-> at[p]]])
       /\ hudError' = [balance |-> "balance" \notin ok, humanity |-> {"humanity", "chrome"} \cap ok = {}]
  /\ UNCHANGED <<who, moves, readout, panel, logins, patient, watch>>

Next ==
  \/ \E a \in Account : LogIn(a)
  \/ clearAuth \/ Move \/ WidgetFetches \/ PanelLoads \/ PanelCloses
  \/ \E c \in Copies : Serve(c) \/ Answer(c) \/ Fail(c) \/ AnswerHud(c)
-----------------------------------------------------------------------------
\* What the player sees: a value, an error, a loader, or what stands in for a value.

Shown(value, error) == IF value # None THEN "value" ELSE IF error THEN "error" ELSE "loading"
NilShown == Shown(readout.value, readout.error)
MoralShown == IF readout.value # None THEN "value" ELSE IF Settled THEN "snapshot" ELSE "loading"
ActiveGigShown == IF readout.value = None /\ readout.error THEN "error" ELSE NilShown
\* An error hides the ranking there was.
RankingShown == IF readout.error THEN "error" ELSE NilShown
Grana == IF hudError.balance THEN "error" ELSE Shown(hud["balance"], FALSE)
HudCells == {Grana, Shown(hud["humanity"], hudError.humanity)}
IdentityPanel == IF panel.value # None THEN "value" ELSE "snapshot"
HumanityChromePanel == IF panel.loading THEN "loading" ELSE IF panel.error THEN "error" ELSE "value"
EventsPanel == HumanityChromePanel
EconomyView == HumanityChromePanel
OnScreen ==
  CASE watch = "nil" -> {NilShown} [] watch = "moral" -> {MoralShown}
    [] watch = "active gig" -> {ActiveGigShown} [] watch = "ranking" -> {RankingShown}
    [] watch = "hud" -> HudCells [] watch = "identity" -> {IdentityPanel}
    [] watch = "chrome" -> {HumanityChromePanel} [] watch = "events" -> {EventsPanel}
    [] OTHER -> {EconomyView}

\* A widget is on the screen when its first fetch has been sent.
Mounted ==
  /\ who # Nobody
  /\ watch \in Panels => panel.open
  /\ watch \in {"active gig", "ranking"} => ~Settled \/ readout # Empty

\* No loader is left behind: while something says that it loads, a fetch is under way
\* that will end it.
LoadersEnd == Mounted /\ "loading" \in OnScreen => ~Settled

\* A panel shows what belongs to whoever is logged in, and never loads for ever:
\* while it says so a fetch of its own is under way.
PanelsOwn ==
  /\ panel.value.of \in {who, Nobody}
  /\ watch \in Panels => (panel.loading <=> ~Settled)
  /\ panel.open => who # Nobody /\ (panel.loading \/ panel.error \/ panel.value # None)

\* Of the HUD all is of one account, though not of one moment, or missing and marked
\* so; and there is no error beside a value.
HudWhole ==
  /\ \A p, q \in HudParts : hud[p] # None /\ hud[q] # None => hud[p].of = hud[q].of
  /\ hud["balance"] # None => ~hudError.balance
  /\ hud["humanity"] # None => ~hudError.humanity

\* A player who waits for every answer sees, when none is under way, the readouts of
\* the HUD as the server has them, or that they could not be had.
PatientReadouts ==
  patient /\ Settled /\ who # Nobody =>
    LET Now == [of |-> who, at |-> moves[who]] IN
    /\ watch \in {"nil", "moral"} => readout.error \/ readout.value = Now
    /\ watch = "hud" => \A p \in HudParts : hud[p] \in {None, Now}

ReadoutsHold == LoadersEnd /\ PanelsOwn /\ HudWhole /\ PatientReadouts
=============================================================================
