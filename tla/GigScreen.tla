----------------------------- MODULE GigScreen -----------------------------
(***************************************************************************)
(* The trampo in the browser: the gig store (stores/gig), the board view,  *)
(* the panel of the active trampo with its roll theater, and the dashboard *)
(* widget, against the answers of the server.                              *)
(*                                                                         *)
(* One tab of one player sends the actions of one template.  The server    *)
(* handles a request in one step here (GigLoop has its statements); what   *)
(* is followed is the way of the answers: they may be late, overtake each  *)
(* other or be lost, and whatever is rendered is what the store was last   *)
(* told.  The store holds the active trampo twice, in the board and in a   *)
(* mirror for the widget, and each is fetched on its own.  A request whose *)
(* connection breaks has been handled by then or never is.                 *)
(***************************************************************************)
EXTENDS Integers, Sequences

CONSTANTS Fetch,   \* GETs that may be under way at once
          MaxGigs  \* bound: trampos the server opens

VARIABLES gig,     \* the server's active trampo
          view,    \* the page that is open
          shown,   \* place -> the trampo the store has there
          summary, \* lastWrapup is set
          panel,   \* the local state of ActiveGigPanel and RollTheater
          act,     \* the POST under way; actionLoading
          get,     \* GET -> what it is for and what it read
          patient, \* history: whether the player waits for every answer
          unsure,  \* history: place -> an answer was lost since a patient player fetched it
          past     \* history: trampo -> the phase it reached, what was rolled

screen == <<view, shown, summary, panel>>
history == <<patient, unsure, past>>
svars == <<gig, screen, act, get, history>>

Phases == <<"meet", "legwork", "execute", "escape", "wrap_up">>
Places == {"board", "mirror"}
PlaceOf == [board |-> "board", dashboard |-> "mirror"]

None == [id |-> 0, phase |-> "none"]
NotFetched == [id |-> 0, phase |-> "not fetched"]
NoRoll == [id |-> 0, success |-> FALSE, sentinel |-> FALSE]
NoPanel == [id |-> 0, execute |-> NoRoll, escape |-> NoRoll, stage |-> "rolling"]
Idle == [op |-> "none", state |-> "idle", gig |-> None, roll |-> NoRoll, mounted |-> FALSE]
NoGet == [place |-> "none", state |-> "idle", gig |-> None]

Init ==
  /\ gig = None /\ view = "board"
  /\ shown = [x \in Places |-> IF x = "board" THEN NotFetched ELSE None]
  /\ summary = FALSE /\ panel = NoPanel
  /\ act = Idle
  /\ get = [f \in Fetch |-> NoGet]
  /\ patient \in BOOLEAN
  /\ unsure = [x \in Places |-> TRUE]
  /\ past = << >>

Trampo == shown["board"]
HasGig(g) == g.id > 0
\* hasActiveGig: the panel is on the board page, and what it shows.
PanelOpen == view = "board" /\ (HasGig(Trampo) \/ summary)
\* A fresh roll is in the theater, the phase and its button behind it.
Theater == panel.execute # NoRoll \/ panel.escape # NoRoll

\* React renders a change of the store: the panel is unmounted with its state,
\* or forgets the rolls when the trampo has become another one.
Render(p) ==
  LET id == Trampo.id' IN
  panel' = IF PanelOpen' /\ id = p.id THEN p ELSE [NoPanel EXCEPT !.id = id]

\* Nothing is under way that could still change the screen.
Settled == act = Idle /\ \A f \in Fetch : get[f] = NoGet
\* The player does something, a patient one only when nothing is loading.
Player == patient => Settled

Load(f, place) == get' = [get EXCEPT ![f] = [NoGet EXCEPT !.place = place, !.state = "sent"]]
-----------------------------------------------------------------------------
\* The player.

\* Every mount fetches what its page shows; the panel left behind is gone, and
\* an answer to it will find nobody.
Navigate(f) ==
  /\ Player /\ get[f] = NoGet
  /\ view' \in {"board", "dashboard"} \ {view}
  /\ Load(f, PlaceOf[view'])
  /\ act' = [act EXCEPT !.mounted = FALSE]
  /\ UNCHANGED <<gig, shown, summary, history>> /\ Render(panel)

\* fetchBoard of the first page, of the banner as long as there is no board, and
\* of the retry buttons.
Refetch(f) ==
  /\ Player /\ get[f] = NoGet
  /\ view = "board" => Trampo = NotFetched
  /\ Load(f, PlaceOf[view]) /\ UNCHANGED <<gig, screen, act, history>>

\* The button of each phase, behind the theater while it plays.  The countdown of
\* the legwork is this clock's and may be done before the server's is.
PhaseButtons ==
  IF ~(PanelOpen /\ HasGig(Trampo)) \/ Theater THEN {}
  ELSE CASE Trampo.phase = "meet" -> {"legwork", "execute"}
         [] Trampo.phase = "legwork" -> {"execute"}
         [] Trampo.phase = "execute" -> {"escape"}
         [] OTHER -> {"wrapup"}
\* The cards of the board while no trampo is active; the way out at any time.
Buttons ==
  PhaseButtons
    \cup (IF view = "board" /\ Trampo = None THEN {"accept"} ELSE {})
    \cup (IF PanelOpen /\ HasGig(Trampo) THEN {"abandon"} ELSE {})

\* Every action begins the same way: actionLoading disables all the buttons.
Press ==
  /\ Player /\ act = Idle
  /\ \E op \in Buttons :
       /\ act' = [Idle EXCEPT !.op = op, !.state = "sent", !.mounted = TRUE]
       /\ summary' = IF op = "accept" THEN FALSE ELSE summary
  /\ UNCHANGED <<gig, view, shown, get, history>>
  /\ Render(panel)

\* The stages of the theater, each on the timer of the one before.
NEXT == [rolling |-> "reveal", reveal |-> "verdict", verdict |-> "copy", copy |-> "done"]
PlayTheater ==
  /\ Theater /\ panel.stage \in DOMAIN NEXT
  /\ panel' = [panel EXCEPT !.stage = NEXT[@]]
  /\ UNCHANGED <<gig, view, shown, summary, act, get, history>>

\* Continuar: the escape's theater takes precedence.
Dismiss ==
  /\ Theater /\ panel.stage = "done"
  /\ panel' = IF panel.escape # NoRoll THEN [panel EXCEPT !.escape = NoRoll]
              ELSE [panel EXCEPT !.execute = NoRoll]
  /\ UNCHANGED <<gig, view, shown, summary, act, get, history>>
-----------------------------------------------------------------------------
\* The server.

Reach(id, phase) == [past EXCEPT ![id].phase = phase]
Phased(phase) == [gig EXCEPT !.phase = phase]
Reply(g, roll) == act' = [act EXCEPT !.state = "answered", !.gig = g, !.roll = roll]
Refuse == act' = [act EXCEPT !.state = "refused"] /\ UNCHANGED <<gig, past>>

ServeAccept ==
  /\ act.op = "accept" /\ gig = None /\ Len(past) < MaxGigs
  /\ LET g == [id |-> Len(past) + 1, phase |-> "meet"] IN
       /\ gig' = g /\ Reply(g, NoRoll)
       /\ past' = Append(past, [phase |-> "meet", execute |-> FALSE, escape |-> FALSE])

ServeLegwork ==
  /\ act.op = "legwork" /\ gig # None /\ gig.phase = "meet"
  /\ gig' = Phased("legwork") /\ Reply(Phased("legwork"), NoRoll)
  /\ past' = Reach(gig.id, "legwork")

Roll(success) == [id |-> gig.id, success |-> success, sentinel |-> FALSE]
ServeExecute ==
  /\ act.op = "execute" /\ gig # None /\ gig.phase \in {"meet", "legwork"}
  /\ \E success \in BOOLEAN :
       /\ Reply(Phased("execute"), Roll(success))
       /\ past' = [Reach(gig.id, "execute") EXCEPT ![gig.id].execute = success]
  /\ gig' = Phased("execute")

\* An escape already rolled is answered again, without its numbers.
ServeEscape ==
  /\ act.op = "escape" /\ gig # None /\ gig.phase \in {"execute", "escape"}
  /\ \/ /\ gig.phase = "escape"
        /\ Reply(gig, [Roll(past[gig.id].escape) EXCEPT !.sentinel = TRUE])
        /\ UNCHANGED <<gig, past>>
     \/ /\ gig.phase = "execute"
        /\ \E success \in BOOLEAN :
             /\ Reply(Phased("escape"), Roll(success))
             /\ past' = [Reach(gig.id, "escape") EXCEPT ![gig.id].escape = success]
        /\ gig' = Phased("escape")

ServeEnd ==
  /\ gig # None
  /\ act.op = "abandon" \/ (act.op = "wrapup" /\ gig.phase = "escape")
  /\ gig' = None /\ Reply(None, NoRoll)
  /\ past' = Reach(gig.id, "wrap_up")

\* A handler does its work or refuses: no such trampo, the wrong phase, NIL, the
\* rate limit, the legwork timer, a character that is apagado.
ServeAction ==
  /\ act.state = "sent"
  /\ ServeAccept \/ ServeLegwork \/ ServeExecute \/ ServeEscape \/ ServeEnd \/ Refuse
  /\ UNCHANGED <<screen, get, patient, unsure>>

\* listAvailableGigs and getActiveGig.
ServeGet(f) ==
  /\ get[f].state = "sent"
  /\ get' = [get EXCEPT ![f].state = "read", ![f].gig = gig]
  /\ UNCHANGED <<gig, screen, act, history>>
-----------------------------------------------------------------------------
\* The answers.

\* An action patches the mirror, and the board if there is one.
Patch_MirrorOnly(g) == [shown EXCEPT !["mirror"] = g]
Patch(g) == [x \in Places |-> IF x = "board" /\ shown[x] = NotFetched THEN NotFetched ELSE g]

\* The panel that asked takes the roll, after the store and its render.
TakeRoll(p) ==
  IF ~act.mounted \/ ~(PanelOpen') \/ act.op \notin {"execute", "escape"} THEN p
  ELSE [p EXCEPT ![act.op] = act.roll, !.id = act.roll.id,
                 !.stage = IF act.roll.sentinel THEN "copy" ELSE "rolling"]
Blank(g) == IF panel.id = g.id THEN panel ELSE NoPanel

\* The store is patched; what ends a trampo also asks for the board.
AnswerAction ==
  /\ act.state = "answered"
  /\ shown' = Patch(act.gig)
  /\ summary' = (summary \/ act.op = "wrapup")
  /\ IF act.op \in {"wrapup", "abandon"}
     THEN \E f \in Fetch : get[f] = NoGet /\ Load(f, "board")
     ELSE UNCHANGED get
  /\ act' = Idle
  /\ UNCHANGED <<gig, view, history>>
  /\ Render(TakeRoll(Blank(act.gig)))

\* The error is shown and nothing else changes, whatever the server has done.
FailAction ==
  /\ act.state # "idle"
  /\ act' = Idle
  /\ unsure' = IF act.state = "answered" THEN [x \in Places |-> TRUE] ELSE unsure
  /\ UNCHANGED <<gig, screen, get, patient, past>>

\* fetchBoard sets the board alone, fetchActiveGig the mirror alone.
AnswerGet(f) ==
  /\ get[f].state = "read"
  /\ shown' = [shown EXCEPT ![get[f].place] = get[f].gig]
  /\ unsure' = [unsure EXCEPT ![get[f].place] = ~patient]
  /\ get' = [get EXCEPT ![f] = NoGet]
  /\ UNCHANGED <<gig, view, summary, act, patient, past>>
  /\ Render(panel)

FailGet(f) ==
  /\ get[f].state # "idle"
  /\ get' = [get EXCEPT ![f] = NoGet]
  /\ UNCHANGED <<gig, screen, act, history>>

Next ==
  \/ Press \/ PlayTheater \/ Dismiss
  \/ ServeAction \/ AnswerAction \/ FailAction
  \/ \E f \in Fetch : Navigate(f) \/ Refetch(f) \/ ServeGet(f) \/ AnswerGet(f) \/ FailGet(f)
-----------------------------------------------------------------------------
PhaseIndex(phase) == CHOOSE i \in 1 .. Len(Phases) : Phases[i] = phase

\* No place shows a trampo further than the server took it, however late or out
\* of order the answers come.
NeverAhead ==
  \A x \in Places : HasGig(shown[x]) =>
    /\ shown[x].id <= Len(past)
    /\ PhaseIndex(shown[x].phase) <= PhaseIndex(past[shown[x].id].phase)

\* The theater plays what the server rolled for the trampo on the screen, never
\* another one's, and the two theaters never wait for each other.
TheaterFaithful ==
  /\ panel.execute # NoRoll =>
       HasGig(Trampo) /\ panel.execute.id = Trampo.id /\ panel.execute.success = past[Trampo.id].execute
  /\ panel.escape # NoRoll =>
       HasGig(Trampo) /\ panel.escape.id = Trampo.id /\ panel.escape.success = past[Trampo.id].escape
  /\ panel.execute = NoRoll \/ panel.escape = NoRoll

\* A player who waits for every answer, and lost none since a place was last
\* fetched, sees there the trampo that is active.
PatientScreen == patient /\ Settled => \A x \in Places : unsure[x] \/ shown[x] = gig
=============================================================================
