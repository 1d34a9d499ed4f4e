------------------------------- MODULE Clinic -------------------------------
(* The chrome page as one tab runs it (ChromeView, ChromeSurgeryPanel): the    *)
(* loadout it shows and the loads that bring it, the removal in two clicks,  *)
(* and the surgery of one slot, whose panel React mounts anew for each slot    *)
(* and each visit to its tab.  What a surgery costs is in module Chrome.       *)
EXTENDS Integers, FiniteSets

CONSTANTS Slot, NoSlot,
          Implant, NoImplant,
          SlotOf,       \* implant -> the slot it goes in
          Capacity,     \* implants a slot takes
          MaxFetches,   \* bound: loadouts asked for
          MaxPanels     \* bound: times the panel is mounted

VARIABLES loadout,  \* the implants installed, and how often they changed
          view,     \* ChromeView's state
          panel,    \* ChromeSurgeryPanel's state
          loads,  \* loadouts under way: their number, and the answer once it is read
          posts,    \* installs and removals under way
          asked,    \* loadouts asked for so far
          missed    \* an answer was lost, came late, or its surgery was walked out of

vars == <<loadout, view, panel, loads, posts, asked, missed>>

NotLoaded == {NoImplant}
NotRead == [has |-> NotLoaded, version |-> 0]
NoPanel(n) == [mount |-> n, mounted |-> FALSE, stage |-> "idle", implant |-> NoImplant, crashed |-> FALSE]
Theater == {"surgery_playing", "done"}
-----------------------------------------------------------------------------
(* Rendering.  React throws where one mount of a component calls more or fewer *)
(* hooks than the time before, and nothing catches it: the page is gone.  The  *)
(* panel returns early, before its last useEffect, while it has nothing to     *)
(* show.                                                                       *)

Shows(v) == v.tab = "corpo" /\ v.catalog # "failed" /\ ~(v.error /\ v.installed = NotLoaded)
theaterActive_PlayingOnly(p) == p.stage = "surgery_playing"
theaterActive(p) == p.stage \in Theater
ReturnsEarly(v, p) ==
  \/ v.slot = NoSlot
  \/ (v.loading \/ v.catalog = "loading" \/ v.installed = NotLoaded) /\ ~theaterActive(p)

\* The page shown next is v, with p the state of a panel that stays mounted.
Render(v, p) ==
  /\ view' = v
  /\ panel' =
       IF ~Shows(v) THEN NoPanel(p.mount)
       ELSE IF p.mounted /\ v.slot = view.slot
         THEN [p EXCEPT !.crashed = ReturnsEarly(v, p) # ReturnsEarly(view, panel)]
         ELSE [NoPanel(p.mount + 1) EXCEPT !.mounted = TRUE,
                 !.stage = IF v.slot = NoSlot THEN "idle" ELSE "slot_selected"]
  /\ panel'.mount <= MaxPanels

\* A surgery in the theater that the next page no longer shows.
WalksOut == panel.stage = "surgery_playing" /\ panel'.stage \notin Theater
Misses(cond) == missed' = (missed \/ cond \/ WalksOut)

Init ==
  /\ loadout = [has |-> {}, version |-> 0]
  /\ view = [tab |-> "corpo", slot |-> NoSlot, catalog |-> "loading", vendor |-> FALSE,
             installed |-> NotLoaded, version |-> 0, loading |-> TRUE, error |-> FALSE,
             armed |-> NoImplant, timers |-> 0, acting |-> FALSE]
  /\ panel = [NoPanel(1) EXCEPT !.mounted = TRUE]
  /\ loads = {[n |-> 1, answer |-> NotRead]}
  /\ posts = {}
  /\ asked = 1
  /\ missed = FALSE

\* fetchInstalled, of a page that is v otherwise: what it shows and asks for.
Loading(v) == [v EXCEPT !.loading = TRUE, !.error = FALSE]
Ask == asked < MaxFetches /\ asked' = asked + 1 /\ loads' = loads \cup {[n |-> asked + 1, answer |-> NotRead]}
-----------------------------------------------------------------------------
(* The page.                                                                  *)

FetchCatalog ==
  /\ view.catalog = "loading"
  /\ \E c \in {"ready", "failed"} : Render([view EXCEPT !.catalog = c], panel)
  /\ Misses(FALSE) /\ UNCHANGED <<loadout, loads, posts, asked>>

FetchVendor ==
  /\ ~view.vendor /\ Render([view EXCEPT !.vendor = TRUE], panel)
  /\ Misses(FALSE) /\ UNCHANGED <<loadout, loads, posts, asked>>

\* A loadout lands, in whatever order, or its request fails.
FetchInstalled(f) ==
  /\ loads' = loads \ {f}
  /\ \/ /\ f.answer # NotRead
        /\ Render([view EXCEPT !.installed = f.answer.has, !.version = f.answer.version, !.loading = FALSE], panel)
        /\ Misses(f.answer.version < view.version)
     \/ /\ Render([view EXCEPT !.error = TRUE, !.loading = FALSE], panel)
        /\ Misses(TRUE)
  /\ UNCHANGED <<loadout, posts, asked>>

Retry ==
  /\ view.tab = "corpo" /\ view.catalog # "failed" /\ ~Shows(view)
  /\ Ask /\ Render(Loading(view), panel)
  /\ Misses(FALSE) /\ UNCHANGED <<loadout, posts>>

SetTab(t) ==
  /\ t # view.tab /\ Render([view EXCEPT !.tab = t], panel)
  /\ Misses(FALSE) /\ UNCHANGED <<loadout, loads, posts, asked>>

OnSelectSlot(s) ==
  /\ panel.mounted /\ s # view.slot /\ Render([view EXCEPT !.slot = s], panel)
  /\ Misses(FALSE) /\ UNCHANGED <<loadout, loads, posts, asked>>
-----------------------------------------------------------------------------
(* The removal.                                                               *)

Removable(i) ==
  /\ view.tab = "installed" /\ ~view.loading /\ ~view.error /\ ~view.acting
  /\ view.installed # NotLoaded /\ i \in view.installed

\* The first click arms the implant, and its timer takes the place of an older one.
armUninstall(v, i) == [v EXCEPT !.armed = i, !.timers = 1]
disarmUninstall(v) == [v EXCEPT !.armed = NoImplant, !.timers = 0]

Arm(i) ==
  /\ Removable(i) /\ view.armed # i
  /\ Render(armUninstall(view, i), panel)
  /\ Misses(FALSE) /\ UNCHANGED <<loadout, loads, posts, asked>>

ConfirmTimeout ==
  /\ view.timers > 0 /\ Render([view EXCEPT !.timers = @ - 1, !.armed = NoImplant], panel)
  /\ Misses(FALSE) /\ UNCHANGED <<loadout, loads, posts, asked>>

OnUninstall(i) ==
  /\ Removable(i) /\ view.armed = i
  /\ Render([disarmUninstall(view) EXCEPT !.acting = TRUE], panel)
  /\ posts' = posts \cup {[kind |-> "uninstall", implant |-> i, mount |-> 0, done |-> "sent"]}
  /\ Misses(FALSE) /\ UNCHANGED <<loadout, loads, asked>>

\* Its answer; one that is lost leaves the loadout shown as it was.
Refetched(v) == Loading(v)
Uninstalled(p) ==
  /\ p.kind = "uninstall" /\ posts' = posts \ {p}
  /\ LET v == [view EXCEPT !.acting = FALSE]
     IN \/ p.done = "ok" /\ Ask /\ Render(Refetched(v), panel) /\ Misses(FALSE)
        \/ Render(v, panel) /\ Misses(p.done = "ok") /\ UNCHANGED <<loads, asked>>
  /\ UNCHANGED loadout
-----------------------------------------------------------------------------
(* The surgery.                                                               *)

Acts(stage) == panel.mounted /\ panel.stage = stage /\ ~ReturnsEarly(view, panel)
InSlot == {i \in view.installed : SlotOf[i] = view.slot}

PickImplant(i) ==
  /\ Acts("slot_selected") /\ SlotOf[i] = view.slot /\ i \notin view.installed
  /\ Render(view, [panel EXCEPT !.stage = "reviewing", !.implant = i])
  /\ Misses(FALSE) /\ UNCHANGED <<loadout, loads, posts, asked>>

\* "trocar", and "Concluir" once it is done.
BackToPicker ==
  /\ Acts("reviewing") \/ Acts("done")
  /\ Render(view, [panel EXCEPT !.stage = "slot_selected", !.implant = NoImplant])
  /\ Misses(FALSE) /\ UNCHANGED <<loadout, loads, posts, asked>>

blockReason == ~view.vendor \/ Cardinality(InSlot) >= Capacity

OnConfirm ==
  /\ Acts("reviewing") /\ ~blockReason
  /\ Render(view, [panel EXCEPT !.stage = "confirming"])
  /\ posts' = posts \cup {[kind |-> "install", implant |-> panel.implant, mount |-> panel.mount, done |-> "sent"]}
  /\ Misses(FALSE) /\ UNCHANGED <<loadout, loads, asked>>

\* The install's answer reaches the panel that asked for it, or nobody.
InstallAnswer(p) ==
  /\ p.kind = "install" /\ posts' = posts \ {p}
  /\ \E ok \in BOOLEAN :
       /\ ok => p.done = "ok"
       /\ IF panel.mounted /\ panel.mount = p.mount
          THEN Render(view, [panel EXCEPT !.stage = IF ok THEN "surgery_playing" ELSE "reviewing"])
          ELSE UNCHANGED <<view, panel>>
       /\ Misses(p.done = "ok" /\ (~ok \/ ~panel.mounted \/ panel.mount # p.mount))
  /\ UNCHANGED <<loadout, loads, asked>>

\* The theater's timer: onSurgeryDone, in the same render.
TheaterEnds ==
  /\ panel.mounted /\ panel.stage = "surgery_playing"
  /\ Ask /\ Render(Loading(view), [panel EXCEPT !.stage = "done"])
  /\ Misses(FALSE) /\ UNCHANGED <<loadout, posts>>
-----------------------------------------------------------------------------
(* The server.                                                                *)

Answer(f) ==
  /\ f.answer = NotRead /\ loads' = (loads \ {f}) \cup {[f EXCEPT !.answer = loadout]}
  /\ UNCHANGED <<loadout, view, panel, posts, asked, missed>>

\* An install of what fits, or a removal of what is there, may be refused for
\* other reasons.
Fits(i) == i \notin loadout.has /\ Cardinality({j \in loadout.has : SlotOf[j] = SlotOf[i]}) < Capacity
Changed(p) == IF p.kind = "install" THEN loadout.has \cup {p.implant} ELSE loadout.has \ {p.implant}
Handle(p) ==
  /\ p.done = "sent"
  /\ \/ /\ IF p.kind = "install" THEN Fits(p.implant) ELSE p.implant \in loadout.has
        /\ loadout' = [has |-> Changed(p), version |-> loadout.version + 1]
        /\ posts' = (posts \ {p}) \cup {[p EXCEPT !.done = "ok"]}
     \/ posts' = (posts \ {p}) \cup {[p EXCEPT !.done = "refused"]} /\ UNCHANGED loadout
  /\ UNCHANGED <<view, panel, loads, asked, missed>>

Next ==
  /\ ~panel.crashed
  /\ \/ FetchCatalog \/ FetchVendor \/ Retry \/ ConfirmTimeout \/ BackToPicker \/ OnConfirm \/ TheaterEnds
     \/ \E t \in {"corpo", "installed"} : SetTab(t)
     \/ \E s \in Slot : OnSelectSlot(s)
     \/ \E i \in Implant : Arm(i) \/ OnUninstall(i) \/ PickImplant(i)
     \/ \E f \in loads : FetchInstalled(f) \/ Answer(f)
     \/ \E p \in posts : Uninstalled(p) \/ InstallAnswer(p) \/ Handle(p)
-----------------------------------------------------------------------------
(* Properties.                                                                *)

\* An implant asks to be confirmed as long as its own timer runs, so no older
\* timer takes the question away and none is left behind.
ArmedWhileItsTimerRuns == view.timers = (IF view.armed = NoImplant THEN 0 ELSE 1)

\* When nothing is under way, and as long as no answer was lost, came late or
\* belongs to a surgery that was walked out of, the loadout shown is the one installed.
ShowsTheLoadout == loads = {} /\ posts = {} /\ panel.stage # "surgery_playing" /\ ~missed => view.installed = loadout.has

\* The theater plays, and ends, for an implant the server installed, in a slot
\* the page still shows; and the reload it starts does not take it down.
TheaterStands ==
  panel.stage \in Theater =>
    /\ ~panel.crashed
    /\ loadout.version > 0 /\ SlotOf[panel.implant] = view.slot

ClinicHolds == ArmedWhileItsTimerRuns /\ ShowsTheLoadout /\ TheaterStands

\* Whatever the player clicks and in whatever order the answers land, the page
\* is still there.
PageStands == ~panel.crashed
=============================================================================
