------------------------------ MODULE Actions ------------------------------
(* A page of the client that posts an action and reads its readout back: the    *)
(* shop of a vendor, the therapy, the operating system, the consumables, the    *)
(* attack of the PvP page and the crew page.  They differ in what is disabled    *)
(* while the answer is awaited, where the readout is kept (the page or a store), *)
(* what happens when the page is left meanwhile, and who tells the HUD.          *)
EXTENDS Naturals

CONSTANTS Page,      \* the pages followed
          Item,      \* what a page acts on: wares, modalities, targets, crew actions
          Supply,    \* how often the server lets each be done
          Said,      \* the crew actions that announce their success: the invitation
          Final,     \* the crew actions after which nothing is read back: the dissolution
          Nothing,
          Copies,    \* chains of requests in flight at a time
          MaxVisits

VARIABLES page,      \* the page this behaviour follows
          done,      \* the server: how often each item was done,
          window,    \* and whether the anti-spam or effect window is open
          calls,     \* the chains of requests: an action and its read, or a read
          seen,      \* the readout the client has
          loading,   \* the flag of a read (of the page, or of the store)
          acting,    \* the item whose action the page waits for
          armed,     \* the item of the open confirmation
          failed,    \* the last read failed
          told,      \* the success and the error on the page
          asked,     \* what had been done when the HUD was last asked to refresh
          visit, onPage,
          behind,    \* what a failed read or a lost answer left behind: the page, the HUD
          alone,     \* no two chains overlapped but what one of them disables
          last       \* the last action that ended and whether it was done

vars == <<page, done, window, calls, seen, loading, acting, armed, failed, told, asked,
          visit, onPage, behind, alone, last>>
serverVars == <<done, window>>

\* Only the crew page has a dissolution; it leaves no crew to read or to act on.
Offered == IF page = "crew" THEN Item ELSE Item \ Final
Dissolved == page = "crew" /\ \E i \in Final : done[i] > 0

\* The readout lives in a store and outlives the page; elsewhere in the page.
Stored == {"therapy", "os", "consumables", "crew"}
\* The action ends only when the readout was read back.
Rereads == {"vendor", "therapy", "os", "consumables"}
\* A store's `loading` covers the action too; elsewhere the page waits for an item.
Shared == {"therapy", "os"}
Awaits == {"vendor", "consumables", "attack"}

NoCall == [at |-> "idle", item |-> Nothing, read |-> Nothing, visit |-> 0]
Silent == [ok |-> Nothing, error |-> Nothing]

Init ==
  /\ page \in Page /\ done = [i \in Item |-> 0] /\ window = FALSE
  /\ calls = [c \in Copies |-> NoCall] /\ seen = Nothing
  /\ loading = FALSE /\ acting = Nothing /\ armed = Nothing /\ failed = FALSE
  /\ told = Silent /\ asked = [i \in Item |-> 0]
  /\ visit = 0 /\ onPage = FALSE /\ behind = {} /\ alone = TRUE /\ last = Nothing

Quiet == \A c \in Copies : calls[c].at = "idle"
Here(c) == onPage /\ calls[c].visit = visit
\* A store is written whoever waits; a page that is gone is not.  (Were a store's answer
\* dropped with its page, its flag would stay up.)
Lands_Mounted(c) == Here(c)
Lands(c) == page \in Stored \/ Here(c)
Reading(i) == [at |-> "get", item |-> i, read |-> Nothing, visit |-> visit]

\* ---- visiting ----

StartRead(c) ==
  /\ calls[c].at = "idle"
  /\ calls' = [calls EXCEPT ![c] = [Reading(Nothing) EXCEPT !.visit = visit']]
  /\ loading' = TRUE /\ failed' = FALSE
  /\ alone' = (alone /\ Quiet)

Visit ==
  /\ ~onPage /\ visit < MaxVisits
  /\ onPage' = TRUE /\ visit' = visit + 1
  /\ \E c \in Copies : StartRead(c)
  /\ UNCHANGED <<page, serverVars, seen, acting, armed, told, asked, behind, last>>

Retry ==
  /\ onPage /\ page \in Stored \ {"crew"} /\ seen = Nothing /\ failed /\ ~loading
  /\ UNCHANGED visit
  /\ \E c \in Copies : StartRead(c)
  /\ UNCHANGED <<page, serverVars, seen, acting, armed, told, asked, onPage, behind, last>>

Leave ==
  /\ onPage
  /\ onPage' = FALSE /\ armed' = Nothing /\ told' = Silent /\ last' = Nothing
  /\ alone' = (alone /\ Quiet)
  /\ IF page \in Stored THEN UNCHANGED <<seen, loading, acting, failed>>
     ELSE seen' = Nothing /\ loading' = FALSE /\ acting' = Nothing /\ failed' = FALSE
  /\ UNCHANGED <<page, serverVars, calls, asked, visit, behind>>

\* ---- the action ----

\* The pages that draw nothing else while they read or after a failed read.
Drawn == onPage /\ seen # Nothing /\ (page \in {"vendor", "attack", "crew"} => ~loading /\ ~failed)

LeftOf(i) == Supply[i] - seen.done[i]

\* What the page's own button needs: the shop waits for any of its purchases, the
\* two stores for whatever they load, the consumables for the item itself.
CanBuy(i) == Drawn /\ acting = Nothing /\ LeftOf(i) > 0
CanUndergo == Drawn /\ ~loading /\ ~seen.window
CanActivate(i) == Drawn /\ ~loading /\ ~seen.window /\ LeftOf(i) > 0
CanUse(i) == Drawn /\ acting # i /\ LeftOf(i) > 0
CanPick == Drawn /\ armed = Nothing /\ acting = Nothing
CanConfirm(i) == onPage /\ armed = i /\ acting = Nothing

Arm(i) ==
  /\ armed # i
  /\ (page = "consumables" /\ CanUse(i)) \/ (page = "attack" /\ CanPick)
  /\ armed' = i
  /\ told' = IF page = "attack" THEN [told EXCEPT !.error = Nothing] ELSE told
  /\ last' = IF page = "attack" THEN Nothing ELSE last
  /\ UNCHANGED <<page, serverVars, calls, seen, loading, acting, failed, asked, visit, onPage, behind, alone>>

Disarm ==
  /\ page = "attack" /\ armed # Nothing
  /\ armed' = Nothing
  /\ UNCHANGED <<page, serverVars, calls, seen, loading, acting, failed, told, asked, visit, onPage, behind, alone, last>>

Enabled(i) ==
  CASE page = "vendor" -> CanBuy(i)
    [] page = "therapy" -> CanUndergo
    [] page = "os" -> CanActivate(i)
    [] page = "consumables" -> armed = i /\ CanUse(i)
    [] page = "attack" -> CanConfirm(i)
    [] OTHER -> Drawn

Act(i) ==
  /\ Enabled(i)
  /\ \E c \in Copies :
       /\ calls[c].at = "idle"
       /\ calls' = [calls EXCEPT ![c] = [Reading(i) EXCEPT !.at = "sent"]]
  /\ acting' = IF page \in Awaits THEN i ELSE acting
  /\ loading' = (loading \/ page \in Shared)
  /\ failed' = (failed /\ page \notin Shared)
  /\ armed' = IF page = "consumables" THEN Nothing ELSE armed
  /\ told' = IF page \in {"vendor"} \cup Shared \/ (page = "crew" /\ i \in Said) THEN Silent
             ELSE [told EXCEPT !.error = Nothing]
  /\ alone' = (alone /\ (page \in {"consumables", "crew"} => Quiet))
  /\ UNCHANGED <<page, serverVars, seen, asked, visit, onPage, behind, last>>

\* The server answers: it may refuse for reasons the page does not show.
Handle(c) ==
  /\ calls[c].at = "sent"
  /\ LET i == calls[c].item IN
     \/ /\ calls' = [calls EXCEPT ![c].at = "refused"]
        /\ UNCHANGED serverVars
     \/ /\ done[i] < Supply[i] /\ ~window /\ ~Dissolved
        /\ done' = [done EXCEPT ![i] = @ + 1]
        /\ window' = (page \in Shared)
        /\ calls' = [calls EXCEPT ![c].at = "done"]
  /\ UNCHANGED <<page, seen, loading, acting, armed, failed, told, asked, visit, onPage, behind, alone, last>>

WindowEnds ==
  /\ window /\ window' = FALSE
  /\ UNCHANGED <<page, done, calls, seen, loading, acting, armed, failed, told, asked, visit, onPage, behind, alone, last>>

\* The answer of what was done is lost: the page hears an error.
Lose(c) ==
  /\ calls[c].at = "done"
  /\ calls' = [calls EXCEPT ![c].at = "refused"]
  /\ behind' = {"page", "hud"}
  /\ UNCHANGED <<page, serverVars, seen, loading, acting, armed, failed, told, asked, visit, onPage, alone, last>>

\* ---- the answer ----

Free(c) == acting' = IF Lands(c) THEN Nothing ELSE acting
Tell(c, field) ==
  told' = IF Here(c) THEN [told EXCEPT ![field] = calls[c].item] ELSE told
Ends(c, ok) == last' = IF Here(c) THEN [item |-> calls[c].item, ok |-> ok] ELSE last
AskHud(when) == asked' = IF when THEN done ELSE asked
\* The HUD is no longer behind once it was asked after everything that was done.
Heard == IF asked' = done THEN {"hud"} ELSE {}

Refused(c) ==
  /\ calls[c].at = "refused"
  /\ calls' = [calls EXCEPT ![c] = NoCall]
  /\ Free(c) /\ Tell(c, "error") /\ Ends(c, FALSE)
  /\ loading' = (loading /\ page \notin Shared)
  /\ UNCHANGED <<page, serverVars, seen, armed, failed, asked, visit, onPage, behind, alone>>

\* The pages whose action reads the readout back before it ends.
GoesOn(c) ==
  /\ page \in Rereads /\ calls[c].at = "done"
  /\ calls' = [calls EXCEPT ![c].at = "get"]
  /\ AskHud(page = "vendor")
  /\ IF page = "vendor" THEN Tell(c, "ok") ELSE UNCHANGED told
  /\ loading' = (loading \/ page = "consumables")
  /\ failed' = (failed /\ page # "consumables")
  /\ behind' = behind \ Heard
  /\ UNCHANGED <<page, serverVars, seen, acting, armed, visit, onPage, alone, last>>

ReadsAgain(c) ==
  /\ calls' = [calls EXCEPT ![c] = [Reading(Nothing) EXCEPT !.visit = calls[c].visit]]
  /\ loading' = TRUE /\ failed' = FALSE
EndsThere(c) ==
  /\ calls' = [calls EXCEPT ![c] = NoCall]
  /\ UNCHANGED <<loading, failed>>

\* The PvP page, if it is still there, shows the fight and asks for the targets.
Attacked(c) ==
  /\ page = "attack" /\ calls[c].at = "done"
  /\ IF Here(c) THEN ReadsAgain(c) /\ armed' = Nothing ELSE EndsThere(c) /\ UNCHANGED armed
  /\ AskHud(Here(c)) /\ behind' = behind \ Heard
  /\ Tell(c, "ok") /\ Free(c) /\ Ends(c, TRUE)
  /\ UNCHANGED <<page, serverVars, seen, visit, onPage, alone>>

\* The crew page reads the crew again, left or not, but not after a dissolution: it
\* then stays as it was.
CrewActed(c) ==
  /\ page = "crew" /\ calls[c].at = "done"
  /\ IF calls[c].item \in Final THEN EndsThere(c) ELSE ReadsAgain(c)
  /\ IF calls[c].item \in Said THEN Tell(c, "ok") ELSE UNCHANGED told
  /\ Ends(c, TRUE)
  /\ UNCHANGED <<page, serverVars, seen, acting, armed, asked, visit, onPage, behind, alone>>

\* ---- the read ----

Read(c) ==
  /\ calls[c].at = "get" /\ ~Dissolved
  /\ calls' = [calls EXCEPT ![c].at = "got", ![c].read = [done |-> done, window |-> window]]
  /\ UNCHANGED <<page, serverVars, seen, loading, acting, armed, failed, told, asked, visit, onPage, behind, alone, last>>

\* The end of a read that is an action's last step.
Concludes(c, read) ==
  /\ Free(c)
  /\ Ends(c, TRUE)
  /\ CASE page = "vendor" -> UNCHANGED asked /\ IF read THEN UNCHANGED told ELSE Tell(c, "error")
       [] page = "consumables" -> AskHud(TRUE) /\ Tell(c, "ok")
       [] OTHER -> /\ AskHud(read /\ (page = "therapy" \/ Here(c)))
                   /\ Tell(c, IF read THEN "ok" ELSE "error")

\* Of the shop, the error of the page's first load hides it; that of the reading after
\* a purchase stands beside the stock there was, whose buttons go on.
Hides(c) == page = "vendor" => calls[c].item = Nothing

ReadEnds(c, read) ==
  /\ calls' = [calls EXCEPT ![c] = NoCall]
  /\ seen' = IF read /\ Lands(c) THEN calls[c].read ELSE seen
  /\ loading' = (loading /\ ~Lands(c))
  /\ failed' = IF Lands(c) /\ Hides(c) THEN ~read ELSE failed
  /\ IF calls[c].item # Nothing THEN Concludes(c, read) ELSE UNCHANGED <<acting, told, asked, last>>
  /\ UNCHANGED <<page, serverVars, armed, visit, onPage, alone>>

ReadLands(c) ==
  /\ calls[c].at = "got" /\ ReadEnds(c, TRUE)
  /\ behind' = behind \ (Heard \cup IF Lands(c) THEN {"page"} ELSE {})
ReadFails(c) ==
  /\ calls[c].at \in {"get", "got"} /\ ReadEnds(c, FALSE)
  /\ behind' = (behind \cup {"page", "hud"}) \ Heard
\* The server answers that there is no such crew.
NotFound(c) ==
  /\ calls[c].at = "get" /\ Dissolved /\ ReadEnds(c, FALSE)
  /\ UNCHANGED behind

Next ==
  \/ Visit \/ Retry \/ Leave \/ Disarm \/ WindowEnds
  \/ \E i \in Offered : Arm(i) \/ Act(i)
  \/ \E c \in Copies : \/ Handle(c) \/ Lose(c) \/ Refused(c) \/ GoesOn(c) \/ Attacked(c) \/ CrewActed(c)
                       \/ Read(c) \/ ReadLands(c) \/ ReadFails(c) \/ NotFound(c)

Spec == Init /\ [][Next]_vars

\* When nothing is in flight, and since a read last failed or an answer was lost the
\* page has been read again, it shows what the server has and its buttons know of the
\* open window; in the same way the HUD was told of every action but the crew's
\* (refetch after an action, VendorDetailView.tsx:58-64, stores/os.ts:41-44,
\* stores/consumables.ts:84-88, PvpView.tsx:103-105).  A crew dissolved from its page is
\* the exception: it stays on the screen, as it was, until a read says that it is not
\* found (CrewDetailView.tsx:110-118).
AtRest == alone /\ onPage /\ Quiet
ReadBack ==
  /\ AtRest /\ ~Dissolved /\ "page" \notin behind =>
       seen # Nothing /\ ~failed /\ seen.done = done /\ (window => seen.window)
  /\ AtRest /\ page # "crew" /\ "hud" \notin behind => asked = done
  /\ AtRest /\ Dissolved /\ "page" \notin behind =>
       failed \/ seen.done = [i \in Item |-> IF i \in Final THEN 0 ELSE done[i]]

\* It also tells how the last action ended, and never of a success that was not.
ToldTrue ==
  /\ told.ok # Nothing => done[told.ok] > 0
  /\ (AtRest /\ "page" \notin behind /\ last # Nothing) =>
       IF last.ok THEN told.error = Nothing /\ (page = "crew" \/ told.ok = last.item)
       ELSE told.error = last.item

\* Where a flag disables the buttons, a page sends one action at a time (buyLoading,
\* actionLoading); so does one that waits for its store, unless it was left and come
\* back to during a read; the consumables' and the crew's flags do not stop a second.
OneAction ==
  (onPage /\ (page \in {"vendor", "attack"} \/ (page \in Shared /\ alone))) =>
    \A c, d \in Copies :
      (Here(c) /\ Here(d) /\ calls[c].item # Nothing /\ calls[d].item # Nothing) => c = d

\* A flag is up only while what lowers it is in flight: no button stays disabled.
FlagsFall ==
  /\ acting # Nothing => \E c \in Copies : calls[c].item = acting
  /\ loading => ~Quiet

PagesHold == ReadBack /\ ToldTrue /\ OneAction /\ FlagsFall
=============================================================================
