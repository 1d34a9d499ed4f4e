-------------------------------- MODULE Board --------------------------------
(***************************************************************************)
(* The two countdowns of the client that the server also keeps: the rest   *)
(* of a trampo on its card of the board, and the time to the next point of *)
(* NIL in the dashboard.                                                   *)
(*                                                                         *)
(* Each is a number of the last answer, counted down every second by a     *)
(* timer of the component, and is set again by an effect that React runs   *)
(* when the number of the answer is another one than the time before.      *)
(*                                                                         *)
(* One tab; a trampo runs from its acceptance to its wrap-up, and both     *)
(* clocks beat together.  The board is fetched once at a time (GigScreen   *)
(* has the answers that overtake each other).                              *)
(***************************************************************************)
EXTENDS Integers, FiniteSets

CONSTANTS Trampo,
          Cooldown,  \* trampo -> seconds it rests
          Floor,     \* GIG_COOLDOWN_MINUTES, in seconds
          NoTrampo,
          MaxNow,    \* bound: the clock
          Interval   \* seconds between two points of NIL

VARIABLES now, done, active,       \* the server: clock, last completions, active trampo
          board,                   \* the store's board
          cards,                   \* trampo -> the card's effect and its countdown
          filter, page,            \* the trampos filtered in, and the page open
          fetch,                   \* the fetch of the board under way
          asof,                    \* history: when a card's number was computed
          elapsed, nil,            \* the server's regeneration, and the widget's countdown
          nilFetch

boardVars == <<now, done, active, board, cards, filter, page, fetch, asof>>
nilVars == <<elapsed, nil, nilFetch>>

Never == -1
Unmounted == [seen |-> Never, left |-> 0]
NotFetched == [loaded |-> FALSE, rest |-> [t \in Trampo |-> 0], active |-> NoTrampo, at |-> 0]
Idle == [state |-> "idle", board |-> NotFetched]
Larger(a, b) == IF a > b THEN a ELSE b
-----------------------------------------------------------------------------
\* The server.

Seconds(t) == Larger(Cooldown[t], Floor)
isCooldownExpired(t) == done[t] = Never \/ now - done[t] >= Seconds(t)
cooldownRemainingFor(t) == IF isCooldownExpired(t) THEN 0 ELSE done[t] + Seconds(t) - now

listAvailableGigs == [loaded |-> TRUE, rest |-> [t \in Trampo |-> cooldownRemainingFor(t)], active |-> active, at |-> now]
-----------------------------------------------------------------------------
\* The cards.

Listed(shown, filtered) == {t \in Trampo : shown.loaded /\ page' = "board" /\ t \in filtered}
\* The effect of a card runs at its mount and whenever the number changes.
Effect(card, rest) == IF card.seen = rest THEN card ELSE [seen |-> rest, left |-> rest]
Rendered(shown, filtered) ==
  [t \in Trampo |-> IF t \in Listed(shown, filtered) THEN Effect(cards[t], shown.rest[t]) ELSE Unmounted]
Render ==
  /\ cards' = Rendered(board', filter')
  /\ asof' = [t \in Trampo |-> IF cards'[t] # cards[t] THEN board'.at ELSE asof[t]]

mounted(t) == cards[t].seen # Never
onCooldown(t) == cards[t].left > 0
CanAccept(t) == mounted(t) /\ ~onCooldown(t) /\ board.active = NoTrampo

BoardInit ==
  /\ now = 0 /\ done = [t \in Trampo |-> Never] /\ active = NoTrampo
  /\ board = NotFetched /\ cards = [t \in Trampo |-> Unmounted]
  /\ filter = Trampo /\ page = "board"
  /\ fetch = [Idle EXCEPT !.state = "sent"]
  /\ asof = [t \in Trampo |-> 0]

\* A second passes: every running timer counts, those at zero stay there.
Count(card) == [card EXCEPT !.left = IF @ > 0 THEN @ - 1 ELSE 0]
Tick ==
  /\ now < MaxNow
  /\ now' = now + 1
  /\ cards' = [t \in Trampo |-> Count(cards[t])]
  /\ UNCHANGED <<done, active, board, filter, page, fetch, asof>>

Fetch == fetch' = [Idle EXCEPT !.state = "sent"]
ReadBoard ==
  /\ fetch.state = "sent"
  /\ fetch' = [state |-> "read", board |-> listAvailableGigs]
  /\ UNCHANGED <<now, done, active, board, cards, filter, page, asof>>
FetchBoard ==
  /\ fetch.state = "read"
  /\ board' = fetch.board /\ fetch' = Idle
  /\ UNCHANGED <<now, done, active, filter, page>>
  /\ Render
\* The error is shown only while there is no board.
FetchFails ==
  /\ fetch.state # "idle"
  /\ fetch' = Idle
  /\ UNCHANGED <<now, done, active, board, cards, filter, page, asof>>
Retry ==
  /\ fetch = Idle /\ page = "board" /\ ~board.loaded
  /\ Fetch
  /\ UNCHANGED <<now, done, active, board, cards, filter, page, asof>>

\* The filters unmount what they leave out; a card mounted again starts from the
\* number of the store's board, however old it is.
SetFilter ==
  /\ page = "board" /\ board.loaded
  /\ filter' \in SUBSET Trampo /\ filter' # filter
  /\ UNCHANGED <<now, done, active, board, page, fetch>>
  /\ Render
Navigate ==
  /\ fetch = Idle
  /\ page' \in {"board", "dashboard"} \ {page}
  /\ filter' = Trampo
  /\ IF page' = "board" THEN Fetch ELSE UNCHANGED fetch
  /\ UNCHANGED <<now, done, active, board>>
  /\ Render

\* The server refuses what still rests; the error leaves the board as it is.
AcceptGig(t) ==
  /\ page = "board" /\ CanAccept(t)
  /\ IF active = NoTrampo /\ isCooldownExpired(t)
     THEN active' = t /\ board' = [board EXCEPT !.active = t]
     ELSE UNCHANGED <<active, board>>
  /\ UNCHANGED <<now, done, cards, filter, page, fetch, asof>>
\* From the panel of the active trampo, above the cards.
WrapUpGig ==
  /\ active # NoTrampo /\ fetch = Idle /\ page = "board"
  /\ done' = [done EXCEPT ![active] = now] /\ active' = NoTrampo
  /\ board' = [board EXCEPT !.active = NoTrampo]
  /\ Fetch
  /\ UNCHANGED <<now, cards, filter, page, asof>>

BoardNext ==
  \/ Tick \/ ReadBoard \/ FetchBoard \/ FetchFails \/ Retry \/ SetFilter \/ Navigate \/ WrapUpGig
  \/ \E t \in Trampo : AcceptGig(t)
-----------------------------------------------------------------------------
\* The widget of NIL.  The regeneration goes on for ever below the maximum, so its
\* clock is the seconds since the last point.

nextTickSeconds == Interval - elapsed
Resynced(next) == IF next = nil.seen THEN nil ELSE [seen |-> next, left |-> next]

\* Mounted before the first status.
NilInit ==
  /\ elapsed \in 0 .. Interval - 1
  /\ nil = [seen |-> 0, left |-> 0] /\ nilFetch = "sent"
\* A countdown that comes to zero asks for the status again.
NilTick ==
  /\ elapsed' = (elapsed + 1) % Interval
  /\ nil' = Count(nil)
  /\ nilFetch' = IF nil.left = 1 THEN "sent" ELSE nilFetch
\* The status is drawn from the server and shown.
FetchNil ==
  /\ nilFetch = "sent"
  /\ nil' = Resynced(nextTickSeconds) /\ nilFetch' = "idle"
  /\ UNCHANGED elapsed
NilNext == NilTick \/ FetchNil
-----------------------------------------------------------------------------
\* A card knows of every completion up to the moment its number was computed: from
\* then on it never says that the trampo is ready before the server does.
CardsHonest ==
  \A t \in Trampo : mounted(t) /\ done[t] < asof[t] => cards[t].left >= cooldownRemainingFor(t)

\* The countdown to the next point of NIL, as long as it runs, is the server's or late
\* by the time the answer took.
NilOnTime == nil.left > 0 => nil.left >= nextTickSeconds
=============================================================================
