----------------------------- MODULE ChatScreen -----------------------------
(* A chat as one tab shows it (stores/crew, CrewDetailView; stores/saideira   *)
(* is the same machine with one room, and its ChatBox the block) and the      *)
(* routes that feed it: the stream over a Redis subscription of its own, the  *)
(* history, and a post, which publishes before it pushes.  Every gap between  *)
(* a connection's two ends is a step: frames in flight, an answer read and    *)
(* not delivered, a client gone while its stream is still subscribing.        *)
EXTENDS Integers, FiniteSets, SequencesExt

CONSTANTS Room,
          Nowhere,          \* no room: the view is not mounted
          HISTORY_MAX,      \* messages kept, at the server and in the tab: 50
          OFFLINE_THRESHOLD,
          MaxConns,         \* bound: streams opened in a run
          MaxPosts,         \* bound: messages posted
          MaxMounts         \* bound: times the view is entered

VARIABLES tab,      \* the page and the module-level machinery of the store
          fetches,  \* histories asked for: the mount, the room, the answer read
          conns,    \* the server's ends of the streams, by number
          opened,   \* streams opened so far
          history,  \* room -> the Redis list, oldest first
          post,     \* the message being handled and its next command
          posted    \* messages posted so far

vars == <<tab, fetches, conns, opened, history, post, posted>>

NoStream == 0
Over == {"ended", "unheard"}
NoMessage == [id |-> 0, room |-> Nowhere]
NoPost == [stage |-> "idle", room |-> Nowhere, msg |-> NoMessage]
NoAnswer == <<NoMessage>>

Init ==
  /\ tab = [view |-> Nowhere, token |-> TRUE, stopped |-> FALSE, es |-> NoStream, timers |-> << >>,
            attempts |-> 0, status |-> "offline", messages |-> << >>, blocked |-> FALSE,
            mounts |-> 0, loaded |-> Nowhere]
  /\ fetches = {}
  /\ conns = << >>
  /\ opened = 0
  /\ history = [r \in Room |-> << >>]
  /\ post = NoPost
  /\ posted = 0

Kept(s, n) == SubSeq(s, Len(s) - n + 1, Len(s))
Newest(s) == IF Len(s) > HISTORY_MAX THEN Kept(s, HISTORY_MAX) ELSE s
Message(r) == [id |-> posted + 1, room |-> r]
-----------------------------------------------------------------------------
(* The store.  A stream is its number; the server's end has the same one.     *)

ClearReconnectTimer_Kept(t) == t
ClearReconnectTimer(t) == [t EXCEPT !.timers = << >>]

\* What connectChat(r) makes of tab t: nothing while there is a stream, and
\* without a token nothing but the flag.
Connects(t) == t.es = NoStream /\ t.token /\ opened < MaxConns
Connected(t) ==
  IF Connects(t) THEN [ClearReconnectTimer(t) EXCEPT !.stopped = FALSE, !.es = opened + 1]
  ELSE [t EXCEPT !.stopped = FALSE]
OpenFor(t, r) ==
  IF Connects(t)
  THEN /\ opened' = opened + 1
       /\ conns' = Append(conns, [room |-> r, stage |-> "asked", frames |-> << >>])
  ELSE UNCHANGED <<opened, conns>>

Mount(r) ==
  /\ tab.view = Nowhere /\ tab.mounts < MaxMounts
  /\ LET t == [tab EXCEPT !.view = r, !.mounts = @ + 1, !.loaded = Nowhere]
     IN tab' = Connected(t) /\ OpenFor(t, r)
  /\ fetches' = fetches \cup {[mount |-> tab.mounts + 1, room |-> r, answer |-> NoAnswer]}
  /\ UNCHANGED <<history, post, posted>>

\* Closes stream n: no frame of it is delivered any more, and the request's close
\* event ends the server's end, unless it comes before the handler listens to it:
\* then the subscription it goes on to make, and its ping, stay for good.
Closed(n) ==
  IF n = NoStream THEN conns
  ELSE [conns EXCEPT ![n].stage = IF @ = "open" THEN "ended" ELSE "unheard", ![n].frames = << >>]

\* The effect's cleanup: disconnectChat.
DisconnectChat ==
  /\ tab.view # Nowhere
  /\ tab' = [ClearReconnectTimer(tab) EXCEPT !.view = Nowhere, !.stopped = TRUE, !.es = NoStream,
             !.attempts = 0, !.status = "offline"]
  /\ conns' = Closed(tab.es)
  /\ UNCHANGED <<fetches, opened, history, post, posted>>

\* The session ends while the view may stay.
LoseToken == tab.token /\ tab' = [tab EXCEPT !.token = FALSE]
             /\ UNCHANGED <<fetches, conns, opened, history, post, posted>>

\* The answer's headers: they are written before the subscription.
OnOpen ==
  /\ tab.es # NoStream /\ conns[tab.es].stage = "asked"
  /\ conns' = [conns EXCEPT ![tab.es].stage = "subscribing"]
  /\ tab' = [tab EXCEPT !.attempts = 0, !.status = "connected"]
  /\ UNCHANGED <<fetches, opened, history, post, posted>>

OnMessage ==
  /\ tab.es # NoStream /\ conns[tab.es].frames # << >>
  /\ tab' = [tab EXCEPT !.messages = Newest(Append(@, Head(conns[tab.es].frames)))]
  /\ conns' = [conns EXCEPT ![tab.es].frames = Tail(@)]
  /\ UNCHANGED <<fetches, opened, history, post, posted>>

\* A refusal, a broken connection or the error event of a failed subscription.
\* What the closed stream had still to deliver is lost: no frame has an id.
OnError ==
  /\ tab.es # NoStream
  /\ LET n == tab.attempts + 1
     IN tab' = [tab EXCEPT !.attempts = n, !.es = NoStream,
                !.status = IF n >= OFFLINE_THRESHOLD THEN "offline" ELSE "reconnecting",
                !.timers = IF tab.stopped THEN @ ELSE Append(@, tab.view)]
  /\ conns' = Closed(tab.es)
  /\ UNCHANGED <<fetches, opened, history, post, posted>>

\* The back-off timer fires, for the room it was set for.
Reconnect(i) ==
  /\ i \in DOMAIN tab.timers
  /\ LET t == [tab EXCEPT !.timers = RemoveAt(@, i)]
     IN IF ~t.stopped /\ t.es = NoStream
        THEN tab' = Connected(t) /\ OpenFor(t, tab.timers[i])
        ELSE tab' = t /\ UNCHANGED <<opened, conns>>
  /\ UNCHANGED <<fetches, history, post, posted>>

\* The history answer lands, whatever room is shown by now; a failed one leaves
\* the messages alone.
FetchChatHistory(f) ==
  /\ f \in fetches /\ fetches' = fetches \ {f}
  /\ \/ UNCHANGED tab
     \/ /\ f.answer # NoAnswer
        /\ tab' = [tab EXCEPT !.messages = f.answer, !.loaded = f.room]
  /\ UNCHANGED <<conns, opened, history, post, posted>>

\* One message at a time, and none while a 429 counts down.
SendMessage(r) ==
  /\ tab.view = r /\ tab.token /\ ~tab.blocked
  /\ post.stage = "idle" /\ posted < MaxPosts
  /\ post' = [stage |-> "publish", room |-> r, msg |-> Message(r)] /\ posted' = posted + 1
  /\ UNCHANGED <<tab, fetches, conns, opened, history>>

TooFast ==
  /\ post.stage = "publish" /\ post' = NoPost
  /\ tab' = [tab EXCEPT !.blocked = TRUE]
  /\ UNCHANGED <<fetches, conns, opened, history, posted>>

ClearChatBlock ==
  /\ tab.blocked /\ tab' = [tab EXCEPT !.blocked = FALSE]
  /\ UNCHANGED <<fetches, conns, opened, history, post, posted>>
-----------------------------------------------------------------------------
(* The routes.                                                                *)

ReadHistory(f) ==
  /\ f \in fetches /\ f.answer = NoAnswer
  /\ fetches' = (fetches \ {f}) \cup {[f EXCEPT !.answer = history[f.room]]}
  /\ UNCHANGED <<tab, conns, opened, history, post, posted>>

Subscribe(n) ==
  /\ conns[n].stage = "subscribing"
  /\ conns' = [conns EXCEPT ![n].stage = "open"]
  /\ UNCHANGED <<tab, fetches, opened, history, post, posted>>

Publish ==
  /\ post.stage = "publish"
  /\ conns' = [n \in DOMAIN conns |->
       IF conns[n].stage = "open" /\ conns[n].room = post.room
       THEN [conns[n] EXCEPT !.frames = Append(@, post.msg)] ELSE conns[n]]
  /\ post' = [post EXCEPT !.stage = "push"]
  /\ UNCHANGED <<tab, fetches, opened, history, posted>>

Push ==
  /\ post.stage = "push" /\ post' = NoPost
  /\ history' = [history EXCEPT ![post.room] = Newest(Append(@, post.msg))]
  /\ UNCHANGED <<tab, fetches, conns, opened, posted>>

Next ==
  \/ \E r \in Room : Mount(r) \/ SendMessage(r)
  \/ DisconnectChat \/ LoseToken \/ OnOpen \/ OnMessage \/ OnError
  \/ \E i \in 1..Len(tab.timers) : Reconnect(i)
  \/ \E f \in fetches : FetchChatHistory(f) \/ ReadHistory(f)
  \/ \E n \in DOMAIN conns : Subscribe(n)
  \/ TooFast \/ ClearChatBlock \/ Publish \/ Push
-----------------------------------------------------------------------------
(* Properties.                                                                *)

\* However often a stream breaks, the view is left and another room entered,
\* the tab holds one stream at most, on the room it shows; one timer at most,
\* for that room and only while it has no stream; and neither once it left.
OneStream ==
  /\ \A n \in DOMAIN conns : conns[n].stage \notin Over => n = tab.es /\ conns[n].room = tab.view
  /\ Len(tab.timers) <= 1
  /\ tab.timers # << >> => tab.es = NoStream /\ tab.timers[1] = tab.view
  /\ tab.view = Nowhere => tab.status = "offline"

\* A tab that shows a room with a session, and ran out of no bound, is never
\* left without a stream and without a timer to open one.
KeepsTrying ==
  tab.view # Nowhere /\ tab.token /\ opened < MaxConns => tab.es # NoStream \/ tab.timers # << >>

\* Once this visit's history has landed, and until another visit's does, every
\* message shown is of the room shown.
ShownInRoom ==
  tab.view # Nowhere /\ tab.loaded = tab.view =>
    \A i \in DOMAIN tab.messages : tab.messages[i].room = tab.view

ChatHolds == OneStream /\ KeepsTrying /\ ShownInRoom
=============================================================================
