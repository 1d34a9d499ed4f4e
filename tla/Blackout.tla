------------------------------- MODULE Blackout -------------------------------
(* The blackout between two rounds, as the client announces it                  *)
(* (RoundResetOverlay): a poll a minute of the current round and, in an         *)
(* intermission, of the statistics of the round that ended; the overlay over    *)
(* the whole screen until it is dismissed or the next round starts.             *)
(*                                                                              *)
(* Polls may overlap, be answered late, or fail.  The round of an intermission  *)
(* is the one about to start: it is its number that is announced and dismissed. *)
EXTENDS Integers, FiniteSets

CONSTANTS Copies,     \* polls in flight at most
          MaxMoves,   \* bound: rounds ended and started
          MaxPolls    \* bound: polls and effects

VARIABLES current,    \* the open round on the server: its number, and whether it has started
          signedIn,
          round, stats, dismissed,   \* what the overlay holds; dismissed outlives a reload
          polls,      \* copy -> the poll in flight
          moves, polled,
          asof,       \* moves when the round held was read
          calm        \* polls were alone, and none failed, since the page was loaded

vars == <<current, signedIn, round, stats, dismissed, polls, moves, polled, asof, calm>>
held == <<round, stats, asof>>

NoRound == [number |-> 0, status |-> "none"]
NoStats == 0
NoPoll == [stage |-> "none", round |-> NoRound, stats |-> NoStats, asof |-> 0]
Asked == [NoPoll EXCEPT !.stage = "sent"]
NoPolls == [c \in Copies |-> NoPoll]

Init ==
  /\ current \in [number : {1}, status : {"active"}] /\ signedIn = FALSE
  /\ round = NoRound /\ stats = NoStats /\ dismissed = 0 /\ polls = NoPolls
  /\ moves = 0 /\ polled = 0 /\ asof = 0 /\ calm = TRUE
-----------------------------------------------------------------------------
(* The server.                                                                 *)

\* The reset opens the next round, which starts at the end of the intermission.
EndRound ==
  /\ current.status = "active" /\ moves < MaxMoves /\ moves' = moves + 1
  /\ current' = [number |-> current.number + 1, status |-> "intermission"]
  /\ UNCHANGED <<signedIn, round, stats, dismissed, polls, polled, asof, calm>>

StartRound ==
  /\ current.status = "intermission" /\ moves < MaxMoves /\ moves' = moves + 1
  /\ current' = [current EXCEPT !.status = "active"]
  /\ UNCHANGED <<signedIn, round, stats, dismissed, polls, polled, asof, calm>>

GetCurrentRound(c) ==
  /\ polls[c].stage = "sent"
  /\ polls' = [polls EXCEPT ![c] = [@ EXCEPT !.stage = "answered", !.round = current, !.asof = moves]]
  /\ UNCHANGED <<current, signedIn, held, dismissed, moves, polled, calm>>

\* The last round that ended.
LastEnded == current.number - 1
GetRoundHistory(c) ==
  /\ polls[c].stage = "history"
  /\ polls' = [polls EXCEPT ![c] = [@ EXCEPT !.stage = "counted", !.stats = LastEnded]]
  /\ UNCHANGED <<current, signedIn, held, dismissed, moves, polled, calm>>
-----------------------------------------------------------------------------
(* The effect.                                                                 *)

Free(c) == polls[c] = NoPoll
InFlight == {c \in Copies : ~Free(c)}

\* The interval does not wait for the poll before it.
Poll(c) ==
  /\ signedIn /\ Free(c) /\ polled < MaxPolls /\ polled' = polled + 1
  /\ polls' = [polls EXCEPT ![c] = Asked]
  /\ calm' = (calm /\ InFlight = {})
  /\ UNCHANGED <<current, signedIn, held, dismissed, moves>>

\* The token changes: polls under way are cancelled and one is sent at once.
NewToken ==
  /\ polled < MaxPolls /\ polled' = polled + 1
  /\ signedIn' = TRUE
  /\ \E c \in Copies : polls' = [NoPolls EXCEPT ![c] = Asked]
  /\ UNCHANGED <<current, held, dismissed, moves, calm>>

\* The session ends; the overlay, outside of every route, keeps what it holds.
Cancel ==
  /\ signedIn /\ signedIn' = FALSE /\ polls' = NoPolls
  /\ UNCHANGED <<current, held, dismissed, moves, polled, calm>>

Reload ==
  /\ polled < MaxPolls /\ polled' = polled + 1
  /\ round' = NoRound /\ stats' = NoStats /\ asof' = 0 /\ calm' = TRUE
  /\ \E c \in Copies : polls' = IF signedIn THEN [NoPolls EXCEPT ![c] = Asked] ELSE NoPolls
  /\ UNCHANGED <<current, signedIn, dismissed, moves>>

\* The round lands; only an intermission goes on to ask for its statistics.
SetRound(c) ==
  /\ polls[c].stage = "answered"
  /\ round' = polls[c].round /\ asof' = polls[c].asof
  /\ IF polls[c].round.status = "intermission"
     THEN polls' = [polls EXCEPT ![c].stage = "history"] /\ UNCHANGED stats
     ELSE polls' = [polls EXCEPT ![c] = NoPoll] /\ stats' = NoStats
  /\ UNCHANGED <<current, signedIn, dismissed, moves, polled, calm>>

SetStats(c) ==
  /\ polls[c].stage = "counted" /\ stats' = polls[c].stats
  /\ polls' = [polls EXCEPT ![c] = NoPoll]
  /\ UNCHANGED <<current, signedIn, round, asof, dismissed, moves, polled, calm>>

\* Either request fails: what was held stays.
PollFails(c) ==
  /\ ~Free(c) /\ polls' = [polls EXCEPT ![c] = NoPoll] /\ calm' = FALSE
  /\ UNCHANGED <<current, signedIn, held, dismissed, moves, polled>>

Visible == round.status = "intermission" /\ round.number # dismissed

Dismiss ==
  /\ Visible /\ dismissed' = round.number
  /\ UNCHANGED <<current, signedIn, held, polls, moves, polled, calm>>

Next ==
  \/ EndRound \/ StartRound \/ NewToken \/ Cancel \/ Reload \/ Dismiss
  \/ \E c \in Copies : Poll(c) \/ GetCurrentRound(c) \/ GetRoundHistory(c) \/ SetRound(c) \/ SetStats(c) \/ PollFails(c)
-----------------------------------------------------------------------------
\* However the answers come, the overlay never covers the screen for a round that
\* had not ended, and shows the statistics of none that had not.
NeverEarly ==
  Visible => /\ round.number <= current.number
             /\ stats # NoStats => stats < current.number

\* Polls that are alone and answered: when one has landed and no round has moved
\* since, the overlay is there exactly in an intermission that was not dismissed,
\* and its statistics are those of the round that ended.
UpToDate ==
  calm /\ signedIn /\ InFlight = {} /\ round # NoRound /\ asof = moves =>
    /\ Visible <=> current.status = "intermission" /\ current.number # dismissed
    /\ Visible => stats = LastEnded

\* A blackout dismissed does not come back, with polls one at a time.
DismissedOnce == calm /\ Visible => round.number > dismissed

BlackoutHolds == NeverEarly /\ UpToDate /\ DismissedOnce
=============================================================================
