------------------------------- MODULE Season -------------------------------
(***************************************************************************)
(* Season: the rounds and their reset (services/round-service,             *)
(* game/round-reset, cron/round-check, routes/round), next to what moves   *)
(* the Moral of a character, its lazy decay, the cached ranking            *)
(* (routes/street-cred, lib/leaderboard-cache) and the drink of a legend   *)
(* (routes/saideira).                                                      *)
(*                                                                         *)
(* One character and its wallet stand for all of them: the statements of a *)
(* reset treat every row alike.  The rest of a trampo and of a fight is in *)
(* modules GigLoop and Pvp.                                                *)
(***************************************************************************)
EXTENDS ReadCommitted, Integers, FiniteSetsExt

CONSTANTS Proc,
          Thresholds,  \* STREET_CRED_THRESHOLDS, the scores
          Grace,       \* DECAY_GRACE_DAYS
          Rate,        \* DECAY_RATE_PER_DAY
          Top,         \* the Moral of a legend
          GigMoral,    \* Moral a successful trampo gives
          Payout,      \* and its Grana
          MaxRounds, MaxDay, MaxLost   \* bounds; lost connections

ASSUME SeasonAssumption ==
  /\ NoProc \notin Proc /\ IsFiniteSet(Proc)
  /\ NoRow \notin {"active", "ended"}
  /\ Thresholds \subseteq 0 .. Top /\ {0, Top} \subseteq Thresholds
  /\ {Grace, Rate, Top, GigMoral, Payout, MaxRounds, MaxDay, MaxLost} \subseteq Nat
  /\ Top > 0 /\ MaxRounds > 0

VARIABLES day, age,    \* the clock; round -> intermission, running or over
          legends,     \* rows of the character, without and with a drink
          stats,       \* rows of round_stats
          board,       \* leaderboard:top50, the character's score
          pc, req,     \* request -> its next statement, what it is
          chr, wal,    \* request -> the character and the wallet it read
          reset,       \* request -> what a reset keeps until it commits
          hist, lost

local == <<pc, req, chr, wal, reset>>
shared == <<legends, stats, board>>
vars == <<rcVars, day, age, shared, local, hist, lost>>

Rounds == 1 .. MaxRounds
R(n) == <<"round", n>>
Me == <<"character", 0>>
Wallet == <<"wallet", 0>>
Active == <<"idx_rounds_active", 0>>  \* the unique index on status = 'active'
None == -1

Resets == {"cron", "admin"}
Kinds == Resets \cup {"gig", "botched", "won", "lost", "readout", "ranking", "drink"}
Played == {"gig", "botched", "won", "lost"}
NoReset == [stats |-> 0, seen |-> 0, closed |-> 0, inducted |-> FALSE, top |-> FALSE]

Init ==
  /\ RcInit([r \in {R(n) : n \in Rounds} \cup {Me, Wallet, Active} |->
       CASE r = Me -> [sc |-> 0, max |-> 0, at |-> 0]
         [] r = Wallet -> [balance |-> 0, version |-> 0]
         [] r = Active -> 1
         [] r = R(1) -> "active"
         [] OTHER -> NoRow])
  /\ day = 0 /\ age = [n \in Rounds |-> "intermission"]
  /\ legends = [unnamed |-> 0, named |-> 0]
  /\ stats = {}
  /\ board = None
  /\ pc = [p \in Proc |-> "idle"] /\ req = [p \in Proc |-> "none"]
  /\ chr = [p \in Proc |-> NoRow] /\ wal = [p \in Proc |-> NoRow]
  /\ reset = [p \in Proc |-> NoReset]
  /\ hist = [paid |-> 0,            \* Grana paid since the last reset
             base |-> 0,            \* Moral after the last trampo, fight or reset
             tops |-> {},           \* rounds in which the character had Top
             zeroed |-> {},         \* and those whose reset took it away
             early |-> {},          \* rounds the cron ended before their time
             outdated |-> FALSE,    \* what invalidates nothing was committed
                                    \* since the ranking was cached
             alone |-> TRUE]        \* no two requests have overlapped
  /\ lost = 0

Goto(p, l) == pc' = [pc EXCEPT ![p] = l]
Forget(p) ==
  /\ Goto(p, "idle")
  /\ req' = [req EXCEPT ![p] = "none"]
  /\ chr' = [chr EXCEPT ![p] = NoRow] /\ wal' = [wal EXCEPT ![p] = NoRow]
  /\ reset' = [reset EXCEPT ![p] = NoReset]
Reject(p) == Forget(p) /\ Rollback(p) /\ UNCHANGED <<day, age, shared, hist>>

Latest == Max({n \in Rounds : db[R(n)] # NoRow})
Open(kinds) == {p \in Proc : req[p] \in kinds}

\* Bound: every reset under way has a round to open.
Room == Latest + Cardinality({p \in Open(Resets) : pc[p] # "check"}) < MaxRounds

NobodyElse(p) == \A q \in Proc \ {p} : pc[q] = "idle"

\* The cron runs one check after the other.
Start(p) ==
  /\ pc[p] = "idle"
  /\ \E kind \in Kinds :
       /\ kind = "cron" => Open({"cron"}) = {}
       /\ kind = "admin" => Room
       /\ req' = [req EXCEPT ![p] = kind]
       /\ Goto(p, CASE kind = "cron" -> "check"
                    [] kind = "admin" -> "active"
                    [] kind \in {"won", "lost"} -> "fight"
                    [] kind = "ranking" -> "cached"
                    [] kind = "drink" -> "name"
                    [] OTHER -> "read")
  /\ hist' = [hist EXCEPT !.alone = @ /\ NobodyElse(p)]
  /\ UNCHANGED <<rcVars, day, age, shared, chr, wal, reset, lost>>

Proceed(p, at, next) == pc[p] = at /\ Goto(p, next) /\ UNCHANGED <<req, day, age, shared, hist, lost>>
-----------------------------------------------------------------------------
\* The ladder of Moral (street cred) and its decay, game/street-cred.

\* getThresholdFloor: the highest threshold reached, the first one below it.
getThresholdFloor(maxAchieved) ==
  Max({t \in Thresholds : t <= maxAchieved} \cup {Min(Thresholds)})

\* getNextThreshold: the set of it, empty at the top.
getNextThreshold(score) ==
  LET above == {t \in Thresholds : t > score} IN IF above = {} THEN {} ELSE {Min(above)}

\* calculateDecay: the score that is left after so many days of inactivity (a
\* negative number of days is a clock that is behind).
calculateDecay(days, score, maxAchieved) ==
  LET rawDecay == Max({0, days - Grace}) * Rate
      floor == getThresholdFloor(maxAchieved)
  IN IF score <= floor THEN score ELSE Max({floor, score - rawDecay})
-----------------------------------------------------------------------------
\* A trampo's wrap-up: findById, ensure, the payout's compare-and-swap if it
\* was not botched, and the Moral it computed from what it read.

\* The unlocked reads of the character, by wrap-ups and readouts.
Read(p) ==
  /\ Proceed(p, "read", IF req[p] = "readout" THEN "writeback" ELSE "wallet")
  /\ chr' = [chr EXCEPT ![p] = Sees(p, Me)]
  /\ UNCHANGED <<rcVars, wal, reset>>

ReadWallet(p) ==
  /\ Proceed(p, "wallet", IF req[p] = "gig" THEN "pay" ELSE "score")
  /\ wal' = [wal EXCEPT ![p] = Sees(p, Wallet)]
  /\ UNCHANGED <<rcVars, chr, reset>>

Pay(p) ==
  /\ pc[p] = "pay" /\ CanLock(p, Wallet)
  /\ IF Sees(p, Wallet).version # wal[p].version
     THEN Reject(p) /\ UNCHANGED lost
     ELSE /\ Proceed(p, "pay", "score")
          /\ Put(p, Wallet, [balance |-> wal[p].balance + Payout, version |-> wal[p].version + 1])
          /\ UNCHANGED <<chr, wal, reset>>

Raised(c, by) ==
  LET sc == Min({Top, c.sc + by}) IN [c EXCEPT !.sc = sc, !.max = Max({c.max, sc})]

\* updateStreetCredAndActivity.
Score(p) ==
  LET read == Raised(chr[p], IF req[p] = "gig" THEN GigMoral ELSE 0) IN
  /\ CanLock(p, Me)
  /\ Proceed(p, "score", "commit")
  /\ Put(p, Me, [sc |-> read.sc, max |-> Max({Sees(p, Me).max, read.sc}), at |-> day])
  /\ UNCHANGED <<chr, wal, reset>>

\* A fight holds the row from its FOR UPDATE on; it leaves the activity alone.
Defeated_Unfloored(c) == [c EXCEPT !.sc = @ - 1]
Defeated(c) == [c EXCEPT !.sc = Max({0, @ - 1})]
Fight(p) ==
  /\ CanLock(p, Me)
  /\ Proceed(p, "fight", "commit")
  /\ Put(p, Me, IF req[p] = "won" THEN Raised(Sees(p, Me), 1) ELSE Defeated(Sees(p, Me)))
  /\ chr' = [chr EXCEPT ![p] = Sees(p, Me)]
  /\ UNCHANGED <<wal, reset>>

\* A fight always invalidates the ranking, a wrap-up when its Moral grew.
Invalidates(p) == req[p] \in {"won", "lost"} \/ pend[Me].sc > chr[p].sc

CommitPlay(p) ==
  /\ pc[p] = "commit" /\ req[p] \in Played
  /\ Commit(p)
  /\ hist' = [hist EXCEPT !.paid = IF req[p] = "gig" THEN @ + Payout ELSE @,
                          !.base = pend[Me].sc,
                          !.tops = IF pend[Me].sc = Top THEN @ \cup {Latest} ELSE @,
                          !.outdated = @ \/ (req[p] \in {"gig", "botched"} /\ pend[Me].sc <= chr[p].sc)]
  /\ IF Invalidates(p)
     THEN Goto(p, "invalidate") /\ UNCHANGED <<req, chr, wal, reset>>
     ELSE Forget(p)
  /\ UNCHANGED <<day, age, shared, lost>>

\* invalidateLeaderboardCache, after the commit; a Redis error is swallowed.
InvalidateLeaderboardCache(p) ==
  /\ pc[p] = "invalidate"
  /\ board' = None /\ hist' = [hist EXCEPT !.outdated = FALSE]
  /\ Forget(p)
  /\ UNCHANGED <<rcVars, day, age, legends, stats, lost>>
-----------------------------------------------------------------------------
\* Reading the Moral.

Effective(c) == calculateDecay(day - c.at, c.sc, c.max)

\* GET /street-cred: the decayed score is written back on its own.
WriteBack(p) ==
  /\ pc[p] = "writeback"
  /\ IF Effective(chr[p]) < chr[p].sc
     THEN WriteNow(p, Me, [Sees(p, Me) EXCEPT !.sc = Effective(chr[p])])
     ELSE UNCHANGED rcVars
  /\ Forget(p)
  /\ UNCHANGED <<day, age, shared, hist, lost>>

\* GET /street-cred/leaderboard.
GetBoard(p) ==
  /\ pc[p] = "cached"
  /\ IF board # None THEN Forget(p) ELSE Goto(p, "rank") /\ UNCHANGED <<req, chr, wal, reset>>
  /\ UNCHANGED <<rcVars, day, age, shared, hist, lost>>
ListLeaderboardRows(p) ==
  /\ Proceed(p, "rank", "cache")
  /\ chr' = [chr EXCEPT ![p] = Sees(p, Me)]
  /\ UNCHANGED <<rcVars, wal, reset>>
SetBoard(p) ==
  /\ pc[p] = "cache"
  /\ board' = Effective(chr[p]) /\ hist' = [hist EXCEPT !.outdated = FALSE]
  /\ Forget(p)
  /\ UNCHANGED <<rcVars, day, age, legends, stats, lost>>
ExpireBoard ==
  /\ board # None /\ board' = None /\ hist' = [hist EXCEPT !.outdated = FALSE]
  /\ UNCHANGED <<rcVars, day, age, legends, stats, local, lost>>

\* POST /legends/name-drink: every row of the name that has no drink yet.
NameDrink(p) ==
  /\ pc[p] = "name"
  /\ legends' = [unnamed |-> 0, named |-> legends.named + legends.unnamed]
  /\ Forget(p)
  /\ UNCHANGED <<rcVars, day, age, stats, board, hist, lost>>
-----------------------------------------------------------------------------
\* The reset.

ActiveRounds(p) == {n \in Rounds : Sees(p, R(n)) = "active"}
AnyActive(p) == Min(ActiveRounds(p))

\* checkAndReset.
Over_Started(n) == age[n] # "intermission"
Over_Swapped(n) == age[n] # "over"
Over(n) == age[n] = "over"
CheckRound(p) ==
  /\ pc[p] = "check"
  /\ IF \E n \in ActiveRounds(p) : Over(n)
     THEN Room /\ Proceed(p, "check", "active") /\ UNCHANGED <<rcVars, chr, wal, reset>>
     ELSE Reject(p) /\ UNCHANGED lost

\* performRoundReset: findActive.
FindActive(p) ==
  /\ IF ActiveRounds(p) = {} THEN pc[p] = "active" /\ Reject(p) /\ UNCHANGED lost
     ELSE Proceed(p, "active", "stats") /\ UNCHANGED <<rcVars, chr, wal, reset>>

\* insert_round_stats, for the active round it sees.
InsertRoundStats(p) ==
  /\ Proceed(p, "stats", "end")
  /\ reset' = [reset EXCEPT ![p].stats = AnyActive(p)]
  /\ UNCHANGED <<rcVars, chr, wal>>

\* end_current_round: the statement sees an active round, waits for its row
\* and leaves it alone if it is no longer active.
SeeActive(p) ==
  /\ Proceed(p, "end", "close")
  /\ reset' = [reset EXCEPT ![p].seen = AnyActive(p)]
  /\ UNCHANGED <<rcVars, chr, wal>>
EndCurrentRound(p) ==
  LET n == reset[p].seen IN
  /\ Proceed(p, "close", "legends")
  /\ CanLock(p, R(n))
  /\ IF Sees(p, R(n)) = "active"
     THEN /\ PutAll(p, [r \in {R(n), Active} |-> IF r = Active THEN None ELSE "ended"])
          /\ reset' = [reset EXCEPT ![p].closed = n]
     ELSE UNCHANGED <<rcVars, reset>>
  /\ UNCHANGED <<chr, wal>>

\* inductLegends.
Candidate(c) == c.sc = Top
InductLegends(p) ==
  /\ Proceed(p, "legends", "detach")
  /\ reset' = [reset EXCEPT ![p].inducted = Candidate(Sees(p, Me))]
  /\ UNCHANGED <<rcVars, chr, wal>>

\* detach_crew_membership updates every character.
DetachCrews(p) ==
  /\ CanLock(p, Me)
  /\ Proceed(p, "detach", "zero")
  /\ ForUpdate(p, Me)
  /\ UNCHANGED <<chr, wal, reset>>

Zeroed_SameVersion(w) == [w EXCEPT !.balance = 0]
Zeroed(w) == [balance |-> 0, version |-> w.version + 1]
ZeroWallets(p) ==
  /\ CanLock(p, Wallet)
  /\ Proceed(p, "zero", "base")
  /\ Put(p, Wallet, Zeroed(Sees(p, Wallet)))
  /\ UNCHANGED <<chr, wal, reset>>

\* reset_characters; the lifetime maximum persists.
ResetCharacters(p) ==
  /\ Proceed(p, "base", "open")
  /\ Put(p, Me, [Sees(p, Me) EXCEPT !.sc = 0, !.at = day])
  /\ reset' = [reset EXCEPT ![p].top = Sees(p, Me).sc = Top]
  /\ UNCHANGED <<chr, wal>>

\* start_next_round; a second active round violates idx_rounds_active.
IndexFree_Unchecked(p) == TRUE
IndexFree(p) == Sees(p, Active) = None
StartNextRound(p) ==
  LET n == 1 + Max({m \in Rounds : Sees(p, R(m)) # NoRow}) IN
  /\ pc[p] = "open" /\ CanLock(p, Active)
  /\ IF ~IndexFree(p) THEN Reject(p) /\ UNCHANGED lost
     ELSE /\ Proceed(p, "open", "commit")
          /\ PutAll(p, [r \in {R(n), Active} |-> IF r = Active THEN n ELSE "active"])
          /\ UNCHANGED <<chr, wal, reset>>

CommitReset(p) ==
  LET n == reset[p].closed IN
  /\ pc[p] = "commit" /\ req[p] \in Resets
  /\ Commit(p)
  /\ stats' = stats \cup {[id |-> Cardinality(stats) + 1, round |-> reset[p].stats]}
  /\ legends' = [legends EXCEPT !.unnamed = IF reset[p].inducted THEN @ + 1 ELSE @]
  /\ hist' = [hist EXCEPT !.paid = 0, !.base = 0,
                          !.zeroed = IF reset[p].top THEN @ \cup {n} ELSE @,
                          !.early = IF req[p] = "cron" /\ (n = 0 \/ age[n] # "over") THEN @ \cup {n} ELSE @,
                          !.outdated = TRUE]
  /\ Forget(p)
  /\ UNCHANGED <<day, age, board, lost>>
-----------------------------------------------------------------------------
\* The intermission and the round pass; the last round of the bound never ends.
AgeRound(n) ==
  /\ db[R(n)] = "active"
  /\ \/ age[n] = "intermission" /\ age' = [age EXCEPT ![n] = "running"]
     \/ age[n] = "running" /\ n < MaxRounds /\ age' = [age EXCEPT ![n] = "over"]
  /\ UNCHANGED <<rcVars, day, shared, local, hist, lost>>
NextDay == day < MaxDay /\ day' = day + 1 /\ UNCHANGED <<rcVars, age, shared, local, hist, lost>>

\* The server throws, or loses its connection to PostgreSQL or Redis.
Lost(p) ==
  /\ pc[p] # "idle" /\ lost < MaxLost /\ lost' = lost + 1
  /\ Forget(p) /\ Rollback(p)
  /\ hist' = [hist EXCEPT !.outdated = @ \/ pc[p] = "invalidate"]
  /\ UNCHANGED <<day, age, shared>>

\* A reset locks the characters before the wallets, a wrap-up the reverse.
Needs(p) == CASE pc[p] \in {"score", "fight", "detach"} -> {Me}
              [] pc[p] \in {"pay", "zero"} -> {Wallet}
              [] OTHER -> {}
DetectDeadlock(p) ==
  /\ \E q \in Proc : \E r \in Needs(p), s \in Needs(q) : WaitsFor(p, q, r) /\ WaitsFor(q, p, s)
  /\ Reject(p) /\ UNCHANGED lost

Step(p) ==
  \/ Read(p) \/ ReadWallet(p) \/ Pay(p) \/ Score(p) \/ Fight(p) \/ CommitPlay(p)
  \/ InvalidateLeaderboardCache(p) \/ WriteBack(p) \/ GetBoard(p) \/ ListLeaderboardRows(p)
  \/ SetBoard(p) \/ NameDrink(p)
  \/ CheckRound(p) \/ FindActive(p) \/ InsertRoundStats(p) \/ SeeActive(p) \/ EndCurrentRound(p)
  \/ InductLegends(p) \/ DetachCrews(p) \/ ZeroWallets(p) \/ ResetCharacters(p)
  \/ StartNextRound(p) \/ CommitReset(p) \/ DetectDeadlock(p)

Next ==
  \/ \E p \in Proc : Start(p) \/ Step(p) \/ Lost(p)
  \/ \E n \in Rounds : AgeRound(n)
  \/ NextDay \/ ExpireBoard

Spec == Init /\ [][Next]_vars
-----------------------------------------------------------------------------
\* Every value has its type, and the Moral never leaves its range.
TypeOK ==
  /\ \A n \in Rounds : db[R(n)] \in {NoRow, "active", "ended"}
  /\ \A c \in {db[Me], pend[Me]} : c.sc \in 0 .. Top /\ c.max \in 0 .. Top /\ c.at \in 0 .. day
  /\ db[Wallet].balance \in Nat /\ db[Wallet].version \in Nat /\ db[Active] \in Rounds
  /\ owner \in [DOMAIN db -> Proc \cup {NoProc}] /\ PendingIsOwned
  /\ age \in [Rounds -> {"intermission", "running", "over"}]
  /\ board \in {None} \cup 0 .. Top
  /\ req \in [Proc -> Kinds \cup {"none"}]

\* The rounds are numbered in order without a gap and all but the last one
\* have ended, however many resets run at once; and every reset that ended one
\* left one row of statistics.
RoundsInOrder ==
  /\ \A n \in Rounds : db[R(n)] = IF n < Latest THEN "ended" ELSE IF n = Latest THEN "active" ELSE NoRow
  /\ db[Active] = Latest
  /\ Cardinality(stats) = Latest - 1

\* A round begins with empty wallets: no payment computed before a reset is
\* credited after it, and none made after it is lost.
WalletsStartOver == db[Wallet].balance = hist.paid

\* A character enters the legends at most once for a round in which it had the
\* Moral of a legend, however many resets induct at once.
LegendsOnce == legends.unnamed + legends.named <= Cardinality(hist.tops)

\* What overlapping resets may not confuse.
RoundsHold == RoundsInOrder /\ LegendsOnce

\* Every round has its own statistics, the cron ends no round before its time,
\* and no legend is reset before it is inducted.
HistoryComplete ==
  /\ \A n \in Rounds : Cardinality({s \in stats : s.round = n}) = IF n < Latest THEN 1 ELSE 0
  /\ hist.early = {}
  /\ legends.unnamed + legends.named = Cardinality(hist.zeroed)

\* The ranking shows what every finished trampo and fight made of the Moral,
\* but for what does not invalidate it: a reset, a trampo without Moral, and
\* one whose DEL was lost.
BoardFresh ==
  board # None /\ ~hist.outdated /\ Open(Played) = {} =>
    board >= Effective(db[Me]) /\ board <= hist.base

\* While no two requests have overlapped, the records of the rounds and the
\* ranking are right.
SoloRecords == hist.alone => HistoryComplete /\ BoardFresh

\* A round that is over is ended.
RoundsEnd == \A n \in Rounds : age[n] = "over" ~> db[R(n)] = "ended"
=============================================================================
