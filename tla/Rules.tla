------------------------------- MODULE Rules --------------------------------
(***************************************************************************)
(* The arithmetic of the game: trampo chances, pay and heat, fights,       *)
(* humanity, prices, loot and the ladder of Moral with the browser's copy  *)
(* of it; the report of a round; and what a failure is told as.            *)
(*                                                                         *)
(* The code computes in doubles, this module in integers: a chance in      *)
(* parts of UNIT rounded down, multipliers as quotients.  A probe is one   *)
(* set of arguments; each rule below relates several calls on it.          *)
(***************************************************************************)
EXTENDS Integers, Sequences, FiniteSets, FiniteSetsExt, SequencesExt

VARIABLE probe

UNIT == 1000
Floor(x) == IF x < 0 THEN 0 ELSE x
Abs(x) == IF x < 0 THEN -x ELSE x
CeilDiv(n, d) == (n + d - 1) \div d
RoundDiv(n, d) == (2 * n + d) \div (2 * d)
-----------------------------------------------------------------------------
\* game/gigs.

SUCCESS_CAP == 950
SUCCESS_FLOOR == 50
STAT_SCALING == 5
Clamp(raw) == Min({SUCCESS_CAP, Max({SUCCESS_FLOOR, raw})})

\* Multipliers of an operating system in quarters: 4 without, 6 body or
\* reflexes, 5 dodge.
calculateSuccessChance(stat, bonus, difficulty, quarters) ==
  IF difficulty <= 0 THEN SUCCESS_CAP
  ELSE Clamp(((stat * quarters * STAT_SCALING + 4 * bonus) * UNIT) \div (4 * difficulty))
applyLegworkModifier(chance, legwork) ==
  CASE legwork = "skipped" -> Min({SUCCESS_CAP, (chance * 8) \div 10})
    [] legwork = "done" -> Min({SUCCESS_CAP, (chance * 12) \div 10})
    [] OTHER -> chance
FinalChance(chance, legwork, crewPp) == Min({SUCCESS_CAP, applyLegworkModifier(chance, legwork) + crewPp * 10})
\* The deltas the player is shown, in percentage points.
Pp(x) == IF x >= 0 THEN RoundDiv(x, 10) ELSE -RoundDiv(-x, 10)
buildChanceBreakdown(chance, legwork, crewPp) ==
  LET after == applyLegworkModifier(chance, legwork)
  IN Pp(after - chance) + Pp(FinalChance(chance, legwork, crewPp) - after)

calculateEscapeChance(stat, difficulty, heat, quarters, dodge) ==
  IF difficulty <= 0 THEN SUCCESS_CAP
  ELSE Clamp((stat * quarters * STAT_SCALING * 100 * dodge * UNIT) \div (16 * difficulty * (100 + Floor(heat))))
\* Without legwork 11/10 of the reward, with it 6/5 more.
calculatePayout(base, minBase, legworkBonus, successBonus) ==
  IF base <= 0 THEN 0
  ELSE (Max({base, minBase}) * (IF legworkBonus THEN 12 ELSE 10) * (IF successBonus THEN 11 ELSE 10)) \div 100
calculateHeat(base, outcome) == IF base <= 0 THEN 0 ELSE IF outcome = "failure" THEN 2 * base ELSE base
HEAT_DECAY_PER_DAY == 5
applyHeatDecay(heat, days) == Floor(heat - Floor(days) * HEAT_DECAY_PER_DAY)
heatLevelFor(heat) ==
  CASE heat <= 0 -> 1 [] heat \in 1 .. 49 -> 2 [] heat \in 50 .. 99 -> 3 [] OTHER -> 4
calculateCrewBonuses(members) ==
  [gig_success |-> IF members >= 2 THEN 5 ELSE 0, eddies |-> IF members >= 3 THEN 10 ELSE 0,
   street_cred |-> IF members >= 4 THEN 10 ELSE 0]
-----------------------------------------------------------------------------
\* game/pvp.  1.1 is a little more than 11/10 in binary, and some products of
\* it are a little more than the integer they should be.
AboveInBinary == {50, 90, 100, 110, 170, 180, 190}
Solo(base) == CeilDiv(base * 11, 10) + IF base \in AboveInBinary THEN 1 ELSE 0
Boosted(stat, trance, os) ==
  LET t == IF trance THEN CeilDiv(stat * 5, 4) ELSE stat IN IF os THEN CeilDiv(t * 3, 2) ELSE t
\* f: its body, reflexes, chromePower, bicho, trance (which only a bicho's counts),
\* and whether SO Furia or SO Surto is active.
calculateCombatPower(f, bonus, crit) ==
  LET trance == f.bicho /\ f.trance
      base == Boosted(f.body, trance, f.os = "fury") + Boosted(f.reflexes, trance, f.os = "surge") + f.chromePower + bonus
  IN IF ~f.bicho THEN base ELSE IF crit THEN CeilDiv(Solo(base) * 3, 2) ELSE Solo(base)
resolveCombat(attackerPower, defenderPower) == IF attackerPower > defenderPower THEN "attacker" ELSE "defender"

calculateLoot(balance, griefer) ==
  LET base == Floor(balance) \div 10 IN IF griefer THEN base \div 10 ELSE base
calculateWinnerSC(sc) == Min({100, sc + 5})
calculateLoserSC_Uncapped(sc, lossesToday) == Floor(sc - Max({1, sc \div 20}))
calculateLoserSC(sc, lossesToday) ==
  IF lossesToday >= 3 THEN sc
  ELSE IF sc <= 0 THEN 0
  ELSE Floor(sc - Max({1, IF sc < 10 THEN sc \div 100 ELSE sc \div 20}))
-----------------------------------------------------------------------------
\* game/humanity, game/consumables.

getHumanityBand(h) ==
  CASE h <= 0 -> 1 [] h \in 1 .. 20 -> 2 [] h \in 21 .. 40 -> 3 [] h \in 41 .. 70 -> 4 [] OTHER -> 5
Never == -1
\* t hours since humanity last changed; windows are of 24.
applyScrubberRegen(humanity, cap, t) ==
  LET windows == Floor(t) \div 24
      regen == Min({windows, cap - humanity})
  IN IF humanity >= cap THEN [humanity |-> humanity, nextRegenAt |-> Never]
     ELSE IF regen <= 0 THEN [humanity |-> humanity, nextRegenAt |-> 24]
     ELSE [humanity |-> humanity + regen,
           nextRegenAt |-> IF windows + 1 > cap - humanity THEN Never ELSE (windows + 1) * 24]
CONSUMABLE_MULTIPLIERS == <<10, 6, 3>>
computeRestoreMultiplier(uses) == IF uses >= 3 THEN 0 ELSE CONSUMABLE_MULTIPLIERS[Floor(uses) + 1]
computeRestore(base, tenths, humanity) == Min({RoundDiv(base * tenths, 10), Floor(100 - humanity)})
canUseConsumable(humanity, uses) == humanity \in 1 .. 70 /\ computeRestoreMultiplier(uses) > 0
-----------------------------------------------------------------------------
\* game/economy: percentages of a price; a table of weights and quantities.

calculatePrice(base, roleDiscount, markup) == RoundDiv(base * roleDiscount * markup, 10000)
Weight(table) == FoldSeq(LAMBDA e, sum : e.weight + sum, 0, table)
\* The entry a roll in 0 .. Weight - 1 falls on.
rollLoot(table, roll) ==
  Min({i \in DOMAIN table : roll < Weight(SubSeq(table, 1, i))})
-----------------------------------------------------------------------------
\* lib/calibration-report and its script, over the entries of transaction_log.

ECONOMY_FAUCET_TYPES == {"GIG_PAYOUT", "PVP_REWARD", "CREW_BONUS"}
ECONOMY_SINK_TYPES ==
  {"VENDOR_PURCHASE", "PVP_LOSS", "STIM_PURCHASE", "CHROME_PURCHASE", "CREW_CREATION", "THERAPY_PAYMENT"}
Total(entries, types) ==
  FoldSeq(LAMBDA e, sum : e.amount + sum, 0, SelectSeq(entries, LAMBDA e : e.type \in types))
\* A sink counts by the size of its total, a grant among the faucets.
aggregateRound(entries) ==
  LET faucets == Total(entries, ECONOMY_FAUCET_TYPES \cup {"ADMIN_ADJUSTMENT"})
      sinks == MapThenSumSet(LAMBDA t : Abs(Total(entries, {t})), ECONOMY_SINK_TYPES)
  IN [faucetTotal |-> faucets, sinkTotal |-> sinks, net |-> faucets - sinks]

\* started and ended of the rounds by number; the last one may go on.
Active == -1
windowEnd(round, now) == IF round.ended = Active THEN now ELSE round.ended
NoRound == 0
\* The round asked for, or the last that ended; without one the script exits.
Chosen(rounds, asked) ==
  IF asked # NoRound THEN IF asked \in DOMAIN rounds THEN asked ELSE NoRound
  ELSE Max({NoRound} \cup {n \in DOMAIN rounds : rounds[n].ended # Active})
Report(entries, rounds, asked, now) ==
  LET r == rounds[Chosen(rounds, asked)]
  IN aggregateRound(SelectSeq(entries, LAMBDA e : r.started <= e.at /\ e.at < windowEnd(r, now)))
-----------------------------------------------------------------------------
\* game/street-cred, and the browser's copy of its ladder.

STREET_CRED_THRESHOLDS == <<0, 10, 25, 50, 75, 90, 100>>
\* getTitle stops at the first threshold above the score.
getTitle(score) ==
  Max({1} \cup {i \in DOMAIN STREET_CRED_THRESHOLDS : \A j \in 1 .. i : score >= STREET_CRED_THRESHOLDS[j]})
NoTitle == 0
titleIndex(title) == title
thresholdForTitle(title) == STREET_CRED_THRESHOLDS[title]
\* The event of one fetch, the last seen title (of the browser, whoever plays) given.
detectRankUp(prev, title) ==
  IF prev = NoTitle \/ titleIndex(title) <= titleIndex(prev) THEN << >> ELSE <<thresholdForTitle(title)>>
-----------------------------------------------------------------------------
\* What a failure becomes on its way to the player: an error of PostgreSQL or Redis, a
\* refusal of a handler or of a plugin, the answer that the global error handler makes of
\* it, and the wait that the bar's chat makes of that.  NoWait stands for a value that is
\* not there.

NoWait == -1

\* What a driver or the network throws: an error with a code and a mark.
SqlStates == {"23505", "23503", "40001", "22P02", "23514", "23502", "22003", "42P01", "40P01", "57P01"}
SysCodes == {"ECONNREFUSED", "ENOTFOUND", "EAI_AGAIN", "ETIMEDOUT", "ECONNRESET", "EPIPE"}
Marks == {"none", "MaxRetriesPerRequestError", "command", "not writeable", "in message", "terminated"}
DriverErrors == [class : {"driver"}, code : SqlStates \cup SysCodes \cup {"none"}, mark : Marks]
AppErrors == [class : {"AppError"}, status : {400, 404, 409, 429, 500},
              code : {"RATE_LIMITED", "COOLDOWN_ACTIVE", "CIRCUIT_BREAK", "OTHER"}, wait : {NoWait, 1, 60, 90}]
AppError(status, code) == [class |-> "AppError", status |-> status, code |-> code, wait |-> NoWait]
\* The rate-limit plugin's own error carries its wait at the top.
Refusals == [class : {"zod", "schema", "body"}] \cup [class : {"plugin"}, wait : {NoWait, 1, 60}]
-----------------------------------------------------------------------------
\* db/pg-errors.

sqlState(e) == IF e.class = "driver" /\ e.code # "none" THEN e.code ELSE "null"
\* Known states become a refusal, whatever else is thrown again.
toAppError(e) ==
  CASE sqlState(e) = "23505" -> AppError(409, "UNIQUE_VIOLATION")
    [] sqlState(e) = "23503" -> AppError(409, "FK_VIOLATION")
    [] sqlState(e) = "40001" -> AppError(409, "CONCURRENCY_CONFLICT")
    [] sqlState(e) = "22P02" -> AppError(400, "INVALID_INPUT")
    [] sqlState(e) \in {"23514", "23502", "22003", "42P01"} -> AppError(500, "DB_CONSTRAINT_ERROR")
    [] OTHER -> e
-----------------------------------------------------------------------------
\* middleware/error-handler.

isRedisError(e) == e.mark \in {"MaxRetriesPerRequestError", "command", "not writeable"}
isDbConnectionError(e) == e.code \in SysCodes \/ e.mark \in {"in message", "terminated"}

\* header: Retry-After; wait: in the body; inDetails: in its details.
Answer(status, error) ==
  [status |-> status, error |-> error, header |-> NoWait, wait |-> NoWait, inDetails |-> NoWait]
Announces(e) == e.code \in {"RATE_LIMITED", "COOLDOWN_ACTIVE", "CIRCUIT_BREAK"}
errorHandler(e) ==
  CASE e.class = "AppError" /\ Announces(e) ->
         [status |-> 429, error |-> e.code, header |-> e.wait, wait |-> e.wait, inDetails |-> e.wait]
    [] e.class = "AppError" /\ ~Announces(e) ->
         [Answer(e.status, e.code) EXCEPT !.inDetails = e.wait]
    [] e.class \in {"zod", "schema", "body"} -> Answer(400, "VALIDATION_ERROR")
    [] e.class = "plugin" -> [Answer(429, "RATE_LIMITED") EXCEPT !.wait = e.wait]
    [] e.class = "driver" /\ (isRedisError(e) \/ isDbConnectionError(e)) -> Answer(503, "SERVICE_UNAVAILABLE")
    [] OTHER -> Answer(500, "INTERNAL_ERROR")
-----------------------------------------------------------------------------
\* stores/saideira: a 429 blocks the composer for the wait of the details.
DefaultWait == 60
sendMessage(a) ==
  IF a.status = 429 THEN [blocked |-> IF a.inDetails = NoWait THEN DefaultWait ELSE a.inDetails, failed |-> FALSE]
  ELSE [blocked |-> NoWait, failed |-> TRUE]
-----------------------------------------------------------------------------
Fighters == [body : {1, 7}, reflexes : {1, 6}, chromePower : {0, 3}, bicho : BOOLEAN, trance : BOOLEAN,
             os : {"none", "fury", "surge"}]
\* What the services write under each type.
Sign == [GIG_PAYOUT |-> 4, PVP_REWARD |-> 1, PVP_LOSS |-> -1, THERAPY_PAYMENT |-> -3, ADMIN_ADJUSTMENT |-> 5, CHROME_UNINSTALL |-> 0]
Inputs ==
  [of : {"trampo"}, stat : {0, 1, 3, 10, 20}, bonus : {0, 5}, difficulty : {-1, 0, 1, 7, 50, 100},
   heat : {-5, 0, 4, 50, 103}, crew : {1, 2, 4}]
  \cup [of : {"pay"}, base : {-1, 0, 1, 9, 100, 333}, minBase : {0, 50}, heat : {0, 3, 5, 52, 101}, days : {-1, 0, 1, 3, 30}, more : 0 .. 2]
  \cup [of : {"fight"}, fighter : Fighters, bonus : {1, 5, 10}, other : {1, 14, 15, 60}]
  \cup [of : {"defeat"}, sc : 0 .. 100, balance : {-1, 0, 9, 10, 99, 1000}, fights : 1 .. 5]
  \cup [of : {"humanity"}, humanity : {1, 20, 47, 48, 49, 50, 51, 68, 70, 99}, cap : {50}, hours : {-1, 0, 23, 24, 47, 48, 71, 72, 96, 240}, base : {5, 15, 30}]
  \cup [of : {"market"}, price : {1, 3, 10, 99}, discount : {85, 90, 100}, weights : [1 .. 3 -> 0 .. 2]]
  \cup [of : {"ladder"}, seen : {-3, 0, 9, 10, 89, 90, 100}, score : 0 .. 101]

  \cup [of : {"report"}, types : [1 .. 2 -> DOMAIN Sign], at : [1 .. 2 -> 0 .. 5]]

Init == probe \in Inputs

Mults == {4, 6}
\* Chances stay within their bounds but for the skipped legwork, which costs a
\* fifth of the lowest too; no stat, legwork, crew or operating system ever makes a
\* trampo or an escape harder, no heat makes one easier; and the points the player
\* is shown add up to the chance that is rolled against.
TrampoRule(i) ==
  LET chance(s, d, m) == calculateSuccessChance(s, i.bonus, d, m)
      final(l, n) == FinalChance(chance(i.stat, i.difficulty, 4), l, calculateCrewBonuses(n).gig_success)
      escape(s, h, m, d) == calculateEscapeChance(s, i.difficulty, h, m, d)
  IN /\ \A m \in Mults :
          /\ chance(i.stat, i.difficulty, m) \in SUCCESS_FLOOR .. SUCCESS_CAP
          /\ chance(i.stat, i.difficulty, 4) <= chance(i.stat, i.difficulty, m)
          /\ chance(i.stat, i.difficulty, m) <= chance(i.stat + 1, i.difficulty, m)
          /\ chance(i.stat, i.difficulty + 1, m) <= chance(i.stat, i.difficulty, m)
     /\ final("skipped", i.crew) <= final("none", i.crew) /\ final("none", i.crew) <= final("done", i.crew)
     /\ \A l \in {"skipped", "none", "done"} :
          LET shown == buildChanceBreakdown(chance(i.stat, i.difficulty, 4), l, calculateCrewBonuses(i.crew).gig_success)
          IN /\ final(l, i.crew) \in 40 .. SUCCESS_CAP
             /\ final(l, i.crew) <= final(l, i.crew + 1)
             /\ shown - Pp(final(l, i.crew) - chance(i.stat, i.difficulty, 4)) \in {-1, 0, 1}
     /\ \A m \in Mults, d \in {4, 5} :
          /\ escape(i.stat, i.heat + 1, m, d) <= escape(i.stat, i.heat, m, d)
          /\ escape(i.stat, i.heat, 4, 4) <= escape(i.stat, i.heat, m, d)

\* Preparation and success pay, a failure is hotter than a success; heat that is
\* read and written back on the way decays no more than heat that is left alone,
\* and the browser never shows a hotter band for it.
PayRule(i) ==
  LET pay(l, s) == calculatePayout(i.base, i.minBase, l, s)
      later == applyHeatDecay(i.heat, i.days + i.more)
  IN /\ pay(FALSE, FALSE) <= pay(TRUE, FALSE) /\ pay(FALSE, FALSE) <= pay(FALSE, TRUE)
     /\ pay(TRUE, TRUE) >= Max({pay(TRUE, FALSE), pay(FALSE, TRUE)})
     /\ i.base > 0 => pay(FALSE, FALSE) >= i.minBase
     /\ calculateHeat(i.base, "success") <= calculateHeat(i.base, "failure")
     /\ i.days >= 0 => later = applyHeatDecay(applyHeatDecay(i.heat, i.days), i.more)
     /\ later \in 0 .. i.heat /\ heatLevelFor(later) <= heatLevelFor(i.heat)

\* Whatever is rolled, an ability, an operating system, an implant or a higher
\* stat never weakens a fighter; who is not stronger than the defender loses.
FightRule(i) ==
  LET f == i.fighter  p == calculateCombatPower(f, i.bonus, FALSE)
      stronger == {[f EXCEPT !.body = @ + 1], [f EXCEPT !.reflexes = @ + 1], [f EXCEPT !.chromePower = @ + 1],
                   [f EXCEPT !.trance = TRUE], [f EXCEPT !.bicho = TRUE]}
                  \cup (IF f.os = "none" THEN {[f EXCEPT !.os = o] : o \in {"fury", "surge"}} ELSE {})
  IN /\ \A g \in stronger : \A crit \in BOOLEAN :
          calculateCombatPower(g, i.bonus, crit) >= calculateCombatPower(f, i.bonus, crit)
     /\ p <= calculateCombatPower(f, i.bonus, TRUE)
     /\ resolveCombat(p, i.other) = "attacker" <=> p > i.other
     /\ resolveCombat(p, p) = "defender"

\* A day of defeats takes three twentieths of the Moral at most, or three points,
\* and no Moral that is not there; griefing pays a tenth of what a fight pays.
AfterDefeats(sc, n) == FoldLeft(calculateLoserSC, sc, [k \in 1 .. n |-> k - 1])
DefeatRule(i) ==
  LET left == AfterDefeats(i.sc, i.fights)
  IN /\ left \in 0 .. i.sc
     /\ i.sc - left <= Max({3, (3 * i.sc) \div 20})
     /\ i.sc < 10 => i.sc - left <= 3
     /\ calculateWinnerSC(i.sc) \in i.sc .. 100
     /\ 10 * calculateLoot(i.balance, TRUE) <= calculateLoot(i.balance, FALSE)
     /\ 10 * calculateLoot(i.balance, FALSE) <= Floor(i.balance)

\* The regeneration is announced exactly: at nextRegenAt and not an hour before
\* there is a point more, and where none is announced there never is.  A day of
\* consumables never goes beyond 100, each restores no more than the one before,
\* and a flatlined or an Integro character gets none.
HumanityRule(i) ==
  LET regen(t) == applyScrubberRegen(i.humanity, i.cap, t)
      now == regen(i.hours)
      restore(n) == computeRestore(i.base, computeRestoreMultiplier(n), i.humanity)
  IN /\ IF now.nextRegenAt = Never
        THEN \A t \in i.hours .. i.hours + 100 : regen(t).humanity = now.humanity
        ELSE /\ now.nextRegenAt > i.hours
             /\ regen(now.nextRegenAt).humanity = now.humanity + 1
             /\ regen(now.nextRegenAt - 1).humanity = now.humanity
     /\ now.humanity <= Max({i.cap, i.humanity})
     /\ getHumanityBand(i.humanity) <= getHumanityBand(now.humanity)
     /\ \A n \in 0 .. 3 : i.humanity + restore(n) <= 100 /\ restore(n + 1) <= restore(n)
     /\ \A n \in 0 .. 4 : canUseConsumable(i.humanity, n) <=> getHumanityBand(i.humanity) \in 2 .. 4 /\ n < 3

\* A discount never makes a price higher nor an item free; of all rolls of a table
\* each entry gets as many as its weight says.
MarketRule(i) ==
  LET table == [k \in 1 .. 3 |-> [weight |-> i.weights[k]]]
      rolls == 0 .. Weight(table) - 1
  IN /\ calculatePrice(i.price, i.discount, 100) \in 1 .. i.price
     /\ calculatePrice(i.price, i.discount, 100) <= calculatePrice(i.price, i.discount, 120)
     /\ \A k \in 1 .. 3 : Cardinality({r \in rolls : rollLoot(table, r) = k}) = i.weights[k]

\* The browser celebrates exactly the titles the server gives: on a rise, once,
\* with the highest threshold that was crossed.
LadderRule(i) ==
  LET before == getTitle(i.seen)  now == getTitle(i.score)
  IN /\ detectRankUp(NoTitle, now) = << >> /\ detectRankUp(now, now) = << >>
     /\ detectRankUp(before, now) # << >> <=> \E t \in Range(STREET_CRED_THRESHOLDS) : i.seen < t /\ t <= i.score /\ t > 0
     /\ detectRankUp(before, now) # << >> =>
          detectRankUp(before, now) = <<Max({t \in Range(STREET_CRED_THRESHOLDS) : t <= i.score})>>

\* The reports of the rounds count each entry dated in one of them once, whatever its
\* type, and add up to what these entries moved; loot between two players
\* moves both totals and not their difference.
ReportRule(i) ==
  LET rounds == <<[started |-> 0, ended |-> 2], [started |-> 3, ended |-> Active]>>
      entries == [k \in 1 .. 2 |-> [type |-> i.types[k], amount |-> Sign[i.types[k]], at |-> i.at[k]]]
      dated == SelectSeq(entries, LAMBDA e : e.at \in {0, 1, 3, 4})
      report(n) == Report(entries, rounds, n, 5)
  IN /\ report(1).net + report(2).net = Total(dated, DOMAIN Sign)
     /\ report(NoRound) = report(1)
     /\ \A n \in 1 .. 2 : report(n).faucetTotal >= 0 /\ report(n).sinkTotal >= 0
     /\ {i.types[1], i.types[2]} = {"PVP_REWARD", "PVP_LOSS"} /\ i.at[1] = i.at[2] => report(2).net = 0

RulesHold ==
  CASE probe.of = "trampo" -> TrampoRule(probe)
    [] probe.of = "pay" -> PayRule(probe)
    [] probe.of = "fight" -> FightRule(probe)
    [] probe.of = "defeat" -> DefeatRule(probe)
    [] probe.of = "humanity" -> HumanityRule(probe)
    [] probe.of = "market" -> MarketRule(probe)
    [] probe.of = "report" -> ReportRule(probe)
    [] OTHER -> LadderRule(probe)

\* An outage of either store is told as one, whether or not a repository translated
\* it; what the data refused is told apart from it and from a fault of the server,
\* but for the states the translation does not know, of which a deadlock is one.
OutagesTold ==
  \A e \in DriverErrors :
    LET a == errorHandler(e)  t == errorHandler(toAppError(e)) IN
    /\ e.code \in SysCodes => a.status = 503 /\ t = a
    /\ e.mark = "none" /\ e.code \in SqlStates => a.status = 500
    /\ t.status = 409 => e.code \in {"23505", "23503", "40001"}
    /\ t.status \in {a.status, 400, 409, 500}
    /\ e.mark = "none" /\ e.code \in {"40P01", "57P01"} => t = a

\* The composer never opens before the wait the answer announces is over (the
\* plugin's window is DefaultWait), opens just then when a handler announced it, and
\* a failure is never shown as a wait.
WaitsKept ==
  \A e \in AppErrors \cup Refusals :
    LET a == errorHandler(e)  s == sendMessage(a) IN
    /\ s.failed <=> a.status # 429
    /\ a.wait # NoWait => s.blocked >= a.wait /\ a.status = 429
    /\ a.header # NoWait => s.blocked = a.header

AnswersHold == OutagesTold /\ WaitsKept
=============================================================================
