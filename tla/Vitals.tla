------------------------------- MODULE Vitals -------------------------------
(***************************************************************************)
(* What a character regains with time, all of it lazy: the NIL pool        *)
(* (services/nil-service and the NIL side of accepting a trampo, buying a  *)
(* Pingado and attacking), the role ability (game/abilities,               *)
(* routes/abilities) and the operating system (services/os-service), as    *)
(* concurrent requests of one character over its row.                      *)
(*                                                                         *)
(* Nothing ticks in the server: the row holds timestamps, each request     *)
(* derives the present from the row it read and the clock of its own       *)
(* process, and writes some of it back.  A request reads the row, then     *)
(* looks at the clock and decides (issue), then its UPDATE runs, after a   *)
(* wait for the row lock perhaps.  Attacks and OS activations lock the row *)
(* first (FOR UPDATE).  The rest of a trampo, an install, a purchase and   *)
(* a fight is in modules GigLoop, Chrome, Economy and Pvp.                 *)
(***************************************************************************)
EXTENDS ReadCommitted, Integers, FiniteSetsExt

CONSTANTS Proc,
          Interval,          \* time of one regeneration tick
          MaxNil, InitNil,
          Amounts,           \* NIL a consumption or a trampo may ask for
          StimNil,           \* NIL of a Pingado
          AttackCost,
          Role, Duration, Cooldown,   \* role -> of its ability; 0 is one-shot
          OsDuration, OsUses,
          Day,               \* time between two UTC midnights
          MaxNow, MaxAdded   \* bounds: the clock, and NIL restored by Pingados

ASSUME VitalsAssumption ==
  /\ NoProc \notin Proc
  /\ Interval \in Nat \ {0} /\ Day \in Nat \ {0}
  /\ MaxNil \in Nat \ {0} /\ InitNil \in 0 .. MaxNil
  /\ Amounts \subseteq Nat \ {0} /\ StimNil \in Nat \ {0} /\ AttackCost \in Nat \ {0}
  /\ Duration \in [Role -> Nat] /\ Cooldown \in [Role -> Nat \ {0}]
  /\ OsDuration \in Nat \ {0} /\ OsUses \in Nat \ {0}
  /\ MaxNow \in Nat /\ MaxAdded \in Nat

VARIABLES now,
          hist,    \* what committed requests answered, and whether none have overlapped
          pc, req, \* request -> its next step, what it asks for
          chr,     \* request -> the character it read
          stamp    \* request -> the clock when it decided

local == <<pc, req, chr, stamp>>
vars == <<rcVars, now, hist, local>>

None == -1
Times == 0 .. MaxNow
Requests == [op : {"consume", "accept"}, amount : Amounts]
              \cup [op : {"stim", "buy", "attack", "activate", "use", "os"}]
NoRequest == [op |-> "none"]

Me == "character"

Init ==
  /\ \E role \in Role, os \in BOOLEAN :
       RcInit([r \in {Me} |->
         [role |-> role, nil |-> InitNil, at |-> 0, active |-> None, cooldown |-> None,
          os |-> os, flat |-> FALSE, osUntil |-> None, osUses |-> 0, osDate |-> None]])
  /\ now = 0
  /\ hist = [spent |-> 0, added |-> 0, bought |-> FALSE, effect |-> None, alone |-> TRUE,
             charges |-> [d \in 0 .. MaxNow \div Day |-> 0]]
  /\ pc = [p \in Proc |-> "idle"]
  /\ req = [p \in Proc |-> NoRequest]
  /\ chr = [p \in Proc |-> NoRow]
  /\ stamp = [p \in Proc |-> 0]

Goto(p, l) == pc' = [pc EXCEPT ![p] = l]
Answered(p) ==
  /\ Goto(p, "idle")
  /\ req' = [req EXCEPT ![p] = NoRequest]
  /\ chr' = [chr EXCEPT ![p] = NoRow]
  /\ stamp' = [stamp EXCEPT ![p] = 0]
Reject(p) == Answered(p) /\ Rollback(p) /\ UNCHANGED <<now, hist>>

\* Pingados are bounded by MaxAdded.
Start(p) ==
  /\ pc[p] = "idle"
  /\ \E r \in Requests :
       /\ r.op \in {"stim", "buy"} => hist.added < MaxAdded
       /\ req' = [req EXCEPT ![p] = r]
       /\ Goto(p, IF r.op \in {"attack", "os"} THEN "lock" ELSE "read")
  /\ hist' = [hist EXCEPT !.alone = @ /\ \A q \in Proc \ {p} : pc[q] = "idle"]
  /\ UNCHANGED <<rcVars, now, chr, stamp>>

\* findByUserId, findById or findNilSnapshot, without a lock.
Read(p) ==
  /\ pc[p] = "read"
  /\ chr' = [chr EXCEPT ![p] = Sees(p, Me)]
  /\ Goto(p, IF req[p].op = "use" THEN "bonus" ELSE "issue")
  /\ UNCHANGED <<rcVars, now, hist, req, stamp>>
-----------------------------------------------------------------------------
\* NIL.

\* Whole ticks since the row was written; a clock that is behind counts none.
RegenOffset(c, t) == IF t > c.at THEN (t - c.at) \div Interval ELSE 0
calculateRegen(c, t) == Min({MaxNil, c.nil + RegenOffset(c, t)})

\* WHERE nil >= rawNil.
NotLower(p) == Sees(p, Me).nil >= chr[p].nil

\* WHERE LEAST(max_nil, nil + offset) >= amount, with the offset of the row the
\* request read and the nil of the row as it is.
Regened(p) == Min({MaxNil, Sees(p, Me).nil + RegenOffset(chr[p], stamp[p])})
Covers_Unguarded(p) == TRUE
Covers(p) == Regened(p) >= req[p].amount

WithNil(p, nil) == [Sees(p, Me) EXCEPT !.nil = nil, !.at = stamp[p]]
\* What a Pingado makes of the NIL the request derived.
Restored(p) == Min({MaxNil, calculateRegen(chr[p], stamp[p]) + StimNil})
Added(p) == Restored(p) - calculateRegen(chr[p], stamp[p])

\* The clock, and the checks against it that fail fast.
IssueNil(p) ==
  /\ pc[p] = "issue" /\ req[p].op \in {"consume", "accept", "stim", "buy"}
  /\ IF \/ req[p].op = "consume" /\ req[p].amount > calculateRegen(chr[p], now)
        \/ req[p].op = "stim" /\ calculateRegen(chr[p], now) >= MaxNil
     THEN Reject(p)
     ELSE /\ stamp' = [stamp EXCEPT ![p] = now]
          /\ Goto(p, IF req[p].op \in {"consume", "accept"} THEN "spend" ELSE "restore")
          /\ UNCHANGED <<rcVars, now, hist, req, chr>>

\* updateNilSpend: a statement of its own in consumeNil, part of the
\* transaction in acceptGig.
UpdateNilSpend(p) ==
  /\ pc[p] = "spend" /\ CanLock(p, Me)
  /\ IF ~(NotLower(p) /\ Covers(p)) THEN Reject(p)
     ELSE LET c == WithNil(p, Regened(p) - req[p].amount) IN
          IF req[p].op = "accept"
          THEN Put(p, Me, c) /\ Goto(p, "commit") /\ UNCHANGED <<now, hist, req, chr, stamp>>
          ELSE /\ WriteNow(p, Me, c)
               /\ hist' = [hist EXCEPT !.spent = @ + req[p].amount]
               /\ Answered(p) /\ UNCHANGED now

\* updateNilSetGuarded of a stim; the plain updateNilSet of a bought Pingado.
UpdateNilSet(p) ==
  /\ pc[p] = "restore" /\ CanLock(p, Me)
  /\ IF req[p].op = "stim"
     THEN IF ~NotLower(p) THEN Reject(p)
          ELSE /\ WriteNow(p, Me, WithNil(p, Restored(p)))
               /\ hist' = [hist EXCEPT !.added = @ + Added(p)]
               /\ Answered(p) /\ UNCHANGED now
     ELSE /\ Put(p, Me, WithNil(p, Restored(p)))
          /\ Goto(p, "commit") /\ UNCHANGED <<now, hist, req, chr, stamp>>

\* An attack under its row lock: the stored NIL is checked and debited, and
\* the time it was stored is left as it was.
PayAttack(p) ==
  LET c == Sees(p, Me) IN
  /\ pc[p] = "lock" /\ req[p].op = "attack" /\ CanLock(p, Me)
  /\ IF c.nil < AttackCost THEN Reject(p)
     ELSE /\ Put(p, Me, [c EXCEPT !.nil = @ - AttackCost])
          /\ stamp' = [stamp EXCEPT ![p] = now]
          /\ Goto(p, "commit")
          /\ UNCHANGED <<now, hist, req, chr>>
-----------------------------------------------------------------------------
\* Role abilities.

\* The order of the rules matters: a cooldown that is over makes the ability
\* ready, consumed or not.
resolveAbilityState(c, t) ==
  IF c.cooldown # None /\ c.cooldown < t THEN "ready"
  ELSE IF c.active # None
       THEN IF c.active > t \/ Duration[c.role] = 0 THEN "active" ELSE "cooldown"
       ELSE IF c.cooldown # None THEN "cooldown" ELSE "ready"

Ability(c, active, cooldown) == [c EXCEPT !.active = active, !.cooldown = cooldown]
\* A one-shot ability is active from now until it is consumed.
computeActivation(c, t) ==
  Ability(c, t + Duration[c.role], t + Duration[c.role] + Cooldown[c.role])
Consumption_OnlyInactive(c, t) == [c EXCEPT !.active = None, !.cooldown = None]
computeConsumption(c, t) == Ability(c, None, t + Cooldown[c.role])

IssueActivation(p) ==
  /\ pc[p] = "issue" /\ req[p].op = "activate"
  /\ IF resolveAbilityState(chr[p], now) # "ready" THEN Reject(p)
     ELSE /\ stamp' = [stamp EXCEPT ![p] = now]
          /\ Goto(p, "activate")
          /\ UNCHANGED <<rcVars, now, hist, req, chr>>

\* updateAbilityState, absolute and outside a transaction.  The effect of an
\* ability with a duration begins here.
Activate(p) ==
  /\ pc[p] = "activate" /\ CanLock(p, Me)
  /\ WriteNow(p, Me, computeActivation(Sees(p, Me), stamp[p]))
  /\ hist' = IF Duration[chr[p].role] > 0 THEN [hist EXCEPT !.effect = stamp[p]] ELSE hist
  /\ Answered(p) /\ UNCHANGED now

\* The one-shot bonus of a wrap-up (Silver Tongue) or an install (Overclock),
\* by the row the request read.
CheckBonus(p) ==
  /\ pc[p] = "bonus"
  /\ IF Duration[chr[p].role] > 0 \/ resolveAbilityState(chr[p], now) # "active" THEN Reject(p)
     ELSE /\ stamp' = [stamp EXCEPT ![p] = now]
          /\ Goto(p, "consume")
          /\ UNCHANGED <<rcVars, now, hist, req, chr>>

\* updateAbilityState of the request that has the bonus, which holds the row.
ConsumeAbility(p) ==
  /\ pc[p] = "consume"
  /\ Put(p, Me, computeConsumption(Sees(p, Me), now))
  /\ Goto(p, "commit")
  /\ UNCHANGED <<now, hist, req, chr, stamp>>
-----------------------------------------------------------------------------
\* The operating system.

isSameUtcDay_Instant(date, t) == date = t
isSameUtcDay(date, t) == date # None /\ date \div Day = t \div Day
UsesToday(c, t) == IF isSameUtcDay(c.osDate, t) THEN c.osUses ELSE 0
\* Apagado, no OS or an inert one, a window running, no charge left.
canActivateOs(c, t) == ~c.flat /\ c.os /\ c.osUntil <= t /\ UsesToday(c, t) < OsUses

\* activateOs: findByIdForUpdate, the gates and updateOsActivation.
ActivateOs(p) ==
  LET c == Sees(p, Me) IN
  /\ pc[p] = "lock" /\ req[p].op = "os" /\ CanLock(p, Me)
  /\ IF ~canActivateOs(c, now) THEN Reject(p)
     ELSE /\ Put(p, Me, [c EXCEPT !.osUntil = now + OsDuration,
                                  !.osUses = UsesToday(c, now) + 1,
                                  !.osDate = (now \div Day) * Day])
          /\ stamp' = [stamp EXCEPT ![p] = now]
          /\ Goto(p, "commit")
          /\ UNCHANGED <<now, hist, req, chr>>
-----------------------------------------------------------------------------
\* COMMIT, with what the request answers.
CommitRequest(p) ==
  LET op == req[p].op IN
  /\ pc[p] = "commit"
  /\ Commit(p)
  /\ hist' = CASE op = "accept" -> [hist EXCEPT !.spent = @ + req[p].amount]
               [] op = "buy" -> [hist EXCEPT !.added = @ + Added(p), !.bought = TRUE]
               [] op = "attack" -> [hist EXCEPT !.spent = @ + AttackCost]
               [] op = "use" -> [hist EXCEPT !.effect = stamp[p]]
               [] op = "os" -> [hist EXCEPT !.charges[stamp[p] \div Day] = @ + 1]
  /\ Answered(p) /\ UNCHANGED now

\* The handler throws or its connection is lost.
Lost(p) == pc[p] # "idle" /\ Reject(p)

\* An install of module Chrome flatlines the character.
Flatline ==
  /\ owner[Me] = NoProc /\ ~db[Me].flat
  /\ db' = [db EXCEPT ![Me].flat = TRUE]
  /\ pend' = [pend EXCEPT ![Me].flat = TRUE]
  /\ UNCHANGED <<owner, now, hist, local>>

Tick == now < MaxNow /\ now' = now + 1 /\ UNCHANGED <<rcVars, hist, local>>

Step(p) ==
  \/ Read(p)
  \/ IssueNil(p) \/ UpdateNilSpend(p) \/ UpdateNilSet(p) \/ PayAttack(p)
  \/ IssueActivation(p) \/ Activate(p) \/ CheckBonus(p) \/ ConsumeAbility(p)
  \/ ActivateOs(p)
  \/ CommitRequest(p)

Next == Tick \/ Flatline \/ \E p \in Proc : Start(p) \/ Step(p) \/ Lost(p)

Spec == Init /\ [][Next]_vars
-----------------------------------------------------------------------------
\* Every value has its type, and NIL never leaves its range.
TypeOK ==
  /\ \A c \in {db[Me], pend[Me]} :
       /\ c.role \in Role /\ {c.os, c.flat} \subseteq BOOLEAN /\ c.nil \in 0 .. MaxNil /\ c.at \in Times
       /\ {c.active, c.cooldown, c.osUntil, c.osDate} \subseteq Int /\ c.osUses \in 0 .. OsUses
  /\ owner[Me] \in Proc \cup {NoProc}
  /\ now \in Times
  /\ pc \in [Proc -> {"idle", "read", "issue", "spend", "restore", "lock", "activate", "bonus",
                      "consume", "commit"}]
  /\ req \in [Proc -> Requests \cup {NoRequest}]
  /\ stamp \in [Proc -> Times]

\* The NIL a character has is no more than what it began with, what its Pingados
\* gave and what the time gave, less what its requests were told they spent.
NilCovered ==
  calculateRegen(db[Me], now) <= InitNil + hist.added + now \div Interval - hist.spent

\* Two effects of a role ability (the bonus of a one-shot, the trance of a
\* bicho) are at least its duration and its cooldown apart.
EffectStep ==
  hist'.effect # hist.effect /\ hist.effect # None =>
    LET r == db[Me].role IN hist'.effect > hist.effect + Duration[r] + Cooldown[r]

\* No day has more OS activations than charges, however many requests count them
\* at once, around midnight too.
OsChargesHold == \A d \in DOMAIN hist.charges : hist.charges[d] <= OsUses

\* Neither NIL nor a charge of the operating system comes for nothing: until the
\* first tick, as long as no Pingado is bought, no overlapping requests spend a NIL
\* twice or get one from nowhere.
NothingFree == (now < Interval /\ ~hist.bought => NilCovered) /\ OsChargesHold

\* Until two requests overlap, no NIL is spent twice or comes from nowhere however
\* the ticks fall, and the effects of a role ability keep their distance.
SoloHolds == [][hist'.alone => EffectStep /\ NilCovered']_vars
=============================================================================
