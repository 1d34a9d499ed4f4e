-------------------------------- MODULE Pvp --------------------------------
(***************************************************************************)
(* Player combat: services/pvp-service executeAttack over the rules of     *)
(* game/pvp, as concurrent requests over READ COMMITTED rows, next to the  *)
(* wallet purchases of module Economy (reduced to their row locks).        *)
(*                                                                         *)
(* An attack locks the attacker, the defender, the loser's wallet and the  *)
(* winner's wallet, in this order and FOR UPDATE.  A purchase locks a      *)
(* wallet and then references its character (FOR KEY SHARE), so that two   *)
(* attacks, or an attack and a purchase, can wait for each other.          *)
(*                                                                         *)
(* Rows: each character, and its wallet, which may not exist yet.          *)
(* pvp_combats is only appended to: hist keeps its totals and what counts  *)
(* in the current day and week.  The rolls of a fight (and the role,       *)
(* ability and implant multipliers) decide no more than the winner, which  *)
(* is chosen freely; the power bracket goes by the power without them.     *)
(***************************************************************************)
EXTENDS ReadCommitted, Integers, FiniteSets

CONSTANTS Proc, Char,
          Power,          \* body + reflexes + installed implants
          PowerRange,     \* 10
          Immune,         \* characters of accounts under seven days old
          NilCost,        \* 20
          WinnerGain, MaxMoral,      \* 5, 100
          DefeatCap, GriefLimit,     \* 3, 3
          LootShare, GrieferShare,   \* one in 10, one in 10 of that
          Seed,           \* what wallets.ensure grants
          ItemPrice,
          InitMoral, InitNil,
          InitBalance,    \* character -> its balance, or NoRow without a wallet
          MaxFights       \* bound: fights of a run

ASSUME PvpAssumption ==
  /\ NoProc \notin Proc /\ NoRow \notin [balance : Int, version : Nat]
  /\ Power \in [Char -> Nat] /\ PowerRange \in Nat
  /\ Immune \subseteq Char
  /\ NilCost \in Nat \ {0} /\ WinnerGain \in Nat \ {0} /\ MaxMoral \in Nat
  /\ DefeatCap \in Nat \ {0} /\ GriefLimit \in Nat \ {0}
  /\ LootShare \in Nat \ {0} /\ GrieferShare \in Nat \ {0}
  /\ Seed \in Nat /\ ItemPrice \in Nat
  /\ InitMoral \in [Char -> 0 .. MaxMoral] /\ InitNil \in [Char -> Nat]
  /\ InitBalance \in [Char -> Nat \cup {NoRow}]
  /\ MaxFights \in Nat

VARIABLES hist,    \* what the committed fights and purchases add up to
          pc, req, \* request -> its next statement, what it asks for
          chr,     \* request -> character -> the row it locked
          wal,     \* request -> character -> the wallet it read
          fight,   \* request -> the fight it computed
          refs     \* request -> characters its new rows reference

local == <<pc, req, chr, wal, fight, refs>>
vars == <<rcVars, hist, local>>

C(c) == <<"character", c>>
W(c) == <<"wallet", c>>
Rows == {C(c) : c \in Char} \cup {W(c) : c \in Char}
Characters == [moral : Nat, max : Nat, nil : Int, flat : BOOLEAN]
WalletRows == [balance : Int, version : Nat]
Requests == [op : {"attack"}, char : Char, target : Char] \cup [op : {"buy"}, char : Char]
NoRequest == [op |-> "none"]
Windows == {"day", "week"}
Fights == [winner : Char, loser : Char, griefer : BOOLEAN, capped : BOOLEAN,
           loot : Nat, late : SUBSET Windows]
NoFight == [loot |-> 0, late |-> {}]

Zero == [c \in Char |-> 0]
Zero2 == [c \in Char |-> Zero]
NoRows == [c \in Char |-> NoRow]

Init ==
  /\ RcInit([r \in Rows |->
       IF r[1] = "character"
       THEN [moral |-> InitMoral[r[2]], max |-> InitMoral[r[2]], nil |-> InitNil[r[2]], flat |-> FALSE]
       ELSE IF InitBalance[r[2]] = NoRow THEN NoRow
       ELSE [balance |-> InitBalance[r[2]], version |-> 0]])
  /\ hist = [fights |-> 0, attacks |-> Zero, seeded |-> {}, bought |-> Zero,
             looted |-> Zero, lost |-> Zero, moral |-> Zero,
             defeats |-> Zero, losses |-> Zero,
             weekly |-> Zero2, full |-> Zero2]
  /\ pc = [p \in Proc |-> "idle"]
  /\ req = [p \in Proc |-> NoRequest]
  /\ chr = [p \in Proc |-> NoRows]
  /\ wal = [p \in Proc |-> NoRows]
  /\ fight = [p \in Proc |-> NoFight]
  /\ refs = [p \in Proc |-> {}]
-----------------------------------------------------------------------------
\* The rules of game/pvp.

calculateWinnerSC(moral) ==
  IF moral + WinnerGain > MaxMoral THEN MaxMoral ELSE moral + WinnerGain

\* 1% under the noob shield (Moral below 10), else 5%, and at least 1; nothing
\* from the third defeat of the day on.
LossOf(moral) ==
  LET share == IF moral < 10 THEN moral \div 100 ELSE moral \div 20
  IN IF share < 1 THEN 1 ELSE share
calculateLoserSC(moral, defeats) ==
  IF defeats >= DefeatCap \/ moral = 0 THEN moral ELSE moral - LossOf(moral)

calculateLoot(balance, griefer) ==
  LET base == balance \div LootShare IN IF griefer THEN base \div GrieferShare ELSE base

InRange(a, d) == Power[a] - Power[d] \in -PowerRange .. PowerRange
-----------------------------------------------------------------------------
Goto(p, l) == pc' = [pc EXCEPT ![p] = l]

Answered(p) ==
  /\ Goto(p, "idle")
  /\ req' = [req EXCEPT ![p] = NoRequest]
  /\ chr' = [chr EXCEPT ![p] = NoRows]
  /\ wal' = [wal EXCEPT ![p] = NoRows]
  /\ fight' = [fight EXCEPT ![p] = NoFight]
  /\ refs' = [refs EXCEPT ![p] = {}]

Reject(p) == Answered(p) /\ Rollback(p) /\ UNCHANGED hist

\* The row p's next statement must lock, if it exists for p.
NextRow(p) ==
  LET r == req[p] IN
  CASE pc[p] = "attacker" -> C(r.char)
    [] pc[p] = "defender" -> C(r.target)
    [] pc[p] = "loserWallet" -> W(fight[p].loser)
    [] pc[p] \in {"winnerWallet", "seed", "credit"} -> W(fight[p].winner)
    [] pc[p] \in {"ensure", "debit"} -> W(r.char)
    [] pc[p] \in {"reference", "audit"} -> C(r.char)

\* q's transaction makes p's next statement wait.  Character rows are only
\* ever held FOR UPDATE, which conflicts with every lock; a SELECT ... FOR
\* UPDATE does not wait for a row it cannot see, nor ensure for one it can.
HoldsBack(q, p) ==
  /\ q # p
  /\ pc[p] \notin {"idle", "check", "read", "persist", "commit"}
  /\ \/ /\ owner[NextRow(p)] = q
        /\ pc[p] \in {"loserWallet", "winnerWallet"} => db[NextRow(p)] # NoRow
     \/ pc[p] = "attacker" /\ req[p].char \in refs[q]
     \/ pc[p] = "defender" /\ req[p].target \in refs[q]
MayGo(p) == \A q \in Proc : ~HoldsBack(q, p)

Start(p) ==
  /\ pc[p] = "idle"
  /\ \E r \in Requests :
       /\ r.op = "attack" => hist.fights < MaxFights
       /\ req' = [req EXCEPT ![p] = r]
       /\ Goto(p, IF r.op = "attack" THEN "check" ELSE "ensure")
  /\ UNCHANGED <<rcVars, hist, chr, wal, fight, refs>>
-----------------------------------------------------------------------------
\* executeAttack.

\* The guards before the transaction: the attacker, read without a lock.
Check(p) ==
  LET r == req[p] IN
  /\ pc[p] = "check"
  /\ IF Sees(p, C(r.char)).flat \/ r.target = r.char
     THEN Reject(p)
     ELSE /\ Goto(p, "attacker")
          /\ UNCHANGED <<rcVars, hist, req, chr, wal, fight, refs>>

LockRow_ReadsOnly(p, r) == UNCHANGED rcVars
LockRow(p, r) == ForUpdate(p, r)

LockAttacker(p) ==
  LET a == req[p].char IN
  /\ pc[p] = "attacker"
  /\ MayGo(p)
  /\ LockRow(p, C(a))
  /\ chr' = [chr EXCEPT ![p][a] = Sees(p, C(a))]
  /\ Goto(p, "defender")
  /\ UNCHANGED <<hist, req, wal, fight, refs>>

\* The gates of an attack on the locked rows.
MayAttack_Apagado(p, a, d) ==
  d \notin Immune /\ chr[p][a].nil >= NilCost /\ InRange(a, d)
MayAttack(p, a, d) ==
  /\ ~Sees(p, C(d)).flat
  /\ d \notin Immune
  /\ chr[p][a].nil >= NilCost
  /\ InRange(a, d)

\* isGriefLimited and the defeat cap, over the fights recorded so far.
isGriefLimited(a, d) == hist.weekly[a][d] >= GriefLimit
DefeatCapped_Never(c) == FALSE
DefeatCapped(c) == hist.defeats[c] >= DefeatCap

LockDefender(p) ==
  LET a == req[p].char
      d == req[p].target
  IN
  /\ pc[p] = "defender"
  /\ MayGo(p)
  /\ \/ ~MayAttack(p, a, d) /\ Reject(p)
     \/ /\ MayAttack(p, a, d)
        /\ LockRow(p, C(d))
        /\ chr' = [chr EXCEPT ![p][d] = Sees(p, C(d))]
        /\ \E w \in {a, d} :
             LET l == IF w = a THEN d ELSE a IN
             fight' = [fight EXCEPT ![p] =
               [winner |-> w, loser |-> l, griefer |-> isGriefLimited(a, d),
                capped |-> DefeatCapped(l), loot |-> 0, late |-> fight[p].late]]
        /\ Goto(p, "loserWallet")
        /\ UNCHANGED <<hist, req, wal, refs>>

\* wallets.getForUpdate, for the loser and then for the winner.
LockWallet(p, here, c, next) ==
  LET w == Sees(p, W(c)) IN
  /\ pc[p] = here
  /\ MayGo(p)
  /\ IF w = NoRow THEN UNCHANGED rcVars ELSE LockRow(p, W(c))
  /\ wal' = [wal EXCEPT ![p][c] = w]
  /\ Goto(p, next)
LockLoserWallet(p) ==
  /\ LockWallet(p, "loserWallet", fight[p].loser, "winnerWallet")
  /\ UNCHANGED <<hist, req, chr, fight, refs>>
LockWinnerWallet(p) ==
  LET w == wal[p][fight[p].loser]
      loot == IF w = NoRow THEN 0 ELSE calculateLoot(w.balance, fight[p].griefer)
  IN
  /\ LockWallet(p, "winnerWallet", fight[p].winner, "persist")
  /\ fight' = [fight EXCEPT ![p].loot = loot]
  /\ UNCHANGED <<hist, req, chr, refs>>

\* The character rows after the fight: both were locked when they were read,
\* and are written back as absolute values.
Max_Stale(c, moral) == c.max
MaxOf(c, moral) == IF c.max > moral THEN c.max ELSE moral
CharacterAfter(p, c) ==
  LET row == chr[p][c]
      moral == IF c = fight[p].winner THEN calculateWinnerSC(row.moral)
               ELSE IF fight[p].capped THEN row.moral ELSE calculateLoserSC(row.moral, 0)
  IN [row EXCEPT !.moral = moral,
                 !.max = IF c = fight[p].winner THEN MaxOf(row, moral) ELSE @,
                 !.nil = IF c = req[p].char THEN @ - NilCost ELSE @]

\* updateNil, the two Moral updates and the debit of the loser, whose version
\* cannot have changed under the lock.
Persist(p) ==
  LET f == fight[p]
      lw == wal[p][f.loser]
      chars == [r \in {C(f.winner), C(f.loser)} |-> CharacterAfter(p, r[2])]
      debit == [r \in {W(f.loser)} |-> [balance |-> lw.balance - f.loot,
                                        version |-> lw.version + 1]]
  IN
  /\ pc[p] = "persist"
  /\ PutAll(p, IF f.loot = 0 THEN chars
               ELSE [r \in DOMAIN chars \cup DOMAIN debit |->
                       IF r \in DOMAIN debit THEN debit[r] ELSE chars[r]])
  /\ Goto(p, IF f.loot = 0 THEN "commit"
             ELSE IF wal[p][f.winner] = NoRow THEN "seed" ELSE "credit")
  /\ UNCHANGED <<hist, req, chr, wal, fight, refs>>

SeedWallet == [balance |-> Seed, version |-> 0]

\* wallets.ensure for a winner without a wallet (module Economy): the INSERT,
\* or the row of whoever was first.
SeedWinner(p) ==
  LET w == fight[p].winner IN
  /\ pc[p] = "seed"
  /\ MayGo(p)
  /\ IF Sees(p, W(w)) = NoRow
     THEN Put(p, W(w), SeedWallet) /\ wal' = [wal EXCEPT ![p][w] = SeedWallet]
     ELSE UNCHANGED rcVars /\ wal' = [wal EXCEPT ![p][w] = Sees(p, W(w))]
  /\ Goto(p, "credit")
  /\ UNCHANGED <<hist, req, chr, fight, refs>>

VersionMatches(p, c) == Sees(p, W(c)).version = wal[p][c].version

\* updateOptimistic of the winner.
CreditWinner(p) ==
  LET w == fight[p].winner IN
  /\ pc[p] = "credit"
  /\ MayGo(p)
  /\ \/ ~VersionMatches(p, w) /\ Reject(p)
     \/ /\ VersionMatches(p, w)
        /\ Put(p, W(w), [balance |-> wal[p][w].balance + fight[p].loot,
                         version |-> wal[p][w].version + 1])
        /\ Goto(p, "commit")
        /\ UNCHANGED <<hist, req, chr, wal, fight, refs>>
-----------------------------------------------------------------------------
\* A purchase, as the locks it takes: ensure, the optimistic debit, the audit
\* entry that references the character.

EnsureWallet(p) ==
  LET c == req[p].char
      w == Sees(p, W(c))
  IN
  /\ pc[p] = "ensure"
  /\ IF w # NoRow
     THEN /\ wal' = [wal EXCEPT ![p][c] = w]
          /\ Goto(p, "debit")
          /\ UNCHANGED <<rcVars, hist, req, chr, fight, refs>>
     ELSE /\ MayGo(p)
          /\ Put(p, W(c), SeedWallet)
          /\ wal' = [wal EXCEPT ![p][c] = SeedWallet]
          /\ Goto(p, "reference")
          /\ UNCHANGED <<hist, req, chr, fight, refs>>

Reference(p, here, next) ==
  /\ pc[p] = here
  /\ MayGo(p)
  /\ refs' = [refs EXCEPT ![p] = @ \cup {req[p].char}]
  /\ Goto(p, next)
  /\ UNCHANGED <<rcVars, hist, req, chr, wal, fight>>
ReferenceSeed(p) == Reference(p, "reference", "debit")
ReferenceAudit(p) == Reference(p, "audit", "commit")

DebitWallet(p) ==
  LET c == req[p].char IN
  /\ pc[p] = "debit"
  /\ MayGo(p)
  /\ \/ (wal[p][c].balance < ItemPrice \/ ~VersionMatches(p, c)) /\ Reject(p)
     \/ /\ wal[p][c].balance >= ItemPrice /\ VersionMatches(p, c)
        /\ Put(p, W(c), [balance |-> wal[p][c].balance - ItemPrice,
                         version |-> wal[p][c].version + 1])
        /\ Goto(p, "audit")
        /\ UNCHANGED <<hist, req, chr, wal, fight, refs>>
-----------------------------------------------------------------------------
Seeded(p) == {c \in Char : owner[W(c)] = p /\ db[W(c)] = NoRow}

\* The totals after p's fight.  A fight is dated by its transaction's start: begun
\* before midnight it does not count in the day, nor in the week if before Monday.
Recorded(p) ==
  LET f == fight[p]
      a == req[p].char
      d == req[p].target
      today == IF "day" \in f.late THEN 0 ELSE 1
      thisWeek == IF "week" \in f.late THEN 0 ELSE 1
      fell == chr[p][f.loser].moral - CharacterAfter(p, f.loser).moral
  IN [hist EXCEPT
       !.fights = @ + 1,
       !.attacks[a] = @ + 1,
       !.looted[f.winner] = @ + f.loot,
       !.lost[f.loser] = @ + f.loot,
       !.moral = [c \in Char |-> IF c = f.winner
                    THEN @[c] + CharacterAfter(p, c).moral - chr[p][c].moral
                    ELSE IF c = f.loser THEN @[c] - fell ELSE @[c]],
       !.defeats[f.loser] = @ + today,
       !.losses[f.loser] = @ + (IF fell > 0 THEN today ELSE 0),
       !.weekly[a][d] = @ + thisWeek,
       !.full[a][d] = @ + (IF f.griefer THEN 0 ELSE thisWeek),
       !.seeded = @ \cup Seeded(p)]

\* insertCombat and COMMIT.
CommitRequest(p) ==
  /\ pc[p] = "commit"
  /\ Commit(p)
  /\ hist' = IF req[p].op = "attack" THEN Recorded(p)
             ELSE [hist EXCEPT !.bought[req[p].char] = @ + ItemPrice,
                               !.seeded = @ \cup Seeded(p)]
  /\ Answered(p)

Lost(p) == pc[p] # "idle" /\ Reject(p)

\* PostgreSQL aborts a transaction that waits in a cycle.
Deadlocked(p) ==
  \E S \in SUBSET Proc : p \in S /\ \A q \in S : \E r \in S : HoldsBack(r, q)
DetectDeadlock(p) == Deadlocked(p) /\ Reject(p)

\* Midnight, or Monday, passes: what is under way is dated before it.
Late(windows) == [p \in Proc |-> IF pc[p] \in {"idle", "check"} THEN fight[p]
                                 ELSE [fight[p] EXCEPT !.late = @ \cup windows]]
DayPasses ==
  /\ \E c \in Char : hist.defeats[c] > 0
  /\ hist' = [hist EXCEPT !.defeats = Zero, !.losses = Zero]
  /\ fight' = Late({"day"})
  /\ UNCHANGED <<rcVars, pc, req, chr, wal, refs>>
WeekPasses ==
  /\ \E a, d \in Char : hist.weekly[a][d] > 0
  /\ hist' = [hist EXCEPT !.defeats = Zero, !.losses = Zero,
                          !.weekly = Zero2, !.full = Zero2]
  /\ fight' = Late(Windows)
  /\ UNCHANGED <<rcVars, pc, req, chr, wal, refs>>

\* An install of module Chrome flatlines a character nobody holds.
Flatline(c) ==
  /\ ~db[C(c)].flat /\ owner[C(c)] = NoProc
  /\ \A p \in Proc : c \notin refs[p]
  /\ db' = [db EXCEPT ![C(c)].flat = TRUE]
  /\ pend' = [pend EXCEPT ![C(c)].flat = TRUE]
  /\ UNCHANGED <<owner, hist, local>>

Step(p) ==
  \/ Check(p) \/ LockAttacker(p) \/ LockDefender(p)
  \/ LockLoserWallet(p) \/ LockWinnerWallet(p)
  \/ Persist(p) \/ SeedWinner(p) \/ CreditWinner(p)
  \/ EnsureWallet(p) \/ ReferenceSeed(p) \/ DebitWallet(p) \/ ReferenceAudit(p)
  \/ CommitRequest(p)

Next ==
  \/ \E p \in Proc : Start(p) \/ Step(p) \/ Lost(p) \/ DetectDeadlock(p)
  \/ DayPasses \/ WeekPasses
  \/ \E c \in Char : Flatline(c)

Spec == Init /\ [][Next]_vars
-----------------------------------------------------------------------------
\* Every value has its type, and no balance, NIL or Moral leaves its range.
TypeOK ==
  /\ DOMAIN db = Rows /\ DOMAIN pend = Rows
  /\ owner \in [Rows -> Proc \cup {NoProc}]
  /\ \A c \in Char : \A row \in {db[C(c)], pend[C(c)]} :
       row \in Characters /\ row.nil >= 0 /\ row.moral <= MaxMoral /\ row.moral <= row.max
  /\ \A c \in Char : \A row \in {db[W(c)], pend[W(c)]} :
       row = NoRow \/ (row \in WalletRows /\ row.balance >= 0)
  /\ pc \in [Proc -> {"idle", "check", "attacker", "defender", "loserWallet", "winnerWallet",
                      "persist", "seed", "credit", "ensure", "reference", "debit", "audit",
                      "commit"}]
  /\ req \in [Proc -> Requests \cup {NoRequest}]
  /\ \A p \in Proc : refs[p] \subseteq Char

\* Every wallet holds its seed or initial balance, what it looted and minus what
\* was looted from it and what it bought: no fight loses or doubles grana,
\* whichever requests raced, deadlocked or were cut off.
LootAccounted ==
  \A c \in Char :
    LET start == IF InitBalance[c] # NoRow THEN InitBalance[c]
                 ELSE IF c \in hist.seeded THEN Seed ELSE 0
    IN (IF db[W(c)] = NoRow THEN 0 ELSE db[W(c)].balance)
         = start + hist.looted[c] - hist.lost[c] - hist.bought[c]

\* Every attack cost its attacker the NIL of one attack, and the Moral of a
\* character is what its fights report.
FightsAccounted ==
  \A c \in Char :
    /\ db[C(c)].nil = InitNil[c] - NilCost * hist.attacks[c]
    /\ db[C(c)].moral = InitMoral[c] + hist.moral[c]

\* Grana, NIL and Moral at once.
BooksBalance == LootAccounted /\ FightsAccounted

\* Of the fights begun and recorded in one day, no more than the cap cost a
\* character Moral, although the defeats are counted before the fight that makes
\* one more is recorded.
DefeatCapHolds == \A c \in Char : hist.losses[c] <= DefeatCap

\* Of the attacks on one target begun and recorded in one week, no more than the
\* limit loot in full.
GriefLimitHolds == \A a, d \in Char : hist.full[a][d] <= GriefLimit

\* The limits of the day and of the week.
LimitsHold == DefeatCapHolds /\ GriefLimitHolds

\* No fight with a flatlined defender takes effect.
ApagadoNotFarmed ==
  [][\A p \in Proc : req[p].op = "attack" /\ hist'.fights > hist.fights /\ pc[p] = "commit"
       /\ pc'[p] = "idle" => ~db[C(req[p].target)].flat]_vars

=============================================================================
