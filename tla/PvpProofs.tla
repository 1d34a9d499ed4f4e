----------------------------- MODULE PvpProofs -----------------------------
(* The books and the limits of player combat, for any characters, powers and   *)
(* prices and any number of concurrent attacks and purchases.                  *)
EXTENDS Pvp, TLAPS

-----------------------------------------------------------------------------
(* The inductive invariant.                                                    *)

Stages == {"idle", "check", "attacker", "defender", "loserWallet", "winnerWallet", "persist", "seed", "credit",
           "ensure", "reference", "debit", "audit", "commit"}
Counts == [Char -> Nat]
Histories == [fights : Nat, attacks : Counts, seeded : SUBSET Char, bought : Counts, looted : Counts,
              lost : Counts, moral : [Char -> Int], defeats : Counts, losses : Counts,
              weekly : [Char -> Counts], full : [Char -> Counts]]

Typed ==
  /\ TypeOK
  /\ hist \in Histories
  /\ chr \in [Proc -> [Char -> Characters \cup {NoRow}]]
  /\ wal \in [Proc -> [Char -> WalletRows \cup {NoRow}]]
  /\ fight \in [Proc -> Fights \cup [loot : {0}, late : SUBSET Windows]]
  /\ refs \in [Proc -> SUBSET Char]

\* An attack that holds both characters, and one that has written them.
Fighting(p) ==
  req[p].op = "attack" /\ pc[p] \in {"loserWallet", "winnerWallet", "persist", "seed", "credit", "commit"}
Fought(p) == req[p].op = "attack" /\ pc[p] \in {"seed", "credit", "commit"}

\* The statements of each kind of request, and the two sides of a fight.
Fits(p) ==
  /\ pc[p] = "idle" <=> req[p] = NoRequest
  /\ pc[p] \in {"check", "attacker", "defender", "loserWallet", "winnerWallet", "persist", "seed", "credit"} =>
       req[p].op = "attack"
  /\ pc[p] \in {"ensure", "reference", "debit", "audit"} => req[p].op = "buy"
  /\ (pc[p] \in {"attacker", "defender"} \/ Fighting(p)) => req[p].target # req[p].char
  /\ Fighting(p) =>
       /\ fight[p] \in Fights
       /\ \/ fight[p].winner = req[p].char /\ fight[p].loser = req[p].target
          \/ fight[p].winner = req[p].target /\ fight[p].loser = req[p].char

\* The characters an attack holds are as it read them until it writes them.
HoldsCharacters(p) ==
  LET a == req[p].char
      d == req[p].target
  IN
  /\ \A c \in Char : owner[C(c)] = p <=> \/ pc[p] = "defender" /\ c = a
                                         \/ Fighting(p) /\ c \in {a, d}
  /\ pc[p] = "defender" => chr[p][a] = db[C(a)] /\ pend[C(a)] = db[C(a)]
  /\ Fighting(p) =>
       /\ \A c \in {a, d} : chr[p][c] = db[C(c)]
       /\ \A c \in {a, d} : pend[C(c)] = IF Fought(p) THEN CharacterAfter(p, c) ELSE db[C(c)]
       /\ db[C(a)].nil >= NilCost /\ ~db[C(d)].flat

\* What a wallet is worth to a transaction that may have to create it, and a read
\* of it that one version guards.
Base(c) == IF db[W(c)] = NoRow THEN SeedWallet ELSE db[W(c)]
Faithful(p, c) ==
  /\ wal[p][c] \in WalletRows
  /\ IF owner[W(c)] = p THEN wal[p][c] = Base(c) /\ pend[W(c)] = Base(c)
     ELSE /\ db[W(c)] # NoRow /\ wal[p][c].version <= db[W(c)].version
          /\ wal[p][c].version = db[W(c)].version => wal[p][c] = db[W(c)]
Moved(p, c, by) == owner[W(c)] = p /\ pend[W(c)] = [balance |-> Base(c).balance + by, version |-> Base(c).version + 1]

\* The wallets of a fight: the loser's is locked if there is one, then the winner's,
\* and both have moved by the loot when it commits.
LootsWallets(p) ==
  LET w == fight[p].winner
      l == fight[p].loser
      loot == fight[p].loot
  IN
  Fighting(p) =>
    /\ \A c \in Char \ {w, l} : owner[W(c)] # p
    /\ owner[W(l)] = p <=> pc[p] # "loserWallet" /\ wal[p][l] # NoRow
    /\ owner[W(l)] = p => /\ wal[p][l] = db[W(l)]
                          /\ IF Fought(p) /\ loot > 0 THEN Moved(p, l, -loot) ELSE pend[W(l)] = db[W(l)]
    /\ pc[p] \in {"loserWallet", "winnerWallet"} => owner[W(w)] # p
    /\ pc[p] \notin {"loserWallet", "winnerWallet"} /\ loot > 0 =>
         wal[p][l] # NoRow /\ loot <= db[W(l)].balance
    /\ (pc[p] = "persist" \/ (pc[p] = "commit" /\ loot = 0)) =>
         /\ owner[W(w)] = p <=> wal[p][w] # NoRow
         /\ owner[W(w)] = p => wal[p][w] = db[W(w)] /\ pend[W(w)] = db[W(w)]
    /\ pc[p] = "seed" => loot > 0 /\ wal[p][w] = NoRow /\ owner[W(w)] # p
    /\ pc[p] = "credit" => loot > 0 /\ Faithful(p, w)
    /\ pc[p] = "commit" /\ loot > 0 => Moved(p, w, loot)

\* The wallet of a purchase.
BuysFrom(p) ==
  LET c == req[p].char IN
  /\ req[p].op = "buy" =>
       /\ \A d \in Char \ {c} : owner[W(d)] # p
       /\ pc[p] = "ensure" => owner[W(c)] # p
       /\ pc[p] = "reference" => owner[W(c)] = p
       /\ pc[p] \in {"reference", "debit"} => Faithful(p, c)
       /\ pc[p] \in {"audit", "commit"} => Moved(p, c, -ItemPrice) /\ Base(c).balance >= ItemPrice
  /\ pc[p] \in {"idle", "check", "attacker", "defender"} => \A d \in Char : owner[W(d)] # p

\* Under the lock on the loser, and on the attacker, no count it is judged by grows.
WithinLimits(p) ==
  Fighting(p) =>
    /\ ~fight[p].capped => hist.defeats[fight[p].loser] < DefeatCap
    /\ ~fight[p].griefer => hist.weekly[req[p].char][req[p].target] < GriefLimit

RequestInv(p) == Fits(p) /\ HoldsCharacters(p) /\ LootsWallets(p) /\ BuysFrom(p) /\ WithinLimits(p)

\* A wallet that is not there was never seeded; every defeat that cost Moral is one.
NotSeeded == \A c \in Char : db[W(c)] = NoRow => c \notin hist.seeded /\ InitBalance[c] = NoRow
Counted ==
  /\ \A c \in Char : hist.losses[c] <= hist.defeats[c]
  /\ \A a, d \in Char : hist.full[a][d] <= hist.weekly[a][d]

Books == NotSeeded /\ Counted /\ BooksBalance /\ LimitsHold

IInv ==
  /\ Typed /\ Books
  /\ \A p \in Proc : RequestInv(p)
-----------------------------------------------------------------------------
\* Rows, requests, and the initial state.

LEMMA Constants ==
  /\ NoProc \notin Proc /\ NoRow \notin WalletRows
  /\ Power \in [Char -> Nat] /\ PowerRange \in Nat
  /\ NilCost \in Nat /\ NilCost > 0 /\ WinnerGain \in Nat /\ WinnerGain > 0 /\ MaxMoral \in Nat
  /\ DefeatCap \in Nat /\ DefeatCap > 0 /\ GriefLimit \in Nat /\ GriefLimit > 0
  /\ LootShare \in Nat \ {0} /\ GrieferShare \in Nat \ {0}
  /\ Seed \in Nat /\ ItemPrice \in Nat
  /\ InitMoral \in [Char -> 0 .. MaxMoral] /\ InitNil \in [Char -> Nat]
  /\ InitBalance \in [Char -> Nat \cup {NoRow}]
  BY PvpAssumption DEF WalletRows

LEMMA RowsApart ==
  /\ \A c \in Char : C(c) \in Rows /\ W(c) \in Rows
  /\ \A c, e \in Char : C(c) # W(e)
  /\ \A c, e \in Char : C(c) = C(e) => c = e
  /\ \A c, e \in Char : W(c) = W(e) => c = e
  /\ \A r \in Rows : \E c \in Char : r = C(c) \/ r = W(c)
  BY DEF Rows, C, W

\* A request that has begun asks for something.
LEMMA Asking ==
  ASSUME TypeOK, NEW p \in Proc
  PROVE  /\ req[p].op = "attack" => req[p].char \in Char /\ req[p].target \in Char
         /\ req[p].op = "buy" => req[p].char \in Char
         /\ req[p] # NoRequest => req[p].op \in {"attack", "buy"}
  BY DEF TypeOK, Requests, NoRequest

LEMMA SeedIsRow == SeedWallet \in WalletRows /\ SeedWallet # NoRow /\ SeedWallet.balance = Seed /\ SeedWallet.version = 0
  BY Constants DEF SeedWallet, WalletRows

LEMMA InitInv == Init => IInv
<1> SUFFICES ASSUME Init PROVE IInv
  OBVIOUS
<1> DEFINE rows == [r \in Rows |->
       IF r[1] = "character"
       THEN [moral |-> InitMoral[r[2]], max |-> InitMoral[r[2]], nil |-> InitNil[r[2]], flat |-> FALSE]
       ELSE IF InitBalance[r[2]] = NoRow THEN NoRow
       ELSE [balance |-> InitBalance[r[2]], version |-> 0]]
<1>1. db = rows /\ pend = rows /\ owner = [r \in DOMAIN rows |-> NoProc]
  BY DEF Init, RcInit
<1>2. /\ DOMAIN db = Rows /\ pend = db
      /\ owner \in [Rows -> Proc \cup {NoProc}]
      /\ \A r \in Rows : owner[r] = NoProc
  BY <1>1
<1>3. \A c \in Char : C(c)[1] = "character" /\ C(c)[2] = c /\ W(c)[1] = "wallet" /\ W(c)[2] = c
  BY DEF C, W
<1>4. \A c \in Char : /\ db[C(c)] = [moral |-> InitMoral[c], max |-> InitMoral[c], nil |-> InitNil[c], flat |-> FALSE]
                      /\ db[W(c)] = IF InitBalance[c] = NoRow THEN NoRow ELSE [balance |-> InitBalance[c], version |-> 0]
  <2> TAKE c \in Char
  <2>1. C(c) \in Rows /\ W(c) \in Rows
    BY RowsApart
  <2>2. db[C(c)] = IF C(c)[1] = "character"
                   THEN [moral |-> InitMoral[C(c)[2]], max |-> InitMoral[C(c)[2]], nil |-> InitNil[C(c)[2]], flat |-> FALSE]
                   ELSE IF InitBalance[C(c)[2]] = NoRow THEN NoRow
                   ELSE [balance |-> InitBalance[C(c)[2]], version |-> 0]
    BY <1>1, <2>1
  <2>3. db[W(c)] = IF W(c)[1] = "character"
                   THEN [moral |-> InitMoral[W(c)[2]], max |-> InitMoral[W(c)[2]], nil |-> InitNil[W(c)[2]], flat |-> FALSE]
                   ELSE IF InitBalance[W(c)[2]] = NoRow THEN NoRow
                   ELSE [balance |-> InitBalance[W(c)[2]], version |-> 0]
    BY <1>1, <2>1
  <2> HIDE DEF rows
  <2> QED
    BY <1>3, <2>2, <2>3
<1> HIDE DEF rows
<1>5. \A c \in Char : InitMoral[c] \in Nat /\ InitMoral[c] <= MaxMoral /\ InitNil[c] \in Nat
  BY Constants
<1>6. \A c \in Char : InitBalance[c] = NoRow \/ InitBalance[c] \in Nat
  BY Constants
<1>7. \A c \in Char : /\ db[C(c)] \in Characters /\ db[C(c)].nil = InitNil[c] /\ db[C(c)].moral = InitMoral[c]
                      /\ db[C(c)].max = InitMoral[c]
  <2> TAKE c \in Char
  <2> DEFINE m == InitMoral[c]
             n == InitNil[c]
  <2>1. db[C(c)] = [moral |-> m, max |-> m, nil |-> n, flat |-> FALSE]
    BY <1>4
  <2>3. m \in Nat /\ n \in Nat
    BY <1>5
  <2> HIDE DEF m, n
  <2>2. db[C(c)] \in Characters /\ db[C(c)].nil = n /\ db[C(c)].moral = m /\ db[C(c)].max = m
    BY <2>1, <2>3 DEF Characters
  <2> QED
    BY <2>2 DEF m, n
<1>8. \A c \in Char : \/ InitBalance[c] = NoRow /\ db[W(c)] = NoRow
                      \/ /\ InitBalance[c] \in Nat /\ InitBalance[c] # NoRow
                         /\ db[W(c)] \in WalletRows /\ db[W(c)] # NoRow /\ db[W(c)].balance = InitBalance[c]
  <2> TAKE c \in Char
  <2> DEFINE b == InitBalance[c]
  <2>1. CASE b = NoRow
    BY <1>4, <2>1
  <2>2. CASE b # NoRow
    <3>1. b \in Nat /\ db[W(c)] = [balance |-> b, version |-> 0]
      BY <1>4, <1>6, <2>2
    <3> HIDE DEF b
    <3>2. db[W(c)] \in WalletRows /\ db[W(c)].balance = b
      BY <3>1 DEF WalletRows
    <3> QED
      BY <2>2, <3>1, <3>2, Constants DEF b
  <2> QED
    BY <2>1, <2>2
<1>9. /\ pc = [p \in Proc |-> "idle"] /\ req = [p \in Proc |-> NoRequest] /\ chr = [p \in Proc |-> NoRows]
      /\ wal = [p \in Proc |-> NoRows] /\ fight = [p \in Proc |-> NoFight] /\ refs = [p \in Proc |-> {}]
  BY DEF Init
<1>10. TypeOK
  <2>1. \A c \in Char : \A row \in {db[C(c)], pend[C(c)]} :
          row \in Characters /\ row.nil >= 0 /\ row.moral <= MaxMoral /\ row.moral <= row.max
    BY <1>2, <1>5, <1>7
  <2>2. \A c \in Char : \A row \in {db[W(c)], pend[W(c)]} : row = NoRow \/ (row \in WalletRows /\ row.balance >= 0)
    BY <1>2, <1>8
  <2> QED
    BY <1>2, <1>9, <2>1, <2>2 DEF TypeOK
<1>11. hist = [fights |-> 0, attacks |-> Zero, seeded |-> {}, bought |-> Zero,
               looted |-> Zero, lost |-> Zero, moral |-> Zero, defeats |-> Zero, losses |-> Zero,
               weekly |-> Zero2, full |-> Zero2]
  BY DEF Init
<1>12. Typed
  <2>1. Zero \in Counts /\ Zero \in [Char -> Int] /\ Zero2 \in [Char -> Counts]
    BY DEF Counts, Zero, Zero2
  <2>2. hist \in Histories
    BY <1>11, <2>1 DEF Histories
  <2>3. NoFight \in [loot : {0}, late : SUBSET Windows] /\ NoRows \in [Char -> Characters \cup {NoRow}]
        /\ NoRows \in [Char -> WalletRows \cup {NoRow}]
    BY DEF NoFight, NoRows
  <2> QED
    BY <1>9, <1>10, <2>2, <2>3 DEF Typed
<1>13. /\ \A c \in Char : /\ hist.seeded = {} /\ hist.looted[c] = 0 /\ hist.lost[c] = 0 /\ hist.bought[c] = 0
                          /\ hist.attacks[c] = 0 /\ hist.moral[c] = 0 /\ hist.losses[c] = 0 /\ hist.defeats[c] = 0
       /\ \A a, d \in Char : hist.full[a][d] = 0 /\ hist.weekly[a][d] = 0
  BY <1>11 DEF Zero, Zero2
<1>14. NotSeeded
  BY <1>8, <1>13 DEF NotSeeded
<1>15. LootAccounted
  <2> SUFFICES ASSUME NEW c \in Char
               PROVE  (IF db[W(c)] = NoRow THEN 0 ELSE db[W(c)].balance)
                        = (IF InitBalance[c] # NoRow THEN InitBalance[c]
                           ELSE IF c \in hist.seeded THEN Seed ELSE 0)
                          + hist.looted[c] - hist.lost[c] - hist.bought[c]
    BY DEF LootAccounted
  <2>1. hist.looted[c] = 0 /\ hist.lost[c] = 0 /\ hist.bought[c] = 0 /\ hist.seeded = {}
    BY <1>13
  <2>2. CASE InitBalance[c] = NoRow
    BY <1>8, <2>1, <2>2
  <2>3. CASE InitBalance[c] # NoRow
    BY <1>8, <2>1, <2>3
  <2> QED
    BY <2>2, <2>3
<1>16. FightsAccounted
  <2> SUFFICES ASSUME NEW c \in Char
               PROVE  db[C(c)].nil = InitNil[c] - NilCost * hist.attacks[c] /\ db[C(c)].moral = InitMoral[c] + hist.moral[c]
    BY DEF FightsAccounted
  <2>1. hist.attacks[c] = 0 /\ hist.moral[c] = 0
    BY <1>13
  <2> QED
    BY <1>5, <1>7, <2>1, Constants
<1>17. Counted /\ LimitsHold
  BY <1>13, Constants DEF Counted, LimitsHold, DefeatCapHolds, GriefLimitHolds
<1>18. \A p \in Proc : RequestInv(p)
  <2> TAKE p \in Proc
  <2>1. /\ pc[p] = "idle" /\ req[p] = NoRequest /\ NoRequest.op = "none"
        /\ \A r \in Rows : owner[r] # p
    BY <1>2, <1>9, Constants DEF NoRequest
  <2>2. ~Fighting(p)
    BY <2>1 DEF Fighting
  <2>3. \A c \in Char : owner[C(c)] # p /\ owner[W(c)] # p
    BY <2>1, RowsApart
  <2> QED
    BY <2>1, <2>2, <2>3 DEF RequestInv, Fits, HoldsCharacters, LootsWallets, BuysFrom, WithinLimits
<1> QED
  BY <1>12, <1>14, <1>15, <1>16, <1>17, <1>18 DEF IInv, Books, BooksBalance
-----------------------------------------------------------------------------
\* What every step leaves alone.

\* What a request keeps; the windows its fight missed may grow.
Unmoved(q) ==
  /\ pc'[q] = pc[q] /\ req'[q] = req[q] /\ chr'[q] = chr[q] /\ wal'[q] = wal[q]
  /\ fight[q] \in Fights =>
       /\ fight'[q] \in Fights
       /\ fight'[q].winner = fight[q].winner /\ fight'[q].loser = fight[q].loser
       /\ fight'[q].griefer = fight[q].griefer /\ fight'[q].capped = fight[q].capped
       /\ fight'[q].loot = fight[q].loot

\* A step of another request leaves the rows q holds alone, publishes later versions
\* of wallets, and adds no defeat or attack of a character that q holds.
RowsOf(q) ==
  /\ \A r \in Rows : /\ owner'[r] = q <=> owner[r] = q
                     /\ owner[r] = q => db'[r] = db[r] /\ pend'[r] = pend[r]
  /\ \A c \in Char : db[W(c)] # NoRow =>
       db'[W(c)] # NoRow /\ (db'[W(c)] = db[W(c)] \/ db'[W(c)].version > db[W(c)].version)
  /\ \A c \in Char : owner[C(c)] = q =>
       /\ hist'.defeats[c] <= hist.defeats[c]
       /\ \A d \in Char : hist'.weekly[c][d] <= hist.weekly[c][d]

LEMMA FaithfulKept ==
  ASSUME Typed, Typed', NEW q \in Proc, NEW c \in Char, Unmoved(q), RowsOf(q), Faithful(q, c)
  PROVE  Faithful(q, c)'
<1>1. /\ db[W(c)] \in WalletRows \cup {NoRow} /\ db'[W(c)] \in WalletRows \cup {NoRow} /\ W(c) \in Rows
      /\ wal'[q][c] = wal[q][c] /\ wal[q][c] \in WalletRows
  BY RowsApart DEF Typed, TypeOK, Faithful, Unmoved
<1>2. CASE owner[W(c)] = q
  BY <1>1, <1>2 DEF Faithful, RowsOf, Base, SeedWallet
<1>3. CASE owner[W(c)] # q
  <2>1. /\ owner'[W(c)] # q /\ db[W(c)] # NoRow /\ db'[W(c)] # NoRow
        /\ db'[W(c)] = db[W(c)] \/ db'[W(c)].version > db[W(c)].version
        /\ wal[q][c].version <= db[W(c)].version
        /\ wal[q][c].version = db[W(c)].version => wal[q][c] = db[W(c)]
    BY <1>1, <1>3 DEF Faithful, RowsOf
  <2>2. wal[q][c].version \in Nat /\ db[W(c)].version \in Nat /\ db'[W(c)].version \in Nat
    BY <1>1, <2>1 DEF WalletRows
  <2>3. wal'[q][c].version <= db'[W(c)].version /\ (wal'[q][c].version = db'[W(c)].version => wal'[q][c] = db'[W(c)])
    BY <1>1, <2>1, <2>2
  <2> QED
    BY <1>1, <2>1, <2>3 DEF Faithful
<1> QED
  BY <1>2, <1>3

LEMMA OthersKeep ==
  ASSUME Typed, Typed', NEW q \in Proc, RequestInv(q), Unmoved(q), RowsOf(q)
  PROVE  RequestInv(q)'
<1> DEFINE a == req[q].char
           d == req[q].target
           w == fight[q].winner
           l == fight[q].loser
<1> USE DEF RequestInv
<1>1. /\ req[q].op = "attack" => a \in Char /\ d \in Char
      /\ req[q].op = "buy" => a \in Char
  BY Asking DEF Typed
<1>2. Fighting(q)' = Fighting(q) /\ Fought(q)' = Fought(q)
  BY DEF Fighting, Fought, Unmoved
<1>3. Fits(q)'
  BY <1>2 DEF Fits, Unmoved
<1>4. Fighting(q) => /\ w \in {a, d} /\ l \in {a, d} /\ w \in Char /\ l \in Char /\ fight[q] \in Fights
                     /\ fight'[q].winner = w /\ fight'[q].loser = l /\ fight'[q].loot = fight[q].loot
                     /\ fight'[q].capped = fight[q].capped /\ fight'[q].griefer = fight[q].griefer
  BY <1>1 DEF Fits, Fighting, Unmoved
<1>5. HoldsCharacters(q)'
  <2>1. \A c \in Char : /\ owner'[C(c)] = q <=> owner[C(c)] = q
                        /\ owner[C(c)] = q => db'[C(c)] = db[C(c)] /\ pend'[C(c)] = pend[C(c)]
    BY RowsApart DEF RowsOf
  <2>2. pc'[q] = pc[q] /\ req'[q] = req[q] /\ chr'[q] = chr[q]
    BY DEF Unmoved
  <2>3. Fighting(q) => \A c \in {a, d} : CharacterAfter(q, c)' = CharacterAfter(q, c)
    BY <1>4, <2>2 DEF CharacterAfter
  <2>4. pc[q] = "defender" => a \in Char
    BY <1>1 DEF Fits
  <2>5. Fighting(q) => a \in Char /\ d \in Char
    BY <1>1 DEF Fighting
  <2>6. pc[q] = "defender" => owner[C(a)] = q
    BY <2>4 DEF HoldsCharacters
  <2>7. Fighting(q) => owner[C(a)] = q /\ owner[C(d)] = q
    BY <2>5 DEF HoldsCharacters
  <2>8. \A c \in Char : owner'[C(c)] = q <=> \/ pc'[q] = "defender" /\ c = req'[q].char
                                             \/ Fighting(q)' /\ c \in {req'[q].char, req'[q].target}
    BY <1>2, <2>1, <2>2 DEF HoldsCharacters
  <2>9. pc[q] = "defender" => chr[q][a] = db'[C(a)] /\ pend'[C(a)] = db'[C(a)]
    BY <2>1, <2>4, <2>6 DEF HoldsCharacters
  <2>10. Fighting(q) =>
           /\ \A c \in {a, d} : chr[q][c] = db'[C(c)]
           /\ \A c \in {a, d} : pend'[C(c)] = IF Fought(q) THEN CharacterAfter(q, c)' ELSE db'[C(c)]
           /\ db'[C(a)].nil >= NilCost /\ ~db'[C(d)].flat
    BY <2>1, <2>3, <2>5, <2>7 DEF HoldsCharacters
  <2> QED
    BY <1>2, <2>2, <2>8, <2>9, <2>10 DEF HoldsCharacters
<1>6. \A c \in Char : /\ owner'[W(c)] = q <=> owner[W(c)] = q
                      /\ owner[W(c)] = q => db'[W(c)] = db[W(c)] /\ pend'[W(c)] = pend[W(c)] /\ Base(c)' = Base(c)
                      /\ \A n : Moved(q, c, n) => Moved(q, c, n)'
  BY RowsApart DEF RowsOf, Base, Moved, SeedWallet
<1>7. \A c \in Char : Faithful(q, c) => Faithful(q, c)'
  BY FaithfulKept
<1>8. LootsWallets(q)'
  <2> SUFFICES ASSUME Fighting(q)
               PROVE  LootsWallets(q)'
    BY <1>2 DEF LootsWallets
  <2> HIDE DEF w, l
  <2>1. LootsWallets(q) /\ w \in Char /\ l \in Char /\ wal'[q] = wal[q] /\ pc'[q] = pc[q]
    BY <1>4 DEF Unmoved
  <2>2. owner[W(l)] = q <=> pc[q] # "loserWallet" /\ wal[q][l] # NoRow
    BY <2>1 DEF LootsWallets, w, l
  <2>3. owner[W(l)] = q => wal[q][l] = db[W(l)] /\ IF Fought(q) /\ fight[q].loot > 0 THEN Moved(q, l, -fight[q].loot)
                                                   ELSE pend[W(l)] = db[W(l)]
    BY <2>1 DEF LootsWallets, w, l
  <2>4. owner'[W(l)] = q => wal[q][l] = db'[W(l)] /\ IF Fought(q) /\ fight[q].loot > 0 THEN Moved(q, l, -fight[q].loot)'
                                                     ELSE pend'[W(l)] = db'[W(l)]
    <3>1. l' = l /\ fight'[q].loot = fight[q].loot
      BY <1>4 DEF l
    <3> QED
      BY <1>6, <2>1, <2>3, <3>1
  <2> QED
    BY <1>2, <1>4, <1>6, <1>7, <2>1, <2>2, <2>4 DEF LootsWallets, w, l
<1>9. BuysFrom(q)'
  <2>1. BuysFrom(q) /\ pc'[q] = pc[q] /\ req'[q] = req[q]
    BY DEF Unmoved
  <2>2. pc[q] \in {"idle", "check", "attacker", "defender"} => \A c \in Char : owner'[W(c)] # q
    BY <1>6, <2>1 DEF BuysFrom
  <2>3. ASSUME req[q].op = "buy"
        PROVE  /\ \A c \in Char \ {a} : owner'[W(c)] # q
               /\ pc[q] = "ensure" => owner'[W(a)] # q
               /\ pc[q] = "reference" => owner'[W(a)] = q
               /\ pc[q] \in {"reference", "debit"} => Faithful(q, a)'
               /\ pc[q] \in {"audit", "commit"} => Moved(q, a, -ItemPrice)' /\ Base(a)'.balance >= ItemPrice
    <3>1. a \in Char
      BY <1>1, <2>3
    <3>2. /\ owner'[W(a)] = q <=> owner[W(a)] = q
          /\ owner[W(a)] = q => Base(a)' = Base(a)
          /\ Moved(q, a, -ItemPrice) => Moved(q, a, -ItemPrice)'
          /\ Faithful(q, a) => Faithful(q, a)'
      <4>1. a' = a
        BY <2>1
      <4> QED
        BY <1>6, <1>7, <3>1, <4>1
    <3>3. /\ \A c \in Char \ {a} : owner[W(c)] # q
          /\ pc[q] = "ensure" => owner[W(a)] # q
          /\ pc[q] = "reference" => owner[W(a)] = q
          /\ pc[q] \in {"reference", "debit"} => Faithful(q, a)
          /\ pc[q] \in {"audit", "commit"} => Moved(q, a, -ItemPrice) /\ Base(a).balance >= ItemPrice /\ owner[W(a)] = q
      BY <2>1, <2>3 DEF BuysFrom, Moved
    <3> HIDE DEF a
    <3> QED
      BY <1>6, <3>2, <3>3
  <2> QED
    BY <2>1, <2>2, <2>3 DEF BuysFrom
<1>10. WithinLimits(q)'
  <2> SUFFICES ASSUME Fighting(q)
               PROVE  WithinLimits(q)'
    BY <1>2 DEF WithinLimits
  <2>1. a \in Char /\ d \in Char /\ l \in {a, d} /\ req'[q] = req[q]
    BY <1>1, <1>4 DEF Fighting, Unmoved
  <2>2. owner[C(a)] = q /\ owner[C(d)] = q
    BY <2>1 DEF HoldsCharacters
  <2>3. hist'.defeats[l] <= hist.defeats[l] /\ hist'.weekly[a][d] <= hist.weekly[a][d]
    BY <2>1, <2>2 DEF RowsOf
  <2>4. /\ hist.defeats[l] \in Nat /\ hist'.defeats[l] \in Nat
        /\ hist.weekly[a][d] \in Nat /\ hist'.weekly[a][d] \in Nat
    BY <2>1 DEF Typed, Histories, Counts
  <2> HIDE DEF a, d, l
  <2>5. /\ ~fight[q].capped => hist.defeats[l] < DefeatCap
        /\ ~fight[q].griefer => hist.weekly[a][d] < GriefLimit
    BY DEF WithinLimits, a, d, l
  <2>6. /\ ~fight[q].capped => hist'.defeats[l] < DefeatCap
        /\ ~fight[q].griefer => hist'.weekly[a][d] < GriefLimit
    BY <2>3, <2>4, <2>5, Constants
  <2> QED
    BY <1>4, <2>1, <2>6 DEF WithinLimits, a, d, l
<1> QED
  BY <1>3, <1>5, <1>8, <1>9, <1>10

LEMMA StepKeeps ==
  ASSUME IInv, NEW p \in Proc, Typed', Books', RequestInv(p)',
         \A q \in Proc \ {p} : Unmoved(q) /\ RowsOf(q)
  PROVE  IInv'
<1>1. \A q \in Proc : RequestInv(q)'
  BY OthersKeep DEF IInv
<1> QED
  BY <1>1 DEF IInv

LEMMA BooksSame ==
  ASSUME IInv, db' = db, hist' = hist
  PROVE  Books'
  BY DEF IInv, Books, NotSeeded, Counted, BooksBalance, LootAccounted, FightsAccounted, LimitsHold,
         DefeatCapHolds, GriefLimitHolds

\* Counts that stay do not grow.
LEMMA CountsStay ==
  ASSUME Typed, hist' = hist, NEW c \in Char
  PROVE  hist'.defeats[c] <= hist.defeats[c] /\ \A d \in Char : hist'.weekly[c][d] <= hist.weekly[c][d]
<1>1. hist.defeats[c] \in Nat /\ \A d \in Char : hist.weekly[c][d] \in Nat
  BY DEF Typed, Histories, Counts
<1> QED
  BY <1>1

\* A step that publishes nothing: p may take rows nobody else holds.
LEMMA QuietStep ==
  ASSUME IInv, NEW p \in Proc, db' = db, hist' = hist,
         \A r \in Rows : \/ owner'[r] = owner[r] /\ (owner[r] # p => pend'[r] = pend[r])
                         \/ owner[r] = NoProc /\ owner'[r] = p
                         \/ owner[r] = p /\ owner'[r] = NoProc,
         Typed', RequestInv(p)', \A q \in Proc \ {p} : Unmoved(q)
  PROVE  IInv'
<1>1. ASSUME NEW q \in Proc \ {p}
      PROVE  RowsOf(q)
  <2>1. q # NoProc /\ q # p /\ p # NoProc
    BY Constants
  <2>2. \A r \in Rows : /\ owner'[r] = q <=> owner[r] = q
                        /\ owner[r] = q => pend'[r] = pend[r]
    BY <2>1
  <2> QED
    BY <2>2, CountsStay DEF RowsOf, IInv
<1>2. Books'
  BY BooksSame
<1> QED
  BY <1>1, <1>2, StepKeeps

LEMMA LocalStep ==
  ASSUME IInv, NEW p \in Proc, UNCHANGED <<rcVars, hist>>, Typed', RequestInv(p)',
         \A q \in Proc \ {p} : Unmoved(q)
  PROVE  IInv'
<1>1. \A r \in Rows : owner'[r] = owner[r] /\ pend'[r] = pend[r]
  BY DEF rcVars
<1>2. db' = db /\ hist' = hist
  BY DEF rcVars
<1> QED
  BY <1>1, <1>2, QuietStep

LEMMA GotoFacts ==
  ASSUME IInv, NEW p \in Proc, NEW n \in Stages, Goto(p, n)
  PROVE  pc'[p] = n /\ pc' \in [Proc -> Stages] /\ \A q \in Proc \ {p} : pc'[q] = pc[q]
  BY DEF IInv, Typed, TypeOK, Goto, Stages

\* A request that is over asks for nothing.
LEMMA AnsweredFacts ==
  ASSUME IInv, NEW p \in Proc, Answered(p)
  PROVE  /\ pc'[p] = "idle" /\ req'[p] = NoRequest
         /\ pc' \in [Proc -> Stages] /\ req' \in [Proc -> Requests \cup {NoRequest}]
         /\ chr' \in [Proc -> [Char -> Characters \cup {NoRow}]]
         /\ wal' \in [Proc -> [Char -> WalletRows \cup {NoRow}]]
         /\ fight' \in [Proc -> Fights \cup [loot : {0}, late : SUBSET Windows]]
         /\ refs' \in [Proc -> SUBSET Char]
         /\ \A q \in Proc \ {p} : Unmoved(q)
<1>1. Goto(p, "idle") /\ "idle" \in Stages
  BY DEF Answered, Stages
<1>2. pc'[p] = "idle" /\ pc' \in [Proc -> Stages] /\ \A q \in Proc \ {p} : pc'[q] = pc[q]
  BY <1>1, GotoFacts
<1>3. NoFight \in [loot : {0}, late : SUBSET Windows] /\ NoRows \in [Char -> Characters \cup {NoRow}]
      /\ NoRows \in [Char -> WalletRows \cup {NoRow}]
  BY DEF NoFight, NoRows
<1>4. /\ req' = [req EXCEPT ![p] = NoRequest] /\ chr' = [chr EXCEPT ![p] = NoRows]
      /\ wal' = [wal EXCEPT ![p] = NoRows] /\ fight' = [fight EXCEPT ![p] = NoFight]
      /\ refs' = [refs EXCEPT ![p] = {}]
  BY DEF Answered
<1>5. /\ req \in [Proc -> Requests \cup {NoRequest}]
      /\ chr \in [Proc -> [Char -> Characters \cup {NoRow}]]
      /\ wal \in [Proc -> [Char -> WalletRows \cup {NoRow}]]
      /\ fight \in [Proc -> Fights \cup [loot : {0}, late : SUBSET Windows]]
      /\ refs \in [Proc -> SUBSET Char]
  BY DEF IInv, Typed, TypeOK
<1> HIDE DEF Answered
<1>6. \A q \in Proc \ {p} : req'[q] = req[q] /\ chr'[q] = chr[q] /\ wal'[q] = wal[q] /\ fight'[q] = fight[q]
  BY <1>4, <1>5
<1> QED
  BY <1>2, <1>3, <1>4, <1>5, <1>6 DEF Unmoved

LEMMA IdleInv ==
  ASSUME NEW p \in Proc, pc'[p] = "idle", req'[p] = NoRequest, \A r \in Rows : owner'[r] # p
  PROVE  RequestInv(p)'
<1>1. NoRequest.op = "none"
  BY DEF NoRequest
<1>2. ~Fighting(p)'
  BY <1>1 DEF Fighting
<1>3. \A c \in Char : owner'[C(c)] # p /\ owner'[W(c)] # p
  BY RowsApart
<1> QED
  BY <1>1, <1>2, <1>3 DEF RequestInv, Fits, HoldsCharacters, LootsWallets, BuysFrom, WithinLimits

\* The rows of a type-correct state, whoever looks at them.
LEMMA RowsTyped ==
  ASSUME Typed
  PROVE  /\ DOMAIN db = Rows /\ DOMAIN pend = Rows /\ owner \in [Rows -> Proc \cup {NoProc}]
         /\ \A c \in Char :
              /\ db[C(c)] \in Characters /\ db[C(c)].nil >= 0 /\ db[C(c)].moral <= MaxMoral /\ db[C(c)].moral <= db[C(c)].max
              /\ pend[C(c)] \in Characters /\ pend[C(c)].nil >= 0 /\ pend[C(c)].moral <= MaxMoral
              /\ pend[C(c)].moral <= pend[C(c)].max
              /\ db[W(c)] = NoRow \/ (db[W(c)] \in WalletRows /\ db[W(c)].balance >= 0)
              /\ pend[W(c)] = NoRow \/ (pend[W(c)] \in WalletRows /\ pend[W(c)].balance >= 0)
  BY DEF Typed, TypeOK

LEMMA SeesTyped ==
  ASSUME Typed, NEW p \in Proc, NEW c \in Char
  PROVE  /\ Sees(p, C(c)) \in Characters /\ Sees(p, C(c)).nil >= 0
         /\ Sees(p, C(c)).moral <= MaxMoral /\ Sees(p, C(c)).moral <= Sees(p, C(c)).max
         /\ Sees(p, W(c)) = NoRow \/ (Sees(p, W(c)) \in WalletRows /\ Sees(p, W(c)).balance >= 0)
  BY RowsTyped DEF Sees

\* The types of the next state from those of its parts.
LEMMA TypedFrom ==
  ASSUME DOMAIN db' = Rows, DOMAIN pend' = Rows, owner' \in [Rows -> Proc \cup {NoProc}],
         \A c \in Char :
              /\ db'[C(c)] \in Characters /\ db'[C(c)].nil >= 0 /\ db'[C(c)].moral <= MaxMoral
              /\ db'[C(c)].moral <= db'[C(c)].max
              /\ pend'[C(c)] \in Characters /\ pend'[C(c)].nil >= 0 /\ pend'[C(c)].moral <= MaxMoral
              /\ pend'[C(c)].moral <= pend'[C(c)].max
              /\ db'[W(c)] = NoRow \/ (db'[W(c)] \in WalletRows /\ db'[W(c)].balance >= 0)
              /\ pend'[W(c)] = NoRow \/ (pend'[W(c)] \in WalletRows /\ pend'[W(c)].balance >= 0),
         pc' \in [Proc -> Stages], req' \in [Proc -> Requests \cup {NoRequest}],
         hist' \in Histories,
         chr' \in [Proc -> [Char -> Characters \cup {NoRow}]],
         wal' \in [Proc -> [Char -> WalletRows \cup {NoRow}]],
         fight' \in [Proc -> Fights \cup [loot : {0}, late : SUBSET Windows]],
         refs' \in [Proc -> SUBSET Char]
  PROVE  Typed'
<1>1. \A c \in Char : \A row \in {db'[C(c)], pend'[C(c)]} :
        row \in Characters /\ row.nil >= 0 /\ row.moral <= MaxMoral /\ row.moral <= row.max
  OBVIOUS
<1>2. \A c \in Char : \A row \in {db'[W(c)], pend'[W(c)]} : row = NoRow \/ (row \in WalletRows /\ row.balance >= 0)
  OBVIOUS
<1>3. \A p \in Proc : refs'[p] \subseteq Char
  OBVIOUS
<1>4. TypeOK'
  BY <1>1, <1>2, <1>3 DEF TypeOK, Stages
<1> QED
  BY <1>4 DEF Typed
-----------------------------------------------------------------------------
\* Rolling back.

LEMMA RejectInv ==
  ASSUME IInv, NEW p \in Proc, Reject(p)
  PROVE  IInv'
<1>a. Answered(p) /\ Rollback(p) /\ hist' = hist
  BY DEF Reject
<1>f. /\ pc'[p] = "idle" /\ req'[p] = NoRequest
      /\ pc' \in [Proc -> Stages] /\ req' \in [Proc -> Requests \cup {NoRequest}]
      /\ chr' \in [Proc -> [Char -> Characters \cup {NoRow}]]
      /\ wal' \in [Proc -> [Char -> WalletRows \cup {NoRow}]]
      /\ fight' \in [Proc -> Fights \cup [loot : {0}, late : SUBSET Windows]]
      /\ refs' \in [Proc -> SUBSET Char]
      /\ \A q \in Proc \ {p} : Unmoved(q)
  BY <1>a, AnsweredFacts
<1>1. /\ db' = db /\ DOMAIN pend' = Rows
      /\ \A r \in Rows : /\ pend'[r] = (IF owner[r] = p THEN db[r] ELSE pend[r])
                         /\ owner'[r] = IF owner[r] = p THEN NoProc ELSE owner[r]
      /\ owner' \in [Rows -> Proc \cup {NoProc}]
  <2>1. DOMAIN db = Rows /\ DOMAIN pend = Rows /\ owner \in [Rows -> Proc \cup {NoProc}]
    BY DEF IInv, Typed, TypeOK
  <2>2. /\ pend' = [r \in DOMAIN db |-> IF owner[r] = p THEN db[r] ELSE pend[r]]
        /\ owner' = [r \in DOMAIN owner |-> IF owner[r] = p THEN NoProc ELSE owner[r]]
        /\ db' = db
    BY <1>a DEF Rollback, Released
  <2> QED
    BY <2>1, <2>2
<1>2. Typed'
  <2>1. hist' \in Histories /\ Typed
    BY <1>a DEF IInv, Typed
  <2>2. DOMAIN db' = Rows
    BY <1>1, <2>1, RowsTyped
  <2>3. \A c \in Char : /\ pend'[C(c)] \in {db[C(c)], pend[C(c)]} /\ db'[C(c)] = db[C(c)]
                        /\ pend'[W(c)] \in {db[W(c)], pend[W(c)]} /\ db'[W(c)] = db[W(c)]
    BY <1>1, RowsApart
  <2> QED
    BY <1>f, <1>1, <2>1, <2>2, <2>3, RowsTyped, TypedFrom
<1>3. \A r \in Rows : owner'[r] # p
  BY <1>1, Constants
<1>4. RequestInv(p)'
  BY <1>f, <1>3, IdleInv
<1> QED
  BY <1>a, <1>f, <1>1, <1>2, <1>4, QuietStep
-----------------------------------------------------------------------------
\* The statements that lock the characters.

\* Before its first lock a request holds nothing.
LEMMA HoldsNothing ==
  ASSUME IInv, NEW p \in Proc, pc[p] \in {"idle", "check", "attacker"}
  PROVE  \A r \in Rows : owner[r] # p
<1>1. ~Fighting(p) /\ pc[p] # "defender"
  BY DEF Fighting
<1>2. \A c \in Char : owner[C(c)] # p
  BY <1>1 DEF IInv, RequestInv, HoldsCharacters
<1>3. \A c \in Char : owner[W(c)] # p
  BY DEF IInv, RequestInv, BuysFrom
<1> QED
  BY <1>2, <1>3, RowsApart

LEMMA UnheldInv ==
  ASSUME NEW p \in Proc, Fits(p)', req'[p] \in Requests, \A r \in Rows : owner'[r] # p,
         pc'[p] \in {"check", "attacker", "ensure"}
  PROVE  RequestInv(p)'
<1>1. ~Fighting(p)' /\ pc'[p] # "defender"
  BY DEF Fighting
<1>2. \A c \in Char : owner'[C(c)] # p /\ owner'[W(c)] # p
  BY RowsApart
<1>3. HoldsCharacters(p)' /\ LootsWallets(p)' /\ WithinLimits(p)'
  BY <1>1, <1>2 DEF HoldsCharacters, LootsWallets, WithinLimits
<1>4. BuysFrom(p)'
  <2>1. pc'[p] \in {"check", "attacker"} => req'[p].op = "attack"
    BY DEF Fits
  <2>2. req'[p].op = "buy" => req'[p].char \in Char
    BY DEF Requests
  <2> QED
    BY <1>2, <2>1, <2>2 DEF BuysFrom
<1> QED
  BY <1>3, <1>4 DEF RequestInv

LEMMA StartInv ==
  ASSUME IInv, NEW p \in Proc, Start(p)
  PROVE  IInv'
<1>1. PICK r \in Requests : /\ req' = [req EXCEPT ![p] = r]
                            /\ Goto(p, IF r.op = "attack" THEN "check" ELSE "ensure")
  BY DEF Start
<1>2. pc[p] = "idle" /\ UNCHANGED <<rcVars, hist, chr, wal, fight, refs>>
  BY DEF Start
<1>3. /\ pc'[p] = (IF r.op = "attack" THEN "check" ELSE "ensure") /\ pc' \in [Proc -> Stages]
      /\ \A q \in Proc \ {p} : pc'[q] = pc[q]
  <2> DEFINE n == IF r.op = "attack" THEN "check" ELSE "ensure"
  <2>1. n \in Stages /\ Goto(p, n)
    BY <1>1 DEF Stages
  <2> HIDE DEF n
  <2>2. pc'[p] = n /\ pc' \in [Proc -> Stages] /\ \A q \in Proc \ {p} : pc'[q] = pc[q]
    BY <2>1, GotoFacts
  <2> QED
    BY <2>2 DEF n
<1>4. /\ req'[p] = r /\ req' \in [Proc -> Requests \cup {NoRequest}]
      /\ \A q \in Proc \ {p} : req'[q] = req[q]
  BY <1>1 DEF IInv, Typed, TypeOK
<1>5. Typed'
  BY <1>2, <1>3, <1>4, RowsTyped, TypedFrom DEF IInv, Typed, rcVars
<1>6. \A q \in Proc \ {p} : Unmoved(q)
  BY <1>2, <1>3, <1>4 DEF Unmoved
<1>7. Fits(p)'
  <2>1. r.op \in {"attack", "buy"} /\ r # NoRequest
    BY <1>1 DEF Requests, NoRequest
  <2> QED
    BY <1>3, <1>4, <2>1 DEF Fits, Fighting
<1>8. \A s \in Rows : owner'[s] # p
  BY <1>2, HoldsNothing DEF rcVars
<1>9. RequestInv(p)'
  BY <1>1, <1>3, <1>4, <1>7, <1>8, UnheldInv
<1> QED
  BY <1>2, <1>5, <1>6, <1>9, LocalStep

LEMMA CheckInv ==
  ASSUME IInv, NEW p \in Proc, Check(p)
  PROVE  IInv'
<1>1. CASE Reject(p)
  BY <1>1, RejectInv
<1>2. CASE ~Reject(p)
  <2>1. /\ pc[p] = "check" /\ Goto(p, "attacker") /\ req[p].target # req[p].char
        /\ UNCHANGED <<rcVars, hist, req, chr, wal, fight, refs>> /\ "attacker" \in Stages
    BY <1>2 DEF Check, Stages
  <2>2. pc'[p] = "attacker" /\ pc' \in [Proc -> Stages] /\ \A q \in Proc \ {p} : pc'[q] = pc[q]
    BY <2>1, GotoFacts
  <2>3. Typed'
    BY <2>1, <2>2, RowsTyped, TypedFrom DEF IInv, Typed, TypeOK, rcVars
  <2>4. \A q \in Proc \ {p} : Unmoved(q)
    BY <2>1, <2>2 DEF Unmoved
  <2>5. Fits(p)'
    BY <2>1, <2>2 DEF Fits, Fighting, IInv, RequestInv
  <2>6. \A s \in Rows : owner'[s] # p
    BY <2>1, HoldsNothing DEF rcVars
  <2>7. RequestInv(p)'
    <3>1. req'[p] \in Requests
      BY <2>1, Asking DEF IInv, RequestInv, Fits, Typed, TypeOK
    <3> QED
      BY <2>2, <2>5, <2>6, <3>1, UnheldInv
  <2> QED
    BY <2>1, <2>3, <2>4, <2>7, LocalStep
<1> QED
  BY <1>1, <1>2

LEMMA PutFacts ==
  ASSUME IInv, NEW p \in Proc, NEW r \in Rows, NEW v, Put(p, r, v)
  PROVE  /\ pend'[r] = v /\ owner'[r] = p /\ owner[r] \in {p, NoProc}
         /\ \A s \in Rows \ {r} : pend'[s] = pend[s] /\ owner'[s] = owner[s]
         /\ db' = db /\ DOMAIN db' = Rows /\ DOMAIN pend' = Rows /\ owner' \in [Rows -> Proc \cup {NoProc}]
  BY DEF IInv, Typed, TypeOK, Put, CanLock

\* p writes one row and publishes nothing.
LEMMA PutStep ==
  ASSUME IInv, NEW p \in Proc, NEW r \in Rows, NEW v, Put(p, r, v), hist' = hist,
         Typed', RequestInv(p)', \A q \in Proc \ {p} : Unmoved(q)
  PROVE  IInv'
<1>1. /\ pend'[r] = v /\ owner'[r] = p /\ owner[r] \in {p, NoProc}
      /\ \A s \in Rows \ {r} : pend'[s] = pend[s] /\ owner'[s] = owner[s]
      /\ db' = db
  BY PutFacts
<1>2. \A s \in Rows : \/ owner'[s] = owner[s] /\ (owner[s] # p => pend'[s] = pend[s])
                      \/ owner[s] = NoProc /\ owner'[s] = p
                      \/ owner[s] = p /\ owner'[s] = NoProc
  BY <1>1
<1> QED
  BY <1>1, <1>2, QuietStep

LEMMA LockAttackerInv ==
  ASSUME IInv, NEW p \in Proc, LockAttacker(p)
  PROVE  IInv'
<1> DEFINE a == req[p].char
           v == Sees(p, C(a))
<1>1. /\ pc[p] = "attacker" /\ Put(p, C(a), v) /\ chr' = [chr EXCEPT ![p][a] = v]
      /\ Goto(p, "defender") /\ UNCHANGED <<hist, req, wal, fight, refs>> /\ "defender" \in Stages
  BY DEF LockAttacker, LockRow, ForUpdate, Stages
<1>2. pc'[p] = "defender" /\ pc' \in [Proc -> Stages] /\ \A q \in Proc \ {p} : pc'[q] = pc[q]
  BY <1>1, GotoFacts
<1>3. req[p].op = "attack" /\ req[p] # NoRequest /\ req[p].target # a /\ a \in Char /\ req[p].target \in Char
  BY <1>1, Asking DEF IInv, RequestInv, Fits, Typed
<1>4. \A s \in Rows : owner[s] # p
  BY <1>1, HoldsNothing
<1>5. C(a) \in Rows /\ v = db[C(a)] /\ v \in Characters /\ v.nil >= 0 /\ v.moral <= MaxMoral /\ v.moral <= v.max
  BY <1>3, <1>4, RowsApart, RowsTyped DEF Sees, IInv
<1> HIDE DEF v
<1>6. /\ pend'[C(a)] = v /\ owner'[C(a)] = p
      /\ \A s \in Rows \ {C(a)} : pend'[s] = pend[s] /\ owner'[s] = owner[s]
      /\ db' = db /\ DOMAIN db' = Rows /\ DOMAIN pend' = Rows /\ owner' \in [Rows -> Proc \cup {NoProc}]
  BY <1>1, <1>5, PutFacts
<1>7. /\ chr'[p][a] = v /\ chr' \in [Proc -> [Char -> Characters \cup {NoRow}]]
      /\ \A q \in Proc \ {p} : chr'[q] = chr[q]
  BY <1>1, <1>3, <1>5 DEF IInv, Typed
<1>8. Typed'
  <2>1. \A c \in Char : /\ pend'[C(c)] \in {pend[C(c)], v} /\ pend'[W(c)] = pend[W(c)]
                        /\ db'[C(c)] = db[C(c)] /\ db'[W(c)] = db[W(c)]
    BY <1>3, <1>6, RowsApart
  <2>2. \A c \in Char : /\ pend'[C(c)] \in Characters /\ pend'[C(c)].nil >= 0 /\ pend'[C(c)].moral <= MaxMoral
                        /\ pend'[C(c)].moral <= pend'[C(c)].max
    BY <1>5, <2>1, RowsTyped DEF IInv
  <2>3. /\ hist' \in Histories /\ req' \in [Proc -> Requests \cup {NoRequest}]
        /\ wal' \in [Proc -> [Char -> WalletRows \cup {NoRow}]]
        /\ fight' \in [Proc -> Fights \cup [loot : {0}, late : SUBSET Windows]]
        /\ refs' \in [Proc -> SUBSET Char]
    BY <1>1 DEF IInv, Typed, TypeOK
  <2> QED
    BY <1>2, <1>6, <1>7, <2>1, <2>2, <2>3, RowsTyped, TypedFrom DEF IInv
<1>9. \A q \in Proc \ {p} : Unmoved(q)
  BY <1>1, <1>2, <1>7 DEF Unmoved
<1>10. RequestInv(p)'
  <2>1. ~Fighting(p)' /\ req'[p] = req[p]
    BY <1>1, <1>2 DEF Fighting
  <2>2. \A c \in Char : (owner'[C(c)] = p <=> c = a) /\ owner'[W(c)] # p
    BY <1>3, <1>4, <1>6, RowsApart
  <2>3. Fits(p)'
    BY <1>2, <1>3, <2>1 DEF Fits
  <2>4. HoldsCharacters(p)'
    <3>1. a' = a /\ db'[C(a)] = v
      BY <1>5, <1>6, <2>1
    <3> HIDE DEF a
    <3>2. req'[p].char = a
      BY <3>1 DEF a
    <3> QED
      BY <1>2, <1>6, <1>7, <2>1, <2>2, <3>1, <3>2 DEF HoldsCharacters
  <2>5. LootsWallets(p)' /\ BuysFrom(p)' /\ WithinLimits(p)'
    BY <1>2, <1>3, <2>1, <2>2 DEF LootsWallets, BuysFrom, WithinLimits
  <2> QED
    BY <2>3, <2>4, <2>5 DEF RequestInv
<1> QED
  BY <1>1, <1>5, <1>8, <1>9, <1>10, PutStep

LEMMA LockDefenderInv ==
  ASSUME IInv, NEW p \in Proc, LockDefender(p)
  PROVE  IInv'
<1> DEFINE a == req[p].char
           d == req[p].target
           v == Sees(p, C(d))
<1>1. CASE Reject(p)
  BY <1>1, RejectInv
<1>2. CASE ~Reject(p)
  <2>1. /\ pc[p] = "defender" /\ MayAttack(p, a, d) /\ Put(p, C(d), v) /\ chr' = [chr EXCEPT ![p][d] = v]
        /\ Goto(p, "loserWallet") /\ UNCHANGED <<hist, req, wal, refs>> /\ "loserWallet" \in Stages
    BY <1>2 DEF LockDefender, LockRow, ForUpdate, Stages
  <2>2. PICK w \in {a, d} :
          fight' = [fight EXCEPT ![p] =
               [winner |-> w, loser |-> IF w = a THEN d ELSE a, griefer |-> isGriefLimited(a, d),
                capped |-> DefeatCapped(IF w = a THEN d ELSE a), loot |-> 0, late |-> fight[p].late]]
    BY <1>2 DEF LockDefender
  <2> DEFINE l == IF w = a THEN d ELSE a
             f == [winner |-> w, loser |-> l, griefer |-> isGriefLimited(a, d),
                   capped |-> DefeatCapped(l), loot |-> 0, late |-> fight[p].late]
  <2>3. pc'[p] = "loserWallet" /\ pc' \in [Proc -> Stages] /\ \A q \in Proc \ {p} : pc'[q] = pc[q]
    BY <2>1, GotoFacts
  <2>4. req[p].op = "attack" /\ req[p] # NoRequest /\ d # a /\ a \in Char /\ d \in Char
    BY <2>1, Asking DEF IInv, RequestInv, Fits, Typed
  <2>5. /\ \A c \in Char : (owner[C(c)] = p <=> c = a) /\ owner[W(c)] # p
        /\ chr[p][a] = db[C(a)] /\ pend[C(a)] = db[C(a)]
    BY <2>1 DEF IInv, RequestInv, HoldsCharacters, BuysFrom, Fighting
  <2>6. C(d) \in Rows /\ v = db[C(d)] /\ v \in Characters /\ v.nil >= 0 /\ v.moral <= MaxMoral /\ v.moral <= v.max
    BY <2>4, <2>5, RowsApart, RowsTyped DEF Sees, IInv
  <2>7. ~v.flat /\ db[C(a)].nil >= NilCost
    BY <2>1, <2>5 DEF MayAttack
  <2> HIDE DEF v
  <2>8. /\ f \in Fights /\ f.winner = w /\ f.loser = l /\ f.griefer = isGriefLimited(a, d)
        /\ f.capped = DefeatCapped(l) /\ f.loot = 0 /\ l \in Char /\ w \in Char
        /\ (w = a /\ l = d) \/ (w = d /\ l = a)
    <3>1. fight[p].late \in SUBSET Windows
      BY DEF IInv, Typed, Fights
    <3>2. isGriefLimited(a, d) \in BOOLEAN /\ DefeatCapped(l) \in BOOLEAN
      BY DEF isGriefLimited, DefeatCapped
    <3> HIDE DEF a, d
    <3> QED
      BY <2>2, <2>4, <3>1, <3>2 DEF Fights, a, d
  <2>9. /\ fight'[p] = f /\ fight' \in [Proc -> Fights \cup [loot : {0}, late : SUBSET Windows]]
        /\ \A q \in Proc \ {p} : fight'[q] = fight[q]
    <3>1. fight' = [fight EXCEPT ![p] = f] /\ fight \in [Proc -> Fights \cup [loot : {0}, late : SUBSET Windows]]
      BY <2>2 DEF IInv, Typed
    <3> HIDE DEF f
    <3> QED
      BY <2>8, <3>1
  <2> HIDE DEF f, l
  <2>10. /\ pend'[C(d)] = v /\ owner'[C(d)] = p
         /\ \A s \in Rows \ {C(d)} : pend'[s] = pend[s] /\ owner'[s] = owner[s]
         /\ db' = db /\ DOMAIN db' = Rows /\ DOMAIN pend' = Rows /\ owner' \in [Rows -> Proc \cup {NoProc}]
    BY <2>1, <2>6, PutFacts
  <2>11. /\ chr'[p][d] = v /\ chr'[p][a] = chr[p][a] /\ chr' \in [Proc -> [Char -> Characters \cup {NoRow}]]
         /\ \A q \in Proc \ {p} : chr'[q] = chr[q]
    BY <2>1, <2>4, <2>6 DEF IInv, Typed
  <2>12. Typed'
    <3>1. \A c \in Char : /\ pend'[C(c)] \in {pend[C(c)], v} /\ pend'[W(c)] = pend[W(c)]
                          /\ db'[C(c)] = db[C(c)] /\ db'[W(c)] = db[W(c)]
      BY <2>4, <2>10, RowsApart
    <3>2. \A c \in Char : /\ pend'[C(c)] \in Characters /\ pend'[C(c)].nil >= 0 /\ pend'[C(c)].moral <= MaxMoral
                          /\ pend'[C(c)].moral <= pend'[C(c)].max
      BY <2>6, <3>1, RowsTyped DEF IInv
    <3>3. /\ hist' \in Histories /\ req' \in [Proc -> Requests \cup {NoRequest}]
          /\ wal' \in [Proc -> [Char -> WalletRows \cup {NoRow}]]
          /\ refs' \in [Proc -> SUBSET Char]
      BY <2>1 DEF IInv, Typed, TypeOK
    <3> QED
      BY <2>3, <2>9, <2>10, <2>11, <3>1, <3>2, <3>3, RowsTyped, TypedFrom DEF IInv
  <2>13. \A q \in Proc \ {p} : Unmoved(q)
    BY <2>1, <2>3, <2>9, <2>11 DEF Unmoved
  <2>14. RequestInv(p)'
    <3>1. Fighting(p)' /\ ~Fought(p)' /\ req'[p] = req[p] /\ hist' = hist
      BY <2>1, <2>3, <2>4 DEF Fighting, Fought
    <3>2. \A c \in Char : (owner'[C(c)] = p <=> c \in {a, d}) /\ owner'[W(c)] # p
      BY <2>4, <2>5, <2>10, RowsApart
    <3>3. Fits(p)'
      BY <2>3, <2>4, <2>8, <2>9, <3>1 DEF Fits
    <3>4. HoldsCharacters(p)'
      <4>1. db'[C(a)] = db[C(a)] /\ pend'[C(a)] = db[C(a)] /\ db'[C(d)] = v /\ pend'[C(d)] = v
            /\ chr'[p][a] = db[C(a)] /\ chr'[p][d] = v
        BY <2>4, <2>5, <2>6, <2>10, <2>11, RowsApart
      <4> HIDE DEF a, d
      <4>2. req'[p].char = a /\ req'[p].target = d
        BY <3>1 DEF a, d
      <4> QED
        BY <2>3, <2>7, <3>1, <3>2, <4>1, <4>2 DEF HoldsCharacters
    <3>5. LootsWallets(p)'
      <4>1. fight'[p].winner = w /\ fight'[p].loser = l /\ fight'[p].loot = 0
        BY <2>8, <2>9
      <4> QED
        BY <2>3, <2>8, <3>2, <4>1 DEF LootsWallets
    <3>6. BuysFrom(p)'
      BY <2>3, <2>4, <3>1 DEF BuysFrom
    <3>7. WithinLimits(p)'
      <4>1. hist.defeats[l] \in Nat /\ hist.weekly[a][d] \in Nat
        BY <2>4, <2>8 DEF IInv, Typed, Histories, Counts
      <4>2. /\ ~fight'[p].capped => hist'.defeats[fight'[p].loser] < DefeatCap
            /\ ~fight'[p].griefer => hist'.weekly[a][d] < GriefLimit
        <5>1. fight'[p].loser = l /\ fight'[p].capped = DefeatCapped(l) /\ fight'[p].griefer = isGriefLimited(a, d)
          BY <2>8, <2>9
        <5>2. ~DefeatCapped(l) => hist'.defeats[l] < DefeatCap
          BY <3>1, <4>1, Constants DEF DefeatCapped
        <5>3. ~isGriefLimited(a, d) => hist'.weekly[a][d] < GriefLimit
          BY <3>1, <4>1, Constants DEF isGriefLimited
        <5> QED
          BY <5>1, <5>2, <5>3
      <4> QED
        BY <3>1, <4>2 DEF WithinLimits
    <3> QED
      BY <3>3, <3>4, <3>5, <3>6, <3>7 DEF RequestInv
  <2> QED
    BY <2>1, <2>6, <2>12, <2>13, <2>14, PutStep
<1> QED
  BY <1>1, <1>2
-----------------------------------------------------------------------------
\* The fight goes on.

FightStages == {"loserWallet", "winnerWallet", "persist", "seed", "credit", "commit"}

LEMMA FightFacts ==
  ASSUME IInv, NEW p \in Proc, Fighting(p)
  PROVE  /\ req[p].char \in Char /\ req[p].target \in Char /\ req[p].target # req[p].char
         /\ req[p].op = "attack" /\ req[p] # NoRequest
         /\ fight[p] \in Fights /\ fight[p].winner \in Char /\ fight[p].loser \in Char
         /\ fight[p].winner # fight[p].loser
         /\ \/ fight[p].winner = req[p].char /\ fight[p].loser = req[p].target
            \/ fight[p].winner = req[p].target /\ fight[p].loser = req[p].char
<1>1. req[p].op = "attack"
  BY DEF Fighting
<1>2. req[p].char \in Char /\ req[p].target \in Char /\ req[p] # NoRequest
  BY <1>1, Asking DEF IInv, Typed, NoRequest
<1> QED
  BY <1>1, <1>2 DEF IInv, RequestInv, Fits, Fighting

\* While the character rows stay, what the attack knows of them stays true.
LEMMA FightGoesOn ==
  ASSUME IInv, NEW p \in Proc, Fighting(p), pc'[p] \in FightStages, Fought(p)' <=> Fought(p),
         req' = req, chr' = chr, db' = db, hist' = hist, fight'[p] \in Fights,
         fight'[p].winner = fight[p].winner, fight'[p].loser = fight[p].loser,
         fight'[p].griefer = fight[p].griefer, fight'[p].capped = fight[p].capped,
         \A c \in Char : owner'[C(c)] = owner[C(c)] /\ pend'[C(c)] = pend[C(c)]
  PROVE  Fighting(p)' /\ Fits(p)' /\ HoldsCharacters(p)' /\ BuysFrom(p)' /\ WithinLimits(p)'
<1> DEFINE a == req[p].char
           d == req[p].target
<1>1. /\ a \in Char /\ d \in Char /\ d # a /\ req[p].op = "attack" /\ req[p] # NoRequest
      /\ \/ fight[p].winner = a /\ fight[p].loser = d
         \/ fight[p].winner = d /\ fight[p].loser = a
  BY FightFacts
<1>2. Fighting(p)'
  BY <1>1 DEF Fighting, FightStages
<1>3. Fits(p)'
  BY <1>1, <1>2 DEF Fits, FightStages
<1>4. HoldsCharacters(p)'
  <2>1. \A c \in {a, d} : CharacterAfter(p, c)' = CharacterAfter(p, c)
    BY DEF CharacterAfter
  <2>2. /\ \A c \in Char : owner[C(c)] = p <=> c \in {a, d}
        /\ \A c \in {a, d} : chr[p][c] = db[C(c)]
        /\ \A c \in {a, d} : pend[C(c)] = IF Fought(p) THEN CharacterAfter(p, c) ELSE db[C(c)]
        /\ db[C(a)].nil >= NilCost /\ ~db[C(d)].flat
    BY DEF IInv, RequestInv, HoldsCharacters, Fighting
  <2>3. /\ \A c \in Char : owner'[C(c)] = p <=> c \in {a, d}
        /\ \A c \in {a, d} : chr'[p][c] = db'[C(c)]
        /\ \A c \in {a, d} : pend'[C(c)] = IF Fought(p)' THEN CharacterAfter(p, c)' ELSE db'[C(c)]
        /\ db'[C(a)].nil >= NilCost /\ ~db'[C(d)].flat /\ req'[p].char = a /\ req'[p].target = d
    BY <1>1, <2>1, <2>2
  <2>4. pc'[p] # "defender"
    BY DEF FightStages
  <2> HIDE DEF a, d
  <2> QED
    BY <1>2, <2>3, <2>4 DEF HoldsCharacters
<1>5. BuysFrom(p)'
  BY <1>1 DEF BuysFrom, FightStages
<1>6. WithinLimits(p)'
  BY <1>2 DEF WithinLimits, IInv, RequestInv
<1> QED
  BY <1>2, <1>3, <1>4, <1>5, <1>6

\* Types after a statement that writes wallets only.
LEMMA TypedWallets ==
  ASSUME IInv, db' = db, hist' = hist, req' = req, chr' = chr, refs' = refs,
         DOMAIN pend' = Rows, owner' \in [Rows -> Proc \cup {NoProc}],
         pc' \in [Proc -> Stages], wal' \in [Proc -> [Char -> WalletRows \cup {NoRow}]],
         fight' \in [Proc -> Fights \cup [loot : {0}, late : SUBSET Windows]],
         \A c \in Char :
           /\ pend'[C(c)] = pend[C(c)]
           /\ \/ pend'[W(c)] = pend[W(c)] \/ pend'[W(c)] = NoRow
              \/ pend'[W(c)] \in WalletRows /\ pend'[W(c)].balance >= 0
  PROVE  Typed'
<1>1. /\ hist' \in Histories /\ req' \in [Proc -> Requests \cup {NoRequest}]
      /\ chr' \in [Proc -> [Char -> Characters \cup {NoRow}]]
      /\ refs' \in [Proc -> SUBSET Char]
  BY DEF IInv, Typed, TypeOK
<1>2. \A c \in Char : /\ pend'[C(c)] \in Characters /\ pend'[C(c)].nil >= 0 /\ pend'[C(c)].moral <= MaxMoral
                      /\ pend'[C(c)].moral <= pend'[C(c)].max
                      /\ pend'[W(c)] = NoRow \/ (pend'[W(c)] \in WalletRows /\ pend'[W(c)].balance >= 0)
  BY RowsTyped DEF IInv
<1> QED
  BY <1>1, <1>2, RowsTyped, TypedFrom DEF IInv

LEMMA LockWalletFacts ==
  ASSUME IInv, NEW p \in Proc, NEW c \in Char, NEW here, NEW next \in Stages, owner[W(c)] # p,
         LockWallet(p, here, c, next)
  PROVE  /\ pc[p] = here /\ pc'[p] = next /\ pc' \in [Proc -> Stages] /\ \A q \in Proc \ {p} : pc'[q] = pc[q]
         /\ wal'[p][c] = db[W(c)] /\ \A e \in Char \ {c} : wal'[p][e] = wal[p][e]
         /\ wal' \in [Proc -> [Char -> WalletRows \cup {NoRow}]] /\ \A q \in Proc \ {p} : wal'[q] = wal[q]
         /\ db' = db /\ DOMAIN pend' = Rows /\ owner' \in [Rows -> Proc \cup {NoProc}]
         /\ owner'[W(c)] = p <=> db[W(c)] # NoRow
         /\ owner'[W(c)] = p => pend'[W(c)] = db[W(c)] /\ owner[W(c)] = NoProc
         /\ owner'[W(c)] # p => owner'[W(c)] = owner[W(c)] /\ pend'[W(c)] = pend[W(c)]
         /\ \A s \in Rows \ {W(c)} : pend'[s] = pend[s] /\ owner'[s] = owner[s]
<1> DEFINE v == Sees(p, W(c))
<1>1. /\ pc[p] = here /\ Goto(p, next) /\ wal' = [wal EXCEPT ![p][c] = v]
      /\ IF v = NoRow THEN UNCHANGED rcVars ELSE Put(p, W(c), v)
  BY DEF LockWallet, LockRow, ForUpdate
<1>2. v = db[W(c)] /\ W(c) \in Rows /\ v \in WalletRows \cup {NoRow}
  BY RowsApart, RowsTyped DEF Sees, IInv
<1> HIDE DEF v
<1>3. pc'[p] = next /\ pc' \in [Proc -> Stages] /\ \A q \in Proc \ {p} : pc'[q] = pc[q]
  BY <1>1, GotoFacts
<1>4. /\ wal'[p][c] = v /\ \A e \in Char \ {c} : wal'[p][e] = wal[p][e]
      /\ wal' \in [Proc -> [Char -> WalletRows \cup {NoRow}]] /\ \A q \in Proc \ {p} : wal'[q] = wal[q]
  BY <1>1, <1>2 DEF IInv, Typed
<1>5. CASE v = NoRow
  <2>1. db' = db /\ pend' = pend /\ owner' = owner
    BY <1>1, <1>5 DEF rcVars
  <2> QED
    BY <1>1, <1>2, <1>3, <1>4, <1>5, <2>1, RowsTyped DEF IInv
<1>6. CASE v # NoRow
  <2>1. /\ pend'[W(c)] = v /\ owner'[W(c)] = p /\ owner[W(c)] \in {p, NoProc}
        /\ \A s \in Rows \ {W(c)} : pend'[s] = pend[s] /\ owner'[s] = owner[s]
        /\ db' = db /\ DOMAIN pend' = Rows /\ owner' \in [Rows -> Proc \cup {NoProc}]
    BY <1>1, <1>2, <1>6, PutFacts
  <2> QED
    BY <1>1, <1>2, <1>3, <1>4, <1>6, <2>1
<1> QED
  BY <1>5, <1>6

LEMMA LockLoserWalletInv ==
  ASSUME IInv, NEW p \in Proc, LockLoserWallet(p)
  PROVE  IInv'
<1> DEFINE w == fight[p].winner
           l == fight[p].loser
<1>1. /\ LockWallet(p, "loserWallet", l, "winnerWallet") /\ "winnerWallet" \in Stages /\ pc[p] = "loserWallet"
      /\ UNCHANGED <<hist, req, chr, fight, refs>>
  BY DEF LockLoserWallet, LockWallet, Stages
<1>2. Fighting(p)
  BY <1>1 DEF Fighting, IInv, RequestInv, Fits
<1>3. w \in Char /\ l \in Char /\ w # l /\ fight[p] \in Fights /\ req[p].op = "attack"
  BY <1>2, FightFacts
<1>4. owner[W(l)] # p /\ owner[W(w)] # p /\ \A c \in Char \ {w, l} : owner[W(c)] # p
  BY <1>1, <1>2 DEF IInv, RequestInv, LootsWallets
<1> HIDE DEF w, l
<1>5. /\ pc'[p] = "winnerWallet" /\ pc' \in [Proc -> Stages] /\ \A q \in Proc \ {p} : pc'[q] = pc[q]
      /\ wal'[p][l] = db[W(l)]
      /\ wal' \in [Proc -> [Char -> WalletRows \cup {NoRow}]] /\ \A q \in Proc \ {p} : wal'[q] = wal[q]
      /\ db' = db /\ DOMAIN pend' = Rows /\ owner' \in [Rows -> Proc \cup {NoProc}]
      /\ owner'[W(l)] = p <=> db[W(l)] # NoRow
      /\ owner'[W(l)] = p => pend'[W(l)] = db[W(l)] /\ owner[W(l)] = NoProc
      /\ owner'[W(l)] # p => owner'[W(l)] = owner[W(l)] /\ pend'[W(l)] = pend[W(l)]
      /\ \A s \in Rows \ {W(l)} : pend'[s] = pend[s] /\ owner'[s] = owner[s]
  BY <1>1, <1>3, <1>4, LockWalletFacts
<1>6. \A c \in Char : /\ pend'[C(c)] = pend[C(c)] /\ owner'[C(c)] = owner[C(c)]
                      /\ c # l => pend'[W(c)] = pend[W(c)] /\ owner'[W(c)] = owner[W(c)]
  BY <1>3, <1>5, RowsApart
<1>7. Typed'
  <2>1. \A c \in Char : pend'[W(c)] = pend[W(c)] \/ pend'[W(c)] = NoRow
                        \/ (pend'[W(c)] \in WalletRows /\ pend'[W(c)].balance >= 0)
    BY <1>3, <1>5, <1>6, RowsTyped DEF IInv
  <2>2. fight' \in [Proc -> Fights \cup [loot : {0}, late : SUBSET Windows]]
    BY <1>1 DEF IInv, Typed
  <2> QED
    BY <1>1, <1>5, <1>6, <2>1, <2>2, TypedWallets
<1>8. \A q \in Proc \ {p} : Unmoved(q)
  BY <1>1, <1>5 DEF Unmoved
<1>9. RequestInv(p)'
  <2>1. Fighting(p)' /\ Fits(p)' /\ HoldsCharacters(p)' /\ BuysFrom(p)' /\ WithinLimits(p)'
    BY <1>1, <1>2, <1>3, <1>5, <1>6, FightGoesOn DEF FightStages, Fought
  <2>2. LootsWallets(p)'
    <3>1. fight'[p].winner = w /\ fight'[p].loser = l /\ ~Fought(p)'
      BY <1>1, <1>5 DEF w, l, Fought
    <3>2. \A c \in Char : c # l => owner'[W(c)] # p
      BY <1>4, <1>6
    <3> QED
      BY <1>3, <1>5, <3>1, <3>2 DEF LootsWallets
  <2> QED
    BY <2>1, <2>2 DEF RequestInv
<1>10. \A r \in Rows : \/ owner'[r] = owner[r] /\ (owner[r] # p => pend'[r] = pend[r])
                       \/ owner[r] = NoProc /\ owner'[r] = p
                       \/ owner[r] = p /\ owner'[r] = NoProc
  BY <1>5
<1>11. db' = db /\ hist' = hist
  BY <1>1, <1>5
<1> QED
  BY <1>7, <1>8, <1>9, <1>10, <1>11, QuietStep

\* A share of a balance is not above it.
LEMMA LootBounds ==
  ASSUME NEW b \in Nat, NEW griefer
  PROVE  calculateLoot(b, griefer) \in Nat /\ calculateLoot(b, griefer) <= b
<1>1. b \div LootShare \in Nat /\ b \div LootShare <= b
  <2>1. LootShare \in Nat /\ LootShare > 0
    BY Constants
  <2> QED
    BY <2>1
<1> DEFINE x == b \div LootShare
<1>2. x \div GrieferShare \in Nat /\ x \div GrieferShare <= x
  <2>1. GrieferShare \in Nat /\ GrieferShare > 0 /\ x \in Nat
    BY <1>1, Constants
  <2> HIDE DEF x
  <2> QED
    BY <2>1
<1> DEFINE y == x \div GrieferShare
<1>3. calculateLoot(b, griefer) = IF griefer THEN y ELSE x
  BY DEF calculateLoot
<1>4. x \in Nat /\ x <= b /\ y \in Nat /\ y <= x
  BY <1>1, <1>2
<1> HIDE DEF x, y
<1> QED
  BY <1>3, <1>4

LEMMA LockWinnerWalletInv ==
  ASSUME IInv, NEW p \in Proc, LockWinnerWallet(p)
  PROVE  IInv'
<1> DEFINE w == fight[p].winner
           l == fight[p].loser
           loot == IF wal[p][l] = NoRow THEN 0 ELSE calculateLoot(wal[p][l].balance, fight[p].griefer)
<1>1. /\ LockWallet(p, "winnerWallet", w, "persist") /\ "persist" \in Stages /\ pc[p] = "winnerWallet"
      /\ fight' = [fight EXCEPT ![p].loot = loot] /\ UNCHANGED <<hist, req, chr, refs>>
  BY DEF LockWinnerWallet, LockWallet, Stages
<1>2. Fighting(p) /\ ~Fought(p)
  BY <1>1 DEF Fighting, Fought, IInv, RequestInv, Fits
<1>3. w \in Char /\ l \in Char /\ w # l /\ fight[p] \in Fights /\ req[p].op = "attack"
  BY <1>2, FightFacts
<1>4. /\ owner[W(l)] = p <=> wal[p][l] # NoRow
      /\ owner[W(l)] = p => wal[p][l] = db[W(l)] /\ pend[W(l)] = db[W(l)]
      /\ owner[W(w)] # p /\ \A c \in Char \ {w, l} : owner[W(c)] # p
  BY <1>1, <1>2 DEF IInv, RequestInv, LootsWallets
<1>5. loot \in Nat /\ (loot > 0 => wal[p][l] # NoRow /\ loot <= db[W(l)].balance)
  <2>1. CASE wal[p][l] = NoRow
    BY <2>1
  <2>2. CASE wal[p][l] # NoRow
    <3>1. wal[p][l] = db[W(l)] /\ db[W(l)].balance \in Nat
      BY <1>3, <1>4, <2>2, RowsTyped, Constants DEF IInv, WalletRows
    <3>2. loot = calculateLoot(db[W(l)].balance, fight[p].griefer)
      BY <2>2, <3>1
    <3> HIDE DEF loot
    <3> QED
      BY <2>2, <3>1, <3>2, LootBounds
  <2> QED
    BY <2>1, <2>2
<1> HIDE DEF w, l, loot
<1>6. /\ pc'[p] = "persist" /\ pc' \in [Proc -> Stages] /\ \A q \in Proc \ {p} : pc'[q] = pc[q]
      /\ wal'[p][w] = db[W(w)] /\ \A e \in Char \ {w} : wal'[p][e] = wal[p][e]
      /\ wal' \in [Proc -> [Char -> WalletRows \cup {NoRow}]] /\ \A q \in Proc \ {p} : wal'[q] = wal[q]
      /\ db' = db /\ DOMAIN pend' = Rows /\ owner' \in [Rows -> Proc \cup {NoProc}]
      /\ owner'[W(w)] = p <=> db[W(w)] # NoRow
      /\ owner'[W(w)] = p => pend'[W(w)] = db[W(w)] /\ owner[W(w)] = NoProc
      /\ owner'[W(w)] # p => owner'[W(w)] = owner[W(w)] /\ pend'[W(w)] = pend[W(w)]
      /\ \A s \in Rows \ {W(w)} : pend'[s] = pend[s] /\ owner'[s] = owner[s]
  BY <1>1, <1>3, <1>4, LockWalletFacts
<1>7. \A c \in Char : /\ pend'[C(c)] = pend[C(c)] /\ owner'[C(c)] = owner[C(c)]
                      /\ c # w => pend'[W(c)] = pend[W(c)] /\ owner'[W(c)] = owner[W(c)]
  BY <1>3, <1>6, RowsApart
<1>8. /\ fight'[p] \in Fights /\ fight'[p].winner = w /\ fight'[p].loser = l /\ fight'[p].loot = loot
      /\ fight'[p].griefer = fight[p].griefer /\ fight'[p].capped = fight[p].capped
      /\ fight' \in [Proc -> Fights \cup [loot : {0}, late : SUBSET Windows]]
      /\ \A q \in Proc \ {p} : fight'[q] = fight[q]
  <2> DEFINE f == [fight[p] EXCEPT !.loot = loot]
  <2>1. /\ f \in Fights /\ f.winner = w /\ f.loser = l /\ f.loot = loot
        /\ f.griefer = fight[p].griefer /\ f.capped = fight[p].capped
    BY <1>3, <1>5 DEF Fights, w, l
  <2>2. fight' = [fight EXCEPT ![p] = f] /\ fight \in [Proc -> Fights \cup [loot : {0}, late : SUBSET Windows]]
    BY <1>1 DEF IInv, Typed
  <2> HIDE DEF f
  <2> QED
    BY <2>1, <2>2
<1>9. Typed'
  <2>1. \A c \in Char : pend'[W(c)] = pend[W(c)] \/ pend'[W(c)] = NoRow
                        \/ (pend'[W(c)] \in WalletRows /\ pend'[W(c)].balance >= 0)
    BY <1>3, <1>6, <1>7, RowsTyped DEF IInv
  <2> QED
    BY <1>1, <1>6, <1>7, <1>8, <2>1, TypedWallets
<1>10. \A q \in Proc \ {p} : Unmoved(q)
  BY <1>1, <1>6, <1>8 DEF Unmoved
<1>11. RequestInv(p)'
  <2>1. fight'[p].winner = fight[p].winner /\ fight'[p].loser = fight[p].loser
    BY <1>8 DEF w, l
  <2>2. Fighting(p)' /\ Fits(p)' /\ HoldsCharacters(p)' /\ BuysFrom(p)' /\ WithinLimits(p)'
    BY <1>1, <1>2, <1>6, <1>7, <1>8, <2>1, FightGoesOn DEF FightStages, Fought
  <2>3. LootsWallets(p)'
    <3>1. ~Fought(p)'
      BY <1>6 DEF Fought
    <3>2. /\ \A c \in Char \ {w, l} : owner'[W(c)] # p
          /\ owner'[W(l)] = owner[W(l)] /\ pend'[W(l)] = pend[W(l)] /\ wal'[p][l] = wal[p][l]
      BY <1>3, <1>4, <1>6, <1>7
    <3> QED
      BY <1>3, <1>4, <1>5, <1>6, <1>8, <3>1, <3>2 DEF LootsWallets
  <2> QED
    BY <2>2, <2>3 DEF RequestInv
<1>12. \A r \in Rows : \/ owner'[r] = owner[r] /\ (owner[r] # p => pend'[r] = pend[r])
                       \/ owner[r] = NoProc /\ owner'[r] = p
                       \/ owner[r] = p /\ owner'[r] = NoProc
  BY <1>6
<1>13. db' = db /\ hist' = hist
  BY <1>1, <1>6
<1> QED
  BY <1>9, <1>10, <1>11, <1>12, <1>13, QuietStep
-----------------------------------------------------------------------------
\* What a fight writes.

LEMMA LossBounds ==
  ASSUME NEW m \in Nat, m > 0
  PROVE  LossOf(m) \in Nat /\ LossOf(m) > 0 /\ LossOf(m) <= m
<1>1. m \div 100 \in Nat /\ m \div 100 <= m /\ m \div 20 \in Nat /\ m \div 20 <= m
  OBVIOUS
<1> DEFINE share == IF m < 10 THEN m \div 100 ELSE m \div 20
<1>2. share \in Nat /\ share <= m
  BY <1>1
<1>3. LossOf(m) = IF share < 1 THEN 1 ELSE share
  BY DEF LossOf
<1> HIDE DEF share
<1> QED
  BY <1>2, <1>3

\* The row a fight writes for a character it read: in range, the NIL paid, the
\* defeated never below zero, and untouched beyond the cap.
LEMMA AfterFacts ==
  ASSUME NEW p \in Proc, NEW c, chr[p][c] \in Characters, chr[p][c].moral <= MaxMoral,
         chr[p][c].moral <= chr[p][c].max, chr[p][c].nil >= 0, c = req[p].char => chr[p][c].nil >= NilCost
  PROVE  LET row == chr[p][c]
             new == CharacterAfter(p, c)
         IN
         /\ new \in Characters /\ new.nil >= 0 /\ new.moral <= MaxMoral /\ new.moral <= new.max
         /\ new.nil = row.nil - (IF c = req[p].char THEN NilCost ELSE 0)
         /\ c # fight[p].winner => /\ new.moral <= row.moral
                                   /\ fight[p].capped => new.moral = row.moral
<1> DEFINE row == chr[p][c]
           o == row.moral
           won == calculateWinnerSC(o)
           lost == calculateLoserSC(o, 0)
           moral == IF c = fight[p].winner THEN won ELSE IF fight[p].capped THEN o ELSE lost
           max == IF c = fight[p].winner THEN MaxOf(row, moral) ELSE row.max
           nil == IF c = req[p].char THEN row.nil - NilCost ELSE row.nil
<1>1. o \in Nat /\ o <= MaxMoral /\ row.max \in Nat /\ o <= row.max /\ row.nil \in Int /\ row.nil >= 0
      /\ row.flat \in BOOLEAN
  BY DEF Characters
<1>2. won \in Nat /\ won <= MaxMoral
  BY <1>1, Constants DEF calculateWinnerSC
<1>3. lost \in Nat /\ lost <= o
  <2>1. CASE o = 0
    BY <1>1, <2>1 DEF calculateLoserSC
  <2>2. CASE o # 0
    <3>1. LossOf(o) \in Nat /\ LossOf(o) > 0 /\ LossOf(o) <= o
      BY <1>1, <2>2, LossBounds
    <3>2. lost = o - LossOf(o)
      BY <2>2, Constants DEF calculateLoserSC
    <3> HIDE DEF o, lost
    <3> QED
      BY <1>1, <3>1, <3>2
  <2> QED
    BY <2>1, <2>2
<1> HIDE DEF won, lost
<1>4. moral \in Nat /\ moral <= MaxMoral /\ (c # fight[p].winner => moral <= o /\ (fight[p].capped => moral = o))
  <2> HIDE DEF o
  <2> QED
    BY <1>1, <1>2, <1>3, Constants
<1>5. max \in Nat /\ moral <= max
  <2>1. MaxOf(row, moral) = IF row.max > moral THEN row.max ELSE moral
    BY DEF MaxOf
  <2> HIDE DEF moral
  <2> QED
    BY <1>1, <1>4, <2>1
<1>6. nil \in Int /\ nil >= 0 /\ nil = row.nil - (IF c = req[p].char THEN NilCost ELSE 0)
  BY <1>1, Constants
<1>7. CharacterAfter(p, c) = [row EXCEPT !.moral = moral, !.max = max, !.nil = nil]
  BY DEF CharacterAfter, won, lost
<1>8. row \in Characters
  OBVIOUS
<1> HIDE DEF row, moral, max, nil
<1>9. /\ CharacterAfter(p, c) \in Characters /\ CharacterAfter(p, c).moral = moral /\ CharacterAfter(p, c).max = max
      /\ CharacterAfter(p, c).nil = nil
  BY <1>4, <1>5, <1>6, <1>7, <1>8 DEF Characters
<1>10. row.nil = chr[p][c].nil /\ row.moral = chr[p][c].moral
  BY DEF row
<1> QED
  BY <1>4, <1>5, <1>6, <1>9, <1>10

\* The rows that Persist writes.
FightRows(p) ==
  LET f == fight[p]
      lw == wal[p][f.loser]
      chars == [r \in {C(f.winner), C(f.loser)} |-> CharacterAfter(p, r[2])]
      debit == [r \in {W(f.loser)} |-> [balance |-> lw.balance - f.loot,
                                        version |-> lw.version + 1]]
  IN IF f.loot = 0 THEN chars
     ELSE [r \in DOMAIN chars \cup DOMAIN debit |-> IF r \in DOMAIN debit THEN debit[r] ELSE chars[r]]

LEMMA FightRowsFacts ==
  ASSUME IInv, NEW p \in Proc, Fighting(p), PutAll(p, FightRows(p))
  PROVE  LET w == fight[p].winner
             l == fight[p].loser
             loot == fight[p].loot
         IN
         /\ db' = db /\ DOMAIN pend' = Rows /\ owner' \in [Rows -> Proc \cup {NoProc}]
         /\ \A c \in {w, l} : /\ pend'[C(c)] = CharacterAfter(p, c) /\ owner'[C(c)] = p
                              /\ owner[C(c)] \in {p, NoProc}
         /\ loot # 0 => /\ owner'[W(l)] = p /\ owner[W(l)] \in {p, NoProc}
                        /\ pend'[W(l)] = [balance |-> wal[p][l].balance - loot, version |-> wal[p][l].version + 1]
         /\ \A s \in Rows : s \notin {C(w), C(l)} /\ (loot = 0 \/ s # W(l)) => pend'[s] = pend[s] /\ owner'[s] = owner[s]
<1> DEFINE w == fight[p].winner
           l == fight[p].loser
           loot == fight[p].loot
           v == [balance |-> wal[p][l].balance - loot, version |-> wal[p][l].version + 1]
           new == FightRows(p)
<1>1. w \in Char /\ l \in Char
  BY FightFacts
<1>2. C(w)[2] = w /\ C(l)[2] = l /\ C(w) \in Rows /\ C(l) \in Rows /\ W(l) \in Rows /\ W(l) # C(w) /\ W(l) # C(l)
  <2>1. C(w)[2] = w /\ C(l)[2] = l
    BY DEF C
  <2> QED
    BY <1>1, <2>1, RowsApart
<1>3. /\ DOMAIN new = (IF loot = 0 THEN {C(w), C(l)} ELSE {C(w), C(l), W(l)})
      /\ new[C(w)] = CharacterAfter(p, w) /\ new[C(l)] = CharacterAfter(p, l)
      /\ loot # 0 => new[W(l)] = v
  <2> DEFINE chars == [r \in {C(w), C(l)} |-> CharacterAfter(p, r[2])]
             debit == [r \in {W(l)} |-> v]
  <2>1. chars[C(w)] = CharacterAfter(p, w) /\ chars[C(l)] = CharacterAfter(p, l) /\ DOMAIN chars = {C(w), C(l)}
    <3>1. chars[C(w)] = CharacterAfter(p, C(w)[2]) /\ chars[C(l)] = CharacterAfter(p, C(l)[2])
      OBVIOUS
    <3> QED
      BY <1>2, <3>1
  <2>2. new = IF loot = 0 THEN chars
              ELSE [r \in DOMAIN chars \cup DOMAIN debit |-> IF r \in DOMAIN debit THEN debit[r] ELSE chars[r]]
    BY DEF FightRows
  <2>3. DOMAIN debit = {W(l)} /\ debit[W(l)] = v
    OBVIOUS
  <2> HIDE DEF chars, debit, new, v
  <2> QED
    BY <1>2, <2>1, <2>2, <2>3
<1> HIDE DEF new, v
<1>4. /\ \A r \in DOMAIN new : owner[r] \in {p, NoProc}
      /\ pend' = [r \in DOMAIN pend |-> IF r \in DOMAIN new THEN new[r] ELSE pend[r]]
      /\ owner' = [r \in DOMAIN owner |-> IF r \in DOMAIN new THEN p ELSE owner[r]]
      /\ db' = db
  BY DEF PutAll, CanLock, new
<1>5. DOMAIN pend = Rows /\ owner \in [Rows -> Proc \cup {NoProc}]
  BY RowsTyped DEF IInv
<1> HIDE DEF w, l, loot
<1>6. /\ db' = db /\ DOMAIN pend' = Rows /\ owner' \in [Rows -> Proc \cup {NoProc}]
      /\ \A c \in {w, l} : /\ pend'[C(c)] = CharacterAfter(p, c) /\ owner'[C(c)] = p
                           /\ owner[C(c)] \in {p, NoProc}
      /\ loot # 0 => owner'[W(l)] = p /\ owner[W(l)] \in {p, NoProc} /\ pend'[W(l)] = v
      /\ \A s \in Rows : s \notin {C(w), C(l)} /\ (loot = 0 \/ s # W(l)) => pend'[s] = pend[s] /\ owner'[s] = owner[s]
  BY <1>2, <1>3, <1>4, <1>5
<1> QED
  BY <1>6 DEF w, l, loot, v

LEMMA PersistInv ==
  ASSUME IInv, NEW p \in Proc, Persist(p)
  PROVE  IInv'
<1> DEFINE a == req[p].char
           d == req[p].target
           w == fight[p].winner
           l == fight[p].loser
           loot == fight[p].loot
           next == IF loot = 0 THEN "commit" ELSE IF wal[p][w] = NoRow THEN "seed" ELSE "credit"
           v == [balance |-> wal[p][l].balance - loot, version |-> wal[p][l].version + 1]
<1>1. /\ pc[p] = "persist" /\ PutAll(p, FightRows(p)) /\ Goto(p, next) /\ next \in Stages
      /\ UNCHANGED <<hist, req, chr, wal, fight, refs>>
  BY DEF Persist, FightRows, Stages
<1>2. Fighting(p) /\ ~Fought(p)
  BY <1>1 DEF Fighting, Fought, IInv, RequestInv, Fits
<1>3. /\ w \in Char /\ l \in Char /\ w # l /\ fight[p] \in Fights /\ req[p].op = "attack" /\ req[p] # NoRequest
      /\ a \in Char /\ d \in Char /\ d # a /\ ((w = a /\ l = d) \/ (w = d /\ l = a))
  BY <1>2, FightFacts
<1>4. loot \in Nat
  BY <1>3 DEF Fights
<1>5. /\ \A c \in Char : owner[C(c)] = p <=> c \in {a, d}
      /\ \A c \in {a, d} : chr[p][c] = db[C(c)]
      /\ db[C(a)].nil >= NilCost /\ ~db[C(d)].flat
  BY <1>2 DEF IInv, RequestInv, HoldsCharacters, Fighting
<1>6. /\ \A c \in Char \ {w, l} : owner[W(c)] # p
      /\ owner[W(l)] = p <=> wal[p][l] # NoRow
      /\ owner[W(l)] = p => wal[p][l] = db[W(l)] /\ pend[W(l)] = db[W(l)]
      /\ loot > 0 => wal[p][l] # NoRow /\ loot <= db[W(l)].balance
      /\ owner[W(w)] = p <=> wal[p][w] # NoRow
      /\ owner[W(w)] = p => wal[p][w] = db[W(w)] /\ pend[W(w)] = db[W(w)]
  BY <1>1, <1>2 DEF IInv, RequestInv, LootsWallets
<1>7. /\ db' = db /\ DOMAIN pend' = Rows /\ owner' \in [Rows -> Proc \cup {NoProc}]
      /\ \A c \in {w, l} : /\ pend'[C(c)] = CharacterAfter(p, c) /\ owner'[C(c)] = p
                           /\ owner[C(c)] \in {p, NoProc}
      /\ loot # 0 => owner'[W(l)] = p /\ owner[W(l)] \in {p, NoProc} /\ pend'[W(l)] = v
      /\ \A s \in Rows : s \notin {C(w), C(l)} /\ (loot = 0 \/ s # W(l)) => pend'[s] = pend[s] /\ owner'[s] = owner[s]
  BY <1>1, <1>2, FightRowsFacts
<1>8. \A c \in {w, l} : LET row == chr[p][c]
                           new == CharacterAfter(p, c)
                       IN
                       /\ new \in Characters /\ new.nil >= 0 /\ new.moral <= MaxMoral /\ new.moral <= new.max
                       /\ new.nil = row.nil - (IF c = req[p].char THEN NilCost ELSE 0)
                       /\ c # fight[p].winner => /\ new.moral <= row.moral
                                                 /\ fight[p].capped => new.moral = row.moral
  <2> TAKE c \in {w, l}
  <2>1. c \in Char /\ chr[p][c] = db[C(c)]
    BY <1>3, <1>5
  <2>2. chr[p][c] \in Characters /\ chr[p][c].moral <= MaxMoral /\ chr[p][c].moral <= chr[p][c].max /\ chr[p][c].nil >= 0
    BY <2>1, RowsTyped DEF IInv
  <2>3. c = req[p].char => chr[p][c].nil >= NilCost
    BY <1>5, <2>1
  <2> QED
    BY <2>2, <2>3, AfterFacts
<1>9. loot # 0 => /\ v \in WalletRows /\ v.balance >= 0
                  /\ v = [balance |-> Base(l).balance + (-loot), version |-> Base(l).version + 1]
  <2> SUFFICES ASSUME loot # 0
               PROVE  /\ v \in WalletRows /\ v.balance >= 0
                      /\ v = [balance |-> Base(l).balance + (-loot), version |-> Base(l).version + 1]
    OBVIOUS
  <2>1. wal[p][l] = db[W(l)] /\ db[W(l)] # NoRow /\ loot <= db[W(l)].balance
    BY <1>4, <1>6
  <2>2. Base(l) = db[W(l)] /\ db[W(l)] \in WalletRows
    BY <1>3, <2>1, RowsTyped DEF Base, IInv
  <2> DEFINE b == db[W(l)].balance
             n == db[W(l)].version
  <2>3. b \in Int /\ n \in Nat /\ loot <= b
    BY <2>1, <2>2 DEF WalletRows
  <2>4. v = [balance |-> b - loot, version |-> n + 1]
    BY <2>1
  <2>5. [balance |-> Base(l).balance + (-loot), version |-> Base(l).version + 1] = [balance |-> b + (-loot), version |-> n + 1]
    BY <2>2
  <2> HIDE DEF b, n, loot, v
  <2>6. b - loot = b + (-loot) /\ b - loot \in Int /\ b - loot >= 0 /\ n + 1 \in Nat
    BY <1>4, <2>3
  <2> QED
    BY <2>4, <2>5, <2>6 DEF WalletRows
<1>10. pc'[p] = next /\ pc' \in [Proc -> Stages] /\ \A q \in Proc \ {p} : pc'[q] = pc[q]
  <2> HIDE DEF next
  <2> QED
    BY <1>1, GotoFacts
<1>11. /\ loot = 0 => pc'[p] = "commit"
       /\ loot # 0 => pc'[p] \in {"seed", "credit"} /\ (pc'[p] = "seed" <=> wal[p][w] = NoRow)
  BY <1>10
<1> HIDE DEF next, v, w, l, loot, a, d
<1>12. \A c \in Char : /\ c \notin {w, l} => pend'[C(c)] = pend[C(c)] /\ owner'[C(c)] = owner[C(c)]
                       /\ c # l \/ loot = 0 => pend'[W(c)] = pend[W(c)] /\ owner'[W(c)] = owner[W(c)]
  BY <1>3, <1>7, RowsApart
<1>13. Typed'
  <2>1. /\ hist' \in Histories /\ req' \in [Proc -> Requests \cup {NoRequest}]
        /\ chr' \in [Proc -> [Char -> Characters \cup {NoRow}]]
        /\ wal' \in [Proc -> [Char -> WalletRows \cup {NoRow}]]
        /\ fight' \in [Proc -> Fights \cup [loot : {0}, late : SUBSET Windows]]
        /\ refs' \in [Proc -> SUBSET Char]
    BY <1>1 DEF IInv, Typed, TypeOK
  <2>2. \A c \in Char : /\ pend'[C(c)] \in Characters /\ pend'[C(c)].nil >= 0 /\ pend'[C(c)].moral <= MaxMoral
                        /\ pend'[C(c)].moral <= pend'[C(c)].max
    BY <1>7, <1>8, <1>12, RowsTyped DEF IInv
  <2>3. \A c \in Char : pend'[W(c)] = NoRow \/ (pend'[W(c)] \in WalletRows /\ pend'[W(c)].balance >= 0)
    BY <1>7, <1>9, <1>12, RowsTyped DEF IInv
  <2> QED
    BY <1>7, <1>10, <2>1, <2>2, <2>3, RowsTyped, TypedFrom DEF IInv
<1>14. \A q \in Proc \ {p} : Unmoved(q)
  BY <1>1, <1>10 DEF Unmoved
<1>15. RequestInv(p)'
  <2>1. Fighting(p)' /\ Fought(p)'
    BY <1>1, <1>3, <1>11 DEF Fighting, Fought
  <2>2. Fits(p)'
    BY <1>1, <1>3, <1>11, <2>1 DEF Fits, w, l, a, d
  <2>3. HoldsCharacters(p)'
    <3>1. \A c \in {a, d} : CharacterAfter(p, c)' = CharacterAfter(p, c)
      BY <1>1 DEF CharacterAfter
    <3>2. {a, d} = {w, l}
      BY <1>3
    <3>3. /\ \A c \in Char : owner'[C(c)] = p <=> c \in {a, d}
          /\ \A c \in {a, d} : chr'[p][c] = db'[C(c)]
          /\ \A c \in {a, d} : pend'[C(c)] = CharacterAfter(p, c)'
          /\ db'[C(a)].nil >= NilCost /\ ~db'[C(d)].flat
      BY <1>1, <1>5, <1>7, <1>12, <3>1, <3>2
    <3>4. req'[p].char = a /\ req'[p].target = d /\ pc'[p] # "defender"
      BY <1>1, <1>11 DEF a, d
    <3> QED
      BY <2>1, <3>3, <3>4 DEF HoldsCharacters
  <2>4. LootsWallets(p)'
    <3>1. fight'[p].winner = w /\ fight'[p].loser = l /\ fight'[p].loot = loot /\ wal' = wal /\ db' = db
      BY <1>1, <1>7 DEF w, l, loot
    <3>2. /\ \A c \in Char \ {w, l} : owner'[W(c)] # p
          /\ owner'[W(w)] = owner[W(w)] /\ pend'[W(w)] = pend[W(w)]
      BY <1>3, <1>6, <1>12
    <3>3. CASE loot = 0
      <4>1. owner'[W(l)] = owner[W(l)] /\ pend'[W(l)] = pend[W(l)] /\ pc'[p] = "commit"
        BY <1>3, <1>11, <1>12, <3>3
      <4> QED
        BY <1>6, <2>1, <3>1, <3>2, <3>3, <4>1 DEF LootsWallets
    <3>4. CASE loot # 0
      <4>1. loot > 0 /\ owner[W(l)] = p /\ owner'[W(l)] = p /\ pend'[W(l)] = v /\ wal[p][l] = db[W(l)] /\ wal[p][l] # NoRow
        BY <1>4, <1>6, <1>7, <3>4
      <4>2. Moved(p, l, -loot)'
        <5>1. Base(l)' = Base(l) /\ l' = l /\ loot' = loot
          BY <3>1 DEF Base, l, loot
        <5> QED
          BY <1>9, <3>4, <4>1, <5>1 DEF Moved
      <4>3. pc'[p] = "credit" => Faithful(p, w)'
        <5>1. ASSUME pc'[p] = "credit"
              PROVE  Faithful(p, w)'
          <6>1. wal[p][w] # NoRow /\ owner[W(w)] = p /\ wal[p][w] = db[W(w)] /\ pend[W(w)] = db[W(w)]
            BY <1>6, <1>11, <3>4, <5>1
          <6>2. db[W(w)] \in WalletRows
            BY <1>3, <6>1, RowsTyped DEF IInv
          <6>3. w' = w
            BY <3>1 DEF w
          <6> QED
            BY <3>1, <3>2, <6>1, <6>2, <6>3 DEF Faithful, Base
        <5> QED
          BY <5>1
      <4>4. pc'[p] = "seed" => wal'[p][w] = NoRow /\ owner'[W(w)] # p
        BY <1>6, <1>11, <3>1, <3>2, <3>4
      <4>5. pc'[p] \in {"seed", "credit"}
        BY <1>11, <3>4
      <4>6. Moved(p, fight[p].loser, -fight[p].loot)' /\ (pc'[p] = "credit" => Faithful(p, fight[p].winner)')
        BY <4>2, <4>3 DEF w, l, loot
      <4> QED
        BY <1>6, <2>1, <3>1, <3>2, <4>1, <4>4, <4>5, <4>6 DEF LootsWallets
    <3> QED
      BY <3>3, <3>4
  <2>5. BuysFrom(p)'
    BY <1>1, <1>3, <1>11 DEF BuysFrom
  <2>6. WithinLimits(p)'
    BY <1>1, <1>2, <2>1 DEF WithinLimits, IInv, RequestInv
  <2> QED
    BY <2>2, <2>3, <2>4, <2>5, <2>6 DEF RequestInv
<1>16. \A r \in Rows : \/ owner'[r] = owner[r] /\ (owner[r] # p => pend'[r] = pend[r])
                       \/ owner[r] = NoProc /\ owner'[r] = p
                       \/ owner[r] = p /\ owner'[r] = NoProc
  <2> TAKE r \in Rows
  <2>1. CASE r \in {C(w), C(l)} \/ (loot # 0 /\ r = W(l))
    BY <1>7, <2>1
  <2>2. CASE ~(r \in {C(w), C(l)} \/ (loot # 0 /\ r = W(l)))
    BY <1>7, <2>2
  <2> QED
    BY <2>1, <2>2
<1>17. db' = db /\ hist' = hist
  BY <1>1, <1>7
<1> QED
  BY <1>13, <1>14, <1>15, <1>16, <1>17, QuietStep
-----------------------------------------------------------------------------
\* The wallets that are created and updated.

\* A version that still matches means the wallet is as the transaction knows it.
LEMMA VersionHeld ==
  ASSUME IInv, NEW p \in Proc, NEW c \in Char, Faithful(p, c)
  PROVE  /\ wal[p][c] \in WalletRows
         /\ VersionMatches(p, c) => wal[p][c] = Base(c)
<1>1. CASE owner[W(c)] = p
  BY <1>1 DEF Faithful
<1>2. CASE owner[W(c)] # p
  BY <1>2 DEF Faithful, VersionMatches, Sees, Base
<1> QED
  BY <1>1, <1>2

LEMMA BaseTyped ==
  ASSUME IInv, NEW c \in Char
  PROVE  Base(c) \in WalletRows /\ Base(c).balance >= 0
<1>1. db[W(c)] = NoRow \/ (db[W(c)] \in WalletRows /\ db[W(c)].balance >= 0)
  BY RowsTyped DEF IInv
<1> QED
  BY <1>1, SeedIsRow, Constants DEF Base

LEMMA SeedWinnerInv ==
  ASSUME IInv, NEW p \in Proc, SeedWinner(p)
  PROVE  IInv'
<1> DEFINE w == fight[p].winner
           l == fight[p].loser
           loot == fight[p].loot
<1>1. /\ pc[p] = "seed" /\ Goto(p, "credit") /\ "credit" \in Stages
      /\ UNCHANGED <<hist, req, chr, fight, refs>>
      /\ IF Sees(p, W(w)) = NoRow
         THEN Put(p, W(w), SeedWallet) /\ wal' = [wal EXCEPT ![p][w] = SeedWallet]
         ELSE UNCHANGED rcVars /\ wal' = [wal EXCEPT ![p][w] = Sees(p, W(w))]
  BY DEF SeedWinner, Stages
<1>2. Fighting(p) /\ Fought(p)
  BY <1>1 DEF Fighting, Fought, IInv, RequestInv, Fits
<1>3. w \in Char /\ l \in Char /\ w # l /\ fight[p] \in Fights /\ req[p].op = "attack" /\ W(w) \in Rows
  BY <1>2, FightFacts, RowsApart
<1>4. /\ \A c \in Char \ {w, l} : owner[W(c)] # p
      /\ owner[W(l)] = p <=> wal[p][l] # NoRow
      /\ owner[W(l)] = p => wal[p][l] = db[W(l)] /\ (loot > 0 => Moved(p, l, -loot))
      /\ loot > 0 /\ wal[p][l] # NoRow /\ loot <= db[W(l)].balance
      /\ owner[W(w)] # p
  BY <1>1, <1>2 DEF IInv, RequestInv, LootsWallets
<1>5. pc'[p] = "credit" /\ pc' \in [Proc -> Stages] /\ \A q \in Proc \ {p} : pc'[q] = pc[q]
  BY <1>1, GotoFacts
<1>6. Sees(p, W(w)) = db[W(w)] /\ (db[W(w)] = NoRow \/ db[W(w)] \in WalletRows)
  BY <1>3, <1>4, RowsTyped DEF Sees, IInv
<1> DEFINE v == IF db[W(w)] = NoRow THEN SeedWallet ELSE db[W(w)]
<1>7. v \in WalletRows /\ v = Base(w) /\ wal' = [wal EXCEPT ![p][w] = v]
  BY <1>1, <1>6, SeedIsRow DEF Base
<1> HIDE DEF v
<1>8. /\ wal'[p][w] = v /\ \A e \in Char \ {w} : wal'[p][e] = wal[p][e]
      /\ wal' \in [Proc -> [Char -> WalletRows \cup {NoRow}]] /\ \A q \in Proc \ {p} : wal'[q] = wal[q]
  BY <1>3, <1>7 DEF IInv, Typed
<1>9. /\ db' = db /\ DOMAIN pend' = Rows /\ owner' \in [Rows -> Proc \cup {NoProc}]
      /\ \A s \in Rows \ {W(w)} : pend'[s] = pend[s] /\ owner'[s] = owner[s]
      /\ \/ db[W(w)] = NoRow /\ pend'[W(w)] = SeedWallet /\ owner'[W(w)] = p /\ owner[W(w)] = NoProc
         \/ db[W(w)] # NoRow /\ pend'[W(w)] = pend[W(w)] /\ owner'[W(w)] = owner[W(w)]
  <2>1. CASE db[W(w)] = NoRow
    <3>1. Put(p, W(w), SeedWallet)
      BY <1>1, <1>6, <2>1
    <3>2. /\ pend'[W(w)] = SeedWallet /\ owner'[W(w)] = p /\ owner[W(w)] \in {p, NoProc}
          /\ \A s \in Rows \ {W(w)} : pend'[s] = pend[s] /\ owner'[s] = owner[s]
          /\ db' = db /\ DOMAIN pend' = Rows /\ owner' \in [Rows -> Proc \cup {NoProc}]
      BY <1>3, <3>1, PutFacts
    <3> QED
      BY <1>4, <2>1, <3>2
  <2>2. CASE db[W(w)] # NoRow
    <3>1. db' = db /\ pend' = pend /\ owner' = owner
      BY <1>1, <1>6, <2>2 DEF rcVars
    <3> QED
      BY <2>2, <3>1, RowsTyped DEF IInv
  <2> QED
    BY <2>1, <2>2
<1> HIDE DEF w, l, loot
<1>10. \A c \in Char : /\ pend'[C(c)] = pend[C(c)] /\ owner'[C(c)] = owner[C(c)]
                       /\ c # w => pend'[W(c)] = pend[W(c)] /\ owner'[W(c)] = owner[W(c)]
  BY <1>3, <1>9, RowsApart
<1>11. Typed'
  <2>1. \A c \in Char : \/ pend'[W(c)] = pend[W(c)] \/ pend'[W(c)] = NoRow
                        \/ pend'[W(c)] \in WalletRows /\ pend'[W(c)].balance >= 0
    BY <1>9, <1>10, SeedIsRow, Constants
  <2>2. fight' \in [Proc -> Fights \cup [loot : {0}, late : SUBSET Windows]]
    BY <1>1 DEF IInv, Typed
  <2> QED
    BY <1>1, <1>5, <1>8, <1>9, <1>10, <2>1, <2>2, TypedWallets
<1>12. \A q \in Proc \ {p} : Unmoved(q)
  BY <1>1, <1>5, <1>8 DEF Unmoved
<1>13. RequestInv(p)'
  <2>1. Fighting(p)' /\ Fits(p)' /\ HoldsCharacters(p)' /\ BuysFrom(p)' /\ WithinLimits(p)'
    BY <1>1, <1>2, <1>3, <1>5, <1>9, <1>10, FightGoesOn DEF FightStages, Fought
  <2>2. LootsWallets(p)'
    <3>1. fight'[p].winner = w /\ fight'[p].loser = l /\ fight'[p].loot = loot
      BY <1>1 DEF w, l, loot
    <3>2. /\ \A c \in Char \ {w, l} : owner'[W(c)] # p
          /\ owner'[W(l)] = owner[W(l)] /\ pend'[W(l)] = pend[W(l)] /\ wal'[p][l] = wal[p][l]
      BY <1>3, <1>4, <1>8, <1>10
    <3>3. Faithful(p, w)'
      <4>1. w' = w /\ Base(w)' = Base(w)
        BY <1>1, <1>9 DEF w, Base
      <4>2. CASE db[W(w)] = NoRow
        <5>1. Base(w) = SeedWallet /\ owner'[W(w)] = p /\ pend'[W(w)] = SeedWallet /\ wal'[p][w] = SeedWallet
          BY <1>7, <1>8, <1>9, <4>2 DEF Base
        <5> QED
          BY <4>1, <5>1, SeedIsRow DEF Faithful
      <4>3. CASE db[W(w)] # NoRow
        <5>1. wal'[p][w] = db[W(w)] /\ owner'[W(w)] # p /\ db'[W(w)] = db[W(w)] /\ wal'[p][w] \in WalletRows
          BY <1>4, <1>7, <1>8, <1>9, <4>3 DEF Base
        <5>2. wal'[p][w].version \in Nat
          BY <5>1 DEF WalletRows
        <5> QED
          BY <4>1, <4>3, <5>1, <5>2 DEF Faithful
      <4> QED
        BY <4>2, <4>3
    <3>4. Moved(p, l, -loot)'
      <4>1. Base(l)' = Base(l) /\ l' = l /\ loot' = loot
        BY <1>1, <1>9 DEF Base, l, loot
      <4>2. Moved(p, l, -loot)
        BY <1>4
      <4> QED
        BY <3>2, <4>1, <4>2 DEF Moved
    <3>5. Moved(p, fight[p].loser, -fight[p].loot)' /\ Faithful(p, fight[p].winner)'
      BY <3>3, <3>4 DEF w, l, loot
    <3>6. /\ pc'[p] = "credit" /\ Fought(p)' /\ loot > 0 /\ db'[W(l)] = db[W(l)]
          /\ owner'[W(l)] = p /\ wal'[p][l] # NoRow /\ wal'[p][l] = db[W(l)] /\ loot <= db[W(l)].balance
      BY <1>2, <1>4, <1>5, <1>1, <1>9, <3>2, <2>1 DEF Fought, Fighting
    <3> QED
      BY <2>1, <3>1, <3>2, <3>5, <3>6 DEF LootsWallets
  <2> QED
    BY <2>1, <2>2 DEF RequestInv
<1>14. \A r \in Rows : \/ owner'[r] = owner[r] /\ (owner[r] # p => pend'[r] = pend[r])
                       \/ owner[r] = NoProc /\ owner'[r] = p
                       \/ owner[r] = p /\ owner'[r] = NoProc
  BY <1>9
<1>15. db' = db /\ hist' = hist
  BY <1>1, <1>9
<1> QED
  BY <1>11, <1>12, <1>13, <1>14, <1>15, QuietStep

LEMMA CreditWinnerInv ==
  ASSUME IInv, NEW p \in Proc, CreditWinner(p)
  PROVE  IInv'
<1> DEFINE w == fight[p].winner
           l == fight[p].loser
           loot == fight[p].loot
           v == [balance |-> wal[p][w].balance + loot, version |-> wal[p][w].version + 1]
<1>0. CASE Reject(p)
  BY <1>0, RejectInv
<1>1. CASE ~Reject(p)
  <2>1. /\ pc[p] = "credit" /\ Goto(p, "commit") /\ "commit" \in Stages /\ VersionMatches(p, w)
        /\ Put(p, W(w), v) /\ UNCHANGED <<hist, req, chr, wal, fight, refs>>
    BY <1>1 DEF CreditWinner, Stages
  <2>2. Fighting(p) /\ Fought(p)
    BY <2>1 DEF Fighting, Fought, IInv, RequestInv, Fits
  <2>3. w \in Char /\ l \in Char /\ w # l /\ fight[p] \in Fights /\ req[p].op = "attack" /\ W(w) \in Rows
    BY <2>2, FightFacts, RowsApart
  <2>4. /\ \A c \in Char \ {w, l} : owner[W(c)] # p
        /\ owner[W(l)] = p <=> wal[p][l] # NoRow
        /\ owner[W(l)] = p => wal[p][l] = db[W(l)] /\ (loot > 0 => Moved(p, l, -loot))
        /\ loot > 0 /\ wal[p][l] # NoRow /\ loot <= db[W(l)].balance
        /\ Faithful(p, w) /\ loot \in Nat
    BY <2>1, <2>2, <2>3 DEF IInv, RequestInv, LootsWallets, Fights
  <2>5. pc'[p] = "commit" /\ pc' \in [Proc -> Stages] /\ \A q \in Proc \ {p} : pc'[q] = pc[q]
    BY <2>1, GotoFacts
  <2>6. v \in WalletRows /\ v.balance >= 0 /\ v = [balance |-> Base(w).balance + loot, version |-> Base(w).version + 1]
    <3>1. wal[p][w] = Base(w) /\ Base(w) \in WalletRows /\ Base(w).balance >= 0
      BY <2>1, <2>3, <2>4, VersionHeld, BaseTyped
    <3> DEFINE b == Base(w).balance
               n == Base(w).version
    <3>2. b \in Int /\ b >= 0 /\ n \in Nat /\ v = [balance |-> b + loot, version |-> n + 1]
      BY <3>1 DEF WalletRows
    <3> HIDE DEF b, n, loot, v
    <3>3. b + loot \in Int /\ b + loot >= 0 /\ n + 1 \in Nat
      BY <2>4, <3>2
    <3>4. v \in WalletRows /\ v.balance >= 0
      BY <3>2, <3>3 DEF WalletRows
    <3> QED
      BY <3>2, <3>4 DEF b, n
  <2> HIDE DEF v
  <2>7. /\ pend'[W(w)] = v /\ owner'[W(w)] = p /\ owner[W(w)] \in {p, NoProc}
        /\ \A s \in Rows \ {W(w)} : pend'[s] = pend[s] /\ owner'[s] = owner[s]
        /\ db' = db /\ DOMAIN pend' = Rows /\ owner' \in [Rows -> Proc \cup {NoProc}]
    BY <2>1, <2>3, PutFacts
  <2> HIDE DEF w, l, loot
  <2>8. \A c \in Char : /\ pend'[C(c)] = pend[C(c)] /\ owner'[C(c)] = owner[C(c)]
                        /\ c # w => pend'[W(c)] = pend[W(c)] /\ owner'[W(c)] = owner[W(c)]
    BY <2>3, <2>7, RowsApart
  <2>9. Typed'
    <3>1. \A c \in Char : \/ pend'[W(c)] = pend[W(c)] \/ pend'[W(c)] = NoRow
                          \/ pend'[W(c)] \in WalletRows /\ pend'[W(c)].balance >= 0
      BY <2>6, <2>7, <2>8
    <3>2. fight' \in [Proc -> Fights \cup [loot : {0}, late : SUBSET Windows]]
          /\ wal' \in [Proc -> [Char -> WalletRows \cup {NoRow}]]
      BY <2>1 DEF IInv, Typed
    <3> QED
      BY <2>1, <2>5, <2>7, <2>8, <3>1, <3>2, TypedWallets
  <2>10. \A q \in Proc \ {p} : Unmoved(q)
    BY <2>1, <2>5 DEF Unmoved
  <2>11. RequestInv(p)'
    <3>1. Fighting(p)' /\ Fits(p)' /\ HoldsCharacters(p)' /\ BuysFrom(p)' /\ WithinLimits(p)'
      BY <2>1, <2>2, <2>3, <2>5, <2>7, <2>8, FightGoesOn DEF FightStages, Fought
    <3>2. LootsWallets(p)'
      <4>1. fight'[p].winner = w /\ fight'[p].loser = l /\ fight'[p].loot = loot /\ wal' = wal
        BY <2>1 DEF w, l, loot
      <4>2. /\ \A c \in Char \ {w, l} : owner'[W(c)] # p
            /\ owner'[W(l)] = owner[W(l)] /\ pend'[W(l)] = pend[W(l)]
        BY <2>3, <2>4, <2>8
      <4>3. Moved(p, w, loot)' /\ Moved(p, l, -loot)'
        <5>1. Base(l)' = Base(l) /\ Base(w)' = Base(w) /\ l' = l /\ w' = w /\ loot' = loot
          BY <2>1, <2>7 DEF Base, l, w, loot
        <5>2. Moved(p, l, -loot)
          BY <2>4
        <5> QED
          BY <2>6, <2>7, <4>2, <5>1, <5>2 DEF Moved
      <4>4. Moved(p, fight[p].loser, -fight[p].loot)' /\ Moved(p, fight[p].winner, fight[p].loot)'
        BY <4>3 DEF w, l, loot
      <4>5. /\ pc'[p] = "commit" /\ Fought(p)' /\ loot > 0 /\ db'[W(l)] = db[W(l)]
            /\ owner'[W(l)] = p /\ wal'[p][l] # NoRow /\ wal'[p][l] = db[W(l)] /\ loot <= db[W(l)].balance
        BY <2>2, <2>4, <2>5, <2>1, <2>7, <4>1, <4>2, <3>1 DEF Fought, Fighting
      <4> QED
        BY <3>1, <4>1, <4>2, <4>4, <4>5 DEF LootsWallets
    <3> QED
      BY <3>1, <3>2 DEF RequestInv
  <2> QED
    BY <2>1, <2>3, <2>9, <2>10, <2>11, PutStep
<1> QED
  BY <1>0, <1>1
-----------------------------------------------------------------------------
\* A purchase.

LEMMA BuyGoesOn ==
  ASSUME IInv, NEW p \in Proc, req[p].op = "buy", req' = req,
         pc'[p] \in {"reference", "debit", "audit", "commit"},
         \A c \in Char : owner'[C(c)] = owner[C(c)]
  PROVE  req[p].char \in Char /\ Fits(p)' /\ HoldsCharacters(p)' /\ LootsWallets(p)' /\ WithinLimits(p)'
<1>1. req[p].char \in Char /\ req[p] # NoRequest
  BY Asking DEF IInv, Typed, NoRequest
<1>2. ~Fighting(p)' /\ ~Fighting(p) /\ pc[p] # "defender" /\ pc'[p] # "defender"
  BY DEF Fighting, IInv, RequestInv, Fits
<1>3. Fits(p)'
  BY <1>1, <1>2 DEF Fits
<1>4. \A c \in Char : owner[C(c)] # p
  BY <1>2 DEF IInv, RequestInv, HoldsCharacters
<1>5. HoldsCharacters(p)' /\ LootsWallets(p)' /\ WithinLimits(p)'
  BY <1>2, <1>4 DEF HoldsCharacters, LootsWallets, WithinLimits
<1> QED
  BY <1>1, <1>3, <1>5

LEMMA EnsureWalletInv ==
  ASSUME IInv, NEW p \in Proc, EnsureWallet(p)
  PROVE  IInv'
<1> DEFINE c == req[p].char
           w == Sees(p, W(c))
<1>1. pc[p] = "ensure" /\ UNCHANGED <<hist, req, chr, fight, refs>>
  BY DEF EnsureWallet
<1>2. req[p].op = "buy" /\ c \in Char /\ W(c) \in Rows
  BY <1>1, Asking, RowsApart DEF IInv, RequestInv, Fits, Typed
<1>3. owner[W(c)] # p /\ \A d \in Char \ {c} : owner[W(d)] # p
  BY <1>1, <1>2 DEF IInv, RequestInv, BuysFrom
<1>4. w = db[W(c)] /\ w \in WalletRows \cup {NoRow}
  BY <1>2, <1>3, RowsTyped DEF Sees, IInv
<1>5. CASE w # NoRow
  <2>1. wal' = [wal EXCEPT ![p][c] = w] /\ Goto(p, "debit") /\ "debit" \in Stages /\ UNCHANGED rcVars
    BY <1>5 DEF EnsureWallet, Stages
  <2>2. pc'[p] = "debit" /\ pc' \in [Proc -> Stages] /\ \A q \in Proc \ {p} : pc'[q] = pc[q]
    BY <2>1, GotoFacts
  <2> HIDE DEF w
  <2>3. /\ wal'[p][c] = w /\ wal' \in [Proc -> [Char -> WalletRows \cup {NoRow}]]
        /\ \A q \in Proc \ {p} : wal'[q] = wal[q]
    BY <1>2, <1>4, <2>1 DEF IInv, Typed
  <2>4. db' = db /\ pend' = pend /\ owner' = owner
    BY <2>1 DEF rcVars
  <2>5. Typed'
    <3>1. fight' \in [Proc -> Fights \cup [loot : {0}, late : SUBSET Windows]]
      BY <1>1 DEF IInv, Typed
    <3>2. DOMAIN pend' = Rows /\ owner' \in [Rows -> Proc \cup {NoProc}]
      BY <2>4, RowsTyped DEF IInv
    <3> QED
      BY <1>1, <2>2, <2>3, <2>4, <3>1, <3>2, TypedWallets
  <2>6. \A q \in Proc \ {p} : Unmoved(q)
    BY <1>1, <2>2, <2>3 DEF Unmoved
  <2>7. RequestInv(p)'
    <3>1. Fits(p)' /\ HoldsCharacters(p)' /\ LootsWallets(p)' /\ WithinLimits(p)'
      BY <1>1, <1>2, <2>2, <2>4, BuyGoesOn
    <3>2. c' = c
      BY <1>1
    <3>3. Faithful(p, c)'
      BY <1>3, <1>4, <1>5, <2>3, <2>4, <3>2 DEF Faithful, WalletRows
    <3>4. BuysFrom(p)'
      BY <1>1, <1>2, <1>3, <2>2, <2>4, <3>3 DEF BuysFrom
    <3> QED
      BY <3>1, <3>4 DEF RequestInv
  <2> QED
    BY <1>1, <2>1, <2>5, <2>6, <2>7, LocalStep
<1>6. CASE w = NoRow
  <2>1. /\ wal' = [wal EXCEPT ![p][c] = SeedWallet] /\ Goto(p, "reference") /\ "reference" \in Stages
        /\ Put(p, W(c), SeedWallet)
    BY <1>6 DEF EnsureWallet, Stages
  <2>2. pc'[p] = "reference" /\ pc' \in [Proc -> Stages] /\ \A q \in Proc \ {p} : pc'[q] = pc[q]
    BY <2>1, GotoFacts
  <2>3. /\ wal'[p][c] = SeedWallet /\ wal' \in [Proc -> [Char -> WalletRows \cup {NoRow}]]
        /\ \A q \in Proc \ {p} : wal'[q] = wal[q]
    BY <1>2, <2>1, SeedIsRow DEF IInv, Typed
  <2>4. /\ pend'[W(c)] = SeedWallet /\ owner'[W(c)] = p /\ owner[W(c)] \in {p, NoProc}
        /\ \A s \in Rows \ {W(c)} : pend'[s] = pend[s] /\ owner'[s] = owner[s]
        /\ db' = db /\ DOMAIN pend' = Rows /\ owner' \in [Rows -> Proc \cup {NoProc}]
    BY <1>2, <2>1, PutFacts
  <2> HIDE DEF w, c
  <2>5. \A d \in Char : /\ pend'[C(d)] = pend[C(d)] /\ owner'[C(d)] = owner[C(d)]
                        /\ d # c => pend'[W(d)] = pend[W(d)] /\ owner'[W(d)] = owner[W(d)]
    BY <1>2, <2>4, RowsApart
  <2>6. Typed'
    <3>1. fight' \in [Proc -> Fights \cup [loot : {0}, late : SUBSET Windows]]
      BY <1>1 DEF IInv, Typed
    <3>2. \A d \in Char : \/ pend'[W(d)] = pend[W(d)] \/ pend'[W(d)] = NoRow
                          \/ pend'[W(d)] \in WalletRows /\ pend'[W(d)].balance >= 0
      BY <2>4, <2>5, SeedIsRow, Constants
    <3> QED
      BY <1>1, <2>2, <2>3, <2>4, <2>5, <3>1, <3>2, TypedWallets
  <2>7. \A q \in Proc \ {p} : Unmoved(q)
    BY <1>1, <2>2, <2>3 DEF Unmoved
  <2>8. RequestInv(p)'
    <3>1. Fits(p)' /\ HoldsCharacters(p)' /\ LootsWallets(p)' /\ WithinLimits(p)'
      BY <1>1, <1>2, <2>2, <2>5, BuyGoesOn
    <3>2. c' = c /\ req'[p].char = c
      BY <1>1 DEF c
    <3>3. Faithful(p, c)'
      BY <1>4, <1>6, <2>3, <2>4, <3>2, SeedIsRow DEF Faithful, Base
    <3>4. \A d \in Char \ {c} : owner'[W(d)] # p
      BY <1>3, <2>5
    <3>5. Faithful(p, req[p].char)'
      BY <3>3 DEF c
    <3>6. BuysFrom(p)'
      BY <1>1, <1>2, <2>2, <2>4, <3>2, <3>4, <3>5 DEF BuysFrom
    <3> QED
      BY <3>1, <3>6 DEF RequestInv
  <2> QED
    BY <1>1, <1>2, <2>1, <2>6, <2>7, <2>8, PutStep
<1> QED
  BY <1>5, <1>6

LEMMA ReferenceInv ==
  ASSUME IInv, NEW p \in Proc, ReferenceSeed(p) \/ ReferenceAudit(p)
  PROVE  IInv'
<1> DEFINE c == req[p].char
           next == IF pc[p] = "reference" THEN "debit" ELSE "commit"
<1>1. /\ pc[p] \in {"reference", "audit"} /\ Goto(p, next) /\ next \in Stages
      /\ refs' = [refs EXCEPT ![p] = @ \cup {c}] /\ UNCHANGED <<rcVars, hist, req, chr, wal, fight>>
  BY DEF ReferenceSeed, ReferenceAudit, Reference, Stages
<1>2. req[p].op = "buy" /\ c \in Char
  BY <1>1, Asking DEF IInv, RequestInv, Fits, Typed
<1>3. pc'[p] = next /\ pc' \in [Proc -> Stages] /\ \A q \in Proc \ {p} : pc'[q] = pc[q]
  <2> HIDE DEF next
  <2> QED
    BY <1>1, GotoFacts
<1>4. db' = db /\ pend' = pend /\ owner' = owner
  BY <1>1 DEF rcVars
<1>5. Typed'
  <2>1. /\ hist' \in Histories /\ req' \in [Proc -> Requests \cup {NoRequest}]
        /\ chr' \in [Proc -> [Char -> Characters \cup {NoRow}]]
        /\ wal' \in [Proc -> [Char -> WalletRows \cup {NoRow}]]
        /\ fight' \in [Proc -> Fights \cup [loot : {0}, late : SUBSET Windows]]
    BY <1>1 DEF IInv, Typed, TypeOK
  <2>2. refs' \in [Proc -> SUBSET Char]
    BY <1>1, <1>2 DEF IInv, Typed
  <2> QED
    BY <1>3, <1>4, <2>1, <2>2, RowsTyped, TypedFrom DEF IInv
<1>6. \A q \in Proc \ {p} : Unmoved(q)
  BY <1>1, <1>3 DEF Unmoved
<1>7. RequestInv(p)'
  <2>1. Fits(p)' /\ HoldsCharacters(p)' /\ LootsWallets(p)' /\ WithinLimits(p)'
    BY <1>1, <1>2, <1>3, <1>4, BuyGoesOn
  <2>2. pc[p] = "reference" => Faithful(p, c)'
    BY <1>1, <1>2, <1>4 DEF IInv, RequestInv, BuysFrom, Faithful, Base
  <2>3. pc[p] = "audit" => Moved(p, c, -ItemPrice)' /\ Base(c)'.balance >= ItemPrice
    BY <1>1, <1>2, <1>4 DEF IInv, RequestInv, BuysFrom, Moved, Base
  <2>4. \A d \in Char \ {c} : owner'[W(d)] # p
    BY <1>2, <1>4 DEF IInv, RequestInv, BuysFrom
  <2>5. BuysFrom(p)'
    BY <1>1, <1>2, <1>3, <2>2, <2>3, <2>4 DEF BuysFrom
  <2> QED
    BY <2>1, <2>5 DEF RequestInv
<1> QED
  BY <1>1, <1>5, <1>6, <1>7, LocalStep

LEMMA DebitWalletInv ==
  ASSUME IInv, NEW p \in Proc, DebitWallet(p)
  PROVE  IInv'
<1> DEFINE c == req[p].char
           v == [balance |-> wal[p][c].balance - ItemPrice, version |-> wal[p][c].version + 1]
<1>0. CASE Reject(p)
  BY <1>0, RejectInv
<1>1. CASE ~Reject(p)
  <2>1. /\ pc[p] = "debit" /\ Goto(p, "audit") /\ "audit" \in Stages /\ VersionMatches(p, c)
        /\ wal[p][c].balance >= ItemPrice
        /\ Put(p, W(c), v) /\ UNCHANGED <<hist, req, chr, wal, fight, refs>>
    BY <1>1 DEF DebitWallet, Stages
  <2>2. req[p].op = "buy" /\ c \in Char /\ W(c) \in Rows
    BY <2>1, Asking, RowsApart DEF IInv, RequestInv, Fits, Typed
  <2>3. Faithful(p, c) /\ \A d \in Char \ {c} : owner[W(d)] # p
    BY <2>1, <2>2 DEF IInv, RequestInv, BuysFrom
  <2>4. pc'[p] = "audit" /\ pc' \in [Proc -> Stages] /\ \A q \in Proc \ {p} : pc'[q] = pc[q]
    BY <2>1, GotoFacts
  <2>5. /\ v \in WalletRows /\ v.balance >= 0 /\ Base(c).balance >= ItemPrice
        /\ v = [balance |-> Base(c).balance + (-ItemPrice), version |-> Base(c).version + 1]
    <3>1. wal[p][c] = Base(c) /\ Base(c) \in WalletRows /\ Base(c).balance >= ItemPrice
      BY <2>1, <2>2, <2>3, VersionHeld, BaseTyped
    <3> DEFINE b == Base(c).balance
               n == Base(c).version
    <3>2. b \in Int /\ b >= ItemPrice /\ n \in Nat /\ v = [balance |-> b - ItemPrice, version |-> n + 1]
      BY <3>1 DEF WalletRows
    <3> HIDE DEF b, n, v
    <3>3. b - ItemPrice = b + (-ItemPrice) /\ b - ItemPrice \in Int /\ b - ItemPrice >= 0 /\ n + 1 \in Nat
      BY <3>2, Constants
    <3>4. v \in WalletRows /\ v.balance >= 0
      BY <3>2, <3>3 DEF WalletRows
    <3> QED
      BY <3>2, <3>3, <3>4 DEF b, n
  <2> HIDE DEF v
  <2>6. /\ pend'[W(c)] = v /\ owner'[W(c)] = p /\ owner[W(c)] \in {p, NoProc}
        /\ \A s \in Rows \ {W(c)} : pend'[s] = pend[s] /\ owner'[s] = owner[s]
        /\ db' = db /\ DOMAIN pend' = Rows /\ owner' \in [Rows -> Proc \cup {NoProc}]
    BY <2>1, <2>2, PutFacts
  <2> HIDE DEF c
  <2>7. \A d \in Char : /\ pend'[C(d)] = pend[C(d)] /\ owner'[C(d)] = owner[C(d)]
                        /\ d # c => pend'[W(d)] = pend[W(d)] /\ owner'[W(d)] = owner[W(d)]
    BY <2>2, <2>6, RowsApart
  <2>8. Typed'
    <3>1. fight' \in [Proc -> Fights \cup [loot : {0}, late : SUBSET Windows]]
          /\ wal' \in [Proc -> [Char -> WalletRows \cup {NoRow}]]
      BY <2>1 DEF IInv, Typed
    <3>2. \A d \in Char : \/ pend'[W(d)] = pend[W(d)] \/ pend'[W(d)] = NoRow
                          \/ pend'[W(d)] \in WalletRows /\ pend'[W(d)].balance >= 0
      BY <2>5, <2>6, <2>7
    <3> QED
      BY <2>1, <2>4, <2>6, <2>7, <3>1, <3>2, TypedWallets
  <2>9. \A q \in Proc \ {p} : Unmoved(q)
    BY <2>1, <2>4 DEF Unmoved
  <2>10. RequestInv(p)'
    <3>1. Fits(p)' /\ HoldsCharacters(p)' /\ LootsWallets(p)' /\ WithinLimits(p)'
      BY <2>1, <2>2, <2>4, <2>7, BuyGoesOn
    <3>2. c' = c /\ req'[p].char = c /\ req'[p].op = "buy" /\ Base(c)' = Base(c)
      BY <2>1, <2>2, <2>6 DEF c, Base
    <3>3. Moved(p, c, -ItemPrice)' /\ Base(c)'.balance >= ItemPrice
      BY <2>5, <2>6, <3>2 DEF Moved
    <3>4. \A d \in Char \ {c} : owner'[W(d)] # p
      BY <2>3, <2>7
    <3>5. Moved(p, req[p].char, -ItemPrice)' /\ Base(req[p].char)'.balance >= ItemPrice
      BY <3>3 DEF c
    <3>6. BuysFrom(p)'
      BY <2>4, <3>2, <3>4, <3>5 DEF BuysFrom
    <3> QED
      BY <3>1, <3>6 DEF RequestInv
  <2> QED
    BY <2>1, <2>2, <2>8, <2>9, <2>10, PutStep
<1> QED
  BY <1>0, <1>1
-----------------------------------------------------------------------------
\* Committing.

LEMMA CommitFacts ==
  ASSUME IInv, NEW p \in Proc, Commit(p)
  PROVE  /\ DOMAIN db' = Rows /\ pend' = pend /\ owner' \in [Rows -> Proc \cup {NoProc}]
         /\ \A r \in Rows : /\ owner[r] = p => db'[r] = pend[r] /\ owner'[r] = NoProc
                            /\ owner[r] # p => db'[r] = db[r] /\ owner'[r] = owner[r]
                            /\ owner'[r] # p
<1>1. DOMAIN db = Rows /\ owner \in [Rows -> Proc \cup {NoProc}]
  BY RowsTyped DEF IInv
<1>2. /\ db' = [r \in DOMAIN db |-> IF owner[r] = p THEN pend[r] ELSE db[r]] /\ pend' = pend
      /\ owner' = [r \in DOMAIN owner |-> IF owner[r] = p THEN NoProc ELSE owner[r]]
  BY DEF Commit, Sees, Released
<1> QED
  BY <1>1, <1>2, Constants

\* The books of one wallet.
Accounted(c) ==
  LET start == IF InitBalance[c] # NoRow THEN InitBalance[c]
               ELSE IF c \in hist.seeded THEN Seed ELSE 0
  IN (IF db[W(c)] = NoRow THEN 0 ELSE db[W(c)].balance)
       = start + hist.looted[c] - hist.lost[c] - hist.bought[c]

\* A wallet left alone, or moved by n from what it was worth, stays accounted for.
LEMMA WalletMoves ==
  ASSUME IInv, NEW c \in Char, NEW n \in Int, hist' \in Histories,
         hist'.looted[c] - hist'.lost[c] - hist'.bought[c] = hist.looted[c] - hist.lost[c] - hist.bought[c] + n,
         \/ n = 0 /\ db'[W(c)] = db[W(c)] /\ (c \in hist'.seeded <=> c \in hist.seeded)
         \/ /\ db'[W(c)] = [balance |-> Base(c).balance + n, version |-> Base(c).version + 1]
            /\ (c \in hist'.seeded <=> c \in hist.seeded \/ db[W(c)] = NoRow)
            /\ Base(c).balance + n >= 0
  PROVE  /\ Accounted(c)'
         /\ db'[W(c)] = NoRow => db[W(c)] = NoRow /\ c \notin hist'.seeded /\ InitBalance[c] = NoRow
         /\ db'[W(c)] = NoRow \/ (db'[W(c)] \in WalletRows /\ db'[W(c)].balance >= 0)
         /\ db[W(c)] # NoRow =>
              db'[W(c)] # NoRow /\ (db'[W(c)] = db[W(c)] \/ db'[W(c)].version > db[W(c)].version)
<1> DEFINE x == hist.looted[c] - hist.lost[c] - hist.bought[c]
           y == hist'.looted[c] - hist'.lost[c] - hist'.bought[c]
           start == IF InitBalance[c] # NoRow THEN InitBalance[c] ELSE IF c \in hist.seeded THEN Seed ELSE 0
           after == IF InitBalance[c] # NoRow THEN InitBalance[c] ELSE IF c \in hist'.seeded THEN Seed ELSE 0
           worth == IF db[W(c)] = NoRow THEN 0 ELSE db[W(c)].balance
           now == IF db'[W(c)] = NoRow THEN 0 ELSE db'[W(c)].balance
<1>1. /\ hist.looted[c] \in Nat /\ hist.lost[c] \in Nat /\ hist.bought[c] \in Nat
      /\ hist'.looted[c] \in Nat /\ hist'.lost[c] \in Nat /\ hist'.bought[c] \in Nat
  BY DEF IInv, Typed, Histories, Counts
<1>2. x \in Int /\ y = x + n
  BY <1>1
<1>3. start \in Nat /\ after \in Nat
  BY Constants
<1>4. worth = start + x
  <2>1. worth = start + hist.looted[c] - hist.lost[c] - hist.bought[c]
    BY DEF IInv, Books, BooksBalance, LootAccounted
  <2> HIDE DEF worth, start
  <2> QED
    BY <1>1, <1>3, <2>1
<1>5. db[W(c)] = NoRow => c \notin hist.seeded /\ InitBalance[c] = NoRow
  BY DEF IInv, Books, NotSeeded
<1>6. db[W(c)] = NoRow \/ (db[W(c)] \in WalletRows /\ db[W(c)].balance >= 0)
  BY RowsTyped DEF IInv
<1>7. Base(c) \in WalletRows /\ NoRow \notin WalletRows
  BY BaseTyped, Constants
<1>8. now = after + y => Accounted(c)'
  <2>1. Accounted(c)' <=> now = after + hist'.looted[c] - hist'.lost[c] - hist'.bought[c]
    BY DEF Accounted
  <2> HIDE DEF now, after
  <2> QED
    BY <1>1, <1>3, <2>1
<1> HIDE DEF x, y
<1>9. CASE n = 0 /\ db'[W(c)] = db[W(c)] /\ (c \in hist'.seeded <=> c \in hist.seeded)
  <2>1. now = after + y
    BY <1>2, <1>4, <1>9
  <2> QED
    BY <1>5, <1>6, <1>8, <1>9, <2>1
<1>10. CASE /\ db'[W(c)] = [balance |-> Base(c).balance + n, version |-> Base(c).version + 1]
            /\ (c \in hist'.seeded <=> c \in hist.seeded \/ db[W(c)] = NoRow)
            /\ Base(c).balance + n >= 0
  <2> DEFINE b == Base(c).balance
             m == Base(c).version
             v == [balance |-> b + n, version |-> m + 1]
  <2>1. b \in Int /\ m \in Nat /\ db'[W(c)] = v /\ b + n >= 0
    BY <1>7, <1>10 DEF WalletRows
  <2>2. db[W(c)] # NoRow => b = db[W(c)].balance /\ m = db[W(c)].version
    BY DEF Base
  <2>3. db[W(c)] = NoRow => b = Seed
    BY SeedIsRow DEF Base
  <2> HIDE DEF b, m
  <2>4. v \in WalletRows /\ v.balance = b + n /\ v.version = m + 1
    BY <2>1 DEF WalletRows
  <2> HIDE DEF v
  <2>5. db'[W(c)] # NoRow /\ now = b + n
    BY <1>7, <2>1, <2>4
  <2>6. now = after + y
    <3>1. CASE db[W(c)] = NoRow
      <4>1. start = 0 /\ after = Seed /\ worth = 0
        BY <1>5, <1>10, <3>1
      <4> HIDE DEF start, after, worth, now
      <4> QED
        BY <1>2, <1>4, <2>3, <2>5, <3>1, <4>1, Constants
    <3>2. CASE db[W(c)] # NoRow
      <4>1. start = after /\ worth = b
        BY <1>10, <2>2, <3>2
      <4> HIDE DEF start, after, worth, now
      <4> QED
        BY <1>2, <1>3, <1>4, <2>1, <2>5, <4>1
    <3> QED
      BY <3>1, <3>2
  <2> HIDE DEF now, after
  <2>7. db[W(c)] # NoRow => db'[W(c)].version > db[W(c)].version
    BY <2>1, <2>2, <2>4
  <2> QED
    BY <1>8, <2>1, <2>4, <2>5, <2>6, <2>7
<1> QED
  BY <1>9, <1>10

LEMMA CommitPurchaseInv ==
  ASSUME IInv, NEW p \in Proc, CommitRequest(p), req[p].op # "attack"
  PROVE  IInv'
<1> DEFINE c == req[p].char
           bought == [hist.bought EXCEPT ![c] = @ + ItemPrice]
           seeded == hist.seeded \cup Seeded(p)
<1>1. /\ pc[p] = "commit" /\ Commit(p) /\ Answered(p)
      /\ hist' = [hist EXCEPT !.bought = bought, !.seeded = seeded]
  BY DEF CommitRequest
<1>2. req[p].op = "buy" /\ c \in Char /\ ~Fighting(p)
  BY <1>1, Asking DEF IInv, RequestInv, Fits, Typed, Fighting
<1>3. /\ \A d \in Char \ {c} : owner[W(d)] # p
      /\ owner[W(c)] = p /\ pend[W(c)] = [balance |-> Base(c).balance + (-ItemPrice), version |-> Base(c).version + 1]
      /\ Base(c).balance >= ItemPrice
  BY <1>1, <1>2 DEF IInv, RequestInv, BuysFrom, Moved
<1>4. \A d \in Char : owner[C(d)] # p
  BY <1>1, <1>2 DEF IInv, RequestInv, HoldsCharacters
<1>5. /\ DOMAIN db' = Rows /\ pend' = pend /\ owner' \in [Rows -> Proc \cup {NoProc}]
      /\ \A r \in Rows : /\ owner[r] = p => db'[r] = pend[r] /\ owner'[r] = NoProc
                         /\ owner[r] # p => db'[r] = db[r] /\ owner'[r] = owner[r]
                         /\ owner'[r] # p
  BY <1>1, CommitFacts
<1>6. /\ \A d \in Char : db'[C(d)] = db[C(d)] /\ (d # c => db'[W(d)] = db[W(d)])
      /\ db'[W(c)] = pend[W(c)]
  BY <1>2, <1>3, <1>4, <1>5, RowsApart
<1>7. /\ pc'[p] = "idle" /\ req'[p] = NoRequest
      /\ pc' \in [Proc -> Stages] /\ req' \in [Proc -> Requests \cup {NoRequest}]
      /\ chr' \in [Proc -> [Char -> Characters \cup {NoRow}]]
      /\ wal' \in [Proc -> [Char -> WalletRows \cup {NoRow}]]
      /\ fight' \in [Proc -> Fights \cup [loot : {0}, late : SUBSET Windows]]
      /\ refs' \in [Proc -> SUBSET Char]
      /\ \A q \in Proc \ {p} : Unmoved(q)
  BY <1>1, AnsweredFacts
<1>8. /\ bought \in Counts /\ seeded \in SUBSET Char /\ hist \in Histories
      /\ bought[c] = hist.bought[c] + ItemPrice /\ \A d \in Char \ {c} : bought[d] = hist.bought[d]
  <2>1. hist.bought \in Counts /\ hist.seeded \in SUBSET Char /\ hist \in Histories
    BY DEF IInv, Typed, Histories
  <2>2. Seeded(p) \in SUBSET Char
    BY DEF Seeded
  <2>3. hist.bought[c] + ItemPrice \in Nat
    BY <1>2, <2>1, Constants DEF Counts
  <2> HIDE DEF c
  <2> QED
    BY <1>2, <2>1, <2>2, <2>3 DEF Counts
<1>9. \A d \in Char : d \in seeded <=> d \in hist.seeded \/ (d = c /\ db[W(c)] = NoRow)
  BY <1>2, <1>3 DEF Seeded
<1> HIDE DEF bought, seeded, c
<1>10. /\ hist' \in Histories /\ hist'.bought = bought /\ hist'.seeded = seeded
       /\ hist'.looted = hist.looted /\ hist'.lost = hist.lost /\ hist'.attacks = hist.attacks
       /\ hist'.moral = hist.moral /\ hist'.defeats = hist.defeats /\ hist'.losses = hist.losses
       /\ hist'.weekly = hist.weekly /\ hist'.full = hist.full
  BY <1>1, <1>8 DEF Histories
<1>11. \A d \in Char :
         /\ Accounted(d)'
         /\ db'[W(d)] = NoRow => db[W(d)] = NoRow /\ d \notin hist'.seeded /\ InitBalance[d] = NoRow
         /\ db'[W(d)] = NoRow \/ (db'[W(d)] \in WalletRows /\ db'[W(d)].balance >= 0)
         /\ db[W(d)] # NoRow =>
              db'[W(d)] # NoRow /\ (db'[W(d)] = db[W(d)] \/ db'[W(d)].version > db[W(d)].version)
  <2> TAKE d \in Char
  <2>1. /\ hist.looted[d] \in Nat /\ hist.lost[d] \in Nat /\ hist.bought[d] \in Nat
    BY <1>8 DEF Histories, Counts
  <2>2. CASE d = c
    <3>1. -ItemPrice \in Int /\ ItemPrice \in Nat
      BY Constants
    <3>2. hist'.looted[d] - hist'.lost[d] - hist'.bought[d] = hist.looted[d] - hist.lost[d] - hist.bought[d] + (-ItemPrice)
      BY <1>8, <1>10, <2>1, <2>2, <3>1
    <3>3. Base(d).balance + (-ItemPrice) >= 0
      BY <1>3, <2>2, <3>1, BaseTyped DEF WalletRows
    <3>4. /\ db'[W(d)] = [balance |-> Base(d).balance + (-ItemPrice), version |-> Base(d).version + 1]
          /\ (d \in hist'.seeded <=> d \in hist.seeded \/ db[W(d)] = NoRow)
      BY <1>3, <1>6, <1>9, <1>10, <2>2
    <3> QED
      BY <1>10, <3>1, <3>2, <3>3, <3>4, WalletMoves
  <2>3. CASE d # c
    <3>1. hist'.looted[d] - hist'.lost[d] - hist'.bought[d] = hist.looted[d] - hist.lost[d] - hist.bought[d] + 0
      BY <1>8, <1>10, <2>1, <2>3
    <3>2. db'[W(d)] = db[W(d)] /\ (d \in hist'.seeded <=> d \in hist.seeded) /\ 0 \in Int
      BY <1>6, <1>9, <1>10, <2>3
    <3> QED
      BY <1>10, <3>1, <3>2, WalletMoves
  <2> QED
    BY <2>2, <2>3
<1>12. Typed'
  BY <1>5, <1>6, <1>7, <1>10, <1>11, RowsTyped, TypedFrom DEF IInv
<1>13. Books'
  <2>1. NotSeeded'
    BY <1>11 DEF NotSeeded
  <2>2. Counted' /\ LimitsHold'
    BY <1>10 DEF IInv, Books, Counted, LimitsHold, DefeatCapHolds, GriefLimitHolds
  <2>3. LootAccounted'
    BY <1>11 DEF LootAccounted, Accounted
  <2>4. FightsAccounted'
    BY <1>6, <1>10 DEF IInv, Books, BooksBalance, FightsAccounted
  <2> QED
    BY <2>1, <2>2, <2>3, <2>4 DEF Books, BooksBalance
<1>14. \A q \in Proc \ {p} : RowsOf(q)
  <2> TAKE q \in Proc \ {p}
  <2>1. \A r \in Rows : /\ owner'[r] = q <=> owner[r] = q
                        /\ owner[r] = q => db'[r] = db[r] /\ pend'[r] = pend[r]
    BY <1>5, Constants
  <2>2. \A e \in Char : hist.defeats[e] \in Nat /\ \A d \in Char : hist.weekly[e][d] \in Nat
    BY <1>8 DEF Histories, Counts
  <2>3. \A e \in Char : /\ hist'.defeats[e] <= hist.defeats[e]
                        /\ \A d \in Char : hist'.weekly[e][d] <= hist.weekly[e][d]
    BY <1>10, <2>2
  <2> QED
    BY <1>11, <2>1, <2>3 DEF RowsOf
<1>15. RequestInv(p)'
  BY <1>5, <1>7, IdleInv
<1> QED
  BY <1>7, <1>12, <1>13, <1>14, <1>15, StepKeeps

\* What an attack records, count by count.
LEMMA RecordedFacts ==
  ASSUME IInv, NEW p \in Proc, Fighting(p), Fought(p), hist' = Recorded(p)
  PROVE  LET a == req[p].char
             d == req[p].target
             w == fight[p].winner
             l == fight[p].loser
             loot == fight[p].loot
             won == CharacterAfter(p, w).moral - chr[p][w].moral
             fell == chr[p][l].moral - CharacterAfter(p, l).moral
         IN
         /\ hist' \in Histories /\ hist'.bought = hist.bought /\ hist'.seeded = hist.seeded \cup Seeded(p)
         /\ \A c \in Char :
              /\ hist'.attacks[c] = hist.attacks[c] + (IF c = a THEN 1 ELSE 0)
              /\ hist'.looted[c] = hist.looted[c] + (IF c = w THEN loot ELSE 0)
              /\ hist'.lost[c] = hist.lost[c] + (IF c = l THEN loot ELSE 0)
              /\ hist'.moral[c] = hist.moral[c] + (IF c = w THEN won ELSE IF c = l THEN -fell ELSE 0)
              /\ c # l => hist'.defeats[c] = hist.defeats[c] /\ hist'.losses[c] = hist.losses[c]
              /\ \A e \in Char : c # a \/ e # d => hist'.weekly[c][e] = hist.weekly[c][e] /\ hist'.full[c][e] = hist.full[c][e]
         /\ \/ hist'.defeats[l] = hist.defeats[l] /\ hist'.losses[l] = hist.losses[l]
            \/ hist'.defeats[l] = hist.defeats[l] + 1
                 /\ hist'.losses[l] = hist.losses[l] + (IF fell > 0 THEN 1 ELSE 0)
         /\ \/ hist'.weekly[a][d] = hist.weekly[a][d] /\ hist'.full[a][d] = hist.full[a][d]
            \/ hist'.weekly[a][d] = hist.weekly[a][d] + 1
                 /\ hist'.full[a][d] = hist.full[a][d] + (IF fight[p].griefer THEN 0 ELSE 1)
<1> DEFINE a == req[p].char
           d == req[p].target
           w == fight[p].winner
           l == fight[p].loser
           loot == fight[p].loot
           x == CharacterAfter(p, w).moral
           y == chr[p][w].moral
           won == x - y
           fell == chr[p][l].moral - CharacterAfter(p, l).moral
           today == IF "day" \in fight[p].late THEN 0 ELSE 1
           thisWeek == IF "week" \in fight[p].late THEN 0 ELSE 1
           loss == IF fell > 0 THEN today ELSE 0
           whole == IF fight[p].griefer THEN 0 ELSE thisWeek
           fights == hist.fights + 1
           attacks == [hist.attacks EXCEPT ![a] = @ + 1]
           looted == [hist.looted EXCEPT ![w] = @ + loot]
           lost == [hist.lost EXCEPT ![l] = @ + loot]
           moral == [c \in Char |-> IF c = w THEN hist.moral[c] + CharacterAfter(p, c).moral - chr[p][c].moral
                                   ELSE IF c = l THEN hist.moral[c] - fell ELSE hist.moral[c]]
           defeats == [hist.defeats EXCEPT ![l] = @ + today]
           losses == [hist.losses EXCEPT ![l] = @ + loss]
           weekly == [hist.weekly EXCEPT ![a][d] = @ + thisWeek]
           full == [hist.full EXCEPT ![a][d] = @ + whole]
           seeded == hist.seeded \cup Seeded(p)
<1>1. a \in Char /\ d \in Char /\ w \in Char /\ l \in Char /\ w # l /\ fight[p] \in Fights
  BY FightFacts
<1>2. /\ loot \in Nat /\ today \in {0, 1} /\ thisWeek \in {0, 1} /\ loss \in {0, today} /\ whole \in {0, thisWeek}
      /\ (fell > 0 => loss = today) /\ (~(fell > 0) => loss = 0)
      /\ (fight[p].griefer => whole = 0) /\ (~fight[p].griefer => whole = thisWeek)
  BY <1>1 DEF Fights
<1>3. x \in Nat /\ y \in Nat /\ fell \in Int
  <2>1. {w, l} = {a, d}
    BY FightFacts
  <2>2. /\ \A c \in {a, d} : chr[p][c] = db[C(c)]
        /\ \A c \in {a, d} : pend[C(c)] = CharacterAfter(p, c)
    BY DEF IInv, RequestInv, HoldsCharacters
  <2>3. \A c \in {a, d} : chr[p][c].moral \in Nat /\ CharacterAfter(p, c).moral \in Nat
    BY <1>1, <2>2, RowsTyped DEF IInv, Characters
  <2>4. x \in Nat /\ y \in Nat /\ chr[p][l].moral \in Nat /\ CharacterAfter(p, l).moral \in Nat
    BY <2>1, <2>3
  <2> QED
    BY <2>4
<1>4. hist' = [hist EXCEPT !.fights = fights, !.attacks = attacks, !.looted = looted, !.lost = lost, !.moral = moral,
                          !.defeats = defeats, !.losses = losses, !.weekly = weekly, !.full = full, !.seeded = seeded]
  BY DEF Recorded
<1>5. /\ hist \in Histories /\ hist.attacks \in Counts /\ hist.looted \in Counts /\ hist.lost \in Counts
      /\ hist.moral \in [Char -> Int] /\ hist.defeats \in Counts /\ hist.losses \in Counts
      /\ hist.weekly \in [Char -> Counts] /\ hist.full \in [Char -> Counts] /\ hist.seeded \in SUBSET Char
      /\ hist.fights \in Nat
  BY DEF IInv, Typed, Histories
<1>6. moral = [c \in Char |-> IF c = w THEN hist.moral[c] + x - y
                             ELSE IF c = l THEN hist.moral[c] - fell ELSE hist.moral[c]]
  OBVIOUS
<1> HIDE DEF today, thisWeek, fell, loss, whole, x, y, loot, a, d, w, l
<1>7. /\ attacks \in Counts /\ looted \in Counts /\ lost \in Counts
      /\ \A c \in Char : /\ attacks[c] = hist.attacks[c] + (IF c = a THEN 1 ELSE 0)
                         /\ looted[c] = hist.looted[c] + (IF c = w THEN loot ELSE 0)
                         /\ lost[c] = hist.lost[c] + (IF c = l THEN loot ELSE 0)
  BY <1>1, <1>2, <1>5 DEF Counts
<1>8. /\ moral \in [Char -> Int]
      /\ \A c \in Char : moral[c] = hist.moral[c] + (IF c = w THEN x - y ELSE IF c = l THEN -fell ELSE 0)
  BY <1>1, <1>3, <1>5, <1>6
<1>9. /\ defeats \in Counts /\ losses \in Counts
      /\ \A c \in Char : c # l => defeats[c] = hist.defeats[c] /\ losses[c] = hist.losses[c]
      /\ defeats[l] = hist.defeats[l] + today /\ losses[l] = hist.losses[l] + loss
  BY <1>1, <1>2, <1>5 DEF Counts
<1>10. /\ weekly \in [Char -> Counts] /\ full \in [Char -> Counts]
       /\ \A c, e \in Char : c # a \/ e # d => weekly[c][e] = hist.weekly[c][e] /\ full[c][e] = hist.full[c][e]
       /\ weekly[a][d] = hist.weekly[a][d] + thisWeek /\ full[a][d] = hist.full[a][d] + whole
  BY <1>1, <1>2, <1>5 DEF Counts
<1>11. fights \in Nat /\ seeded \in SUBSET Char
  BY <1>5 DEF Seeded
<1> HIDE DEF fights, attacks, looted, lost, moral, defeats, losses, weekly, full, seeded
<1>12. /\ hist' \in Histories /\ hist'.bought = hist.bought /\ hist'.seeded = seeded
       /\ hist'.attacks = attacks /\ hist'.looted = looted /\ hist'.lost = lost /\ hist'.moral = moral
       /\ hist'.defeats = defeats /\ hist'.losses = losses /\ hist'.weekly = weekly /\ hist'.full = full
  <2>1. hist' = [fights |-> fights, attacks |-> attacks, seeded |-> seeded, bought |-> hist.bought,
                 looted |-> looted, lost |-> lost, moral |-> moral, defeats |-> defeats, losses |-> losses,
                 weekly |-> weekly, full |-> full]
    BY <1>4, <1>5 DEF Histories
  <2>2. hist.bought \in Counts
    BY <1>5 DEF Histories
  <2> QED
    BY <1>7, <1>8, <1>9, <1>10, <1>11, <2>1, <2>2 DEF Histories
<1>13. /\ hist.defeats[l] \in Nat /\ hist.losses[l] \in Nat /\ hist.weekly[a][d] \in Nat /\ hist.full[a][d] \in Nat
  BY <1>1, <1>5 DEF Counts
<1>14. \/ hist'.defeats[l] = hist.defeats[l] /\ hist'.losses[l] = hist.losses[l]
       \/ hist'.defeats[l] = hist.defeats[l] + 1
            /\ hist'.losses[l] = hist.losses[l] + (IF fell > 0 THEN 1 ELSE 0)
  BY <1>2, <1>9, <1>12, <1>13
<1>15. \/ hist'.weekly[a][d] = hist.weekly[a][d] /\ hist'.full[a][d] = hist.full[a][d]
       \/ hist'.weekly[a][d] = hist.weekly[a][d] + 1
            /\ hist'.full[a][d] = hist.full[a][d] + (IF fight[p].griefer THEN 0 ELSE 1)
  BY <1>2, <1>10, <1>12, <1>13
<1>16. /\ hist'.seeded = hist.seeded \cup Seeded(p)
       /\ \A c \in Char :
            /\ hist'.attacks[c] = hist.attacks[c] + (IF c = a THEN 1 ELSE 0)
            /\ hist'.looted[c] = hist.looted[c] + (IF c = w THEN loot ELSE 0)
            /\ hist'.lost[c] = hist.lost[c] + (IF c = l THEN loot ELSE 0)
            /\ hist'.moral[c] = hist.moral[c] + (IF c = w THEN x - y ELSE IF c = l THEN -fell ELSE 0)
            /\ c # l => hist'.defeats[c] = hist.defeats[c] /\ hist'.losses[c] = hist.losses[c]
            /\ \A e \in Char : c # a \/ e # d => hist'.weekly[c][e] = hist.weekly[c][e] /\ hist'.full[c][e] = hist.full[c][e]
  BY <1>7, <1>8, <1>9, <1>10, <1>12 DEF seeded
<1> QED
  BY <1>12, <1>14, <1>15, <1>16 DEF a, d, w, l, loot, x, y, fell

\* The wallets a fight moves when it commits.
LEMMA FightWallets ==
  ASSUME IInv, NEW p \in Proc, Fighting(p), pc[p] = "commit"
  PROVE  LET w == fight[p].winner
             l == fight[p].loser
             loot == fight[p].loot
         IN
         /\ \A c \in Char \ {w, l} : owner[W(c)] # p
         /\ loot > 0 => /\ Moved(p, l, -loot) /\ db[W(l)] # NoRow /\ Base(l).balance + (-loot) >= 0
                        /\ Moved(p, w, loot) /\ Base(w).balance + loot >= 0
         /\ loot = 0 => \A c \in {w, l} : owner[W(c)] = p => db[W(c)] # NoRow /\ pend[W(c)] = db[W(c)]
<1> DEFINE w == fight[p].winner
           l == fight[p].loser
           loot == fight[p].loot
<1>1. w \in Char /\ l \in Char /\ w # l /\ fight[p] \in Fights /\ loot \in Nat
  BY FightFacts DEF Fights
<1>2. Fought(p)
  BY DEF Fought, Fighting
<1>3. /\ \A c \in Char \ {w, l} : owner[W(c)] # p
      /\ owner[W(l)] = p <=> wal[p][l] # NoRow
      /\ owner[W(l)] = p => wal[p][l] = db[W(l)] /\ IF loot > 0 THEN Moved(p, l, -loot) ELSE pend[W(l)] = db[W(l)]
      /\ loot > 0 => wal[p][l] # NoRow /\ loot <= db[W(l)].balance /\ Moved(p, w, loot)
      /\ loot = 0 => /\ owner[W(w)] = p <=> wal[p][w] # NoRow
                     /\ owner[W(w)] = p => wal[p][w] = db[W(w)] /\ pend[W(w)] = db[W(w)]
  BY <1>2 DEF IInv, RequestInv, LootsWallets
<1>4. ASSUME loot > 0
      PROVE  /\ Moved(p, l, -loot) /\ db[W(l)] # NoRow /\ Base(l).balance + (-loot) >= 0
             /\ Moved(p, w, loot) /\ Base(w).balance + loot >= 0
  <2>1. /\ wal[p][l] # NoRow /\ owner[W(l)] = p /\ wal[p][l] = db[W(l)] /\ Moved(p, l, -loot) /\ Moved(p, w, loot)
        /\ loot <= db[W(l)].balance
    BY <1>3, <1>4
  <2>2. Base(l) = db[W(l)] /\ Base(l).balance \in Int /\ Base(w).balance \in Int /\ Base(w).balance >= 0
    BY <1>1, <2>1, BaseTyped DEF Base, WalletRows
  <2>3. Base(l).balance + (-loot) >= 0 /\ Base(w).balance + loot >= 0
    <3> DEFINE b == Base(l).balance
               e == Base(w).balance
    <3>1. b \in Int /\ e \in Int /\ e >= 0 /\ loot <= b
      BY <2>1, <2>2
    <3> HIDE DEF b, e, loot
    <3>2. b + (-loot) >= 0 /\ e + loot >= 0
      BY <1>1, <3>1
    <3> QED
      BY <3>2 DEF b, e
  <2> HIDE DEF w, l, loot
  <2> QED
    BY <2>1, <2>3
<1>5. ASSUME loot = 0, NEW c \in {w, l}, owner[W(c)] = p
      PROVE  db[W(c)] # NoRow /\ pend[W(c)] = db[W(c)]
  BY <1>3, <1>5
<1> QED
  BY <1>3, <1>4, <1>5

LEMMA CommitAttackInv ==
  ASSUME IInv, NEW p \in Proc, CommitRequest(p), req[p].op = "attack"
  PROVE  IInv'
<1> DEFINE a == req[p].char
           d == req[p].target
           w == fight[p].winner
           l == fight[p].loser
           loot == fight[p].loot
           x == CharacterAfter(p, w).moral
           y == chr[p][w].moral
           fell == chr[p][l].moral - CharacterAfter(p, l).moral
<1>1. pc[p] = "commit" /\ Commit(p) /\ Answered(p) /\ hist' = Recorded(p) /\ Fighting(p) /\ Fought(p)
  BY DEF CommitRequest, Fighting, Fought
<1>2. /\ a \in Char /\ d \in Char /\ d # a /\ w \in Char /\ l \in Char /\ w # l /\ fight[p] \in Fights
      /\ (w = a /\ l = d) \/ (w = d /\ l = a)
  BY <1>1, FightFacts
<1>3. loot \in Nat
  BY <1>2 DEF Fights
<1>4. /\ \A c \in Char : owner[C(c)] = p <=> c \in {a, d}
      /\ \A c \in {a, d} : chr[p][c] = db[C(c)] /\ pend[C(c)] = CharacterAfter(p, c)
      /\ db[C(a)].nil >= NilCost
  BY <1>1 DEF IInv, RequestInv, HoldsCharacters
<1>5. \A c \in {a, d} :
        /\ CharacterAfter(p, c).nil = db[C(c)].nil - (IF c = a THEN NilCost ELSE 0)
        /\ c # w => /\ CharacterAfter(p, c).moral <= db[C(c)].moral
                    /\ fight[p].capped => CharacterAfter(p, c).moral = db[C(c)].moral
  <2> TAKE c \in {a, d}
  <2>1. c \in Char /\ chr[p][c] = db[C(c)]
    BY <1>2, <1>4
  <2>2. chr[p][c] \in Characters /\ chr[p][c].moral <= MaxMoral /\ chr[p][c].moral <= chr[p][c].max /\ chr[p][c].nil >= 0
    BY <2>1, RowsTyped DEF IInv
  <2>3. c = req[p].char => chr[p][c].nil >= NilCost
    BY <1>4, <2>1
  <2> DEFINE row == chr[p][c]
             new == CharacterAfter(p, c)
  <2>4. /\ new.nil = row.nil - (IF c = req[p].char THEN NilCost ELSE 0)
        /\ c # fight[p].winner => /\ new.moral <= row.moral
                                  /\ fight[p].capped => new.moral = row.moral
    BY <2>2, <2>3, AfterFacts
  <2> HIDE DEF new
  <2>5. new.nil = db[C(c)].nil - (IF c = a THEN NilCost ELSE 0)
    BY <2>1, <2>4
  <2>6. c # w => new.moral <= db[C(c)].moral
    BY <2>1, <2>4
  <2>7. c # w => (fight[p].capped => new.moral = db[C(c)].moral)
    BY <2>1, <2>4
  <2> QED
    BY <2>5, <2>6, <2>7 DEF new
<1>6. /\ hist' \in Histories /\ hist'.bought = hist.bought /\ hist'.seeded = hist.seeded \cup Seeded(p)
      /\ \A c \in Char :
           /\ hist'.attacks[c] = hist.attacks[c] + (IF c = a THEN 1 ELSE 0)
           /\ hist'.looted[c] = hist.looted[c] + (IF c = w THEN loot ELSE 0)
           /\ hist'.lost[c] = hist.lost[c] + (IF c = l THEN loot ELSE 0)
           /\ hist'.moral[c] = hist.moral[c] + (IF c = w THEN x - y ELSE IF c = l THEN -fell ELSE 0)
           /\ c # l => hist'.defeats[c] = hist.defeats[c] /\ hist'.losses[c] = hist.losses[c]
           /\ \A e \in Char : c # a \/ e # d => hist'.weekly[c][e] = hist.weekly[c][e] /\ hist'.full[c][e] = hist.full[c][e]
      /\ \/ hist'.defeats[l] = hist.defeats[l] /\ hist'.losses[l] = hist.losses[l]
         \/ hist'.defeats[l] = hist.defeats[l] + 1
              /\ hist'.losses[l] = hist.losses[l] + (IF fell > 0 THEN 1 ELSE 0)
      /\ \/ hist'.weekly[a][d] = hist.weekly[a][d] /\ hist'.full[a][d] = hist.full[a][d]
         \/ hist'.weekly[a][d] = hist.weekly[a][d] + 1
              /\ hist'.full[a][d] = hist.full[a][d] + (IF fight[p].griefer THEN 0 ELSE 1)
  BY <1>1, RecordedFacts
<1>7. /\ \A c \in Char \ {w, l} : owner[W(c)] # p
      /\ loot > 0 => /\ Moved(p, l, -loot) /\ db[W(l)] # NoRow /\ Base(l).balance + (-loot) >= 0
                     /\ Moved(p, w, loot) /\ Base(w).balance + loot >= 0
      /\ loot = 0 => \A c \in {w, l} : owner[W(c)] = p => db[W(c)] # NoRow /\ pend[W(c)] = db[W(c)]
  BY <1>1, FightWallets
<1>8. /\ pc'[p] = "idle" /\ req'[p] = NoRequest
      /\ pc' \in [Proc -> Stages] /\ req' \in [Proc -> Requests \cup {NoRequest}]
      /\ chr' \in [Proc -> [Char -> Characters \cup {NoRow}]]
      /\ wal' \in [Proc -> [Char -> WalletRows \cup {NoRow}]]
      /\ fight' \in [Proc -> Fights \cup [loot : {0}, late : SUBSET Windows]]
      /\ refs' \in [Proc -> SUBSET Char]
      /\ \A q \in Proc \ {p} : Unmoved(q)
  BY <1>1, AnsweredFacts
<1>9. /\ DOMAIN db' = Rows /\ pend' = pend /\ owner' \in [Rows -> Proc \cup {NoProc}]
      /\ \A r \in Rows : /\ owner[r] = p => db'[r] = pend[r] /\ owner'[r] = NoProc
                         /\ owner[r] # p => db'[r] = db[r] /\ owner'[r] = owner[r]
                         /\ owner'[r] # p
  BY <1>1, CommitFacts
<1>10. \A c \in Char : /\ c \in {a, d} => db'[C(c)] = CharacterAfter(p, c)
                       /\ c \notin {a, d} => db'[C(c)] = db[C(c)]
                       /\ owner[W(c)] = p => db'[W(c)] = pend[W(c)]
                       /\ owner[W(c)] # p => db'[W(c)] = db[W(c)]
  BY <1>4, <1>9, RowsApart
<1>11. /\ \A c \in Char : /\ hist.looted[c] \in Nat /\ hist.lost[c] \in Nat /\ hist.bought[c] \in Nat
                         /\ hist.attacks[c] \in Nat /\ hist.moral[c] \in Int
                         /\ hist.defeats[c] \in Nat /\ hist.losses[c] \in Nat
       /\ \A c, e \in Char : hist.weekly[c][e] \in Nat /\ hist.full[c][e] \in Nat
  BY DEF IInv, Typed, Histories, Counts
<1>12. /\ x \in Nat /\ y \in Nat /\ y = db[C(w)].moral /\ db'[C(w)].moral = x
       /\ fell \in Int /\ fell = db[C(l)].moral - db'[C(l)].moral
       /\ db[C(l)].moral \in Nat /\ db'[C(l)].moral \in Nat
       /\ db'[C(l)].moral <= db[C(l)].moral /\ (fight[p].capped => fell = 0)
  <2>1. \A c \in {a, d} : pend[C(c)].moral \in Nat /\ db[C(c)].moral \in Nat
    BY <1>2, RowsTyped DEF IInv, Characters
  <2>2. /\ w \in {a, d} /\ l \in {a, d} /\ l # w
        /\ db'[C(w)] = CharacterAfter(p, w) /\ db'[C(l)] = CharacterAfter(p, l)
        /\ pend[C(w)] = CharacterAfter(p, w) /\ pend[C(l)] = CharacterAfter(p, l)
        /\ chr[p][w] = db[C(w)] /\ chr[p][l] = db[C(l)]
    BY <1>2, <1>4, <1>10
  <2>3. /\ CharacterAfter(p, l).moral <= db[C(l)].moral
        /\ fight[p].capped => CharacterAfter(p, l).moral = db[C(l)].moral
    BY <1>5, <2>2
  <2>4. /\ x \in Nat /\ y \in Nat /\ y = db[C(w)].moral /\ db'[C(w)].moral = x
        /\ fell = db[C(l)].moral - db'[C(l)].moral
        /\ db[C(l)].moral \in Nat /\ db'[C(l)].moral \in Nat
    BY <2>1, <2>2
  <2> QED
    BY <2>2, <2>3, <2>4
<1> HIDE DEF a, d, w, l, loot, x, y, fell
<1>13. \A c \in Char :
         /\ Accounted(c)'
         /\ db'[W(c)] = NoRow => db[W(c)] = NoRow /\ c \notin hist'.seeded /\ InitBalance[c] = NoRow
         /\ db'[W(c)] = NoRow \/ (db'[W(c)] \in WalletRows /\ db'[W(c)].balance >= 0)
         /\ db[W(c)] # NoRow =>
              db'[W(c)] # NoRow /\ (db'[W(c)] = db[W(c)] \/ db'[W(c)].version > db[W(c)].version)
  <2> TAKE c \in Char
  <2>1. c \in Seeded(p) <=> owner[W(c)] = p /\ db[W(c)] = NoRow
    BY DEF Seeded
  <2> DEFINE n == IF c = w THEN loot ELSE IF c = l THEN -loot ELSE 0
  <2>2. n \in Int /\ (loot = 0 => n = 0)
    BY <1>3
  <2>3. hist'.looted[c] - hist'.lost[c] - hist'.bought[c] = hist.looted[c] - hist.lost[c] - hist.bought[c] + n
    <3> DEFINE got == IF c = w THEN loot ELSE 0
               gave == IF c = l THEN loot ELSE 0
    <3>1. got \in Nat /\ gave \in Nat /\ n = got - gave
      BY <1>2, <1>3
    <3>2. hist'.looted[c] = hist.looted[c] + got /\ hist'.lost[c] = hist.lost[c] + gave /\ hist'.bought[c] = hist.bought[c]
      BY <1>6
    <3>3. hist.looted[c] \in Nat /\ hist.lost[c] \in Nat /\ hist.bought[c] \in Nat
      BY <1>11
    <3> HIDE DEF n, got, gave
    <3> QED
      BY <3>1, <3>2, <3>3
  <2>4. CASE loot = 0 \/ c \notin {w, l}
    <3>1. n = 0 /\ db'[W(c)] = db[W(c)] /\ (c \in hist'.seeded <=> c \in hist.seeded)
      BY <1>6, <1>7, <1>10, <2>1, <2>2, <2>4
    <3> HIDE DEF n
    <3> QED
      BY <1>6, <2>2, <2>3, <3>1, WalletMoves
  <2>5. CASE loot # 0 /\ c \in {w, l}
    <3>1. loot > 0
      BY <1>3, <2>5
    <3>2. Moved(p, c, n) /\ Base(c).balance + n >= 0
      BY <1>2, <1>7, <2>5, <3>1
    <3> HIDE DEF n
    <3>3. /\ db'[W(c)] = [balance |-> Base(c).balance + n, version |-> Base(c).version + 1]
          /\ (c \in hist'.seeded <=> c \in hist.seeded \/ db[W(c)] = NoRow)
      BY <1>6, <1>10, <2>1, <3>2 DEF Moved
    <3> QED
      BY <1>6, <2>2, <2>3, <3>2, <3>3, WalletMoves
  <2> QED
    BY <2>4, <2>5
<1>14. Typed'
  <2>1. \A c \in Char : db'[C(c)] \in {db[C(c)], pend[C(c)]}
    BY <1>4, <1>10
  <2>2. \A c \in Char : /\ db'[C(c)] \in Characters /\ db'[C(c)].nil >= 0 /\ db'[C(c)].moral <= MaxMoral
                        /\ db'[C(c)].moral <= db'[C(c)].max
    BY <2>1, RowsTyped DEF IInv
  <2> QED
    BY <1>6, <1>8, <1>9, <1>13, <2>2, RowsTyped, TypedFrom DEF IInv
<1>15. NotSeeded' /\ LootAccounted'
  BY <1>13 DEF NotSeeded, LootAccounted, Accounted
<1>16. FightsAccounted'
  <2> SUFFICES ASSUME NEW c \in Char
               PROVE  db'[C(c)].nil = InitNil[c] - NilCost * hist'.attacks[c] /\ db'[C(c)].moral = InitMoral[c] + hist'.moral[c]
    BY DEF FightsAccounted
  <2>1. db[C(c)].nil = InitNil[c] - NilCost * hist.attacks[c] /\ db[C(c)].moral = InitMoral[c] + hist.moral[c]
    BY DEF IInv, Books, BooksBalance, FightsAccounted
  <2>2. InitNil[c] \in Nat /\ InitMoral[c] \in Nat /\ NilCost \in Nat /\ hist.attacks[c] \in Nat /\ hist.moral[c] \in Int
    BY <1>11, Constants
  <2>3. db'[C(c)].nil = InitNil[c] - NilCost * hist'.attacks[c]
    <3>1. CASE c = a
      <4>1. db'[C(c)].nil = db[C(c)].nil - NilCost /\ hist'.attacks[c] = hist.attacks[c] + 1
        BY <1>2, <1>5, <1>6, <1>10, <3>1
      <4>2. \A k, m, n \in Nat : k - n * (m + 1) = (k - n * m) - n
        OBVIOUS
      <4> QED
        BY <2>1, <2>2, <4>1, <4>2
    <3>2. CASE c # a
      <4>1. db'[C(c)].nil = db[C(c)].nil /\ hist'.attacks[c] = hist.attacks[c]
        <5>1. db[C(c)].nil \in Int
          BY RowsTyped DEF IInv, Characters
        <5> QED
          BY <1>2, <1>5, <1>6, <1>10, <1>11, <3>2, <5>1
      <4> QED
        BY <2>1, <4>1
    <3> QED
      BY <3>1, <3>2
  <2>4. db'[C(c)].moral = InitMoral[c] + hist'.moral[c]
    <3>1. CASE c = w
      <4>1. hist'.moral[c] = hist.moral[c] + (x - y)
        BY <1>6, <3>1
      <4> QED
        BY <1>12, <2>1, <2>2, <3>1, <4>1
    <3>2. CASE c = l
      <4>1. hist'.moral[c] = hist.moral[c] + (-fell)
        BY <1>2, <1>6, <3>2
      <4> QED
        BY <1>12, <2>1, <2>2, <3>2, <4>1
    <3>3. CASE c \notin {w, l}
      <4>1. hist'.moral[c] = hist.moral[c] /\ db'[C(c)] = db[C(c)]
        BY <1>2, <1>6, <1>10, <2>2, <3>3
      <4> QED
        BY <2>1, <4>1
    <3> QED
      BY <3>1, <3>2, <3>3
  <2> QED
    BY <2>3, <2>4
<1>17. Counted' /\ DefeatCapHolds' /\ GriefLimitHolds'
  <2>1. /\ ~fight[p].capped => hist.defeats[l] < DefeatCap
        /\ ~fight[p].griefer => hist.weekly[a][d] < GriefLimit
    BY <1>1 DEF IInv, RequestInv, WithinLimits, l, a, d
  <2>2. ASSUME NEW c \in Char
        PROVE  hist'.losses[c] <= hist'.defeats[c] /\ hist'.losses[c] <= DefeatCap
    <3>1. hist.losses[c] <= hist.defeats[c] /\ hist.losses[c] <= DefeatCap
      BY DEF IInv, Books, Counted, LimitsHold, DefeatCapHolds
    <3>2. CASE c # l
      BY <1>6, <3>1, <3>2
    <3>3. CASE c = l
      BY <1>6, <1>11, <1>12, <2>1, <3>1, <3>3, Constants
    <3> QED
      BY <3>2, <3>3
  <2>3. ASSUME NEW c \in Char, NEW e \in Char
        PROVE  hist'.full[c][e] <= hist'.weekly[c][e] /\ hist'.full[c][e] <= GriefLimit
    <3>1. hist.full[c][e] <= hist.weekly[c][e] /\ hist.full[c][e] <= GriefLimit
      BY DEF IInv, Books, Counted, LimitsHold, GriefLimitHolds
    <3>2. CASE c # a \/ e # d
      BY <1>6, <3>1, <3>2
    <3>3. CASE c = a /\ e = d
      BY <1>6, <1>11, <2>1, <3>1, <3>3, Constants
    <3> QED
      BY <3>2, <3>3
  <2> QED
    BY <2>2, <2>3 DEF Counted, DefeatCapHolds, GriefLimitHolds
<1>18. Books'
  BY <1>15, <1>16, <1>17 DEF Books, BooksBalance, LimitsHold
<1>19. ASSUME NEW q \in Proc \ {p}
       PROVE  RowsOf(q)
  <2>1. \A r \in Rows : /\ owner'[r] = q <=> owner[r] = q
                        /\ owner[r] = q => db'[r] = db[r] /\ pend'[r] = pend[r]
    BY <1>9, Constants
  <2>2. \A c \in Char : owner[C(c)] = q =>
          /\ hist'.defeats[c] <= hist.defeats[c]
          /\ \A e \in Char : hist'.weekly[c][e] <= hist.weekly[c][e]
    <3> SUFFICES ASSUME NEW c \in Char, owner[C(c)] = q
                 PROVE  /\ hist'.defeats[c] <= hist.defeats[c]
                        /\ \A e \in Char : hist'.weekly[c][e] <= hist.weekly[c][e]
      OBVIOUS
    <3>1. c # a /\ c # d /\ c # l
      BY <1>2, <1>4
    <3>2. hist'.defeats[c] = hist.defeats[c] /\ \A e \in Char : hist'.weekly[c][e] = hist.weekly[c][e]
      BY <1>6, <3>1
    <3> QED
      BY <1>11, <3>2
  <2> QED
    BY <1>13, <2>1, <2>2 DEF RowsOf
<1>20. RequestInv(p)'
  BY <1>8, <1>9, IdleInv
<1> QED
  BY <1>8, <1>14, <1>18, <1>19, <1>20, StepKeeps
-----------------------------------------------------------------------------
\* Time passes, and a character falls to an install.

LEMMA LateFacts ==
  ASSUME IInv, NEW windows \in SUBSET Windows, fight' = Late(windows), UNCHANGED <<pc, req, chr, wal>>
  PROVE  /\ fight' \in [Proc -> Fights \cup [loot : {0}, late : SUBSET Windows]]
         /\ \A q \in Proc : Unmoved(q)
<1>1. fight \in [Proc -> Fights \cup [loot : {0}, late : SUBSET Windows]]
  BY DEF IInv, Typed
<1> DEFINE f(q) == [fight[q] EXCEPT !.late = @ \cup windows]
<1>2. \A q \in Proc : fight'[q] = IF pc[q] \in {"idle", "check"} THEN fight[q] ELSE f(q)
  BY DEF Late
<1>3. ASSUME NEW q \in Proc
      PROVE  /\ f(q) \in Fights \cup [loot : {0}, late : SUBSET Windows]
             /\ fight[q] \in Fights => /\ f(q) \in Fights
                                       /\ f(q).winner = fight[q].winner /\ f(q).loser = fight[q].loser
                                       /\ f(q).griefer = fight[q].griefer /\ f(q).capped = fight[q].capped
                                       /\ f(q).loot = fight[q].loot
  <2> DEFINE g == fight[q]
             late == g.late \cup windows
  <2>1. f(q) = [g EXCEPT !.late = late]
    OBVIOUS
  <2>2. g \in Fights \cup [loot : {0}, late : SUBSET Windows]
    BY <1>1
  <2>3. late \in SUBSET Windows
    BY <2>2 DEF Fights
  <2> HIDE DEF g, late, f
  <2>4. CASE g \in Fights
    <3>1. /\ f(q) \in Fights /\ f(q).winner = g.winner /\ f(q).loser = g.loser
          /\ f(q).griefer = g.griefer /\ f(q).capped = g.capped /\ f(q).loot = g.loot
      BY <2>1, <2>3, <2>4 DEF Fights
    <3> QED
      BY <3>1 DEF g
  <2>5. CASE g \notin Fights
    <3>1. f(q) \in [loot : {0}, late : SUBSET Windows]
      BY <2>1, <2>2, <2>3, <2>5
    <3> QED
      BY <2>5, <3>1 DEF g
  <2> QED
    BY <2>4, <2>5
<1> HIDE DEF f
<1>4. fight' = [q \in Proc |-> fight'[q]]
  BY DEF Late
<1>5. fight' \in [Proc -> Fights \cup [loot : {0}, late : SUBSET Windows]]
  BY <1>1, <1>2, <1>3, <1>4
<1>6. \A q \in Proc : Unmoved(q)
  BY <1>2, <1>3 DEF Unmoved
<1> QED
  BY <1>5, <1>6

LEMMA ClockInv ==
  ASSUME IInv, DayPasses \/ WeekPasses
  PROVE  IInv'
<1>1. UNCHANGED <<rcVars, pc, req, chr, wal, refs>>
  BY DEF DayPasses, WeekPasses
<1>2. PICK windows \in SUBSET Windows : fight' = Late(windows)
  BY DEF DayPasses, WeekPasses, Windows
<1>3. /\ fight' \in [Proc -> Fights \cup [loot : {0}, late : SUBSET Windows]]
      /\ \A q \in Proc : Unmoved(q)
  BY <1>1, <1>2, LateFacts
<1>4. db' = db /\ pend' = pend /\ owner' = owner
  BY <1>1 DEF rcVars
<1>5. /\ hist' \in Histories /\ hist'.seeded = hist.seeded /\ hist'.bought = hist.bought
      /\ hist'.looted = hist.looted /\ hist'.lost = hist.lost /\ hist'.attacks = hist.attacks /\ hist'.moral = hist.moral
      /\ hist'.defeats = Zero /\ hist'.losses = Zero
      /\ \/ hist'.weekly = hist.weekly /\ hist'.full = hist.full
         \/ hist'.weekly = Zero2 /\ hist'.full = Zero2
  <2>1. Zero \in Counts /\ Zero2 \in [Char -> Counts] /\ hist \in Histories
    BY DEF Zero, Zero2, Counts, IInv, Typed
  <2>2. \/ hist' = [hist EXCEPT !.defeats = Zero, !.losses = Zero]
        \/ hist' = [hist EXCEPT !.defeats = Zero, !.losses = Zero, !.weekly = Zero2, !.full = Zero2]
    BY DEF DayPasses, WeekPasses
  <2> QED
    BY <2>1, <2>2 DEF Histories
<1>6. Typed'
  <2>1. /\ pc' \in [Proc -> Stages] /\ req' \in [Proc -> Requests \cup {NoRequest}]
        /\ chr' \in [Proc -> [Char -> Characters \cup {NoRow}]]
        /\ wal' \in [Proc -> [Char -> WalletRows \cup {NoRow}]]
        /\ refs' \in [Proc -> SUBSET Char]
    BY <1>1 DEF IInv, Typed, TypeOK, Stages
  <2> QED
    BY <1>3, <1>4, <1>5, <2>1, RowsTyped, TypedFrom DEF IInv
<1>7. /\ \A c \in Char : hist'.defeats[c] = 0 /\ hist'.losses[c] = 0 /\ hist.defeats[c] \in Nat
      /\ \A c, e \in Char : /\ hist.weekly[c][e] \in Nat /\ hist.full[c][e] \in Nat
                             /\ \/ hist'.weekly[c][e] = hist.weekly[c][e] /\ hist'.full[c][e] = hist.full[c][e]
                                \/ hist'.weekly[c][e] = 0 /\ hist'.full[c][e] = 0
  <2>1. /\ \A c \in Char : hist.defeats[c] \in Nat
        /\ \A c, e \in Char : hist.weekly[c][e] \in Nat /\ hist.full[c][e] \in Nat
    BY DEF IInv, Typed, Histories, Counts
  <2> QED
    BY <1>5, <2>1 DEF Zero, Zero2
<1>8. Books'
  <2>1. NotSeeded'
    BY <1>4, <1>5 DEF IInv, Books, NotSeeded
  <2>2. Counted' /\ LimitsHold'
    BY <1>7, Constants DEF IInv, Books, Counted, LimitsHold, DefeatCapHolds, GriefLimitHolds
  <2>3. LootAccounted' /\ FightsAccounted'
    BY <1>4, <1>5 DEF IInv, Books, BooksBalance, LootAccounted, FightsAccounted
  <2> QED
    BY <2>1, <2>2, <2>3 DEF Books, BooksBalance
<1>9. \A q \in Proc : RowsOf(q)
  <2>1. \A c \in Char : hist'.defeats[c] <= hist.defeats[c] /\ \A e \in Char : hist'.weekly[c][e] <= hist.weekly[c][e]
    BY <1>7
  <2> QED
    BY <1>4, <2>1 DEF RowsOf
<1>10. \A q \in Proc : RequestInv(q)'
  BY <1>3, <1>6, <1>9, OthersKeep DEF IInv
<1> QED
  BY <1>6, <1>8, <1>10 DEF IInv

LEMMA FlatlineInv ==
  ASSUME IInv, NEW c \in Char, Flatline(c)
  PROVE  IInv'
<1>1. /\ owner[C(c)] = NoProc /\ db' = [db EXCEPT ![C(c)].flat = TRUE] /\ pend' = [pend EXCEPT ![C(c)].flat = TRUE]
      /\ owner' = owner /\ hist' = hist /\ UNCHANGED local
  BY DEF Flatline
<1>2. /\ C(c) \in Rows /\ DOMAIN db = Rows /\ DOMAIN pend = Rows /\ db[C(c)] \in Characters /\ pend[C(c)] \in Characters
  BY RowsApart, RowsTyped DEF IInv
<1> DEFINE x == [db[C(c)] EXCEPT !.flat = TRUE]
           y == [pend[C(c)] EXCEPT !.flat = TRUE]
<1>3. /\ x \in Characters /\ x.nil = db[C(c)].nil /\ x.moral = db[C(c)].moral /\ x.max = db[C(c)].max
      /\ y \in Characters /\ y.nil = pend[C(c)].nil /\ y.moral = pend[C(c)].moral /\ y.max = pend[C(c)].max
  BY <1>2 DEF Characters
<1>4. db' = [db EXCEPT ![C(c)] = x] /\ pend' = [pend EXCEPT ![C(c)] = y]
  BY <1>1
<1> HIDE DEF x, y
<1>5. /\ db'[C(c)] = x /\ pend'[C(c)] = y /\ DOMAIN db' = Rows /\ DOMAIN pend' = Rows
      /\ \A r \in Rows \ {C(c)} : db'[r] = db[r] /\ pend'[r] = pend[r]
  BY <1>2, <1>4
<1>6. \A e \in Char : /\ e # c => db'[C(e)] = db[C(e)] /\ pend'[C(e)] = pend[C(e)]
                      /\ db'[W(e)] = db[W(e)] /\ pend'[W(e)] = pend[W(e)]
  BY <1>5, RowsApart
<1>7. \A e \in Char :
        /\ db'[C(e)] \in Characters /\ db'[C(e)].nil = db[C(e)].nil /\ db'[C(e)].moral = db[C(e)].moral
        /\ db'[C(e)].max = db[C(e)].max
        /\ pend'[C(e)] \in Characters /\ pend'[C(e)].nil = pend[C(e)].nil /\ pend'[C(e)].moral = pend[C(e)].moral
        /\ pend'[C(e)].max = pend[C(e)].max
  BY <1>3, <1>5, <1>6, RowsTyped DEF IInv
<1>8. Typed'
  <2>1. /\ pc' \in [Proc -> Stages] /\ req' \in [Proc -> Requests \cup {NoRequest}]
        /\ hist' \in Histories /\ owner' \in [Rows -> Proc \cup {NoProc}]
        /\ chr' \in [Proc -> [Char -> Characters \cup {NoRow}]]
        /\ wal' \in [Proc -> [Char -> WalletRows \cup {NoRow}]]
        /\ fight' \in [Proc -> Fights \cup [loot : {0}, late : SUBSET Windows]]
        /\ refs' \in [Proc -> SUBSET Char]
    BY <1>1 DEF IInv, Typed, TypeOK, Stages, local
  <2> QED
    BY <1>5, <1>6, <1>7, <2>1, RowsTyped, TypedFrom DEF IInv
<1>9. Books'
  <2>1. NotSeeded' /\ LootAccounted'
    BY <1>1, <1>6 DEF IInv, Books, NotSeeded, BooksBalance, LootAccounted
  <2>2. Counted' /\ LimitsHold'
    BY <1>1 DEF IInv, Books, Counted, LimitsHold, DefeatCapHolds, GriefLimitHolds
  <2>3. FightsAccounted'
    BY <1>1, <1>7 DEF IInv, Books, BooksBalance, FightsAccounted
  <2> QED
    BY <2>1, <2>2, <2>3 DEF Books, BooksBalance
<1>10. ASSUME NEW q \in Proc
       PROVE  Unmoved(q) /\ RowsOf(q)
  <2>1. Unmoved(q)
    BY <1>1 DEF Unmoved, local
  <2>2. \A r \in Rows : owner[r] = q => r # C(c)
    BY <1>1, Constants
  <2>3. \A r \in Rows : /\ owner'[r] = q <=> owner[r] = q
                        /\ owner[r] = q => db'[r] = db[r] /\ pend'[r] = pend[r]
    BY <1>1, <1>5, <2>2
  <2>4. \A e \in Char : hist'.defeats[e] <= hist.defeats[e] /\ \A k \in Char : hist'.weekly[e][k] <= hist.weekly[e][k]
    BY <1>1, CountsStay DEF IInv
  <2> QED
    BY <1>6, <2>1, <2>3, <2>4 DEF RowsOf
<1>11. \A q \in Proc : RequestInv(q)'
  BY <1>8, <1>10, OthersKeep DEF IInv
<1> QED
  BY <1>8, <1>9, <1>11 DEF IInv

LEMMA StutterInv ==
  ASSUME IInv, UNCHANGED vars
  PROVE  IInv'
<1>1. UNCHANGED <<rcVars, hist>> /\ UNCHANGED local
  BY DEF vars
<1>2. /\ db' = db /\ pend' = pend /\ owner' = owner /\ hist' = hist
      /\ pc' = pc /\ req' = req /\ chr' = chr /\ wal' = wal /\ fight' = fight /\ refs' = refs
  BY <1>1 DEF rcVars, local
<1>3. Typed'
  BY <1>2 DEF IInv, Typed, TypeOK
<1>4. Books'
  BY <1>2, BooksSame
<1>5. \A q \in Proc : Unmoved(q) /\ RowsOf(q)
  BY <1>2, CountsStay DEF Unmoved, RowsOf, IInv
<1>6. \A q \in Proc : RequestInv(q)'
  BY <1>3, <1>5, OthersKeep DEF IInv
<1> QED
  BY <1>3, <1>4, <1>6 DEF IInv
-----------------------------------------------------------------------------

LEMMA NextInv == IInv /\ [Next]_vars => IInv'
<1> SUFFICES ASSUME IInv, [Next]_vars
             PROVE  IInv'
  OBVIOUS
<1>1. ASSUME NEW p \in Proc, Step(p)
      PROVE  IInv'
  <2>1. CASE Check(p) \/ LockAttacker(p) \/ LockDefender(p) \/ LockLoserWallet(p) \/ LockWinnerWallet(p)
    BY <2>1, CheckInv, LockAttackerInv, LockDefenderInv, LockLoserWalletInv, LockWinnerWalletInv
  <2>2. CASE Persist(p) \/ SeedWinner(p) \/ CreditWinner(p)
    BY <2>2, PersistInv, SeedWinnerInv, CreditWinnerInv
  <2>3. CASE EnsureWallet(p) \/ ReferenceSeed(p) \/ DebitWallet(p) \/ ReferenceAudit(p)
    BY <2>3, EnsureWalletInv, ReferenceInv, DebitWalletInv
  <2>4. CASE CommitRequest(p)
    BY <2>4, CommitAttackInv, CommitPurchaseInv
  <2> QED
    BY <1>1, <2>1, <2>2, <2>3, <2>4 DEF Step
<1>2. ASSUME NEW p \in Proc, Start(p) \/ Lost(p) \/ DetectDeadlock(p)
      PROVE  IInv'
  BY <1>2, StartInv, RejectInv DEF Lost, DetectDeadlock
<1>3. CASE DayPasses \/ WeekPasses \/ \E c \in Char : Flatline(c)
  BY <1>3, ClockInv, FlatlineInv
<1>4. CASE UNCHANGED vars
  BY <1>4, StutterInv
<1> QED
  BY <1>1, <1>2, <1>3, <1>4 DEF Next

\* Player combat keeps the inductive invariant, whichever requests overlap.
THEOREM Inductive == Spec => []IInv
<1> QED
  BY InitInv, NextInv, PTL DEF Spec

\* Every value keeps its type, and no balance, NIL or Moral leaves its range
\* (executeAttack's absolute writes under the locks): TypeOK.
THEOREM TypeCorrect == Spec => []TypeOK
<1>1. IInv => TypeOK
  BY DEF IInv, Typed
<1> QED
  BY Inductive, <1>1, PTL

\* No fight loses or doubles grana, NIL or Moral, whatever races, deadlocks or is
\* cut off (executeAttack against the optimistic wallet updates): BooksBalance.
THEOREM BooksBalanceHolds == Spec => []BooksBalance
<1>1. IInv => BooksBalance
  BY DEF IInv, Books
<1> QED
  BY Inductive, <1>1, PTL

\* The defeat cap of the day and the full loots of the week are never exceeded by
\* fights begun and recorded in them, since both are counted under the row locks
\* that keep other fights of the same character out: LimitsHold.
THEOREM LimitsHoldAlways == Spec => []LimitsHold
<1>1. IInv => LimitsHold
  BY DEF IInv, Books
<1> QED
  BY Inductive, <1>1, PTL

\* No fight with a flatlined defender takes effect: the lock taken before the gate
\* is read is held until the fight is recorded: ApagadoNotFarmed.
THEOREM ApagadoSpared == Spec => ApagadoNotFarmed
<1> DEFINE Spared == \A p \in Proc : req[p].op = "attack" /\ hist'.fights > hist.fights /\ pc[p] = "commit"
                       /\ pc'[p] = "idle" => ~db[C(req[p].target)].flat
<1>1. IInv /\ [Next]_vars => [Spared]_vars
  <2> SUFFICES ASSUME IInv, NEW p \in Proc, req[p].op = "attack", pc[p] = "commit"
               PROVE  ~db[C(req[p].target)].flat
    OBVIOUS
  <2>1. Fighting(p)
    BY DEF Fighting
  <2> QED
    BY <2>1 DEF IInv, RequestInv, HoldsCharacters
<1>2. Spec => [][Spared]_vars
  BY Inductive, <1>1, PTL DEF Spec
<1> QED
  BY <1>2 DEF ApagadoNotFarmed
=============================================================================
