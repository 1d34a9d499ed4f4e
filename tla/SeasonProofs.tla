---------------------------- MODULE SeasonProofs ----------------------------
(* The rounds, the wallets and the legends of a season, for any number of      *)
(* requests, overlapping resets among them.                                    *)
EXTENDS Season, FiniteSetTheorems, WellFoundedInduction, TLAPS

-----------------------------------------------------------------------------
(* The inductive invariant.                                                    *)

AllRows == {R(n) : n \in Rounds} \cup {Me, Wallet, Active}
Scores == [sc : 0 .. Top, max : 0 .. Top, at : Nat]
WalletRows == [balance : Nat, version : Nat]
ResetNotes == [stats : Nat, seen : Nat, closed : Nat, inducted : BOOLEAN, top : BOOLEAN]
Histories == [paid : Nat, base : Nat, tops : SUBSET Rounds, zeroed : SUBSET Nat, early : SUBSET Nat,
              outdated : BOOLEAN, alone : BOOLEAN]
Stages == {"idle", "check", "active", "stats", "end", "close", "legends", "detach", "zero", "base", "open",
           "read", "wallet", "pay", "score", "fight", "commit", "invalidate", "writeback", "cached", "rank",
           "cache", "name"}

Typed ==
  /\ DOMAIN db = AllRows /\ DOMAIN pend = AllRows
  /\ owner \in [AllRows -> Proc \cup {NoProc}]
  /\ \A n \in Rounds : db[R(n)] \in {NoRow, "active", "ended"}
  /\ \A c \in {db[Me], pend[Me]} : c \in Scores /\ c.at <= day
  /\ db[Wallet] \in WalletRows /\ pend[Wallet] \in WalletRows
  /\ db[Active] \in Rounds
  /\ day \in Nat
  /\ age \in [Rounds -> {"intermission", "running", "over"}]
  /\ board \in {None} \cup 0 .. Top
  /\ pc \in [Proc -> Stages]
  /\ req \in [Proc -> Kinds \cup {"none"}]
  /\ chr \in [Proc -> Scores \cup {NoRow}] /\ wal \in [Proc -> WalletRows \cup {NoRow}]
  /\ reset \in [Proc -> ResetNotes]
  /\ legends \in [unnamed : Nat, named : Nat]
  /\ hist \in Histories

\* The stages of a reset from the one that ends its round on, and from the one
\* that has locked the character.
Ending == {"legends", "detach", "zero", "base", "open", "commit"}
Locked == {"zero", "base", "open", "commit"}

\* The statements of each kind of request, and what it has read when it gets there.
Fits(p) ==
  /\ pc[p] = "idle" <=> req[p] = "none"
  /\ pc[p] = "check" => req[p] = "cron"
  /\ pc[p] \in {"active", "stats", "end", "close", "legends", "detach", "zero", "base", "open"} => req[p] \in Resets
  /\ pc[p] = "read" => req[p] \in {"gig", "botched", "readout"}
  /\ pc[p] \in {"wallet", "score"} => req[p] \in {"gig", "botched"}
  /\ pc[p] = "pay" => req[p] = "gig"
  /\ pc[p] = "fight" => req[p] \in {"won", "lost"}
  /\ pc[p] \in {"writeback"} => req[p] = "readout"
  /\ pc[p] \in {"cached", "rank", "cache"} => req[p] = "ranking"
  /\ pc[p] = "name" => req[p] = "drink"
  /\ pc[p] = "commit" => req[p] \in Played \cup Resets
  /\ pc[p] = "invalidate" => req[p] \in Played
  /\ pc[p] \in {"wallet", "pay", "score", "writeback", "cache"} => chr[p] \in Scores /\ chr[p].at <= day

\* The rows each statement may hold, and those it must.
Locks(p) ==
  /\ owner[Me] = p <=> pc[p] = "commit" \/ (req[p] \in Resets /\ pc[p] \in Locked)
  /\ owner[Wallet] = p <=> \/ req[p] = "gig" /\ pc[p] \in {"score", "commit"}
                           \/ req[p] \in Resets /\ pc[p] \in {"base", "open", "commit"}
  /\ owner[Active] = p <=> reset[p].closed # 0

\* What a transaction has made of the wallet and of the character.
Moved(p) ==
  /\ owner[Wallet] = p =>
       /\ pend[Wallet].balance = IF req[p] = "gig" THEN db[Wallet].balance + Payout ELSE 0
       /\ pend[Wallet].version = db[Wallet].version + 1
  /\ req[p] \in Resets /\ pc[p] \in {"open", "commit"} => pend[Me].sc = 0

\* A reset that ended a round holds it, the latest one, and the index on the
\* active round, and has opened the next one when it commits.
Closing(p) ==
  LET n == reset[p].closed IN
  /\ pc[p] = "close" => reset[p].seen \in 1 .. db[Active]
  /\ req[p] \in Resets /\ pc[p] = "commit" => n # 0
  /\ n = 0 => \A m \in Rounds : owner[R(m)] # p
  /\ n # 0 =>
       /\ req[p] \in Resets /\ pc[p] \in Ending
       /\ n = db[Active]
       /\ owner[R(n)] = p /\ pend[R(n)] = "ended"
       /\ pc[p] # "commit" => pend[Active] = None /\ \A m \in Rounds \ {n} : owner[R(m)] # p
       /\ pc[p] = "commit" => /\ n + 1 \in Rounds /\ pend[Active] = n + 1
                              /\ owner[R(n + 1)] = p /\ pend[R(n + 1)] = "active"
                              /\ \A m \in Rounds \ {n, n + 1} : owner[R(m)] # p
       /\ pc[p] # "legends" /\ reset[p].inducted => n \in hist.tops

\* The wallet read is the committed version or an older one, and one version has
\* one content.
WalFaithful(p) ==
  pc[p] = "pay" =>
    /\ wal[p] \in WalletRows
    /\ wal[p].version <= db[Wallet].version
    /\ wal[p].version = db[Wallet].version => wal[p] = db[Wallet]

RequestInv(p) == Fits(p) /\ Locks(p) /\ Moved(p) /\ Closing(p) /\ WalFaithful(p)

\* Resets that still have a round to open.
UnderWay == {p \in Proc : req[p] \in Resets /\ pc[p] # "check"}

\* The rounds are numbered up to the active one, one row of statistics is left
\* for each that ended, and the legends inducted had Top in different ended rounds.
Numbered ==
  \A n \in Rounds : db[R(n)] = IF n < db[Active] THEN "ended" ELSE IF n = db[Active] THEN "active" ELSE NoRow
Counted ==
  /\ IsFiniteSet(stats) /\ Cardinality(stats) = db[Active] - 1
  /\ \A s \in stats : s.id \in 1 .. Cardinality(stats)
Inducted ==
  /\ hist.tops \subseteq 1 .. db[Active]
  /\ db[Me].sc = Top => db[Active] \in hist.tops
  /\ legends.unnamed + legends.named <= Cardinality(hist.tops \ {db[Active]})
Bounded == db[Active] + Cardinality(UnderWay) <= MaxRounds

Books == Numbered /\ Counted /\ Inducted /\ Bounded /\ WalletsStartOver

IInv ==
  /\ Typed /\ PendingIsOwned /\ Books
  /\ \A p \in Proc : RequestInv(p)
-----------------------------------------------------------------------------
\* Rows, maxima, and the ladder of Moral.

LEMMA Constants ==
  /\ NoProc \notin Proc /\ IsFiniteSet(Proc) /\ NoRow \notin {"active", "ended"}
  /\ Thresholds \subseteq 0 .. Top /\ 0 \in Thresholds /\ Top \in Thresholds
  /\ Grace \in Nat /\ Rate \in Nat /\ Top \in Nat /\ GigMoral \in Nat /\ Payout \in Nat
  /\ MaxRounds \in Nat /\ Top > 0 /\ MaxRounds > 0
  BY SeasonAssumption

LEMMA RowsApart ==
  /\ \A n \in Rounds : R(n) \in AllRows /\ R(n) \notin {Me, Wallet, Active}
  /\ \A n, m \in Rounds : R(n) = R(m) => n = m
  /\ {Me, Wallet, Active} \subseteq AllRows
  /\ Me # Wallet /\ Me # Active /\ Wallet # Active
  /\ \A r \in AllRows : r \in {Me, Wallet, Active} \/ \E n \in Rounds : r = R(n)
  BY DEF AllRows, R, Me, Wallet, Active

LEMMA MaxTwo ==
  \A a, b \in Int : Max({a, b}) = (IF a >= b THEN a ELSE b) /\ Min({a, b}) = (IF a <= b THEN a ELSE b)
  BY DEF Max, Min

\* A non-empty set of naturals has a least element.
LEMMA LeastExists ==
  \A S \in SUBSET Nat : S # {} => \E x \in S : \A y \in S : x <= y
<1> DEFINE Less == OpToRel(<, Nat)
<1>1. IsWellFoundedOn(Less, Nat)
  BY NatLessThanWellFounded
<1>2. \A x, y \in Nat : <<y, x>> \in Less <=> y < x
  BY DEF OpToRel
<1>3. \A W, U, V : IsWellFoundedOn(W, U) /\ V \subseteq U /\ V # {} => \E x \in V : \A y \in V : ~(<<y, x>> \in W)
  BY WFMin
<1> HIDE DEF Less
<1> SUFFICES ASSUME NEW S \in SUBSET Nat, S # {}
             PROVE  \E x \in S : \A y \in S : x <= y
  OBVIOUS
<1>4. PICK x \in S : \A y \in S : ~(<<y, x>> \in Less)
  BY <1>1, <1>3
<1>5. \A y \in S : x <= y
  <2> SUFFICES ASSUME NEW y \in S
               PROVE  x <= y
    OBVIOUS
  <2>1. x \in Nat /\ y \in Nat
    BY <1>4
  <2>2. ~(y < x)
    BY <1>2, <1>4, <2>1
  <2> QED
    BY <2>1, <2>2
<1> QED
  BY <1>4, <1>5

LEMMA GreatestExists ==
  \A S \in SUBSET (0 .. Top) : S # {} => Max(S) \in S /\ \A y \in S : y <= Max(S)
<1> SUFFICES ASSUME NEW S \in SUBSET (0 .. Top), S # {}
             PROVE  Max(S) \in S /\ \A y \in S : y <= Max(S)
  OBVIOUS
<1> DEFINE T == {Top - t : t \in S}
<1>t. Top \in Nat
  BY Constants
<1>1. T \in SUBSET Nat
  <2>1. \A t \in S : Top - t \in Nat
    BY <1>t
  <2> QED
    BY <2>1
<1>2. PICK x \in T : \A y \in T : x <= y
  <2>1. T # {}
    OBVIOUS
  <2> QED
    BY <1>1, <2>1, LeastExists
<1>3. PICK t \in S : x = Top - t
  OBVIOUS
<1>4. \A y \in S : t >= y
  <2> SUFFICES ASSUME NEW y \in S
               PROVE  t >= y
    OBVIOUS
  <2>1. x <= Top - y
    BY <1>2
  <2> QED
    BY <1>t, <1>3, <2>1
<1>5. \E z \in S : \A y \in S : z >= y
  BY <1>4
<1>6. PICK z \in S : Max(S) = z /\ \A y \in S : z >= y
  BY <1>5 DEF Max
<1>7. \A y \in S : y <= z
  BY <1>t, <1>6
<1> QED
  BY <1>6, <1>7

LEMMA FloorTyped ==
  ASSUME NEW max \in 0 .. Top
  PROVE  getThresholdFloor(max) \in 0 .. Top
<1>1. 0 \in Thresholds /\ \A t \in Thresholds : t \in 0 .. Top /\ t >= 0
  BY Constants
<1>2. Min(Thresholds) \in Thresholds
  BY <1>1 DEF Min
<1> DEFINE S == {t \in Thresholds : t <= max} \cup {Min(Thresholds)}
<1>3. S \in SUBSET (0 .. Top) /\ S # {}
  BY <1>1, <1>2
<1>4. Max(S) \in S
  BY <1>3, GreatestExists
<1> QED
  BY <1>3, <1>4 DEF getThresholdFloor

\* A decay lowers the Moral, if at all, to no less than a threshold.
LEMMA DecayTyped ==
  ASSUME NEW days \in Int, NEW score \in 0 .. Top, NEW max \in 0 .. Top
  PROVE  calculateDecay(days, score, max) \in 0 .. Top /\ calculateDecay(days, score, max) <= score
<1> DEFINE floor == getThresholdFloor(max)
           raw == Max({0, days - Grace}) * Rate
<1>1. floor \in 0 .. Top
  BY FloorTyped
<1>2. raw \in Nat
  <2>1. Max({0, days - Grace}) \in Nat /\ Rate \in Nat
    BY Constants, MaxTwo
  <2> QED
    BY <2>1
<1> HIDE DEF floor, raw
<1>3. score > floor => Max({floor, score - raw}) \in 0 .. Top /\ Max({floor, score - raw}) <= score
  BY Constants, <1>1, <1>2, MaxTwo
<1> QED
  BY <1>1, <1>3 DEF calculateDecay, floor, raw
-----------------------------------------------------------------------------
\* The initial state, and what every step leaves alone.

LEMMA InitInv == Init => IInv
<1> SUFFICES ASSUME Init PROVE IInv
  OBVIOUS
<1> USE Constants, RowsApart DEF Init, RcInit
<1>0. 1 \in Rounds
  BY DEF Rounds
<1>1. /\ DOMAIN db = AllRows /\ pend = db
      /\ \A r \in AllRows : owner[r] = NoProc
      /\ owner \in [AllRows -> Proc \cup {NoProc}]
  BY DEF AllRows
<1>2. /\ db[Me] = [sc |-> 0, max |-> 0, at |-> 0]
      /\ db[Wallet] = [balance |-> 0, version |-> 0] /\ db[Active] = 1
      /\ \A n \in Rounds : db[R(n)] = IF n = 1 THEN "active" ELSE NoRow
  BY <1>0 DEF AllRows
<1>3. db[Me] \in Scores /\ db[Me].at <= 0 /\ db[Wallet] \in WalletRows
  BY <1>2 DEF Scores, WalletRows
<1>4. Typed
  BY <1>0, <1>1, <1>2, <1>3 DEF Typed, ResetNotes, Histories, Stages, NoReset, None
<1>5. PendingIsOwned
  BY <1>1 DEF PendingIsOwned
<1>6. UnderWay = {}
  BY DEF UnderWay, Resets
<1>7. Books
  BY <1>2, <1>6, FS_EmptySet DEF Books, Numbered, Counted, Inducted, Bounded, WalletsStartOver, Rounds
<1>8. \A p \in Proc : RequestInv(p)
  BY <1>0, <1>1 DEF RequestInv, Fits, Locks, Moved, Closing, WalFaithful, Resets, Played, NoReset
<1> QED
  BY <1>4, <1>5, <1>7, <1>8 DEF IInv

\* What a request keeps, changed only by its own steps.
Unmoved(q) ==
  /\ pc'[q] = pc[q] /\ req'[q] = req[q] /\ reset'[q] = reset[q]
  /\ chr'[q] = chr[q] /\ wal'[q] = wal[q]

\* A step of another request leaves the rows q holds alone, publishes a later
\* version where it publishes a wallet, and goes on with the clock and the rounds.
RowsOf(q) ==
  /\ \A r \in AllRows : /\ owner'[r] = q <=> owner[r] = q
                        /\ owner[r] = q => db'[r] = db[r] /\ pend'[r] = pend[r]
  /\ owner[Wallet] # q => db'[Wallet] = db[Wallet] \/ db'[Wallet].version > db[Wallet].version
  /\ day' >= day /\ db'[Active] >= db[Active] /\ hist.tops \subseteq hist'.tops

LEMMA OthersKeep ==
  ASSUME Typed, Typed', NEW q \in Proc, RequestInv(q), Unmoved(q), RowsOf(q)
  PROVE  RequestInv(q)'
<1> USE RowsApart DEF RequestInv, Unmoved
<1>1. Fits(q)'
  <2>1. chr[q] \in Scores /\ chr[q].at <= day => chr'[q].at <= day'
    BY DEF RowsOf, Typed, Scores
  <2> QED
    BY <2>1 DEF Fits
<1>2. Locks(q)'
  BY DEF Locks, RowsOf
<1>3. Moved(q)'
  BY DEF Moved, RowsOf, Locks, Locked
<1>4. Closing(q)'
  <2> DEFINE n == reset[q].closed
  <2>1. pc[q] = "close" => reset[q].seen \in 1 .. db'[Active]
    BY DEF Closing, RowsOf, Typed, Rounds
  <2>2. \A m \in Rounds : /\ owner'[R(m)] = q <=> owner[R(m)] = q
                          /\ owner[R(m)] = q => pend'[R(m)] = pend[R(m)]
    BY DEF RowsOf
  <2>3. n # 0 => db'[Active] = db[Active] /\ pend'[Active] = pend[Active]
    BY DEF Locks, RowsOf
  <2>4. db[Active] \in Rounds /\ hist.tops \subseteq hist'.tops
    BY DEF Typed, RowsOf
  <2>5. reset'[q] = reset[q] /\ pc'[q] = pc[q] /\ req'[q] = req[q]
    OBVIOUS
  <2> QED
    BY <2>1, <2>2, <2>3, <2>4, <2>5 DEF Closing
<1>5. WalFaithful(q)'
  <2> SUFFICES ASSUME pc[q] = "pay"
               PROVE  WalFaithful(q)'
    BY DEF WalFaithful
  <2>1. owner[Wallet] # q
    BY DEF Locks, Fits, Resets
  <2>2. /\ wal[q] \in WalletRows /\ db[Wallet] \in WalletRows /\ db'[Wallet] \in WalletRows
    BY DEF WalFaithful, Typed
  <2> QED
    BY <2>1, <2>2 DEF WalFaithful, RowsOf, WalletRows
<1> QED
  BY <1>1, <1>2, <1>3, <1>4, <1>5

\* What is to show of a step of p.
LEMMA StepKeeps ==
  ASSUME IInv, NEW p \in Proc, Typed', PendingIsOwned', Books', RequestInv(p)',
         \A q \in Proc \ {p} : Unmoved(q) /\ RowsOf(q)
  PROVE  IInv'
<1>1. \A q \in Proc : RequestInv(q)'
  BY OthersKeep DEF IInv
<1> QED
  BY <1>1 DEF IInv

LEMMA LatestIsActive ==
  ASSUME Typed, Numbered
  PROVE  Latest = db[Active]
<1> DEFINE S == {n \in Rounds : db[R(n)] # NoRow}
<1>1. db[Active] \in Nat /\ db[Active] \in Rounds
  BY DEF Typed, Rounds
<1>2. \A n \in Rounds : n \in S <=> n <= db[Active]
  BY <1>1, Constants DEF Numbered, Rounds
<1>3. Max(S) = db[Active]
  <2>1. db[Active] \in S /\ \A y \in S : db[Active] >= y
    BY <1>1, <1>2
  <2>2. \A x \in S : (\A y \in S : x >= y) => x = db[Active]
    BY <1>1, <1>2, <2>1 DEF Rounds
  <2> HIDE DEF S
  <2> QED
    BY <2>1, <2>2 DEF Max
<1> QED
  BY <1>3 DEF Latest

\* Resets under way only come to an end.
LEMMA FewerUnderWay ==
  ASSUME IInv, UnderWay' \subseteq UnderWay, db'[Active] = db[Active]
  PROVE  Bounded'
<1>1. IsFiniteSet(UnderWay)
  BY Constants, FS_Subset DEF UnderWay
<1>2. /\ Cardinality(UnderWay) \in Nat /\ IsFiniteSet(UnderWay') /\ Cardinality(UnderWay') \in Nat
      /\ Cardinality(UnderWay') <= Cardinality(UnderWay)
  BY <1>1, FS_Subset, FS_CardinalityType
<1> QED
  BY <1>2, Constants DEF IInv, Typed, Books, Bounded, Rounds

LEMMA NotUnderWay ==
  ASSUME IInv, NEW p \in Proc, \A q \in Proc \ {p} : Unmoved(q),
         req'[p] = "none" \/ (req'[p] = req[p] /\ (pc[p] # "check" \/ pc'[p] = "check"))
  PROVE  UnderWay' \subseteq UnderWay
  BY DEF UnderWay, Unmoved, Resets

\* The committed rows and what was counted stay.
LEMMA BooksSame ==
  ASSUME IInv, NEW p \in Proc, db' = db, stats' = stats,
         legends'.unnamed + legends'.named = legends.unnamed + legends.named,
         hist'.paid = hist.paid, hist'.tops = hist.tops, UnderWay' \subseteq UnderWay
  PROVE  Books'
<1>1. Bounded'
  BY FewerUnderWay
<1> QED
  BY <1>1 DEF IInv, Books, Numbered, Counted, Inducted, WalletsStartOver

\* The rows stay, and p's own fields move.
LEMMA LocalStep ==
  ASSUME IInv, NEW p \in Proc, UNCHANGED <<rcVars, stats, day>>,
         legends'.unnamed + legends'.named = legends.unnamed + legends.named,
         hist'.paid = hist.paid, hist'.tops = hist.tops,
         req'[p] = "none" \/ (req'[p] = req[p] /\ (pc[p] # "check" \/ pc'[p] = "check")),
         Typed', RequestInv(p)', \A q \in Proc \ {p} : Unmoved(q)
  PROVE  IInv'
<1>1. \A q \in Proc \ {p} : RowsOf(q)
  BY DEF RowsOf, rcVars, IInv, Typed, Rounds, Histories
<1>2. PendingIsOwned'
  BY DEF IInv, rcVars, PendingIsOwned
<1>3. Books'
  BY NotUnderWay, BooksSame DEF rcVars
<1> QED
  BY <1>1, <1>2, <1>3, StepKeeps

\* A request that is over holds nothing.
LEMMA IdleInv ==
  ASSUME Typed', NEW p \in Proc, pc'[p] = "idle", req'[p] = "none", reset'[p] = NoReset,
         \A r \in AllRows : owner'[r] # p
  PROVE  RequestInv(p)'
  BY RowsApart DEF RequestInv, Fits, Locks, Moved, Closing, WalFaithful, Resets, Played, NoReset, Ending

LEMMA ForgetFacts ==
  ASSUME IInv, NEW p \in Proc, Forget(p)
  PROVE  /\ pc'[p] = "idle" /\ req'[p] = "none" /\ reset'[p] = NoReset
         /\ pc' \in [Proc -> Stages] /\ req' \in [Proc -> Kinds \cup {"none"}]
         /\ chr' \in [Proc -> Scores \cup {NoRow}] /\ wal' \in [Proc -> WalletRows \cup {NoRow}]
         /\ reset' \in [Proc -> ResetNotes]
         /\ \A q \in Proc \ {p} : Unmoved(q)
<1>1. NoReset \in ResetNotes
  BY DEF NoReset, ResetNotes
<1> QED
  BY <1>1 DEF Forget, Goto, IInv, Typed, Unmoved, Stages
-----------------------------------------------------------------------------
\* Rolling back.

LEMMA RollbackInv ==
  ASSUME IInv, NEW p \in Proc, Forget(p), Rollback(p), UNCHANGED <<day, age, shared>>,
         hist' \in Histories, hist'.paid = hist.paid, hist'.tops = hist.tops
  PROVE  IInv'
<1>f. /\ pc'[p] = "idle" /\ req'[p] = "none" /\ reset'[p] = NoReset
      /\ pc' \in [Proc -> Stages] /\ req' \in [Proc -> Kinds \cup {"none"}]
      /\ chr' \in [Proc -> Scores \cup {NoRow}] /\ wal' \in [Proc -> WalletRows \cup {NoRow}]
      /\ reset' \in [Proc -> ResetNotes]
      /\ \A q \in Proc \ {p} : Unmoved(q)
  BY ForgetFacts
<1>1. /\ db' = db /\ DOMAIN pend' = AllRows
      /\ \A r \in AllRows : /\ pend'[r] = IF owner[r] = p THEN db[r] ELSE pend[r]
                            /\ owner'[r] = IF owner[r] = p THEN NoProc ELSE owner[r]
      /\ owner' \in [AllRows -> Proc \cup {NoProc}]
  BY DEF IInv, Typed, Rollback, Released
<1>2. Typed'
  BY <1>f, <1>1, RowsApart DEF IInv, Typed, shared
<1>3. PendingIsOwned'
  BY <1>1 DEF IInv, Typed, PendingIsOwned
<1>4. Books'
  BY <1>f, <1>1, NotUnderWay, BooksSame DEF shared
<1>5. \A q \in Proc \ {p} : RowsOf(q)
  BY <1>1, Constants, RowsApart DEF RowsOf, IInv, Typed, Rounds, Histories
<1>6. RequestInv(p)'
  BY <1>f, <1>1, <1>2, Constants, IdleInv DEF IInv, Typed
<1> QED
  BY <1>f, <1>2, <1>3, <1>4, <1>5, <1>6, StepKeeps

LEMMA RejectInv ==
  ASSUME IInv, NEW p \in Proc, Reject(p)
  PROVE  IInv'
  BY RollbackInv DEF Reject, IInv, Typed
-----------------------------------------------------------------------------
\* The reads and the local decisions.

LEMMA ProceedFacts ==
  ASSUME IInv, NEW p \in Proc, NEW at, NEW next \in Stages, Proceed(p, at, next)
  PROVE  /\ pc[p] = at /\ pc'[p] = next /\ pc' \in [Proc -> Stages] /\ req' = req
         /\ \A q \in Proc \ {p} : pc'[q] = pc[q]
         /\ day' = day /\ age' = age /\ hist' = hist
         /\ legends' = legends /\ stats' = stats /\ board' = board
  BY DEF IInv, Typed, Proceed, Goto, shared

\* Before its first write a request holds no row.
Reading == {"idle", "check", "active", "stats", "end", "close", "read", "wallet", "pay", "fight", "invalidate",
            "writeback", "cached", "rank", "cache", "name"}

LEMMA ReadingHoldsNothing ==
  ASSUME IInv, NEW p \in Proc, pc[p] \in Reading
  PROVE  reset[p].closed = 0 /\ \A r \in AllRows : owner[r] # p
<1>1. reset[p].closed = 0
  BY DEF IInv, RequestInv, Closing, Reading, Ending
<1> QED
  BY <1>1, RowsApart DEF IInv, RequestInv, Closing, Locks, Reading, Locked

\* Only the reset that ended the round holds it, and the index with it.
LEMMA PlayersHoldNoRound ==
  ASSUME IInv, NEW p \in Proc, req[p] \notin Resets
  PROVE  reset[p].closed = 0 /\ owner[Active] # p /\ \A n \in Rounds : owner[R(n)] # p
  BY DEF IInv, RequestInv, Closing, Locks

\* What a request may find in a row, its own version or the committed one.
LEMMA SeesTyped ==
  ASSUME IInv, NEW p \in Proc
  PROVE  /\ Sees(p, Me) \in Scores /\ Sees(p, Me).at <= day
         /\ Sees(p, Wallet) \in WalletRows
  BY DEF IInv, Typed, Sees

LEMMA StartInv ==
  ASSUME IInv, NEW p \in Proc, Start(p)
  PROVE  IInv'
<1>1. PICK kind \in Kinds :
        /\ kind = "cron" => Open({"cron"}) = {}
        /\ kind = "admin" => Room
        /\ req' = [req EXCEPT ![p] = kind]
        /\ Goto(p, CASE kind = "cron" -> "check"
                     [] kind = "admin" -> "active"
                     [] kind \in {"won", "lost"} -> "fight"
                     [] kind = "ranking" -> "cached"
                     [] kind = "drink" -> "name"
                     [] OTHER -> "read")
  BY DEF Start
<1>2. UNCHANGED <<rcVars, day, age, shared, chr, wal, reset>> /\ pc[p] = "idle"
  BY DEF Start
<1>h. hist' \in Histories /\ hist'.paid = hist.paid /\ hist'.tops = hist.tops
  <2>1. hist \in Histories /\ NobodyElse(p) \in BOOLEAN
    BY DEF IInv, Typed, NobodyElse
  <2>2. hist' = [hist EXCEPT !.alone = @ /\ NobodyElse(p)]
    BY DEF Start
  <2> QED
    BY <2>1, <2>2 DEF Histories
<1>3. req[p] = "none"
  BY <1>2 DEF IInv, RequestInv, Fits
<1>4. /\ kind = "cron" => pc'[p] = "check"
      /\ kind = "admin" => pc'[p] = "active"
      /\ kind \in {"won", "lost"} => pc'[p] = "fight"
      /\ kind = "ranking" => pc'[p] = "cached"
      /\ kind = "drink" => pc'[p] = "name"
      /\ kind \in {"gig", "botched", "readout"} => pc'[p] = "read"
      /\ req'[p] = kind
      /\ \A q \in Proc \ {p} : pc'[q] = pc[q] /\ req'[q] = req[q]
      /\ pc' \in [Proc -> Stages]
  BY <1>1 DEF Goto, IInv, Typed, Kinds, Resets, Stages
<1>5. Typed'
  BY <1>1, <1>2, <1>4, <1>h DEF IInv, Typed, rcVars, shared
<1>6. \A q \in Proc \ {p} : Unmoved(q) /\ RowsOf(q)
  BY <1>2, <1>4, <1>h DEF Unmoved, RowsOf, rcVars, IInv, Typed, Rounds, Histories
<1>7. PendingIsOwned'
  BY <1>2 DEF IInv, PendingIsOwned, rcVars
<1>8. Bounded'
  <2>1. CASE kind = "admin"
    <3>1. UnderWay' = UnderWay \cup {p} /\ p \notin UnderWay
      BY <2>1, <1>3, <1>4, <1>2 DEF UnderWay, Resets, Open
    <3>2. IsFiniteSet(UnderWay)
      BY Constants, FS_Subset DEF UnderWay
    <3>3. Cardinality(UnderWay') = Cardinality(UnderWay) + 1
      BY <3>1, <3>2, FS_AddElement
    <3>4. db[Active] + Cardinality(UnderWay) < MaxRounds
      <4>1. {q \in Open(Resets) : pc[q] # "check"} = UnderWay
        BY DEF Open, UnderWay
      <4>2. Latest = db[Active]
        BY LatestIsActive DEF IInv, Books
      <4> QED
        BY <1>1, <2>1, <4>1, <4>2 DEF Room
    <3> QED
      BY <1>2, <3>2, <3>3, <3>4, FS_CardinalityType, Constants DEF Bounded, IInv, Typed, Rounds, rcVars
  <2>2. CASE kind # "admin"
    <3>1. UnderWay' \subseteq UnderWay
      BY <2>2, <1>1, <1>3, <1>4 DEF UnderWay, Resets, Kinds
    <3> QED
      BY <1>2, <3>1, FewerUnderWay DEF rcVars
  <2> QED
    BY <2>1, <2>2
<1>9. Books'
  BY <1>2, <1>8, <1>h DEF IInv, Books, Numbered, Counted, Inducted, WalletsStartOver, rcVars, shared
<1>10. RequestInv(p)'
  <2>1. reset[p].closed = 0 /\ \A r \in AllRows : owner[r] # p
    BY <1>2, ReadingHoldsNothing DEF Reading
  <2>2. pc'[p] \in {"check", "active", "fight", "cached", "name", "read"} /\ kind # "none"
    BY <1>4 DEF Kinds, Resets
  <2>3. Fits(p)'
    BY <1>1, <1>4, <2>2 DEF Fits, Kinds, Resets, Played
  <2>4. \A r \in AllRows : owner'[r] # p
    BY <1>2, <2>1 DEF rcVars
  <2>5. reset'[p].closed = 0
    BY <1>2, <2>1
  <2> QED
    BY <2>2, <2>3, <2>4, <2>5, RowsApart DEF RequestInv, Locks, Moved, Closing, WalFaithful, Locked
<1> QED
  BY <1>5, <1>6, <1>7, <1>9, <1>10, StepKeeps

\* The reads that keep what they found.
LEMMA ReadInv ==
  ASSUME IInv, NEW p \in Proc, Read(p)
  PROVE  IInv'
<1> DEFINE next == IF req[p] = "readout" THEN "writeback" ELSE "wallet"
<1>0. next \in Stages /\ Proceed(p, "read", next)
  BY DEF Read, Stages
<1>1. /\ pc[p] = "read" /\ pc'[p] = next /\ pc' \in [Proc -> Stages] /\ req' = req
      /\ \A q \in Proc \ {p} : pc'[q] = pc[q]
      /\ day' = day /\ age' = age /\ hist' = hist
      /\ legends' = legends /\ stats' = stats /\ board' = board
  BY <1>0, ProceedFacts
<1>2. chr' = [chr EXCEPT ![p] = Sees(p, Me)] /\ UNCHANGED <<rcVars, wal, reset>>
  BY DEF Read
<1>3. Sees(p, Me) \in Scores /\ Sees(p, Me).at <= day
  BY SeesTyped
<1>4. Typed'
  BY <1>1, <1>2, <1>3 DEF IInv, Typed, rcVars
<1>5. \A q \in Proc \ {p} : Unmoved(q)
  BY <1>1, <1>2 DEF IInv, Typed, Unmoved
<1>6. RequestInv(p)'
  <2>1. reset[p].closed = 0 /\ (\A r \in AllRows : owner[r] # p) /\ req[p] \in {"gig", "botched", "readout"}
    BY <1>1, ReadingHoldsNothing DEF Reading, IInv, RequestInv, Fits
  <2>2. chr'[p] = Sees(p, Me)
    BY <1>2 DEF IInv, Typed
  <2>3. pc'[p] \in {"wallet", "writeback"} /\ req'[p] = req[p] /\ owner' = owner /\ reset' = reset
    BY <1>1, <1>2 DEF rcVars
  <2>4. Fits(p)'
    BY <1>1, <1>3, <2>1, <2>2, <2>3 DEF Fits
  <2> QED
    BY <2>1, <2>3, <2>4, RowsApart DEF RequestInv, Locks, Moved, Closing, WalFaithful, Resets, Locked
<1> QED
  BY <1>1, <1>2, <1>4, <1>5, <1>6, LocalStep

LEMMA ReadWalletInv ==
  ASSUME IInv, NEW p \in Proc, ReadWallet(p)
  PROVE  IInv'
<1> DEFINE next == IF req[p] = "gig" THEN "pay" ELSE "score"
<1>0. next \in Stages /\ Proceed(p, "wallet", next)
  BY DEF ReadWallet, Stages
<1>1. /\ pc[p] = "wallet" /\ pc'[p] = next /\ pc' \in [Proc -> Stages] /\ req' = req
      /\ \A q \in Proc \ {p} : pc'[q] = pc[q]
      /\ day' = day /\ age' = age /\ hist' = hist
      /\ legends' = legends /\ stats' = stats /\ board' = board
  BY <1>0, ProceedFacts
<1>2. wal' = [wal EXCEPT ![p] = Sees(p, Wallet)] /\ UNCHANGED <<rcVars, chr, reset>>
  BY DEF ReadWallet
<1>3. Sees(p, Wallet) \in WalletRows
  BY SeesTyped
<1>4. Typed'
  BY <1>1, <1>2, <1>3 DEF IInv, Typed, rcVars
<1>5. \A q \in Proc \ {p} : Unmoved(q)
  BY <1>1, <1>2 DEF IInv, Typed, Unmoved
<1>6. RequestInv(p)'
  <2>1. reset[p].closed = 0 /\ (\A r \in AllRows : owner[r] # p) /\ req[p] \in {"gig", "botched"}
    BY <1>1, ReadingHoldsNothing DEF Reading, IInv, RequestInv, Fits
  <2>2. wal'[p] = db[Wallet] /\ db'[Wallet] = db[Wallet] /\ db[Wallet] \in WalletRows
    BY <1>2, <2>1, RowsApart DEF IInv, Typed, Sees, rcVars
  <2>3. /\ pc'[p] = (IF req[p] = "gig" THEN "pay" ELSE "score")
        /\ req'[p] = req[p] /\ owner' = owner /\ reset' = reset /\ chr' = chr
    BY <1>1, <1>2 DEF rcVars
  <2>4. Fits(p)'
    BY <1>1, <2>1, <2>3 DEF Fits, IInv, RequestInv
  <2>5. WalFaithful(p)'
    BY <2>2 DEF WalFaithful, WalletRows
  <2>6. Locks(p)'
    BY <2>1, <2>3, RowsApart DEF Locks, Resets, Locked
  <2> QED
    BY <2>1, <2>3, <2>4, <2>5, <2>6, RowsApart DEF RequestInv, Moved, Closing, Resets
<1> QED
  BY <1>1, <1>2, <1>4, <1>5, <1>6, LocalStep

\* A request that held nothing is over.
LEMMA ForgetInv ==
  ASSUME IInv, NEW p \in Proc, Forget(p), pc[p] \in Reading, UNCHANGED <<rcVars, stats, day, age>>,
         legends' \in [unnamed : Nat, named : Nat],
         legends'.unnamed + legends'.named = legends.unnamed + legends.named,
         board' \in {None} \cup 0 .. Top,
         hist' \in Histories, hist'.paid = hist.paid, hist'.tops = hist.tops
  PROVE  IInv'
<1>f. /\ pc'[p] = "idle" /\ req'[p] = "none" /\ reset'[p] = NoReset
      /\ pc' \in [Proc -> Stages] /\ req' \in [Proc -> Kinds \cup {"none"}]
      /\ chr' \in [Proc -> Scores \cup {NoRow}] /\ wal' \in [Proc -> WalletRows \cup {NoRow}]
      /\ reset' \in [Proc -> ResetNotes]
      /\ \A q \in Proc \ {p} : Unmoved(q)
  BY ForgetFacts
<1>1. Typed'
  BY <1>f DEF IInv, Typed, rcVars
<1>2. \A r \in AllRows : owner'[r] # p
  BY ReadingHoldsNothing DEF rcVars
<1>3. RequestInv(p)'
  BY <1>f, <1>1, <1>2, IdleInv
<1> QED
  BY <1>f, <1>1, <1>3, LocalStep

LEMMA InvalidateLeaderboardCacheInv ==
  ASSUME IInv, NEW p \in Proc, InvalidateLeaderboardCache(p)
  PROVE  IInv'
<1>1. /\ hist' \in Histories /\ hist'.paid = hist.paid /\ hist'.tops = hist.tops
      /\ legends' \in [unnamed : Nat, named : Nat]
      /\ legends' = legends /\ board' \in {None} \cup 0 .. Top
  BY DEF InvalidateLeaderboardCache, IInv, Typed, Histories
<1> QED
  BY <1>1, ForgetInv DEF InvalidateLeaderboardCache, Reading

\* What a ranking would show of a character.
LEMMA EffectiveTyped ==
  ASSUME IInv, NEW c \in Scores
  PROVE  Effective(c) \in 0 .. Top /\ Effective(c) <= c.sc
<1>1. day - c.at \in Int /\ c.sc \in 0 .. Top /\ c.max \in 0 .. Top
  BY DEF IInv, Typed, Scores
<1> QED
  BY <1>1, DecayTyped DEF Effective

LEMMA SetBoardInv ==
  ASSUME IInv, NEW p \in Proc, SetBoard(p)
  PROVE  IInv'
<1>1. board' \in 0 .. Top
  <2>1. chr[p] \in Scores
    BY DEF SetBoard, IInv, RequestInv, Fits
  <2> QED
    BY <2>1, EffectiveTyped DEF SetBoard
<1>2. /\ hist' \in Histories /\ hist'.paid = hist.paid /\ hist'.tops = hist.tops
      /\ legends' \in [unnamed : Nat, named : Nat] /\ legends' = legends
  BY DEF SetBoard, IInv, Typed, Histories
<1> QED
  BY <1>1, <1>2, ForgetInv DEF SetBoard, Reading

LEMMA NameDrinkInv ==
  ASSUME IInv, NEW p \in Proc, NameDrink(p)
  PROVE  IInv'
<1>1. /\ hist' \in Histories /\ hist' = hist
      /\ legends' \in [unnamed : Nat, named : Nat]
      /\ legends'.unnamed + legends'.named = legends.unnamed + legends.named
      /\ board' \in {None} \cup 0 .. Top
  BY DEF NameDrink, IInv, Typed
<1> QED
  BY <1>1, ForgetInv DEF NameDrink, Reading

LEMMA GetBoardInv ==
  ASSUME IInv, NEW p \in Proc, GetBoard(p)
  PROVE  IInv'
<1>1. /\ pc[p] = "cached" /\ UNCHANGED <<rcVars, day, age, shared, hist>>
      /\ Forget(p) \/ (Goto(p, "rank") /\ UNCHANGED <<req, chr, wal, reset>>)
  BY DEF GetBoard
<1>2. /\ hist' \in Histories /\ legends' \in [unnamed : Nat, named : Nat] /\ legends' = legends
      /\ board' \in {None} \cup 0 .. Top
  BY <1>1 DEF IInv, Typed, shared
<1>3. CASE Forget(p)
  BY <1>1, <1>2, <1>3, ForgetInv DEF Reading, shared
<1>4. CASE Goto(p, "rank") /\ UNCHANGED <<req, chr, wal, reset>>
  <2>1. Typed'
    BY <1>1, <1>4 DEF IInv, Typed, rcVars, shared, Goto, Stages
  <2>2. \A q \in Proc \ {p} : Unmoved(q)
    BY <1>4 DEF IInv, Typed, Goto, Unmoved
  <2>3. RequestInv(p)'
    <3>1. pc'[p] = "rank" /\ req'[p] = req[p] /\ req[p] = "ranking" /\ owner' = owner /\ reset' = reset
      BY <1>1, <1>4 DEF IInv, Typed, Goto, RequestInv, Fits, rcVars
    <3>2. reset[p].closed = 0 /\ \A r \in AllRows : owner[r] # p
      BY <1>1, ReadingHoldsNothing DEF Reading
    <3> QED
      BY <3>1, <3>2, RowsApart DEF RequestInv, Fits, Locks, Moved, Closing, WalFaithful, Resets
  <2> QED
    BY <1>1, <1>4, <2>1, <2>2, <2>3, LocalStep DEF shared
<1> QED
  BY <1>1, <1>3, <1>4

LEMMA ListLeaderboardRowsInv ==
  ASSUME IInv, NEW p \in Proc, ListLeaderboardRows(p)
  PROVE  IInv'
<1>0. "cache" \in Stages /\ Proceed(p, "rank", "cache")
  BY DEF ListLeaderboardRows, Stages
<1>1. /\ pc[p] = "rank" /\ pc'[p] = "cache" /\ pc' \in [Proc -> Stages] /\ req' = req
      /\ \A q \in Proc \ {p} : pc'[q] = pc[q]
      /\ day' = day /\ age' = age /\ hist' = hist
      /\ legends' = legends /\ stats' = stats /\ board' = board
  BY <1>0, ProceedFacts
<1>2. chr' = [chr EXCEPT ![p] = Sees(p, Me)] /\ UNCHANGED <<rcVars, wal, reset>>
  BY DEF ListLeaderboardRows
<1>3. Sees(p, Me) \in Scores /\ Sees(p, Me).at <= day
  BY SeesTyped
<1>4. Typed'
  BY <1>1, <1>2, <1>3 DEF IInv, Typed, rcVars
<1>5. \A q \in Proc \ {p} : Unmoved(q)
  BY <1>1, <1>2 DEF IInv, Typed, Unmoved
<1>6. RequestInv(p)'
  <2>1. reset[p].closed = 0 /\ (\A r \in AllRows : owner[r] # p) /\ req[p] = "ranking"
    BY <1>1, ReadingHoldsNothing DEF Reading, IInv, RequestInv, Fits
  <2>2. chr'[p] = Sees(p, Me) /\ owner' = owner /\ reset' = reset /\ req'[p] = req[p]
    BY <1>1, <1>2 DEF IInv, Typed, rcVars
  <2>3. Fits(p)'
    BY <1>1, <1>3, <2>1, <2>2 DEF Fits
  <2> QED
    BY <1>1, <2>1, <2>2, <2>3, RowsApart DEF RequestInv, Locks, Moved, Closing, WalFaithful, Resets
<1> QED
  BY <1>1, <1>2, <1>4, <1>5, <1>6, LocalStep

\* GET /street-cred writes back a Moral that is no longer Top, on its own.
LEMMA WriteBackInv ==
  ASSUME IInv, NEW p \in Proc, WriteBack(p)
  PROVE  IInv'
<1> DEFINE v == [Sees(p, Me) EXCEPT !.sc = Effective(chr[p])]
<1>1. /\ pc[p] = "writeback" /\ Forget(p) /\ UNCHANGED <<day, age, shared, hist>>
      /\ \/ Effective(chr[p]) < chr[p].sc /\ WriteNow(p, Me, v)
         \/ UNCHANGED rcVars
  BY DEF WriteBack
<1>2. /\ hist' \in Histories /\ legends' \in [unnamed : Nat, named : Nat] /\ legends' = legends
      /\ board' \in {None} \cup 0 .. Top
  BY <1>1 DEF IInv, Typed, shared
<1>3. CASE UNCHANGED rcVars
  BY <1>1, <1>2, <1>3, ForgetInv DEF Reading, shared
<1>4. CASE Effective(chr[p]) < chr[p].sc /\ WriteNow(p, Me, v)
  <2>1. chr[p] \in Scores /\ Sees(p, Me) \in Scores /\ Sees(p, Me).at <= day
    BY <1>1, SeesTyped DEF IInv, RequestInv, Fits
  <2>2. Effective(chr[p]) \in 0 .. Top /\ Effective(chr[p]) # Top
    <3>1. Effective(chr[p]) \in 0 .. Top /\ Effective(chr[p]) <= chr[p].sc
      BY <2>1, EffectiveTyped
    <3>2. chr[p].sc \in 0 .. Top
      BY <2>1 DEF Scores
    <3> QED
      BY <1>4, <3>1, <3>2, Constants
  <2>3. v \in Scores /\ v.at <= day /\ v.sc # Top
    <3> DEFINE c == Sees(p, Me)
               e == Effective(chr[p])
    <3>1. c \in Scores /\ c.at <= day /\ e \in 0 .. Top /\ e # Top /\ v = [c EXCEPT !.sc = e]
      BY <2>1, <2>2
    <3> HIDE DEF c, e, v
    <3> QED
      BY <3>1 DEF Scores
  <2> HIDE DEF v
  <2>4. /\ owner' = owner /\ owner[Me] = NoProc /\ db'[Me] = v /\ pend'[Me] = v
        /\ \A r \in AllRows \ {Me} : db'[r] = db[r] /\ pend'[r] = pend[r]
        /\ DOMAIN db' = AllRows /\ DOMAIN pend' = AllRows
    BY <1>1, <1>4, ReadingHoldsNothing, RowsApart DEF WriteNow, CanLock, IInv, Typed, Reading
  <2>f. /\ pc'[p] = "idle" /\ req'[p] = "none" /\ reset'[p] = NoReset
        /\ pc' \in [Proc -> Stages] /\ req' \in [Proc -> Kinds \cup {"none"}]
        /\ chr' \in [Proc -> Scores \cup {NoRow}] /\ wal' \in [Proc -> WalletRows \cup {NoRow}]
        /\ reset' \in [Proc -> ResetNotes]
        /\ \A q \in Proc \ {p} : Unmoved(q)
    BY <1>1, ForgetFacts
  <2>5. Typed'
    BY <1>1, <2>3, <2>4, <2>f, RowsApart DEF IInv, Typed, shared
  <2>6. PendingIsOwned'
    BY <2>4 DEF IInv, Typed, PendingIsOwned
  <2>7. Books'
    <3>1. Bounded'
      BY <2>4, <2>f, NotUnderWay, FewerUnderWay, RowsApart
    <3>2. db'[Active] = db[Active] /\ db'[Wallet] = db[Wallet] /\ \A n \in Rounds : db'[R(n)] = db[R(n)]
      BY <2>4, RowsApart
    <3> QED
      BY <1>1, <2>3, <2>4, <3>1, <3>2 DEF IInv, Books, Numbered, Counted, Inducted, WalletsStartOver, shared
  <2>8. \A q \in Proc \ {p} : RowsOf(q)
    BY <1>1, <2>4, RowsApart, Constants DEF RowsOf, IInv, Typed, Rounds, Histories
  <2>9. RequestInv(p)'
    <3>1. \A r \in AllRows : owner'[r] # p
      BY <1>1, <2>4, ReadingHoldsNothing DEF Reading
    <3> QED
      BY <2>f, <2>5, <3>1, IdleInv
  <2> QED
    BY <2>f, <2>5, <2>6, <2>7, <2>8, <2>9, StepKeeps
<1> QED
  BY <1>1, <1>3, <1>4

\* The decisions of a reset before it ends its round.
LEMMA CheckRoundInv ==
  ASSUME IInv, NEW p \in Proc, CheckRound(p)
  PROVE  IInv'
<1>1. CASE Reject(p)
  BY <1>1, RejectInv
<1>2. CASE ~Reject(p)
  <2>0. "active" \in Stages /\ Room /\ Proceed(p, "check", "active") /\ UNCHANGED <<rcVars, chr, wal, reset>>
    BY <1>2 DEF CheckRound, Stages
  <2>1. /\ pc[p] = "check" /\ pc'[p] = "active" /\ pc' \in [Proc -> Stages] /\ req' = req
        /\ \A q \in Proc \ {p} : pc'[q] = pc[q]
        /\ day' = day /\ age' = age /\ hist' = hist
        /\ legends' = legends /\ stats' = stats /\ board' = board
    BY <2>0, ProceedFacts
  <2>2. Typed'
    BY <2>0, <2>1 DEF IInv, Typed, rcVars
  <2>3. \A q \in Proc \ {p} : Unmoved(q) /\ RowsOf(q)
    BY <2>0, <2>1 DEF Unmoved, RowsOf, rcVars, IInv, Typed, Rounds, Histories
  <2>4. PendingIsOwned'
    BY <2>0 DEF IInv, PendingIsOwned, rcVars
  <2>5. req[p] = "cron" /\ req'[p] = "cron"
    BY <2>1 DEF IInv, RequestInv, Fits
  <2>6. Bounded'
    <3>1. UnderWay' = UnderWay \cup {p} /\ p \notin UnderWay
      BY <2>1, <2>5 DEF UnderWay, Resets
    <3>2. IsFiniteSet(UnderWay)
      BY Constants, FS_Subset DEF UnderWay
    <3>3. Cardinality(UnderWay') = Cardinality(UnderWay) + 1
      BY <3>1, <3>2, FS_AddElement
    <3>4. db[Active] + Cardinality(UnderWay) < MaxRounds
      <4>1. {q \in Open(Resets) : pc[q] # "check"} = UnderWay
        BY DEF Open, UnderWay
      <4>2. Latest = db[Active]
        BY LatestIsActive DEF IInv, Books
      <4> QED
        BY <2>0, <4>1, <4>2 DEF Room
    <3> QED
      BY <2>0, <3>2, <3>3, <3>4, FS_CardinalityType, Constants DEF Bounded, IInv, Typed, Rounds, rcVars
  <2>7. Books'
    BY <2>0, <2>1, <2>6 DEF IInv, Books, Numbered, Counted, Inducted, WalletsStartOver, rcVars
  <2>8. RequestInv(p)'
    <3>1. reset[p].closed = 0 /\ \A r \in AllRows : owner[r] # p
      BY <2>1, ReadingHoldsNothing DEF Reading
    <3>2. owner' = owner /\ reset' = reset
      BY <2>0 DEF rcVars
    <3> QED
      BY <2>1, <2>5, <3>1, <3>2, RowsApart DEF RequestInv, Fits, Locks, Moved, Closing, WalFaithful, Resets, Locked
  <2> QED
    BY <2>2, <2>3, <2>4, <2>7, <2>8, StepKeeps
<1> QED
  BY <1>1, <1>2

\* A reset goes on to its next statement, with what it keeps.
LEMMA ResetReads ==
  ASSUME IInv, NEW p \in Proc, NEW at \in {"active", "stats", "end"}, NEW next \in {"stats", "end", "close"},
         Proceed(p, at, next), UNCHANGED <<rcVars, chr, wal>>, reset' \in [Proc -> ResetNotes],
         reset'[p].closed = 0, next = "close" => reset'[p].seen \in 1 .. db[Active],
         \A q \in Proc \ {p} : reset'[q] = reset[q]
  PROVE  IInv'
<1>1. /\ pc[p] = at /\ pc'[p] = next /\ pc' \in [Proc -> Stages] /\ req' = req
      /\ \A q \in Proc \ {p} : pc'[q] = pc[q]
      /\ day' = day /\ age' = age /\ hist' = hist
      /\ legends' = legends /\ stats' = stats /\ board' = board
  BY ProceedFacts DEF Stages
<1>2. Typed'
  BY <1>1 DEF IInv, Typed, rcVars
<1>3. \A q \in Proc \ {p} : Unmoved(q)
  BY <1>1 DEF Unmoved
<1>4. RequestInv(p)'
  <2>1. \A r \in AllRows : owner[r] # p
    BY <1>1, ReadingHoldsNothing DEF Reading
  <2>2. req[p] \in Resets
    BY <1>1 DEF IInv, RequestInv, Fits
  <2>3. owner' = owner /\ db' = db /\ req'[p] = req[p]
    BY <1>1 DEF rcVars
  <2> QED
    BY <1>1, <2>1, <2>2, <2>3, RowsApart DEF RequestInv, Fits, Locks, Moved, Closing, WalFaithful, Resets, Locked
<1> QED
  BY <1>1, <1>2, <1>3, <1>4, LocalStep

\* At its first statements it sees the committed rounds.
LEMMA ActiveSeen ==
  ASSUME IInv, NEW p \in Proc, pc[p] \in Reading
  PROVE  ActiveRounds(p) = {db[Active]} /\ AnyActive(p) = db[Active] /\ db[Active] \in Nat /\ db[Active] >= 1
<1>1. \A n \in Rounds : Sees(p, R(n)) = db[R(n)]
  BY ReadingHoldsNothing, RowsApart DEF Sees
<1>2. db[Active] \in Rounds
  BY DEF IInv, Typed
<1>3. \A n \in Rounds : n \in ActiveRounds(p) <=> n = db[Active]
  BY <1>1, <1>2, Constants DEF ActiveRounds, IInv, Books, Numbered, Rounds
<1>4. ActiveRounds(p) = {db[Active]}
  BY <1>2, <1>3 DEF ActiveRounds
<1>5. Min({db[Active]}) = db[Active] /\ db[Active] \in Nat /\ db[Active] >= 1
  BY <1>2 DEF Min, Rounds
<1> QED
  BY <1>4, <1>5 DEF AnyActive

LEMMA FindActiveInv ==
  ASSUME IInv, NEW p \in Proc, FindActive(p)
  PROVE  IInv'
<1>1. CASE Reject(p)
  BY <1>1, RejectInv
<1>2. CASE ~Reject(p)
  <2>1. Proceed(p, "active", "stats") /\ UNCHANGED <<rcVars, chr, wal, reset>>
    BY <1>2 DEF FindActive
  <2>2. reset'[p].closed = 0
    BY <2>1, ReadingHoldsNothing DEF Proceed, Reading
  <2>3. reset' \in [Proc -> ResetNotes]
    BY <2>1 DEF IInv, Typed
  <2> QED
    BY <2>1, <2>2, <2>3, ResetReads
<1> QED
  BY <1>1, <1>2

LEMMA InsertRoundStatsInv ==
  ASSUME IInv, NEW p \in Proc, InsertRoundStats(p)
  PROVE  IInv'
<1> DEFINE a == AnyActive(p)
<1>1. /\ Proceed(p, "stats", "end") /\ UNCHANGED <<rcVars, chr, wal>>
      /\ reset' = [reset EXCEPT ![p].stats = a] /\ pc[p] = "stats"
  BY DEF InsertRoundStats, Proceed
<1>2. a \in Nat /\ reset[p].closed = 0 /\ reset \in [Proc -> ResetNotes]
  BY <1>1, ActiveSeen, ReadingHoldsNothing DEF Reading, IInv, Typed
<1> HIDE DEF a
<1>3. /\ reset' \in [Proc -> ResetNotes] /\ reset'[p].closed = 0
      /\ \A q \in Proc \ {p} : reset'[q] = reset[q]
  BY <1>1, <1>2 DEF ResetNotes
<1> QED
  BY <1>1, <1>3, ResetReads

LEMMA SeeActiveInv ==
  ASSUME IInv, NEW p \in Proc, SeeActive(p)
  PROVE  IInv'
<1> DEFINE a == AnyActive(p)
<1>1. /\ Proceed(p, "end", "close") /\ UNCHANGED <<rcVars, chr, wal>>
      /\ reset' = [reset EXCEPT ![p].seen = a] /\ pc[p] = "end"
  BY DEF SeeActive, Proceed
<1>2. a \in 1 .. db[Active] /\ a \in Nat /\ reset[p].closed = 0 /\ reset \in [Proc -> ResetNotes]
  BY <1>1, ActiveSeen, ReadingHoldsNothing DEF Reading, IInv, Typed
<1> HIDE DEF a
<1>3. /\ reset' \in [Proc -> ResetNotes] /\ reset'[p].closed = 0 /\ reset'[p].seen = a
      /\ \A q \in Proc \ {p} : reset'[q] = reset[q]
  BY <1>1, <1>2 DEF ResetNotes
<1> QED
  BY <1>1, <1>2, <1>3, ResetReads

LEMMA InductLegendsInv ==
  ASSUME IInv, NEW p \in Proc, InductLegends(p)
  PROVE  IInv'
<1> DEFINE b == Candidate(Sees(p, Me))
<1>0. /\ Proceed(p, "legends", "detach") /\ UNCHANGED <<rcVars, chr, wal>>
      /\ reset' = [reset EXCEPT ![p].inducted = b] /\ "detach" \in Stages
  BY DEF InductLegends, Stages
<1>1. /\ pc[p] = "legends" /\ pc'[p] = "detach" /\ pc' \in [Proc -> Stages] /\ req' = req
      /\ \A q \in Proc \ {p} : pc'[q] = pc[q]
      /\ day' = day /\ age' = age /\ hist' = hist
      /\ legends' = legends /\ stats' = stats /\ board' = board
  BY <1>0, ProceedFacts
<1>2. b \in BOOLEAN /\ (b => db[Active] \in hist.tops)
  <2>1. owner[Me] # p
    BY <1>1 DEF IInv, RequestInv, Locks, Locked
  <2> QED
    BY <2>1 DEF Candidate, Sees, IInv, Books, Inducted
<1> HIDE DEF b
<1>3. /\ reset' \in [Proc -> ResetNotes]
      /\ reset'[p].closed = reset[p].closed /\ reset'[p].inducted = b
      /\ \A q \in Proc \ {p} : reset'[q] = reset[q]
  BY <1>0, <1>2 DEF ResetNotes, IInv, Typed
<1>4. Typed'
  BY <1>0, <1>1, <1>3 DEF IInv, Typed, rcVars
<1>5. \A q \in Proc \ {p} : Unmoved(q)
  BY <1>0, <1>1, <1>3 DEF Unmoved
<1>6. RequestInv(p)'
  <2>1. owner' = owner /\ pend' = pend /\ db' = db /\ req'[p] = req[p] /\ hist' = hist
    BY <1>0, <1>1 DEF rcVars
  <2>2. req[p] \in Resets
    BY <1>1 DEF IInv, RequestInv, Fits
  <2>3. Fits(p)'
    BY <1>1, <2>1, <2>2 DEF Fits, Resets
  <2>4. Locks(p)'
    BY <1>1, <1>3, <2>1, <2>2 DEF IInv, RequestInv, Locks, Resets, Locked
  <2>5. Moved(p)'
    BY <1>1, <2>1 DEF IInv, RequestInv, Moved
  <2>6. Closing(p)'
    BY <1>1, <1>2, <1>3, <2>1 DEF IInv, RequestInv, Closing, Ending
  <2> QED
    BY <1>1, <2>3, <2>4, <2>5, <2>6 DEF RequestInv, WalFaithful
<1> QED
  BY <1>0, <1>1, <1>4, <1>5, <1>6, LocalStep

-----------------------------------------------------------------------------
\* The clock, and what is lost.

LEMMA ClockInv ==
  ASSUME IInv, UNCHANGED <<rcVars, local, legends, stats>>, day' \in Nat, day' >= day,
         age' \in [Rounds -> {"intermission", "running", "over"}],
         board' \in {None} \cup 0 .. Top, hist' \in Histories, hist'.paid = hist.paid, hist'.tops = hist.tops
  PROVE  IInv'
<1>1. Typed'
  <2>1. db[Me].at \in Nat /\ pend[Me].at \in Nat /\ day \in Nat
    BY DEF IInv, Typed, Scores
  <2> QED
    BY <2>1 DEF IInv, Typed, rcVars, local
<1>2. PendingIsOwned'
  BY DEF IInv, PendingIsOwned, rcVars
<1>3. Books'
  BY DEF IInv, Books, Numbered, Counted, Inducted, Bounded, UnderWay, WalletsStartOver, rcVars, local
<1>4. \A q \in Proc : Unmoved(q) /\ RowsOf(q)
  BY DEF Unmoved, RowsOf, rcVars, local, IInv, Typed, Rounds, Histories
<1>5. \A q \in Proc : RequestInv(q)'
  BY <1>1, <1>4, OthersKeep DEF IInv
<1> QED
  BY <1>1, <1>2, <1>3, <1>5 DEF IInv

LEMMA PassingInv ==
  ASSUME IInv, NextDay \/ ExpireBoard \/ \E n \in Rounds : AgeRound(n)
  PROVE  IInv'
<1>t. /\ day \in Nat /\ age \in [Rounds -> {"intermission", "running", "over"}]
      /\ board \in {None} \cup 0 .. Top /\ hist \in Histories
  BY DEF IInv, Typed
<1>1. CASE NextDay
  BY <1>1, <1>t, ClockInv DEF NextDay, shared
<1>2. CASE ExpireBoard
  <2>1. hist' \in Histories /\ hist'.paid = hist.paid /\ hist'.tops = hist.tops
    BY <1>2, <1>t DEF ExpireBoard, Histories
  <2> QED
    BY <1>2, <1>t, <2>1, ClockInv DEF ExpireBoard
<1>3. CASE \E n \in Rounds : AgeRound(n)
  <2>1. age' \in [Rounds -> {"intermission", "running", "over"}]
    BY <1>3, <1>t DEF AgeRound
  <2>2. UNCHANGED <<rcVars, day, shared, local, hist>>
    BY <1>3 DEF AgeRound
  <2> QED
    BY <1>t, <2>1, <2>2, ClockInv DEF shared
<1> QED
  BY <1>1, <1>2, <1>3

LEMMA LostInv ==
  ASSUME IInv, NEW p \in Proc, Lost(p)
  PROVE  IInv'
<1>1. hist' \in Histories /\ hist'.paid = hist.paid /\ hist'.tops = hist.tops
  BY DEF Lost, IInv, Typed, Histories
<1> QED
  BY <1>1, RollbackInv DEF Lost
-----------------------------------------------------------------------------
\* The writes.

LEMMA PutFacts ==
  ASSUME IInv, NEW p \in Proc, NEW r \in AllRows, NEW v, Put(p, r, v)
  PROVE  /\ pend'[r] = v /\ owner'[r] = p /\ owner[r] \in {p, NoProc}
         /\ \A s \in AllRows \ {r} : pend'[s] = pend[s] /\ owner'[s] = owner[s]
         /\ db' = db /\ DOMAIN pend' = AllRows /\ owner' \in [AllRows -> Proc \cup {NoProc}]
  BY DEF IInv, Typed, Put, CanLock

LEMMA PutStep ==
  ASSUME IInv, NEW p \in Proc, NEW r \in AllRows, NEW v, Put(p, r, v),
         UNCHANGED <<hist, legends, stats, day>>, req' = req, pc[p] # "check",
         Typed', RequestInv(p)', \A q \in Proc \ {p} : Unmoved(q)
  PROVE  IInv'
<1>1. /\ pend'[r] = v /\ owner'[r] = p /\ owner[r] \in {p, NoProc}
      /\ \A s \in AllRows \ {r} : pend'[s] = pend[s] /\ owner'[s] = owner[s]
      /\ db' = db
  BY PutFacts
<1>2. \A q \in Proc \ {p} : RowsOf(q)
  BY <1>1, Constants DEF RowsOf, IInv, Typed, Rounds, Histories
<1>3. PendingIsOwned'
  BY <1>1, Constants DEF IInv, Typed, PendingIsOwned
<1>4. Books'
  BY <1>1, NotUnderWay, BooksSame
<1> QED
  BY <1>2, <1>3, <1>4, StepKeeps

LEMMA PayInv ==
  ASSUME IInv, NEW p \in Proc, Pay(p)
  PROVE  IInv'
<1>1. CASE Reject(p)
  BY <1>1, RejectInv
<1>2. CASE ~Reject(p)
  <2> DEFINE v == [balance |-> wal[p].balance + Payout, version |-> wal[p].version + 1]
  <2>0. /\ Proceed(p, "pay", "score") /\ Put(p, Wallet, v) /\ UNCHANGED <<chr, wal, reset>>
        /\ "score" \in Stages /\ Sees(p, Wallet).version = wal[p].version
    BY <1>2 DEF Pay, Stages
  <2>1. /\ pc[p] = "pay" /\ pc'[p] = "score" /\ pc' \in [Proc -> Stages] /\ req' = req
        /\ \A q \in Proc \ {p} : pc'[q] = pc[q]
        /\ day' = day /\ age' = age /\ hist' = hist
        /\ legends' = legends /\ stats' = stats /\ board' = board
    BY <2>0, ProceedFacts
  <2>2. wal[p] = db[Wallet] /\ db[Wallet] \in WalletRows
    <3>1. owner[Wallet] # p
      BY <2>1, ReadingHoldsNothing, RowsApart DEF Reading
    <3> QED
      BY <2>0, <2>1, <3>1 DEF Sees, IInv, Typed, RequestInv, WalFaithful
  <2>3. /\ v \in WalletRows /\ v.balance = db[Wallet].balance + Payout
        /\ v.version = db[Wallet].version + 1
    BY <2>2, Constants DEF WalletRows
  <2> HIDE DEF v
  <2>4. /\ pend'[Wallet] = v /\ owner'[Wallet] = p
        /\ \A s \in AllRows \ {Wallet} : pend'[s] = pend[s] /\ owner'[s] = owner[s]
        /\ db' = db /\ DOMAIN pend' = AllRows /\ owner' \in [AllRows -> Proc \cup {NoProc}]
    BY <2>0, PutFacts, RowsApart
  <2>5. Typed'
    BY <2>0, <2>1, <2>3, <2>4, RowsApart DEF IInv, Typed
  <2>6. \A q \in Proc \ {p} : Unmoved(q)
    BY <2>0, <2>1 DEF Unmoved
  <2>7. RequestInv(p)'
    <3>1. req[p] = "gig" /\ req'[p] = "gig" /\ reset[p].closed = 0 /\ reset'[p].closed = 0 /\ chr' = chr
          /\ \A r \in AllRows : owner[r] # p
      BY <2>0, <2>1, ReadingHoldsNothing DEF IInv, RequestInv, Fits, Reading
    <3>2. \A r \in AllRows \ {Wallet} : owner'[r] # p
      BY <2>4, <3>1
    <3>3. Fits(p)'
      BY <2>1, <3>1 DEF Fits, IInv, RequestInv
    <3>4. Moved(p)'
      BY <2>3, <2>4, <3>1 DEF Moved, Resets
    <3> QED
      BY <2>1, <2>4, <3>1, <3>2, <3>3, <3>4, RowsApart DEF RequestInv, Locks, Closing, WalFaithful, Resets, Locked
  <2> QED
    BY <2>0, <2>1, <2>5, <2>6, <2>7, PutStep, RowsApart
<1> QED
  BY <1>1, <1>2

\* A Moral that was raised stays below the top, and keeps the rest of the row.
LEMMA RaisedTyped ==
  ASSUME NEW c \in Scores, NEW by \in Nat
  PROVE  Raised(c, by) \in Scores /\ Raised(c, by).at = c.at
<1> DEFINE sc == Min({Top, c.sc + by})
           mx == Max({c.max, sc})
<1>1. c.sc \in 0 .. Top /\ c.max \in 0 .. Top /\ Top \in Nat
  BY Constants DEF Scores
<1>2. sc \in 0 .. Top
  <2>1. c.sc + by \in Int /\ c.sc + by >= 0
    BY <1>1
  <2>2. ASSUME NEW t \in Int, t >= 0 PROVE Min({Top, t}) \in 0 .. Top
    <3>1. Top \in Int /\ Top >= 0
      BY <1>1
    <3>2. Min({Top, t}) = IF Top <= t THEN Top ELSE t
      BY <3>1, MaxTwo
    <3> QED
      BY <2>2, <3>1, <3>2
  <2> QED
    BY <2>1, <2>2
<1> HIDE DEF sc
<1>3. mx \in 0 .. Top
  BY <1>1, <1>2, MaxTwo
<1> HIDE DEF mx
<1>4. Raised(c, by) = [c EXCEPT !.sc = sc, !.max = mx]
  BY DEF Raised, sc, mx
<1> QED
  BY <1>2, <1>3, <1>4 DEF Scores

LEMMA DefeatedTyped ==
  ASSUME NEW c \in Scores
  PROVE  Defeated(c) \in Scores /\ Defeated(c).at = c.at
<1> DEFINE sc == Max({0, c.sc - 1})
<1>1. c.sc \in 0 .. Top /\ Top \in Nat
  BY Constants DEF Scores
<1>2. sc \in 0 .. Top
  <2>1. c.sc - 1 \in Int
    BY <1>1
  <2> QED
    BY <1>1, <2>1, MaxTwo
<1>3. Defeated(c) = [c EXCEPT !.sc = sc]
  BY DEF Defeated
<1> HIDE DEF sc
<1> QED
  BY <1>2, <1>3 DEF Scores

\* The last write of a trampo or of a fight.
LEMMA PlayedInv ==
  ASSUME IInv, NEW p \in Proc, NEW at \in {"score", "fight"}, req[p] \in Played, NEW v \in Scores, v.at <= day,
         Proceed(p, at, "commit"), Put(p, Me, v), chr' \in [Proc -> Scores \cup {NoRow}],
         \A q \in Proc \ {p} : chr'[q] = chr[q],
         UNCHANGED <<wal, reset>>
  PROVE  IInv'
<1>1. /\ pc[p] = at /\ pc'[p] = "commit" /\ pc' \in [Proc -> Stages] /\ req' = req
      /\ \A q \in Proc \ {p} : pc'[q] = pc[q]
      /\ day' = day /\ age' = age /\ hist' = hist
      /\ legends' = legends /\ stats' = stats /\ board' = board
  BY ProceedFacts DEF Stages
<1>2. /\ pend'[Me] = v /\ owner'[Me] = p
      /\ \A s \in AllRows \ {Me} : pend'[s] = pend[s] /\ owner'[s] = owner[s]
      /\ db' = db /\ DOMAIN pend' = AllRows /\ owner' \in [AllRows -> Proc \cup {NoProc}]
  BY PutFacts, RowsApart
<1>3. Typed'
  BY <1>1, <1>2, RowsApart DEF IInv, Typed
<1>4. \A q \in Proc \ {p} : Unmoved(q)
  BY <1>1 DEF Unmoved
<1>5. RequestInv(p)'
  <2>1. req'[p] = req[p] /\ req[p] \notin Resets /\ reset'[p] = reset[p]
    BY <1>1 DEF Played, Resets
  <2>2. reset[p].closed = 0 /\ owner[Active] # p /\ \A n \in Rounds : owner[R(n)] # p
    BY <2>1, PlayersHoldNoRound
  <2>3. /\ owner'[Wallet] = owner[Wallet] /\ pend'[Wallet] = pend[Wallet] /\ owner'[Active] # p
        /\ \A n \in Rounds : owner'[R(n)] # p
    BY <1>2, <2>2, RowsApart
  <2>4. owner[Wallet] = p <=> req[p] = "gig"
    BY <1>1, <2>1 DEF IInv, RequestInv, Locks, Fits
  <2>5. Fits(p)'
    BY <1>1, <2>1 DEF Fits, Played, Resets
  <2>6. Locks(p)'
    BY <1>1, <1>2, <2>1, <2>2, <2>3, <2>4 DEF Locks
  <2>7. Moved(p)'
    BY <1>1, <1>2, <2>1, <2>3 DEF Moved, IInv, RequestInv
  <2> QED
    BY <1>1, <2>1, <2>2, <2>3, <2>5, <2>6, <2>7 DEF RequestInv, Closing, WalFaithful
<1> QED
  BY <1>1, <1>3, <1>4, <1>5, PutStep, RowsApart

LEMMA ScoreInv ==
  ASSUME IInv, NEW p \in Proc, Score(p)
  PROVE  IInv'
<1> DEFINE by == IF req[p] = "gig" THEN GigMoral ELSE 0
           read == Raised(chr[p], by)
           mx == Max({Sees(p, Me).max, read.sc})
           v == [sc |-> read.sc, max |-> mx, at |-> day]
<1>1. /\ Proceed(p, "score", "commit") /\ Put(p, Me, v) /\ UNCHANGED <<chr, wal, reset>> /\ pc[p] = "score"
  BY DEF Score, Proceed
<1>2. chr[p] \in Scores /\ by \in Nat /\ req[p] \in Played
  BY <1>1, Constants DEF IInv, RequestInv, Fits, Played
<1>3. read \in Scores
  BY <1>2, RaisedTyped
<1>4. v \in Scores /\ v.at <= day
  <2> HIDE DEF read
  <2>1. read.sc \in 0 .. Top /\ Sees(p, Me).max \in 0 .. Top /\ Top \in Nat /\ day \in Nat
    BY <1>3, SeesTyped, Constants DEF Scores, IInv, Typed
  <2>2. mx \in 0 .. Top
    BY <2>1, MaxTwo
  <2> HIDE DEF mx
  <2> QED
    BY <2>1, <2>2 DEF Scores
<1>5. chr' \in [Proc -> Scores \cup {NoRow}]
  BY <1>1 DEF IInv, Typed
<1> HIDE DEF v
<1> QED
  BY <1>1, <1>2, <1>4, <1>5, PlayedInv

LEMMA FightInv ==
  ASSUME IInv, NEW p \in Proc, Fight(p)
  PROVE  IInv'
<1> DEFINE c == Sees(p, Me)
           v == IF req[p] = "won" THEN Raised(c, 1) ELSE Defeated(c)
<1>1. /\ Proceed(p, "fight", "commit") /\ Put(p, Me, v) /\ UNCHANGED <<wal, reset>> /\ pc[p] = "fight"
      /\ chr' = [chr EXCEPT ![p] = c]
  BY DEF Fight, Proceed
<1>2. c \in Scores /\ c.at <= day /\ req[p] \in Played
  BY <1>1, SeesTyped DEF IInv, RequestInv, Fits, Played
<1> HIDE DEF c
<1>3. v \in Scores /\ v.at <= day
  BY <1>2, RaisedTyped, DefeatedTyped
<1> HIDE DEF v
<1>4. chr' \in [Proc -> Scores \cup {NoRow}] /\ \A q \in Proc \ {p} : chr'[q] = chr[q]
  BY <1>1, <1>2 DEF IInv, Typed
<1> QED
  BY <1>1, <1>2, <1>3, <1>4, PlayedInv

\* The writes of a reset between the end of its round and the next one.
LEMMA ResetWrites ==
  ASSUME IInv, NEW p \in Proc, NEW r \in {Me, Wallet}, NEW v,
         NEW at \in {"detach", "zero", "base"}, NEW next \in {"zero", "base", "open"},
         at = "detach" => r = Me /\ next = "zero",
         at = "zero" => r = Wallet /\ next = "base" /\ v.balance = 0 /\ v.version = db[Wallet].version + 1,
         at = "base" => r = Me /\ next = "open" /\ v.sc = 0,
         r = Me => v \in Scores /\ v.at <= day,
         r = Wallet => v \in WalletRows,
         Proceed(p, at, next), Put(p, r, v), UNCHANGED <<chr, wal>>,
         reset' \in [Proc -> ResetNotes], reset'[p].closed = reset[p].closed,
         reset'[p].inducted = reset[p].inducted,
         \A q \in Proc \ {p} : reset'[q] = reset[q]
  PROVE  IInv'
<1>1. /\ pc[p] = at /\ pc'[p] = next /\ pc' \in [Proc -> Stages] /\ req' = req
      /\ \A q \in Proc \ {p} : pc'[q] = pc[q]
      /\ day' = day /\ age' = age /\ hist' = hist
      /\ legends' = legends /\ stats' = stats /\ board' = board
  BY ProceedFacts DEF Stages
<1>2. /\ pend'[r] = v /\ owner'[r] = p
      /\ \A s \in AllRows \ {r} : pend'[s] = pend[s] /\ owner'[s] = owner[s]
      /\ db' = db /\ DOMAIN pend' = AllRows /\ owner' \in [AllRows -> Proc \cup {NoProc}]
  BY PutFacts, RowsApart
<1>3. Typed'
  BY <1>1, <1>2, RowsApart DEF IInv, Typed
<1>4. \A q \in Proc \ {p} : Unmoved(q)
  BY <1>1 DEF Unmoved
<1>5. RequestInv(p)'
  <2>1. req[p] \in Resets /\ req'[p] = req[p]
    BY <1>1 DEF IInv, RequestInv, Fits
  <2>2. /\ owner'[Active] = owner[Active] /\ pend'[Active] = pend[Active]
        /\ \A n \in Rounds : owner'[R(n)] = owner[R(n)] /\ pend'[R(n)] = pend[R(n)]
    BY <1>2, RowsApart
  <2>3. Fits(p)'
    BY <1>1, <2>1 DEF Fits, Resets
  <2>4. Locks(p)'
    <3>1. /\ owner[Me] = p <=> at # "detach"
          /\ owner[Wallet] = p <=> at = "base"
      BY <1>1, <2>1 DEF IInv, RequestInv, Locks, Locked, Resets
    <3> QED
      BY <1>1, <1>2, <2>1, <2>2, <3>1, RowsApart DEF IInv, RequestInv, Locks, Locked, Resets
  <2>5. Moved(p)'
    BY <1>1, <1>2, <2>1, RowsApart DEF IInv, RequestInv, Locks, Moved, Resets
  <2>6. Closing(p)'
    <3> DEFINE n == reset[p].closed
    <3>1. Closing(p) /\ reset'[p].closed = n /\ reset'[p].inducted = reset[p].inducted
      BY DEF IInv, RequestInv
    <3>2. n # 0 => owner'[R(n)] = owner[R(n)] /\ pend'[R(n)] = pend[R(n)]
      BY <2>2, <3>1 DEF Closing, IInv, Typed
    <3>3. db'[Active] = db[Active] /\ hist'.tops = hist.tops
      BY <1>1, <1>2
    <3>4. pc'[p] \in {"zero", "base", "open"} /\ pc[p] \in {"detach", "zero", "base"}
      BY <1>1
    <3> QED
      BY <2>1, <2>2, <3>1, <3>2, <3>3, <3>4 DEF Closing, Ending
  <2> QED
    BY <1>1, <2>3, <2>4, <2>5, <2>6 DEF RequestInv, WalFaithful
<1> QED
  BY <1>1, <1>3, <1>4, <1>5, PutStep, RowsApart

LEMMA DetachCrewsInv ==
  ASSUME IInv, NEW p \in Proc, DetachCrews(p)
  PROVE  IInv'
<1> DEFINE v == Sees(p, Me)
<1>1. /\ Proceed(p, "detach", "zero") /\ Put(p, Me, v) /\ UNCHANGED <<chr, wal, reset>>
  BY DEF DetachCrews, ForUpdate
<1>2. v \in Scores /\ v.at <= day /\ reset' \in [Proc -> ResetNotes]
  BY <1>1, SeesTyped DEF IInv, Typed
<1> HIDE DEF v
<1> QED
  BY <1>1, <1>2, ResetWrites, RowsApart

LEMMA ZeroWalletsInv ==
  ASSUME IInv, NEW p \in Proc, ZeroWallets(p)
  PROVE  IInv'
<1> DEFINE v == Zeroed(Sees(p, Wallet))
<1>1. /\ Proceed(p, "zero", "base") /\ Put(p, Wallet, v) /\ UNCHANGED <<chr, wal, reset>> /\ pc[p] = "zero"
  BY DEF ZeroWallets, Proceed
<1>2. v \in WalletRows /\ v.balance = 0 /\ v.version = db[Wallet].version + 1
  <2>1. owner[Wallet] # p
    BY <1>1 DEF IInv, RequestInv, Locks, Fits, Resets
  <2>2. Sees(p, Wallet) = db[Wallet] /\ db[Wallet] \in WalletRows
    BY <2>1 DEF Sees, IInv, Typed
  <2> QED
    BY <2>2 DEF Zeroed, WalletRows
<1>3. reset' \in [Proc -> ResetNotes]
  BY <1>1 DEF IInv, Typed
<1> HIDE DEF v
<1> QED
  BY <1>1, <1>2, <1>3, ResetWrites, RowsApart

LEMMA ResetCharactersInv ==
  ASSUME IInv, NEW p \in Proc, ResetCharacters(p)
  PROVE  IInv'
<1> DEFINE c == Sees(p, Me)
           zero == 0
           v == [c EXCEPT !.sc = zero, !.at = day]
           top == c.sc = Top
<1>1. /\ Proceed(p, "base", "open") /\ Put(p, Me, v) /\ UNCHANGED <<chr, wal>>
      /\ reset' = [reset EXCEPT ![p].top = top]
  BY DEF ResetCharacters
<1>2. c \in Scores /\ day \in Nat /\ top \in BOOLEAN
  BY SeesTyped DEF IInv, Typed
<1>0. zero \in 0 .. Top
  BY Constants
<1> HIDE DEF c, top, zero
<1>3. v \in Scores /\ v.sc = zero /\ v.at = day
  BY <1>0, <1>2 DEF Scores
<1>4. /\ reset' \in [Proc -> ResetNotes] /\ reset'[p].closed = reset[p].closed
      /\ reset'[p].inducted = reset[p].inducted /\ \A q \in Proc \ {p} : reset'[q] = reset[q]
  BY <1>1, <1>2 DEF IInv, Typed, ResetNotes
<1>5. v.sc = 0 /\ v.at <= day
  BY <1>2, <1>3 DEF zero
<1> HIDE DEF v
<1> QED
  BY <1>1, <1>3, <1>4, <1>5, ResetWrites, RowsApart
-----------------------------------------------------------------------------
\* The rounds.

\* A round and the index on the active one.
RoundRows(n, a, v) == [r \in {R(n), Active} |-> IF r = Active THEN a ELSE v]

LEMMA PutAllFacts ==
  ASSUME IInv, NEW p \in Proc, NEW n \in Rounds, NEW a, NEW v, PutAll(p, RoundRows(n, a, v))
  PROVE  /\ db' = db /\ DOMAIN pend' = AllRows /\ owner' \in [AllRows -> Proc \cup {NoProc}]
         /\ owner[R(n)] \in {p, NoProc} /\ owner[Active] \in {p, NoProc}
         /\ pend'[R(n)] = v /\ pend'[Active] = a /\ owner'[R(n)] = p /\ owner'[Active] = p
         /\ \A s \in AllRows \ {R(n), Active} : pend'[s] = pend[s] /\ owner'[s] = owner[s]
<1> DEFINE new == RoundRows(n, a, v)
<1>1. DOMAIN new = {R(n), Active} /\ new[R(n)] = v /\ new[Active] = a
  BY RowsApart DEF RoundRows
<1>2. R(n) \in AllRows /\ Active \in AllRows
  BY RowsApart
<1> HIDE DEF new
<1>3. PutAll(p, new)
  BY DEF new
<1> QED
  BY <1>1, <1>2, <1>3 DEF PutAll, CanLock, IInv, Typed

\* The rows of a round and of the index are p's; everything else is as before.
LEMMA RoundStep ==
  ASSUME IInv, NEW p \in Proc, NEW n \in Rounds, NEW a, NEW v,
         PutAll(p, RoundRows(n, a, v)), UNCHANGED <<hist, legends, stats, day>>, req' = req, pc[p] # "check",
         Typed', RequestInv(p)', \A q \in Proc \ {p} : Unmoved(q)
  PROVE  IInv'
<1>1. /\ db' = db /\ owner[R(n)] \in {p, NoProc} /\ owner[Active] \in {p, NoProc}
      /\ owner'[R(n)] = p /\ owner'[Active] = p
      /\ \A s \in AllRows \ {R(n), Active} : pend'[s] = pend[s] /\ owner'[s] = owner[s]
  BY PutAllFacts
<1>2. ASSUME NEW q \in Proc \ {p} PROVE RowsOf(q)
  <2>1. q # NoProc /\ q # p
    BY Constants
  <2>2. \A r \in AllRows : /\ owner'[r] = q <=> owner[r] = q
                           /\ owner[r] = q => db'[r] = db[r] /\ pend'[r] = pend[r]
    BY <1>1, <2>1
  <2> QED
    BY <1>1, <2>2 DEF RowsOf, IInv, Typed, Rounds, Histories
<1>3. PendingIsOwned'
  BY <1>1, Constants, RowsApart DEF IInv, Typed, PendingIsOwned
<1>4. Books'
  BY <1>1, NotUnderWay, BooksSame
<1> QED
  BY <1>2, <1>3, <1>4, StepKeeps

LEMMA EndCurrentRoundInv ==
  ASSUME IInv, NEW p \in Proc, EndCurrentRound(p)
  PROVE  IInv'
<1> DEFINE n == reset[p].seen
<1>0. /\ Proceed(p, "close", "legends") /\ "legends" \in Stages /\ UNCHANGED <<chr, wal>>
      /\ IF Sees(p, R(n)) = "active"
         THEN PutAll(p, RoundRows(n, None, "ended")) /\ reset' = [reset EXCEPT ![p].closed = n]
         ELSE UNCHANGED <<rcVars, reset>>
  BY DEF EndCurrentRound, Stages, RoundRows
<1>1. /\ pc[p] = "close" /\ pc'[p] = "legends" /\ pc' \in [Proc -> Stages] /\ req' = req
      /\ \A q \in Proc \ {p} : pc'[q] = pc[q]
      /\ day' = day /\ age' = age /\ hist' = hist
      /\ legends' = legends /\ stats' = stats /\ board' = board
  BY <1>0, ProceedFacts
<1>2. /\ reset[p].closed = 0 /\ (\A r \in AllRows : owner[r] # p) /\ req[p] \in Resets
      /\ n \in 1 .. db[Active] /\ db[Active] \in Rounds /\ n \in Rounds /\ n # 0
  BY <1>1, ReadingHoldsNothing, Constants DEF Reading, IInv, Typed, RequestInv, Fits, Closing, Rounds
<1>3. Fits(p)'
  BY <1>1, <1>2 DEF Fits, Resets
<1>4. CASE Sees(p, R(n)) # "active"
  <2>1. UNCHANGED <<rcVars, reset>>
    BY <1>0, <1>4
  <2>2. Typed'
    BY <1>0, <1>1, <2>1 DEF IInv, Typed, rcVars
  <2>3. \A q \in Proc \ {p} : Unmoved(q)
    BY <1>0, <1>1, <2>1 DEF Unmoved
  <2>4. RequestInv(p)'
    BY <1>1, <1>2, <1>3, <2>1, RowsApart DEF RequestInv, Locks, Moved, Closing, WalFaithful, Resets, Locked, rcVars
  <2> QED
    BY <1>1, <2>1, <2>2, <2>3, <2>4, LocalStep
<1>5. CASE Sees(p, R(n)) = "active"
  <2>1. PutAll(p, RoundRows(n, None, "ended")) /\ reset' = [reset EXCEPT ![p].closed = n]
    BY <1>0, <1>5
  <2>2. n = db[Active]
    <3>1. db[R(n)] = "active"
      BY <1>2, <1>5, RowsApart DEF Sees
    <3> QED
      BY <1>2, <3>1, Constants DEF IInv, Books, Numbered, Rounds
  <2> HIDE DEF n
  <2>3. /\ db' = db /\ DOMAIN pend' = AllRows /\ owner' \in [AllRows -> Proc \cup {NoProc}]
        /\ pend'[R(n)] = "ended" /\ pend'[Active] = None /\ owner'[R(n)] = p /\ owner'[Active] = p
        /\ \A s \in AllRows \ {R(n), Active} : pend'[s] = pend[s] /\ owner'[s] = owner[s]
    BY <1>2, <2>1, PutAllFacts
  <2>4. /\ reset' \in [Proc -> ResetNotes] /\ reset'[p].closed = n
        /\ \A q \in Proc \ {p} : reset'[q] = reset[q]
    <3>1. n \in Nat /\ reset \in [Proc -> ResetNotes]
      BY <1>2 DEF IInv, Typed, Rounds
    <3> QED
      BY <2>1, <3>1 DEF ResetNotes
  <2>5. Typed'
    BY <1>0, <1>1, <1>2, <2>3, <2>4, RowsApart DEF IInv, Typed
  <2>6. \A q \in Proc \ {p} : Unmoved(q)
    BY <1>0, <1>1, <2>4 DEF Unmoved
  <2>7. /\ pend'[Me] = pend[Me] /\ owner'[Me] # p /\ owner'[Wallet] # p
        /\ \A m \in Rounds \ {n} : owner'[R(m)] # p
    BY <1>2, <2>3, RowsApart
  <2>8. Closing(p)'
    BY <1>1, <1>2, <2>2, <2>3, <2>4, <2>7 DEF Closing, Ending
  <2>9. RequestInv(p)'
    BY <1>1, <1>2, <1>3, <2>3, <2>4, <2>7, <2>8 DEF RequestInv, Locks, Moved, WalFaithful, Resets, Locked
  <2> QED
    BY <1>1, <1>2, <2>1, <2>5, <2>6, <2>9, RoundStep
<1> QED
  BY <1>4, <1>5

\* Only the reset that ended the latest round finds the index free, and the round
\* it opens is the one after it.
LEMMA StartNextRoundInv ==
  ASSUME IInv, NEW p \in Proc, StartNextRound(p)
  PROVE  IInv'
<1> DEFINE L == db[Active]
           S == {m \in Rounds : Sees(p, R(m)) # NoRow}
           n == 1 + Max(S)
<1>1. CASE Reject(p)
  BY <1>1, RejectInv
<1>2. CASE ~Reject(p)
  <2>0. /\ pc[p] = "open" /\ IndexFree(p) /\ Proceed(p, "open", "commit") /\ "commit" \in Stages
        /\ PutAll(p, RoundRows(n, n, "active")) /\ UNCHANGED <<chr, wal, reset>>
    BY <1>2 DEF StartNextRound, Stages, RoundRows
  <2>1. /\ pc'[p] = "commit" /\ pc' \in [Proc -> Stages] /\ req' = req
        /\ \A q \in Proc \ {p} : pc'[q] = pc[q]
        /\ day' = day /\ age' = age /\ hist' = hist
        /\ legends' = legends /\ stats' = stats /\ board' = board
    BY <2>0, ProceedFacts
  <2>2. L \in Rounds /\ L \in Nat /\ L >= 1 /\ req[p] \in Resets
    BY <2>0 DEF IInv, Typed, Rounds, RequestInv, Fits
  <2>3. reset[p].closed # 0
    <3>1. owner[Active] = p
      BY <2>0, <2>2 DEF IndexFree, Sees, None
    <3> QED
      BY <3>1 DEF IInv, RequestInv, Locks
  <2>4. /\ reset[p].closed = L /\ owner[Active] = p /\ owner[R(L)] = p /\ pend[R(L)] = "ended"
        /\ \A m \in Rounds \ {L} : owner[R(m)] # p
        /\ reset[p].inducted => L \in hist.tops
    BY <2>0, <2>3 DEF IInv, RequestInv, Closing, Locks
  <2>5. \A m \in Rounds : m \in S <=> m <= L
    <3>1. \A m \in Rounds \ {L} : Sees(p, R(m)) = db[R(m)]
      BY <2>4 DEF Sees
    <3>2. Sees(p, R(L)) = "ended"
      BY <2>4 DEF Sees
    <3> QED
      BY <2>2, <3>1, <3>2, Constants DEF IInv, Books, Numbered, Rounds
  <2>6. Max(S) = L
    <3>1. L \in S /\ \A y \in S : L >= y
      BY <2>2, <2>5
    <3>2. \A x \in S : (\A y \in S : x >= y) => x = L
      BY <2>2, <2>5, <3>1 DEF Rounds
    <3> HIDE DEF S, L
    <3> QED
      BY <3>1, <3>2 DEF Max
  <2>7. n = L + 1 /\ n \in Rounds
    <3>1. p \in UnderWay /\ IsFiniteSet(UnderWay)
      BY <2>0, <2>2, Constants, FS_Subset DEF UnderWay
    <3>2. Cardinality({p}) = 1 /\ {p} \in SUBSET UnderWay
      BY <3>1, FS_Singleton
    <3>3. Cardinality(UnderWay) \in Nat /\ Cardinality(UnderWay) >= 1
      BY <3>1, <3>2, FS_Subset, FS_CardinalityType
    <3>4. L + Cardinality(UnderWay) <= MaxRounds
      BY DEF IInv, Books, Bounded
    <3> QED
      BY <2>2, <2>6, <3>3, <3>4, Constants DEF Rounds
  <2> HIDE DEF n, L, S
  <2>8. /\ db' = db /\ DOMAIN pend' = AllRows /\ owner' \in [AllRows -> Proc \cup {NoProc}]
        /\ pend'[R(n)] = "active" /\ pend'[Active] = n /\ owner'[R(n)] = p /\ owner'[Active] = p
        /\ \A s \in AllRows \ {R(n), Active} : pend'[s] = pend[s] /\ owner'[s] = owner[s]
    BY <2>0, <2>7, PutAllFacts
  <2>9. Typed'
    BY <2>0, <2>1, <2>7, <2>8, RowsApart DEF IInv, Typed
  <2>10. \A q \in Proc \ {p} : Unmoved(q)
    BY <2>0, <2>1 DEF Unmoved
  <2>11. /\ pend'[Me] = pend[Me] /\ pend'[Wallet] = pend[Wallet]
         /\ owner'[Me] = owner[Me] /\ owner'[Wallet] = owner[Wallet]
         /\ \A m \in Rounds \ {n} : owner'[R(m)] = owner[R(m)] /\ pend'[R(m)] = pend[R(m)]
    BY <2>7, <2>8, RowsApart
  <2>12. L # n
    BY <2>2, <2>7
  <2>13. Closing(p)'
    <3>1. owner'[R(L)] = p /\ pend'[R(L)] = "ended" /\ \A m \in Rounds \ {L, n} : owner'[R(m)] # p
      BY <2>2, <2>4, <2>11, <2>12
    <3>2. reset'[p] = reset[p] /\ hist' = hist /\ db'[Active] = L /\ req'[p] = req[p]
      BY <2>0, <2>1, <2>8 DEF L
    <3> QED
      BY <2>1, <2>2, <2>3, <2>4, <2>7, <2>8, <3>1, <3>2 DEF Closing, Ending
  <2>14. Fits(p)'
    BY <2>1, <2>2 DEF Fits, Resets
  <2>15. Locks(p)' /\ Moved(p)'
    BY <2>0, <2>1, <2>2, <2>3, <2>8, <2>11 DEF IInv, RequestInv, Locks, Moved, Resets, Locked
  <2>16. RequestInv(p)'
    BY <2>1, <2>13, <2>14, <2>15 DEF RequestInv, WalFaithful
  <2> QED
    BY <2>0, <2>1, <2>7, <2>9, <2>10, <2>16, RoundStep
<1> QED
  BY <1>1, <1>2

\* Publishing.

LEMMA CommitFacts ==
  ASSUME IInv, NEW p \in Proc, Commit(p)
  PROVE  /\ DOMAIN db' = AllRows /\ pend' = pend /\ owner' \in [AllRows -> Proc \cup {NoProc}]
         /\ \A r \in AllRows : /\ db'[r] = IF owner[r] = p THEN pend[r] ELSE db[r]
                               /\ owner'[r] = IF owner[r] = p THEN NoProc ELSE owner[r]
                               /\ owner'[r] # p
         /\ PendingIsOwned'
<1>1. /\ DOMAIN db' = AllRows /\ pend' = pend /\ owner' \in [AllRows -> Proc \cup {NoProc}]
      /\ \A r \in AllRows : /\ db'[r] = IF owner[r] = p THEN pend[r] ELSE db[r]
                            /\ owner'[r] = IF owner[r] = p THEN NoProc ELSE owner[r]
  BY DEF IInv, Typed, Commit, Sees, Released
<1>2. \A r \in AllRows : owner'[r] # p
  BY <1>1, Constants
<1>3. PendingIsOwned'
  BY <1>1 DEF IInv, Typed, PendingIsOwned
<1> QED
  BY <1>1, <1>2, <1>3

LEMMA RoundsFinite ==
  \A T \in SUBSET Rounds : IsFiniteSet(T) /\ Cardinality(T) \in Nat
<1>1. IsFiniteSet(Rounds)
  BY Constants, FS_Interval DEF Rounds
<1> QED
  BY <1>1, FS_Subset, FS_CardinalityType

LEMMA CommitPlayInv ==
  ASSUME IInv, NEW p \in Proc, CommitPlay(p)
  PROVE  IInv'
<1> DEFINE L == db[Active]
           m == pend[Me].sc
           tops == IF m = Top THEN hist.tops \cup {L} ELSE hist.tops
           paid == IF req[p] = "gig" THEN hist.paid + Payout ELSE hist.paid
           late == hist.outdated \/ (req[p] \in {"gig", "botched"} /\ m <= chr[p].sc)
<1>1. /\ pc[p] = "commit" /\ req[p] \in Played /\ Commit(p)
      /\ UNCHANGED <<day, age, shared>>
      /\ \/ Goto(p, "invalidate") /\ UNCHANGED <<req, chr, wal, reset>>
         \/ Forget(p)
  BY DEF CommitPlay
<1>2. /\ DOMAIN db' = AllRows /\ pend' = pend /\ owner' \in [AllRows -> Proc \cup {NoProc}]
      /\ \A r \in AllRows : /\ db'[r] = IF owner[r] = p THEN pend[r] ELSE db[r]
                            /\ owner'[r] = IF owner[r] = p THEN NoProc ELSE owner[r]
                            /\ owner'[r] # p
      /\ PendingIsOwned'
  BY <1>1, CommitFacts
<1>3. L \in Rounds /\ hist \in Histories /\ m \in 0 .. Top
  BY DEF IInv, Typed, Scores
<1>4. /\ hist' \in Histories /\ hist'.tops = tops /\ hist'.paid = paid
  <2>1. hist' = [hist EXCEPT !.paid = paid, !.base = m, !.tops = tops, !.outdated = late]
    <3>1. Latest = db[Active]
      BY LatestIsActive DEF IInv, Books
    <3> QED
      BY <3>1 DEF CommitPlay
  <2>2. tops \in SUBSET Rounds /\ paid \in Nat /\ m \in Nat /\ late \in BOOLEAN
    BY <1>3, Constants DEF Histories
  <2> HIDE DEF tops, paid, m, late
  <2> QED
    BY <1>3, <2>1, <2>2 DEF Histories
<1>5. req[p] \notin Resets /\ owner[Active] # p /\ reset[p].closed = 0 /\ \A n \in Rounds : owner[R(n)] # p
  BY <1>1, PlayersHoldNoRound DEF Played, Resets
<1>6. owner[Me] = p /\ (owner[Wallet] = p <=> req[p] = "gig")
  BY <1>1, <1>5 DEF IInv, RequestInv, Locks
<1>7. /\ db'[Active] = L /\ db'[Me] = pend[Me] /\ \A n \in Rounds : db'[R(n)] = db[R(n)]
      /\ db'[Wallet] = IF req[p] = "gig" THEN pend[Wallet] ELSE db[Wallet]
  BY <1>2, <1>5, <1>6, RowsApart
<1>8. /\ pc'[p] \in {"idle", "invalidate"} /\ pc' \in [Proc -> Stages]
      /\ req' \in [Proc -> Kinds \cup {"none"}]
      /\ chr' \in [Proc -> Scores \cup {NoRow}] /\ wal' \in [Proc -> WalletRows \cup {NoRow}]
      /\ reset' \in [Proc -> ResetNotes] /\ reset'[p].closed = 0
      /\ pc'[p] = "idle" => req'[p] = "none" /\ reset'[p] = NoReset
      /\ pc'[p] = "invalidate" => req'[p] = req[p]
      /\ \A q \in Proc \ {p} : Unmoved(q)
  <2>1. CASE Forget(p)
    BY <2>1, ForgetFacts DEF NoReset
  <2>2. CASE Goto(p, "invalidate") /\ UNCHANGED <<req, chr, wal, reset>>
    BY <1>5, <2>2 DEF Goto, IInv, Typed, Stages, Unmoved
  <2> QED
    BY <1>1, <2>1, <2>2
<1>9. Typed'
  BY <1>1, <1>2, <1>4, <1>7, <1>8, RowsApart DEF IInv, Typed, shared
<1>10. \A q \in Proc \ {p} : RowsOf(q)
  <2>1. db'[Wallet] = db[Wallet] \/ db'[Wallet].version > db[Wallet].version
    <3>1. req[p] = "gig" => pend[Wallet].version = db[Wallet].version + 1
      BY <1>6 DEF IInv, RequestInv, Moved
    <3> QED
      BY <1>7, <3>1 DEF IInv, Typed, WalletRows
  <2>2. hist.tops \subseteq hist'.tops /\ day' >= day /\ db'[Active] >= db[Active]
    BY <1>1, <1>3, <1>4, <1>7 DEF IInv, Typed, Rounds
  <2>3. \A q \in Proc \ {p} : \A r \in AllRows :
           /\ owner'[r] = q <=> owner[r] = q
           /\ owner[r] = q => db'[r] = db[r] /\ pend'[r] = pend[r]
    BY <1>2, Constants
  <2> QED
    BY <2>1, <2>2, <2>3 DEF RowsOf
<1>11. Books'
  <2>1. Bounded'
    <3>1. UnderWay' \subseteq UnderWay
      BY <1>1, <1>5, <1>8, NotUnderWay
    <3> QED
      BY <1>7, <3>1, FewerUnderWay
  <2>2. Numbered' /\ Counted'
    BY <1>1, <1>7 DEF IInv, Books, Numbered, Counted, shared
  <2>3. Inducted'
    <3>1. hist'.tops \ {L} = hist.tops \ {L}
      BY <1>4
    <3>2. hist'.tops \subseteq 1 .. L
      BY <1>3, <1>4 DEF IInv, Books, Inducted, Rounds
    <3>3. m = Top => L \in hist'.tops
      BY <1>4
    <3>4. legends' = legends
      BY <1>1 DEF shared
    <3> QED
      BY <1>7, <3>1, <3>2, <3>3, <3>4 DEF IInv, Books, Inducted
  <2>4. WalletsStartOver'
    <3>1. req[p] = "gig" => pend[Wallet].balance = db[Wallet].balance + Payout
      BY <1>6 DEF IInv, RequestInv, Moved
    <3> QED
      BY <1>4, <1>7, <3>1 DEF IInv, Books, WalletsStartOver
  <2> QED
    BY <2>1, <2>2, <2>3, <2>4 DEF Books
<1>12. RequestInv(p)'
  <2>1. CASE pc'[p] = "idle"
    BY <1>2, <1>8, <1>9, <2>1, IdleInv
  <2>2. CASE pc'[p] = "invalidate"
    <3>1. req'[p] \in Played /\ req'[p] \notin Resets
      BY <1>1, <1>5, <1>8, <2>2
    <3> QED
      BY <1>2, <1>8, <2>2, <3>1, RowsApart DEF RequestInv, Fits, Locks, Moved, Closing, WalFaithful, Played
  <2> QED
    BY <1>8, <2>1, <2>2
<1> QED
  BY <1>2, <1>8, <1>9, <1>10, <1>11, <1>12, StepKeeps

LEMMA CommitResetInv ==
  ASSUME IInv, NEW p \in Proc, CommitReset(p)
  PROVE  IInv'
<1> DEFINE L == db[Active]
           row == [id |-> Cardinality(stats) + 1, round |-> reset[p].stats]
           unnamed == IF reset[p].inducted THEN legends.unnamed + 1 ELSE legends.unnamed
           zeroed == IF reset[p].top THEN hist.zeroed \cup {reset[p].closed} ELSE hist.zeroed
           early == IF req[p] = "cron" /\ (reset[p].closed = 0 \/ age[reset[p].closed] # "over")
                    THEN hist.early \cup {reset[p].closed} ELSE hist.early
<1>1. /\ pc[p] = "commit" /\ req[p] \in Resets /\ Commit(p) /\ Forget(p)
      /\ stats' = stats \cup {row}
      /\ legends' = [legends EXCEPT !.unnamed = unnamed]
      /\ hist' = [hist EXCEPT !.paid = 0, !.base = 0, !.zeroed = zeroed, !.early = early, !.outdated = TRUE]
      /\ UNCHANGED <<day, age, board>>
  BY DEF CommitReset
<1>2. /\ DOMAIN db' = AllRows /\ pend' = pend /\ owner' \in [AllRows -> Proc \cup {NoProc}]
      /\ \A r \in AllRows : /\ db'[r] = IF owner[r] = p THEN pend[r] ELSE db[r]
                            /\ owner'[r] = IF owner[r] = p THEN NoProc ELSE owner[r]
                            /\ owner'[r] # p
      /\ PendingIsOwned'
  BY <1>1, CommitFacts
<1>3. /\ reset[p].closed = L /\ L \in Rounds /\ L + 1 \in Rounds /\ L \in Nat /\ L >= 1
      /\ owner[Active] = p /\ pend[Active] = L + 1
      /\ owner[R(L)] = p /\ pend[R(L)] = "ended" /\ owner[R(L + 1)] = p /\ pend[R(L + 1)] = "active"
      /\ \A m \in Rounds \ {L, L + 1} : owner[R(m)] # p
      /\ reset[p].inducted => L \in hist.tops
  BY <1>1 DEF IInv, Typed, RequestInv, Closing, Locks, Rounds
<1>4. owner[Me] = p /\ owner[Wallet] = p
  BY <1>1 DEF IInv, RequestInv, Locks, Locked
<1>5. /\ pend[Me].sc = 0 /\ pend[Me] \in Scores /\ pend[Wallet] \in WalletRows
      /\ pend[Wallet].balance = 0 /\ pend[Wallet].version = db[Wallet].version + 1
  BY <1>1, <1>4 DEF IInv, Typed, RequestInv, Moved, Resets
<1>6. /\ db'[Active] = L + 1 /\ db'[Me] = pend[Me] /\ db'[Wallet] = pend[Wallet]
      /\ db'[R(L)] = "ended" /\ db'[R(L + 1)] = "active"
      /\ \A m \in Rounds \ {L, L + 1} : db'[R(m)] = db[R(m)]
  BY <1>2, <1>3, <1>4, RowsApart
<1>f. /\ pc'[p] = "idle" /\ req'[p] = "none" /\ reset'[p] = NoReset
      /\ pc' \in [Proc -> Stages] /\ req' \in [Proc -> Kinds \cup {"none"}]
      /\ chr' \in [Proc -> Scores \cup {NoRow}] /\ wal' \in [Proc -> WalletRows \cup {NoRow}]
      /\ reset' \in [Proc -> ResetNotes]
      /\ \A q \in Proc \ {p} : Unmoved(q)
  BY <1>1, ForgetFacts
<1>7. hist' \in Histories /\ hist'.paid = 0 /\ hist'.tops = hist.tops
  <2>1. zeroed \in SUBSET Nat /\ early \in SUBSET Nat /\ hist \in Histories
    BY <1>3 DEF IInv, Typed, Histories
  <2> HIDE DEF zeroed, early
  <2> QED
    BY <1>1, <2>1 DEF Histories
<1>8. /\ legends' \in [unnamed : Nat, named : Nat] /\ legends'.named = legends.named
      /\ legends'.unnamed = unnamed /\ legends \in [unnamed : Nat, named : Nat] /\ unnamed \in Nat
  <2>1. unnamed \in Nat /\ legends \in [unnamed : Nat, named : Nat]
    BY DEF IInv, Typed
  <2> HIDE DEF unnamed
  <2> QED
    BY <1>1, <2>1
<1>9. Typed'
  <2>1. \A n \in Rounds : db'[R(n)] \in {NoRow, "active", "ended"}
    BY <1>6 DEF IInv, Typed
  <2> QED
    BY <1>1, <1>2, <1>3, <1>5, <1>6, <1>7, <1>8, <1>f, <2>1, RowsApart DEF IInv, Typed
<1>10. \A q \in Proc \ {p} : RowsOf(q)
  <2>1. db'[Wallet].version > db[Wallet].version
    BY <1>5, <1>6 DEF IInv, Typed, WalletRows
  <2>2. hist.tops \subseteq hist'.tops /\ day' >= day /\ db'[Active] >= db[Active]
    BY <1>1, <1>3, <1>6, <1>7 DEF IInv, Typed
  <2>3. \A q \in Proc \ {p} : \A r \in AllRows :
           /\ owner'[r] = q <=> owner[r] = q
           /\ owner[r] = q => db'[r] = db[r] /\ pend'[r] = pend[r]
    BY <1>2, Constants
  <2> QED
    BY <2>1, <2>2, <2>3 DEF RowsOf
<1>11. Books'
  <2>1. Bounded'
    <3>1. UnderWay' \in SUBSET (UnderWay \ {p}) /\ p \in UnderWay
      BY <1>1, <1>f DEF UnderWay, Unmoved, Resets
    <3>2. IsFiniteSet(UnderWay) /\ IsFiniteSet(UnderWay \ {p})
      BY Constants, FS_Subset DEF UnderWay
    <3>3. Cardinality(UnderWay \ {p}) = Cardinality(UnderWay) - 1
      BY <3>1, <3>2, FS_RemoveElement
    <3>4. Cardinality(UnderWay') <= Cardinality(UnderWay \ {p}) /\ IsFiniteSet(UnderWay')
      BY <3>1, <3>2, FS_Subset
    <3>5. Cardinality(UnderWay) \in Nat /\ Cardinality(UnderWay') \in Nat
      BY <3>2, <3>4, FS_CardinalityType
    <3>6. L + Cardinality(UnderWay) <= MaxRounds
      BY DEF IInv, Books, Bounded
    <3> QED
      BY <1>3, <1>6, <3>3, <3>4, <3>5, <3>6, Constants DEF Bounded
  <2>2. Numbered'
    <3> SUFFICES ASSUME NEW n \in Rounds
                 PROVE  db'[R(n)] = IF n < L + 1 THEN "ended" ELSE IF n = L + 1 THEN "active" ELSE NoRow
      BY <1>6 DEF Numbered
    <3>1. CASE n \in {L, L + 1}
      BY <1>3, <1>6, <3>1
    <3>2. CASE n \notin {L, L + 1}
      <4>1. db'[R(n)] = IF n < L THEN "ended" ELSE IF n = L THEN "active" ELSE NoRow
        BY <1>6, <3>2 DEF IInv, Books, Numbered
      <4>2. n \in Nat
        BY DEF Rounds
      <4> QED
        BY <1>3, <3>2, <4>1, <4>2
    <3> QED
      BY <3>1, <3>2
  <2>3. Counted'
    <3> DEFINE N == Cardinality(stats)
    <3>1. IsFiniteSet(stats) /\ N = L - 1 /\ N \in Nat /\ \A s \in stats : s.id \in 1 .. N
      BY FS_CardinalityType DEF IInv, Books, Counted
    <3>2. row \notin stats /\ row.id = N + 1
      BY <3>1
    <3>3. IsFiniteSet(stats') /\ Cardinality(stats') = N + 1
      <4> HIDE DEF row
      <4> QED
        BY <1>1, <3>1, <3>2, FS_AddElement
    <3>4. \A s \in stats' : s.id \in 1 .. N + 1
      <4> HIDE DEF row
      <4> QED
        BY <1>1, <3>1, <3>2
    <3> HIDE DEF N
    <3> QED
      BY <1>3, <1>6, <3>1, <3>3, <3>4 DEF Counted
  <2>4. Inducted'
    <3> DEFINE before == Cardinality(hist.tops \ {L})
    <3>1. hist.tops \subseteq 1 .. L /\ hist.tops \in SUBSET Rounds
      BY <1>3, Constants DEF IInv, Books, Inducted, Rounds
    <3>2. hist.tops \ {L + 1} = hist.tops
      BY <1>3, <3>1
    <3>3. IsFiniteSet(hist.tops) /\ before \in Nat
      BY <3>1, RoundsFinite
    <3>4. Cardinality(hist.tops) = IF L \in hist.tops THEN before + 1 ELSE before
      <4>1. Cardinality(hist.tops) \in Nat
        BY <3>3, FS_CardinalityType
      <4>2. Cardinality(hist.tops \ {L}) =
              IF L \in hist.tops THEN Cardinality(hist.tops) - 1 ELSE Cardinality(hist.tops)
        BY <3>3, FS_RemoveElement
      <4> QED
        BY <4>1, <4>2
    <3>5. legends.unnamed + legends.named <= before
      BY DEF IInv, Books, Inducted
    <3>6. legends'.unnamed + legends'.named <= Cardinality(hist.tops)
      <4> HIDE DEF before
      <4> QED
        BY <1>3, <1>8, <3>3, <3>4, <3>5
    <3>7. db'[Me].sc # Top
      BY <1>5, <1>6, Constants
    <3>8. hist.tops \subseteq 1 .. L + 1
      BY <1>3, <3>1
    <3> QED
      BY <1>6, <1>7, <3>2, <3>6, <3>7, <3>8 DEF Inducted
  <2>5. WalletsStartOver'
    BY <1>5, <1>6, <1>7 DEF WalletsStartOver
  <2> QED
    BY <2>1, <2>2, <2>3, <2>4, <2>5 DEF Books
<1>12. RequestInv(p)'
  BY <1>2, <1>9, <1>f, IdleInv
<1> QED
  BY <1>2, <1>9, <1>10, <1>11, <1>12, <1>f, StepKeeps
-----------------------------------------------------------------------------
\* Every step, and what the invariant says of the runs' properties.

LEMMA NextInv == IInv /\ [Next]_vars => IInv'
<1> SUFFICES ASSUME IInv, [Next]_vars
             PROVE  IInv'
  OBVIOUS
<1>1. ASSUME NEW p \in Proc, Step(p)
      PROVE  IInv'
  <2>1. CASE Read(p) \/ ReadWallet(p) \/ Pay(p) \/ Score(p) \/ Fight(p) \/ CommitPlay(p)
    BY <2>1, ReadInv, ReadWalletInv, PayInv, ScoreInv, FightInv, CommitPlayInv
  <2>2. CASE InvalidateLeaderboardCache(p) \/ WriteBack(p) \/ GetBoard(p) \/ ListLeaderboardRows(p)
             \/ SetBoard(p) \/ NameDrink(p)
    BY <2>2, InvalidateLeaderboardCacheInv, WriteBackInv, GetBoardInv, ListLeaderboardRowsInv, SetBoardInv,
       NameDrinkInv
  <2>3. CASE CheckRound(p) \/ FindActive(p) \/ InsertRoundStats(p) \/ SeeActive(p) \/ EndCurrentRound(p)
             \/ InductLegends(p)
    BY <2>3, CheckRoundInv, FindActiveInv, InsertRoundStatsInv, SeeActiveInv, EndCurrentRoundInv, InductLegendsInv
  <2>4. CASE DetachCrews(p) \/ ZeroWallets(p) \/ ResetCharacters(p) \/ StartNextRound(p) \/ CommitReset(p)
    BY <2>4, DetachCrewsInv, ZeroWalletsInv, ResetCharactersInv, StartNextRoundInv, CommitResetInv
  <2>5. CASE DetectDeadlock(p)
    BY <2>5, RejectInv DEF DetectDeadlock
  <2> QED
    BY <1>1, <2>1, <2>2, <2>3, <2>4, <2>5 DEF Step
<1>2. ASSUME NEW p \in Proc, Start(p) \/ Lost(p)
      PROVE  IInv'
  BY <1>2, StartInv, LostInv
<1>3. CASE NextDay \/ ExpireBoard \/ \E n \in Rounds : AgeRound(n)
  BY <1>3, PassingInv
<1>4. CASE UNCHANGED vars
  <2>1. /\ board \in {None} \cup 0 .. Top /\ hist \in Histories /\ day \in Nat
        /\ age \in [Rounds -> {"intermission", "running", "over"}]
    BY DEF IInv, Typed
  <2> QED
    BY <1>4, <2>1, ClockInv DEF vars, shared
<1> QED
  BY <1>1, <1>2, <1>3, <1>4 DEF Next

LEMMA InvMeans == IInv => TypeOK /\ RoundsHold /\ WalletsStartOver
<1> SUFFICES ASSUME IInv
             PROVE  TypeOK /\ RoundsHold /\ WalletsStartOver
  OBVIOUS
<1>1. TypeOK
  BY Constants DEF IInv, Typed, TypeOK, Scores, WalletRows
<1>2. RoundsInOrder
  <2>1. Latest = db[Active]
    BY LatestIsActive DEF IInv, Books
  <2> QED
    BY <2>1 DEF RoundsInOrder, IInv, Books, Numbered, Counted
<1>3. LegendsOnce
  <2> DEFINE T == hist.tops
             before == T \ {db[Active]}
  <2>1. T \in SUBSET Rounds /\ before \in SUBSET T
    BY DEF IInv, Typed, Histories
  <2>2. Cardinality(before) <= Cardinality(T)
    BY <2>1, RoundsFinite, FS_Subset
  <2>3. Cardinality(before) \in Nat /\ Cardinality(T) \in Nat
    BY <2>1, RoundsFinite
  <2>4. legends.unnamed + legends.named <= Cardinality(before)
    BY DEF IInv, Books, Inducted
  <2>5. legends.unnamed + legends.named \in Nat
    BY DEF IInv, Typed
  <2> HIDE DEF before, T
  <2>6. legends.unnamed + legends.named <= Cardinality(T)
    BY <2>2, <2>3, <2>4, <2>5
  <2> QED
    BY <2>6 DEF LegendsOnce, T
<1> QED
  BY <1>1, <1>2, <1>3 DEF RoundsHold, IInv, Books

\* A season keeps the inductive invariant, however many requests and resets overlap.
THEOREM Inductive == Spec => []IInv
<1> QED
  BY InitInv, NextInv, PTL DEF Spec

\* Every value keeps its type, and the Moral its range: TypeOK.
THEOREM TypeCorrect == Spec => []TypeOK
<1> QED
  BY Inductive, InvMeans, PTL

\* However many resets overlap (performRoundReset), the rounds are numbered without
\* a gap, only the last one is active, each that ended left one row of statistics,
\* and no character is inducted twice for one round: RoundsHold.
THEOREM RoundsHoldAlways == Spec => []RoundsHold
<1> QED
  BY Inductive, InvMeans, PTL

\* No payment computed before a reset survives it, and none made after it is lost:
\* the version that zero_wallets counts up makes the compare-and-swap of a wrap-up
\* that read before it fail: WalletsStartOver.
THEOREM WalletsStartOverAlways == Spec => []WalletsStartOver
<1> QED
  BY Inductive, InvMeans, PTL
-----------------------------------------------------------------------------
\* While no two requests have overlapped, there is at most one under way.

Single == \A p, q \in Proc : pc[p] # "idle" /\ pc[q] # "idle" => p = q

\* Every round that ended left its own statistics.
Stat(n) == [id |-> n, round |-> n]
OwnStatistics == stats = {Stat(n) : n \in 1 .. db[Active] - 1}

\* Every legend was inducted by the reset that took its Moral away.
Remembered ==
  /\ hist.early = {}
  /\ hist.zeroed \subseteq 1 .. db[Active] - 1
  /\ legends.unnamed + legends.named = Cardinality(hist.zeroed)

\* The ranking is between what is left of the Moral today and what it was; a
\* trampo or a fight that has still to invalidate it is excused.
Shown ==
  /\ db[Me].sc <= hist.base
  /\ board # None /\ ~hist.outdated /\ (\A p \in Proc : pc[p] # "invalidate") =>
       board >= Effective(db[Me]) /\ board <= hist.base

Records == OwnStatistics /\ Remembered /\ Shown

\* What a lone request knows stays true until it acts on it.
LoneRequest(p) ==
  /\ req[p] = "cron" /\ pc[p] # "check" => age[db[Active]] = "over"
  /\ req[p] \in Resets /\ pc[p] \in {"end", "close"} \cup Ending => reset[p].stats = db[Active]
  /\ pc[p] \in {"detach", "zero", "base"} => (reset[p].inducted <=> db[Me].sc = Top)
  /\ pc[p] \in {"zero", "base"} => pend[Me] = db[Me]
  /\ req[p] \in Resets /\ pc[p] \in {"open", "commit"} => (reset[p].inducted <=> reset[p].top)
  /\ pc[p] \in {"writeback", "cache"} => chr[p] = db[Me]
  /\ pc[p] = "commit" /\ req[p] \in {"gig", "botched"} => chr[p] \in Scores

Lone == Single /\ Records /\ \A p \in Proc : LoneRequest(p)
LoneInv == hist.alone => Lone

LEMMA MoreDaysMoreDecay ==
  ASSUME NEW a \in Int, NEW b \in Int, a <= b
  PROVE  /\ Max({0, a - Grace}) * Rate \in Nat /\ Max({0, b - Grace}) * Rate \in Nat
         /\ Max({0, a - Grace}) * Rate <= Max({0, b - Grace}) * Rate
<1> DEFINE x == Max({0, a - Grace})
           y == Max({0, b - Grace})
<1>1. x \in Nat /\ y \in Nat /\ x <= y /\ Rate \in Nat
  BY Constants, MaxTwo
<1> HIDE DEF x, y
<1>2. \A i, j, k \in Nat : i <= j => i * k \in Nat /\ j * k \in Nat /\ i * k <= j * k
  OBVIOUS
<1>3. x * Rate \in Nat /\ y * Rate \in Nat /\ x * Rate <= y * Rate
  BY <1>1, <1>2
<1> QED
  BY <1>3 DEF x, y

\* The Moral that is left only falls with the days.
LEMMA DecayFalls ==
  ASSUME NEW a \in Int, NEW b \in Int, a <= b, NEW score \in 0 .. Top, NEW max \in 0 .. Top
  PROVE  calculateDecay(b, score, max) <= calculateDecay(a, score, max)
<1> DEFINE floor == getThresholdFloor(max)
           before == Max({0, a - Grace}) * Rate
           after == Max({0, b - Grace}) * Rate
<1>1. before \in Nat /\ after \in Nat /\ before <= after
  BY MoreDaysMoreDecay
<1>2. floor \in 0 .. Top
  BY FloorTyped
<1> HIDE DEF floor, before, after
<1>3. Top \in Nat
  BY Constants
<1>4. Max({floor, score - after}) <= Max({floor, score - before})
  BY <1>1, <1>2, <1>3, MaxTwo
<1>5. /\ calculateDecay(a, score, max) = IF score <= floor THEN score ELSE Max({floor, score - before})
      /\ calculateDecay(b, score, max) = IF score <= floor THEN score ELSE Max({floor, score - after})
  BY DEF calculateDecay, floor, before, after
<1> QED
  BY <1>3, <1>4, <1>5

LEMMA EffectiveFalls ==
  ASSUME IInv, day' \in Nat, day' >= day, db'[Me] = db[Me]
  PROVE  Effective(db[Me])' <= Effective(db[Me])
<1> DEFINE c == db[Me]
<1>1. c \in Scores /\ day \in Nat
  BY DEF IInv, Typed
<1>2. day - c.at \in Int /\ day' - c.at \in Int /\ day - c.at <= day' - c.at /\ c.sc \in 0 .. Top /\ c.max \in 0 .. Top
  BY <1>1 DEF Scores
<1>3. calculateDecay(day' - c.at, c.sc, c.max) <= calculateDecay(day - c.at, c.sc, c.max)
  BY <1>2, DecayFalls
<1> QED
  BY <1>3 DEF Effective, calculateDecay, getThresholdFloor

LEMMA LoneInitInv == Init => LoneInv
<1> SUFFICES ASSUME Init PROVE Lone
  BY DEF LoneInv
<1>1. IInv /\ hist.early = {} /\ hist.zeroed = {} /\ hist.base = 0
  BY InitInv DEF Init
<1>2. \A p \in Proc : pc[p] = "idle" /\ req[p] = "none"
  BY DEF Init
<1>3. db[Me] = [sc |-> 0, max |-> 0, at |-> 0] /\ db[Active] = 1
  <2>1. 1 \in Rounds
    BY Constants DEF Rounds
  <2>2. /\ db[Me] = [sc |-> 0, max |-> 0, at |-> 0]
        /\ db[Wallet] = [balance |-> 0, version |-> 0] /\ db[Active] = 1
        /\ \A n \in Rounds : db[R(n)] = IF n = 1 THEN "active" ELSE NoRow
    BY <2>1, Constants, RowsApart DEF Init, RcInit, AllRows
  <2> QED
    BY <2>2
<1>4. OwnStatistics
  <2>1. 1 .. db[Active] - 1 = {}
    BY <1>3
  <2> QED
    BY <2>1 DEF Init, OwnStatistics
<1>5. Remembered
  BY <1>1, FS_EmptySet DEF Init, Remembered
<1>6. Shown
  BY <1>1, <1>3 DEF Init, Shown
<1>7. \A p \in Proc : LoneRequest(p)
  BY <1>2 DEF LoneRequest, Resets, Ending
<1> QED
  BY <1>2, <1>4, <1>5, <1>6, <1>7 DEF Lone, Single, Records

LEMMA NothingAsked ==
  ASSUME NEW p \in Proc, pc'[p] = "idle", req'[p] = "none"
  PROVE  LoneRequest(p)'
  BY DEF LoneRequest, Resets, Ending

\* What is to show of a step of a lone request.
LEMMA LoneStep ==
  ASSUME IInv, Lone, NEW p \in Proc, pc[p] # "idle", \A q \in Proc \ {p} : Unmoved(q), Records', LoneRequest(p)'
  PROVE  Lone'
<1>1. \A q \in Proc \ {p} : pc[q] = "idle" /\ req[q] = "none"
  BY DEF Lone, Single, IInv, RequestInv, Fits
<1>2. \A q \in Proc \ {p} : pc'[q] = "idle" /\ req'[q] = "none"
  BY <1>1 DEF Unmoved
<1>3. \A q \in Proc : LoneRequest(q)'
  BY <1>2, NothingAsked
<1>4. Single'
  BY <1>2 DEF Single
<1> QED
  BY <1>3, <1>4 DEF Lone

\* The records stay while the rows, the ranking and what was counted do.
LEMMA RecordsSame ==
  ASSUME IInv, Records, UNCHANGED <<db, stats>>, day' \in Nat, day' >= day,
         legends'.unnamed + legends'.named = legends.unnamed + legends.named,
         hist'.early = hist.early, hist'.zeroed = hist.zeroed, hist'.base = hist.base,
         \/ board' = None
         \/ hist'.outdated
         \/ \E q \in Proc : pc'[q] = "invalidate"
         \/ /\ board' = board /\ hist'.outdated = hist.outdated
            /\ \A q \in Proc : pc[q] # "invalidate"
  PROVE  Records'
<1>1. OwnStatistics' /\ Remembered'
  BY DEF Records, OwnStatistics, Remembered
<1>2. Shown'
  <2> SUFFICES ASSUME board' # None, ~hist'.outdated, \A q \in Proc : pc'[q] # "invalidate"
               PROVE  board' >= Effective(db[Me])' /\ board' <= hist'.base
    BY DEF Records, Shown
  <2>1. board' = board /\ board >= Effective(db[Me]) /\ board <= hist.base /\ board # None
    BY DEF Records, Shown
  <2>2. Effective(db[Me])' <= Effective(db[Me])
    BY EffectiveFalls
  <2>3. Effective(db[Me]) \in 0 .. Top /\ Effective(db[Me])' \in Int
    <3>1. db[Me] \in Scores /\ day' - db[Me].at \in Int /\ db[Me].sc \in 0 .. Top /\ db[Me].max \in 0 .. Top
      BY DEF IInv, Typed, Scores
    <3>2. calculateDecay(day' - db[Me].at, db[Me].sc, db[Me].max) \in 0 .. Top
      BY <3>1, DecayTyped
    <3> QED
      BY <3>1, <3>2, EffectiveTyped DEF Effective, calculateDecay, getThresholdFloor
  <2>4. board \in Int
    BY <2>1, Constants DEF IInv, Typed
  <2> QED
    BY <2>1, <2>2, <2>3, <2>4
<1> QED
  BY <1>1, <1>2 DEF Records

\* A step that changes the request and its own rows alone.
LEMMA LoneQuiet ==
  ASSUME IInv, Lone, NEW p \in Proc, pc[p] # "idle", pc[p] # "invalidate",
         UNCHANGED <<db, stats, day, board, hist>>,
         legends'.unnamed + legends'.named = legends.unnamed + legends.named,
         \A q \in Proc \ {p} : Unmoved(q), LoneRequest(p)'
  PROVE  Lone'
<1>1. \A q \in Proc : pc[q] # "invalidate"
  BY DEF Lone, Single
<1>2. day' \in Nat /\ day' >= day
  BY DEF IInv, Typed
<1>3. Records'
  BY <1>1, <1>2, RecordsSame DEF Lone
<1> QED
  BY <1>3, LoneStep

\* A lone request gives up.
LEMMA ForgetAlone ==
  ASSUME IInv, Lone, NEW p \in Proc, pc[p] # "idle", Forget(p), UNCHANGED <<db, stats, day>>,
         legends'.unnamed + legends'.named = legends.unnamed + legends.named,
         hist'.early = hist.early, hist'.zeroed = hist.zeroed, hist'.base = hist.base,
         \/ board' = None
         \/ hist'.outdated
         \/ board' = board /\ hist'.outdated = hist.outdated /\ pc[p] # "invalidate"
  PROVE  Lone'
<1>1. /\ pc'[p] = "idle" /\ req'[p] = "none" /\ reset'[p] = NoReset
      /\ pc' \in [Proc -> Stages] /\ req' \in [Proc -> Kinds \cup {"none"}]
      /\ chr' \in [Proc -> Scores \cup {NoRow}] /\ wal' \in [Proc -> WalletRows \cup {NoRow}]
      /\ reset' \in [Proc -> ResetNotes]
      /\ \A q \in Proc \ {p} : Unmoved(q)
  BY ForgetFacts
<1>2. pc[p] # "invalidate" => \A q \in Proc : pc[q] # "invalidate"
  BY DEF Lone, Single
<1>3. day' \in Nat /\ day' >= day
  BY DEF IInv, Typed
<1>4. Records'
  BY <1>2, <1>3, RecordsSame DEF Lone
<1>5. LoneRequest(p)'
  BY <1>1, NothingAsked
<1> QED
  BY <1>1, <1>4, <1>5, LoneStep

LEMMA RejectAlone ==
  ASSUME IInv, Lone, NEW p \in Proc, pc[p] # "idle", pc[p] # "invalidate", Reject(p)
  PROVE  Lone'
  BY ForgetAlone DEF Reject, Rollback, shared

LEMMA LostAlone ==
  ASSUME IInv, Lone, NEW p \in Proc, Lost(p)
  PROVE  Lone'
<1> DEFINE late == hist.outdated \/ pc[p] = "invalidate"
<1>1. /\ pc[p] # "idle" /\ Forget(p) /\ UNCHANGED <<db, stats, day, board, legends>>
      /\ hist' = [hist EXCEPT !.outdated = late]
  BY DEF Lost, Rollback, shared
<1>2. hist \in Histories /\ late \in BOOLEAN
  BY DEF IInv, Typed, Histories
<1> HIDE DEF late
<1>3. /\ hist'.early = hist.early /\ hist'.zeroed = hist.zeroed /\ hist'.base = hist.base
      /\ hist'.outdated = late
  BY <1>1, <1>2 DEF Histories
<1>4. \/ hist'.outdated
      \/ hist'.outdated = hist.outdated /\ pc[p] # "invalidate"
  BY <1>2, <1>3 DEF late, Histories
<1> QED
  BY <1>1, <1>3, <1>4, ForgetAlone

\* The statements of the players' requests.
LEMMA PlayAlone ==
  ASSUME IInv, Lone, NEW p \in Proc,
         \/ Read(p) \/ ReadWallet(p) \/ Pay(p) \/ Score(p) \/ Fight(p)
         \/ GetBoard(p) \/ ListLeaderboardRows(p) \/ NameDrink(p)
  PROVE  Lone'
<1>1. pc[p] \in {"read", "wallet", "pay", "score", "fight", "cached", "rank", "name"}
  BY DEF Read, ReadWallet, Pay, Score, Fight, GetBoard, ListLeaderboardRows, NameDrink, Proceed
<1>2. CASE Reject(p)
  BY <1>1, <1>2, RejectAlone
<1>3. CASE NameDrink(p)
  <2>1. legends'.unnamed + legends'.named = legends.unnamed + legends.named
    BY <1>3 DEF NameDrink, IInv, Typed
  <2> QED
    BY <1>1, <1>3, <2>1, ForgetAlone DEF NameDrink, rcVars
<1>4. CASE GetBoard(p)
  <2>1. CASE Forget(p)
    BY <1>1, <1>4, <2>1, ForgetAlone DEF GetBoard, rcVars, shared
  <2>2. CASE Goto(p, "rank") /\ UNCHANGED <<req, chr, wal, reset>>
    <3>1. pc'[p] = "rank" /\ req'[p] = "ranking" /\ \A q \in Proc \ {p} : Unmoved(q)
      BY <1>1, <1>4, <2>2 DEF GetBoard, Goto, Unmoved, IInv, Typed, RequestInv, Fits
    <3>2. LoneRequest(p)'
      BY <3>1 DEF LoneRequest, Resets, Ending
    <3> QED
      BY <1>1, <1>4, <3>1, <3>2, LoneQuiet DEF GetBoard, rcVars, shared
  <2> QED
    BY <1>4, <2>1, <2>2 DEF GetBoard
<1>5. CASE ~Reject(p) /\ ~NameDrink(p) /\ ~GetBoard(p)
  <2>1. /\ UNCHANGED <<db, req, stats, day, board, hist, legends, reset>>
        /\ \A q \in Proc \ {p} : pc'[q] = pc[q] /\ chr'[q] = chr[q] /\ wal'[q] = wal[q]
    BY <1>5 DEF Read, ReadWallet, Pay, Score, Fight, ListLeaderboardRows, Proceed, Goto, rcVars, shared, Put,
       IInv, Typed
  <2>2. \A q \in Proc \ {p} : Unmoved(q)
    BY <2>1 DEF Unmoved
  <2>3. /\ req[p] \notin Resets
        /\ pc'[p] \in {"writeback", "wallet", "pay", "score", "commit", "cache"}
        /\ pc'[p] \in {"writeback", "cache"} => pc[p] \in {"read", "rank"} /\ chr'[p] = Sees(p, Me)
        /\ pc'[p] = "commit" /\ req[p] \in {"gig", "botched"} => pc[p] = "score" /\ chr'[p] = chr[p]
    BY <1>1, <1>5 DEF Read, ReadWallet, Pay, Score, Fight, ListLeaderboardRows, Proceed, Goto, IInv, Typed, Stages,
       RequestInv, Fits, Resets
  <2>4. pc[p] \in {"read", "rank"} => Sees(p, Me) = db[Me]
    BY ReadingHoldsNothing, RowsApart DEF Reading, Sees
  <2>5. pc[p] = "score" => chr[p] \in Scores
    BY DEF IInv, RequestInv, Fits
  <2>6. LoneRequest(p)'
    BY <2>1, <2>3, <2>4, <2>5 DEF LoneRequest, Resets, Ending
  <2> QED
    BY <1>1, <2>1, <2>2, <2>6, LoneQuiet
<1> QED
  BY <1>2, <1>3, <1>4, <1>5

\* A trampo or a fight is over: it invalidates the ranking, or did not raise the Moral.
LEMMA CommitPlayAlone ==
  ASSUME IInv, Lone, NEW p \in Proc, CommitPlay(p)
  PROVE  Lone'
<1> DEFINE m == pend[Me].sc
           tops == IF m = Top THEN hist.tops \cup {Latest} ELSE hist.tops
           paid == IF req[p] = "gig" THEN hist.paid + Payout ELSE hist.paid
           late == hist.outdated \/ (req[p] \in {"gig", "botched"} /\ m <= chr[p].sc)
<1>1. /\ pc[p] = "commit" /\ req[p] \in Played /\ Commit(p)
      /\ UNCHANGED <<day, stats, legends, board>>
      /\ hist' = [hist EXCEPT !.paid = paid, !.base = m, !.tops = tops, !.outdated = late]
      /\ IF Invalidates(p) THEN Goto(p, "invalidate") /\ UNCHANGED <<req, chr, wal, reset>> ELSE Forget(p)
  BY DEF CommitPlay, shared
<1>2. pend[Me] \in Scores /\ m \in 0 .. Top /\ hist \in Histories
  BY DEF IInv, Typed, Scores
<1>3. hist'.early = hist.early /\ hist'.zeroed = hist.zeroed /\ hist'.base = m /\ hist'.outdated = late
  <2> HIDE DEF m, tops, paid, late
  <2> QED
    BY <1>1, <1>2 DEF Histories
<1>4. \A r \in AllRows : db'[r] = IF owner[r] = p THEN pend[r] ELSE db[r]
  BY <1>1, CommitFacts
<1>5. db'[Active] = db[Active] /\ db'[Me] = pend[Me]
  <2>1. owner[Active] # p /\ owner[Me] = p
    BY <1>1, PlayersHoldNoRound DEF IInv, RequestInv, Locks, Played, Resets
  <2> QED
    BY <1>4, <2>1, RowsApart
<1>6. OwnStatistics' /\ Remembered'
  BY <1>1, <1>3, <1>5 DEF Lone, Records, OwnStatistics, Remembered
<1>7. late \/ Invalidates(p)
  <2> SUFFICES ASSUME ~Invalidates(p) PROVE late
    OBVIOUS
  <2>1. req[p] \in {"gig", "botched"} /\ ~(m > chr[p].sc)
    BY <1>1 DEF Invalidates, Played
  <2>2. chr[p] \in Scores
    BY <1>1, <2>1 DEF Lone, LoneRequest
  <2> QED
    BY <1>2, <2>1, <2>2, Constants DEF Scores
<1>8. CASE Invalidates(p)
  <2>1. pc'[p] = "invalidate" /\ req' = req /\ \A q \in Proc \ {p} : Unmoved(q)
    BY <1>1, <1>8 DEF Goto, Unmoved, IInv, Typed
  <2>2. Shown'
    BY <1>2, <1>3, <1>5, <2>1, Constants DEF Shown
  <2>3. LoneRequest(p)'
    BY <1>1, <2>1 DEF LoneRequest, Resets, Played, Ending
  <2> QED
    BY <1>1, <1>6, <2>1, <2>2, <2>3, LoneStep DEF Records
<1>9. CASE ~Invalidates(p)
  <2>1. pc'[p] = "idle" /\ req'[p] = "none" /\ \A q \in Proc \ {p} : Unmoved(q)
    BY <1>1, <1>9, ForgetFacts
  <2>2. Shown'
    <3>1. late /\ hist'.outdated = late
      BY <1>3, <1>7, <1>9
    <3>2. hist'.outdated
      <4> HIDE DEF late
      <4> QED
        BY <3>1
    <3>3. db'[Me].sc <= hist'.base
      BY <1>2, <1>3, <1>5, Constants
    <3> QED
      BY <3>2, <3>3 DEF Shown
  <2> QED
    BY <1>1, <1>6, <2>1, <2>2, NothingAsked, LoneStep DEF Records
<1> QED
  BY <1>8, <1>9

\* The ranking is invalidated, or cached from the Moral as it is.
LEMMA BoardAlone ==
  ASSUME IInv, Lone, NEW p \in Proc, InvalidateLeaderboardCache(p) \/ SetBoard(p)
  PROVE  Lone'
<1>1. /\ UNCHANGED <<db, day, stats, legends>> /\ hist' = [hist EXCEPT !.outdated = FALSE]
      /\ Forget(p) /\ pc[p] \in {"invalidate", "cache"}
  BY DEF InvalidateLeaderboardCache, SetBoard, rcVars
<1>2. /\ hist'.early = hist.early /\ hist'.zeroed = hist.zeroed /\ hist'.base = hist.base
      /\ hist \in Histories
  BY <1>1 DEF IInv, Typed, Histories
<1>3. CASE InvalidateLeaderboardCache(p)
  BY <1>1, <1>2, <1>3, ForgetAlone DEF InvalidateLeaderboardCache
<1>4. CASE SetBoard(p)
  <2>1. pc'[p] = "idle" /\ req'[p] = "none" /\ \A q \in Proc \ {p} : Unmoved(q)
    BY <1>1, ForgetFacts
  <2>2. chr[p] = db[Me] /\ board' = Effective(db[Me])
    BY <1>4 DEF SetBoard, Lone, LoneRequest
  <2>3. db[Me] \in Scores
    BY DEF IInv, Typed
  <2>4. Effective(db[Me]) \in 0 .. Top /\ Effective(db[Me]) <= db[Me].sc /\ db[Me].sc \in 0 .. Top
    BY <2>3, EffectiveTyped DEF Scores
  <2>5. Effective(db[Me])' = Effective(db[Me])
    BY <1>1 DEF Effective, calculateDecay, getThresholdFloor
  <2>6. db[Me].sc <= hist.base /\ hist.base \in Nat
    BY <1>2 DEF Lone, Records, Shown, Histories
  <2>7. Shown'
    BY <1>1, <1>2, <2>2, <2>4, <2>5, <2>6, Constants DEF Shown
  <2>8. OwnStatistics' /\ Remembered'
    BY <1>1, <1>2 DEF Lone, Records, OwnStatistics, Remembered
  <2> QED
    BY <1>1, <2>1, <2>7, <2>8, NothingAsked, LoneStep DEF Records
<1> QED
  BY <1>3, <1>4

\* The decayed Moral is written back.
LEMMA WriteBackAlone ==
  ASSUME IInv, Lone, NEW p \in Proc, WriteBack(p)
  PROVE  Lone'
<1> DEFINE c == db[Me]
           e == Effective(c)
           v == [c EXCEPT !.sc = e]
<1>1. /\ pc[p] = "writeback" /\ Forget(p) /\ UNCHANGED <<day, age, shared, hist>>
      /\ chr[p] = c /\ Sees(p, Me) = c
  <2>1. pc[p] = "writeback"
    BY DEF WriteBack
  <2>2. owner[Me] # p
    BY <2>1, ReadingHoldsNothing, RowsApart DEF Reading
  <2> QED
    BY <2>1, <2>2 DEF WriteBack, Lone, LoneRequest, Sees
<1>2. \/ e < c.sc /\ WriteNow(p, Me, v)
      \/ UNCHANGED rcVars
  BY <1>1 DEF WriteBack
<1>3. CASE UNCHANGED rcVars
  BY <1>1, <1>3, ForgetAlone DEF rcVars, shared
<1>4. CASE e < c.sc /\ WriteNow(p, Me, v)
  <2>1. c \in Scores /\ e \in 0 .. Top /\ e <= c.sc
    BY EffectiveTyped DEF IInv, Typed
  <2>2. v \in Scores /\ v.sc = e /\ v.at = c.at /\ v.max = c.max
    <3> HIDE DEF c, e
    <3> QED
      BY <2>1 DEF Scores
  <2>3. db'[Me] = v /\ db'[Active] = db[Active]
    <3> HIDE DEF v
    <3> QED
      BY <1>4, RowsApart DEF WriteNow, IInv, Typed
  <2>4. pc'[p] = "idle" /\ req'[p] = "none" /\ \A q \in Proc \ {p} : Unmoved(q)
    BY <1>1, ForgetFacts
  <2>5. IInv'
    BY WriteBackInv
  <2>6. Effective(db[Me])' \in 0 .. Top /\ Effective(db[Me])' <= e
    <3>1. /\ Effective(db[Me])' = calculateDecay(day - v.at, v.sc, v.max)
          /\ day - v.at \in Int /\ v.sc \in 0 .. Top /\ v.max \in 0 .. Top
      BY <1>1, <2>1, <2>2, <2>3 DEF Effective, calculateDecay, getThresholdFloor, Scores, IInv, Typed
    <3>2. /\ calculateDecay(day - v.at, v.sc, v.max) \in 0 .. Top
          /\ calculateDecay(day - v.at, v.sc, v.max) <= v.sc
      BY <3>1, DecayTyped
    <3> QED
      BY <2>2, <3>1, <3>2
  <2>7. OwnStatistics' /\ Remembered'
    BY <1>1, <2>3 DEF Lone, Records, OwnStatistics, Remembered, shared
  <2>8. Shown'
    <3>1. \A q \in Proc : pc[q] # "invalidate"
      BY <1>1 DEF Lone, Single
    <3>2. board' = board /\ hist' = hist /\ board \in {None} \cup 0 .. Top /\ hist.base \in Nat
      BY <1>1 DEF shared, IInv, Typed, Histories
    <3>3. c.sc <= hist.base /\ (board # None /\ ~hist.outdated => board >= e /\ board <= hist.base)
      BY <3>1 DEF Lone, Records, Shown
    <3>4. db'[Me].sc = e
      BY <2>2, <2>3
    <3>5. c.sc \in 0 .. Top
      BY <2>1 DEF Scores
    <3> HIDE DEF c, e, v
    <3> QED
      BY <2>1, <2>6, <3>2, <3>3, <3>4, <3>5, Constants DEF Shown, None
  <2> QED
    BY <1>1, <2>4, <2>7, <2>8, NothingAsked, LoneStep DEF Records
<1> QED
  BY <1>2, <1>3, <1>4

ResetStep(p) ==
  \/ CheckRound(p) \/ FindActive(p) \/ InsertRoundStats(p) \/ SeeActive(p) \/ EndCurrentRound(p)
  \/ InductLegends(p) \/ DetachCrews(p) \/ ZeroWallets(p) \/ ResetCharacters(p) \/ StartNextRound(p)

\* What a lone reset keeps from one statement to the next.
LEMMA ResetKnows ==
  ASSUME IInv, Lone, NEW p \in Proc, ResetStep(p), ~Reject(p)
  PROVE  /\ LoneRequest(p)' /\ pc[p] \notin {"idle", "invalidate"} /\ \A q \in Proc \ {p} : Unmoved(q)
         /\ UNCHANGED <<db, req, age, stats, day, board, hist, legends>>
<1>1. /\ UNCHANGED <<db, req, age, stats, day, board, hist, legends, chr>>
      /\ pc[p] \in {"check", "active", "stats", "end", "close", "legends", "detach", "zero", "base", "open"}
      /\ \A q \in Proc \ {p} : Unmoved(q)
  BY DEF ResetStep, CheckRound, FindActive, InsertRoundStats, SeeActive, EndCurrentRound, InductLegends, DetachCrews,
     ZeroWallets, ResetCharacters, StartNextRound, Proceed, Goto, rcVars, shared, Put, PutAll, ForUpdate, Unmoved,
     IInv, Typed
<1>2. /\ req[p] \in Resets /\ (pc[p] = "check" => req[p] = "cron") /\ reset[p] \in ResetNotes
      /\ db[Me] \in Scores
  BY <1>1 DEF IInv, Typed, RequestInv, Fits, Resets
<1>3. /\ pc[p] = "check" => pc'[p] = "active" /\ CheckRound(p)
      /\ pc[p] = "active" => pc'[p] = "stats"
      /\ pc[p] = "stats" => pc'[p] = "end"
      /\ pc[p] = "end" => pc'[p] = "close"
      /\ pc[p] = "close" => pc'[p] = "legends"
      /\ pc[p] = "legends" => pc'[p] = "detach"
      /\ pc[p] = "detach" => pc'[p] = "zero"
      /\ pc[p] = "zero" => pc'[p] = "base"
      /\ pc[p] = "base" => pc'[p] = "open"
      /\ pc[p] = "open" => pc'[p] = "commit"
  BY DEF ResetStep, CheckRound, FindActive, InsertRoundStats, SeeActive, EndCurrentRound, InductLegends, DetachCrews,
     ZeroWallets, ResetCharacters, StartNextRound, Proceed, Goto, IInv, Typed
<1>4. /\ pc[p] = "stats" => reset'[p] = [reset[p] EXCEPT !.stats = AnyActive(p)]
      /\ pc[p] = "end" => reset'[p] = [reset[p] EXCEPT !.seen = AnyActive(p)]
      /\ pc[p] = "close" => \/ reset'[p] = [reset[p] EXCEPT !.closed = reset[p].seen]
                            \/ reset'[p] = reset[p]
      /\ pc[p] = "legends" => reset'[p] = [reset[p] EXCEPT !.inducted = (Sees(p, Me).sc = Top)]
      /\ pc[p] = "base" => reset'[p] = [reset[p] EXCEPT !.top = (Sees(p, Me).sc = Top)]
      /\ pc[p] \in {"check", "active", "detach", "zero", "open"} => reset'[p] = reset[p]
  BY DEF ResetStep, CheckRound, FindActive, InsertRoundStats, SeeActive, EndCurrentRound, InductLegends, DetachCrews,
     ZeroWallets, ResetCharacters, StartNextRound, Proceed, Candidate, IInv, Typed
<1>5. /\ pc[p] \in {"check", "stats"} => ActiveRounds(p) = {db[Active]} /\ AnyActive(p) = db[Active]
      /\ db[Active] \in Rounds
  BY ActiveSeen DEF Reading, IInv, Typed
<1>6. req[p] = "cron" => age'[db'[Active]] = "over"
  <2>1. pc[p] = "check" => age[db[Active]] = "over"
    BY <1>3, <1>5 DEF CheckRound, Over
  <2> QED
    BY <1>1, <2>1 DEF Lone, LoneRequest
<1>7. pc'[p] \in {"end", "close"} \cup Ending => reset'[p].stats = db'[Active]
  <2>1. pc[p] \in {"end", "close"} \cup Ending => reset[p].stats = db[Active]
    BY <1>2 DEF Lone, LoneRequest
  <2>2. pc[p] = "stats" => reset'[p].stats = db[Active]
    BY <1>2, <1>4, <1>5 DEF ResetNotes
  <2>3. pc[p] # "stats" => reset'[p].stats = reset[p].stats
    BY <1>1, <1>2, <1>4 DEF ResetNotes
  <2> QED
    BY <1>1, <1>3, <2>1, <2>2, <2>3 DEF Ending
<1>8. /\ pc[p] = "legends" => Sees(p, Me) = db[Me]
      /\ pc[p] = "detach" => Sees(p, Me) = db[Me]
      /\ pc[p] = "base" => Sees(p, Me) = db[Me]
  <2>1. pc[p] \in {"legends", "detach"} => owner[Me] # p
    BY <1>2 DEF IInv, RequestInv, Locks, Locked
  <2>2. pc[p] = "base" => pend[Me] = db[Me]
    BY DEF Lone, LoneRequest
  <2> QED
    BY <2>1, <2>2 DEF Sees
<1>9. pc'[p] \in {"detach", "zero", "base"} => (reset'[p].inducted <=> db'[Me].sc = Top)
  <2>1. pc[p] \in {"detach", "zero"} => (reset[p].inducted <=> db[Me].sc = Top) /\ reset'[p] = reset[p]
    BY <1>4 DEF Lone, LoneRequest
  <2>2. pc[p] = "legends" => (reset'[p].inducted <=> db[Me].sc = Top)
    BY <1>2, <1>4, <1>8 DEF ResetNotes
  <2> QED
    BY <1>1, <1>3, <2>1, <2>2
<1>10. pc'[p] \in {"zero", "base"} => pend'[Me] = db'[Me]
  <2>1. pc[p] = "detach" => ForUpdate(p, Me)
    BY DEF ResetStep, CheckRound, FindActive, InsertRoundStats, SeeActive, EndCurrentRound, InductLegends, DetachCrews,
       ZeroWallets, ResetCharacters, StartNextRound, Proceed
  <2>2. pc[p] = "detach" => pend'[Me] = db[Me]
    BY <1>8, <2>1, PutFacts, RowsApart DEF ForUpdate
  <2>3. pc[p] = "zero" => Put(p, Wallet, Zeroed(Sees(p, Wallet)))
    BY DEF ResetStep, CheckRound, FindActive, InsertRoundStats, SeeActive, EndCurrentRound, InductLegends, DetachCrews,
       ZeroWallets, ResetCharacters, StartNextRound, Proceed
  <2>4. pc[p] = "zero" => pend'[Me] = pend[Me] /\ pend[Me] = db[Me]
    BY <2>3, PutFacts, RowsApart DEF Lone, LoneRequest
  <2> QED
    BY <1>1, <1>3, <2>2, <2>4
<1>11. pc'[p] \in {"open", "commit"} => (reset'[p].inducted <=> reset'[p].top)
  <2>1. pc[p] = "base" => reset[p].inducted <=> db[Me].sc = Top
    BY DEF Lone, LoneRequest
  <2>2. pc[p] = "base" => (reset'[p].inducted <=> reset[p].inducted) /\ (reset'[p].top <=> db[Me].sc = Top)
    BY <1>2, <1>4, <1>8 DEF ResetNotes
  <2>3. pc[p] = "open" => (reset[p].inducted <=> reset[p].top) /\ reset'[p] = reset[p]
    BY <1>2, <1>4 DEF Lone, LoneRequest
  <2> QED
    BY <1>1, <1>3, <2>1, <2>2, <2>3
<1>12. pc'[p] \notin {"writeback", "cache"} /\ req'[p] = req[p] /\ req[p] \notin {"gig", "botched"}
  BY <1>1, <1>2, <1>3 DEF Resets
<1>13. LoneRequest(p)'
  BY <1>6, <1>7, <1>9, <1>10, <1>11, <1>12 DEF LoneRequest
<1> QED
  BY <1>1, <1>13

\* A lone reset commits: its statistics are of the round it ended, which was over
\* if the cron asked for it, and it inducted the legend whose Moral it took.
LEMMA CommitResetAlone ==
  ASSUME IInv, Lone, NEW p \in Proc, CommitReset(p)
  PROVE  Lone'
<1> DEFINE L == db[Active]
           row == [id |-> Cardinality(stats) + 1, round |-> reset[p].stats]
           unnamed == IF reset[p].inducted THEN legends.unnamed + 1 ELSE legends.unnamed
           zeroed == IF reset[p].top THEN hist.zeroed \cup {reset[p].closed} ELSE hist.zeroed
           early == IF req[p] = "cron" /\ (reset[p].closed = 0 \/ age[reset[p].closed] # "over")
                    THEN hist.early \cup {reset[p].closed} ELSE hist.early
<1>1. /\ pc[p] = "commit" /\ req[p] \in Resets /\ Commit(p) /\ Forget(p)
      /\ stats' = stats \cup {row}
      /\ legends' = [legends EXCEPT !.unnamed = unnamed]
      /\ hist' = [hist EXCEPT !.paid = 0, !.base = 0, !.zeroed = zeroed, !.early = early, !.outdated = TRUE]
      /\ UNCHANGED <<day, age, board>>
  BY DEF CommitReset
<1>2. /\ reset[p].closed = L /\ L \in Nat /\ L >= 1 /\ L # 0
      /\ owner[Active] = p /\ pend[Active] = L + 1 /\ pend[Me].sc = 0 /\ owner[Me] = p
  BY <1>1 DEF IInv, Typed, RequestInv, Closing, Locks, Locked, Moved, Rounds
<1>3. db'[Active] = L + 1 /\ db'[Me].sc = 0
  <2>1. \A r \in AllRows : db'[r] = IF owner[r] = p THEN pend[r] ELSE db[r]
    BY <1>1, CommitFacts
  <2> QED
    BY <1>2, <2>1, RowsApart
<1>4. /\ reset[p].stats = L /\ (reset[p].inducted <=> reset[p].top)
      /\ req[p] = "cron" => age[L] = "over"
  BY <1>1 DEF Lone, LoneRequest, Ending
<1>5. hist'.base = 0 /\ hist'.zeroed = zeroed /\ hist'.early = early /\ hist'.outdated = TRUE
  <2>1. hist \in Histories
    BY DEF IInv, Typed
  <2> HIDE DEF zeroed, early
  <2> QED
    BY <1>1, <2>1 DEF Histories
<1>6. row = Stat(L)
  <2>1. Cardinality(stats) = L - 1
    BY DEF IInv, Books, Counted
  <2> QED
    BY <1>2, <1>4, <2>1 DEF Stat
<1>7. OwnStatistics'
  <2>1. stats = {Stat(n) : n \in 1 .. L - 1}
    BY DEF Lone, Records, OwnStatistics
  <2>2. 1 .. (L + 1) - 1 = (1 .. L - 1) \cup {L}
    BY <1>2
  <2>3. stats' = {Stat(n) : n \in (1 .. L - 1) \cup {L}}
    <3> HIDE DEF row, L
    <3> QED
      BY <1>1, <1>6, <2>1, Zenon
  <2> QED
    BY <1>3, <2>2, <2>3 DEF OwnStatistics
<1>8. Remembered'
  <2>1. early = {}
    BY <1>2, <1>4 DEF Lone, Records, Remembered
  <2>2. /\ hist.zeroed \subseteq 1 .. L - 1
        /\ legends.unnamed + legends.named = Cardinality(hist.zeroed)
    BY DEF Lone, Records, Remembered
  <2>3. zeroed \subseteq 1 .. (L + 1) - 1
    BY <1>2, <2>2
  <2>4. IsFiniteSet(hist.zeroed)
    <3>1. 1 \in Int /\ L - 1 \in Int
      BY <1>2
    <3>2. IsFiniteSet(1 .. L - 1)
      <4>1. \A a, b \in Int : IsFiniteSet(a .. b)
        BY FS_Interval
      <4> QED
        BY <3>1, <4>1
    <3> QED
      BY <2>2, <3>2, FS_Subset
  <2>5. L \notin hist.zeroed
    BY <1>2, <2>2
  <2>6. Cardinality(hist.zeroed \cup {L}) = Cardinality(hist.zeroed) + 1
    BY <2>4, <2>5, FS_AddElement
  <2>7. legends \in [unnamed : Nat, named : Nat]
    BY DEF IInv, Typed
  <2>8. legends'.unnamed = unnamed /\ legends'.named = legends.named
    BY <1>1, <2>7
  <2>9. legends'.unnamed + legends'.named = Cardinality(zeroed)
    BY <1>2, <1>4, <2>2, <2>6, <2>7, <2>8
  <2> QED
    BY <1>3, <1>5, <2>1, <2>3, <2>9 DEF Remembered
<1>9. Shown'
  BY <1>3, <1>5 DEF Shown
<1>10. pc'[p] = "idle" /\ req'[p] = "none" /\ \A q \in Proc \ {p} : Unmoved(q)
  BY <1>1, ForgetFacts
<1> QED
  BY <1>1, <1>7, <1>8, <1>9, <1>10, NothingAsked, LoneStep DEF Records

LEMMA StepAlone ==
  ASSUME IInv, Lone, NEW p \in Proc, Step(p)
  PROVE  Lone'
<1>1. CASE \/ Read(p) \/ ReadWallet(p) \/ Pay(p) \/ Score(p) \/ Fight(p)
           \/ GetBoard(p) \/ ListLeaderboardRows(p) \/ NameDrink(p)
  BY <1>1, PlayAlone
<1>2. CASE CommitPlay(p) \/ InvalidateLeaderboardCache(p) \/ SetBoard(p) \/ WriteBack(p) \/ CommitReset(p)
  BY <1>2, CommitPlayAlone, BoardAlone, WriteBackAlone, CommitResetAlone
<1>3. CASE ResetStep(p)
  <2>1. CASE Reject(p)
    <3>1. pc[p] \notin {"idle", "invalidate"}
      BY <1>3 DEF ResetStep, CheckRound, FindActive, InsertRoundStats, SeeActive, EndCurrentRound, InductLegends,
         DetachCrews, ZeroWallets, ResetCharacters, StartNextRound, Proceed
    <3> QED
      BY <2>1, <3>1, RejectAlone
  <2>2. CASE ~Reject(p)
    <3>1. /\ LoneRequest(p)' /\ pc[p] \notin {"idle", "invalidate"} /\ \A q \in Proc \ {p} : Unmoved(q)
          /\ UNCHANGED <<db, req, age, stats, day, board, hist, legends>>
      BY <1>3, <2>2, ResetKnows
    <3> QED
      BY <3>1, LoneQuiet
  <2> QED
    BY <2>1, <2>2
<1>4. CASE DetectDeadlock(p)
  <2>1. Reject(p) /\ pc[p] \notin {"idle", "invalidate"}
    BY <1>4 DEF DetectDeadlock, Needs
  <2> QED
    BY <2>1, RejectAlone
<1> QED
  BY <1>1, <1>2, <1>3, <1>4 DEF Step, ResetStep

LEMMA StartAlone ==
  ASSUME IInv, Lone, NEW p \in Proc, Start(p), NobodyElse(p)
  PROVE  Lone'
<1>1. PICK kind \in Kinds : /\ req' = [req EXCEPT ![p] = kind]
                            /\ Goto(p, CASE kind = "cron" -> "check"
                                         [] kind = "admin" -> "active"
                                         [] kind \in {"won", "lost"} -> "fight"
                                         [] kind = "ranking" -> "cached"
                                         [] kind = "drink" -> "name"
                                         [] OTHER -> "read")
  BY DEF Start
<1>2. /\ UNCHANGED <<db, day, age, stats, legends, board>> /\ pc[p] = "idle"
      /\ hist' = [hist EXCEPT !.alone = @ /\ NobodyElse(p)]
  BY DEF Start, rcVars, shared
<1>3. /\ kind = "cron" => pc'[p] = "check"
      /\ pc'[p] \in {"check", "active", "fight", "cached", "name", "read"}
      /\ req'[p] = kind
      /\ \A q \in Proc \ {p} : pc'[q] = pc[q] /\ req'[q] = req[q]
  BY <1>1 DEF Goto, IInv, Typed, Kinds, Resets
<1>4. \A q \in Proc \ {p} : pc[q] = "idle" /\ req[q] = "none"
  BY DEF NobodyElse, IInv, RequestInv, Fits
<1>5. /\ hist'.early = hist.early /\ hist'.zeroed = hist.zeroed /\ hist'.base = hist.base
      /\ hist'.outdated = hist.outdated
  BY <1>2 DEF IInv, Typed, Histories
<1>6. \A q \in Proc : pc[q] # "invalidate"
  BY <1>2, <1>4
<1>7. day' \in Nat /\ day' >= day
  BY <1>2 DEF IInv, Typed
<1>8. Records'
  BY <1>2, <1>5, <1>6, <1>7, RecordsSame DEF Lone
<1>9. Single'
  BY <1>3, <1>4 DEF Single
<1>10. LoneRequest(p)'
  BY <1>3 DEF LoneRequest, Ending
<1>11. \A q \in Proc : LoneRequest(q)'
  BY <1>3, <1>4, <1>10, NothingAsked
<1> QED
  BY <1>8, <1>9, <1>11 DEF Lone

\* The clock goes on, a round ages, the cached ranking expires.
LEMMA PassingAlone ==
  ASSUME IInv, Lone, NextDay \/ ExpireBoard \/ UNCHANGED vars \/ \E n \in Rounds : AgeRound(n)
  PROVE  Lone'
<1>1. /\ UNCHANGED <<db, pend, pc, req, chr, reset, stats, legends>> /\ day' \in Nat /\ day' >= day
      /\ hist'.early = hist.early /\ hist'.zeroed = hist.zeroed /\ hist'.base = hist.base
      /\ board' = None \/ (board' = board /\ hist'.outdated = hist.outdated)
  BY DEF NextDay, ExpireBoard, AgeRound, vars, rcVars, shared, local, IInv, Typed, Histories
<1>2. \A n \in Rounds : age[n] = "over" => age'[n] = "over"
  BY DEF NextDay, ExpireBoard, AgeRound, vars, IInv, Typed
<1>3. \A q \in Proc : LoneRequest(q)'
  <2>1. db[Active] \in Rounds
    BY DEF IInv, Typed
  <2> QED
    BY <1>1, <1>2, <2>1 DEF Lone, LoneRequest
<1>4. Single'
  BY <1>1 DEF Lone, Single
<1>5. Records'
  <2>1. \/ board' = None
        \/ hist'.outdated
        \/ \E q \in Proc : pc'[q] = "invalidate"
        \/ /\ board' = board /\ hist'.outdated = hist.outdated
           /\ \A q \in Proc : pc[q] # "invalidate"
    BY <1>1
  <2> QED
    BY <1>1, <2>1, RecordsSame DEF Lone
<1> QED
  BY <1>3, <1>4, <1>5 DEF Lone

LEMMA LoneNextInv ==
  ASSUME IInv, LoneInv, [Next]_vars
  PROVE  LoneInv'
<1> SUFFICES ASSUME hist'.alone PROVE Lone'
  BY DEF LoneInv
<1>h. hist \in Histories
  BY DEF IInv, Typed
<1>1. ASSUME NEW p \in Proc, Start(p) PROVE Lone'
  <2>1. hist' = [hist EXCEPT !.alone = @ /\ NobodyElse(p)]
    BY <1>1 DEF Start
  <2>2. hist.alone /\ NobodyElse(p)
    BY <1>h, <2>1 DEF Histories
  <2> QED
    BY <1>1, <2>2, StartAlone DEF LoneInv
<1>2. ASSUME ~\E p \in Proc : Start(p) PROVE hist'.alone = hist.alone
  <2>1. CASE hist' = hist
    BY <2>1
  <2>2. CASE \E p \in Proc : CommitPlay(p) \/ CommitReset(p)
    <3>1. PICK p \in Proc : CommitPlay(p) \/ CommitReset(p)
      BY <2>2
    <3> DEFINE m == pend[Me].sc
               tops == IF m = Top THEN hist.tops \cup {Latest} ELSE hist.tops
               paid == IF req[p] = "gig" THEN hist.paid + Payout ELSE hist.paid
               late == hist.outdated \/ (req[p] \in {"gig", "botched"} /\ m <= chr[p].sc)
               n == reset[p].closed
               zeroed == IF reset[p].top THEN hist.zeroed \cup {n} ELSE hist.zeroed
               early == IF req[p] = "cron" /\ (n = 0 \/ age[n] # "over") THEN hist.early \cup {n} ELSE hist.early
    <3>2. \/ hist' = [hist EXCEPT !.paid = paid, !.base = m, !.tops = tops, !.outdated = late]
          \/ hist' = [hist EXCEPT !.paid = 0, !.base = 0, !.zeroed = zeroed, !.early = early, !.outdated = TRUE]
      BY <3>1 DEF CommitPlay, CommitReset
    <3> HIDE DEF m, tops, paid, late, zeroed, early
    <3> QED
      BY <1>h, <3>2 DEF Histories
  <2>3. CASE ExpireBoard \/ \E p \in Proc : InvalidateLeaderboardCache(p) \/ SetBoard(p) \/ Lost(p)
    <3>1. \/ hist' = [hist EXCEPT !.outdated = FALSE]
          \/ \E p \in Proc : hist' = [hist EXCEPT !.outdated = @ \/ pc[p] = "invalidate"]
      BY <2>3 DEF ExpireBoard, InvalidateLeaderboardCache, SetBoard, Lost
    <3> QED
      BY <1>h, <3>1 DEF Histories
  <2>4. CASE NextDay \/ UNCHANGED vars \/ \E n \in Rounds : AgeRound(n)
    BY <2>4 DEF NextDay, AgeRound, vars
  <2>5. ASSUME NEW p \in Proc, Step(p), ~CommitPlay(p), ~CommitReset(p), ~InvalidateLeaderboardCache(p), ~SetBoard(p)
        PROVE  hist' = hist
    <3>1. CASE Reject(p)
      BY <3>1 DEF Reject
    <3>2. CASE ResetStep(p) /\ ~Reject(p)
      BY <3>2 DEF ResetStep, CheckRound, FindActive, InsertRoundStats, SeeActive, EndCurrentRound, InductLegends,
         DetachCrews, ZeroWallets, ResetCharacters, StartNextRound, Proceed
    <3>3. CASE ~ResetStep(p) /\ ~Reject(p)
      BY <2>5, <3>3 DEF Step, ResetStep, Read, ReadWallet, Pay, Score, Fight, WriteBack, GetBoard,
         ListLeaderboardRows, NameDrink, DetectDeadlock, Proceed
    <3> QED
      BY <3>1, <3>2, <3>3
  <2> QED
    BY <1>2, <2>1, <2>2, <2>3, <2>4, <2>5 DEF Next
<1>3. CASE \E p \in Proc : Start(p)
  BY <1>1, <1>3
<1>4. CASE ~\E p \in Proc : Start(p)
  <2>1. Lone
    BY <1>2, <1>4 DEF LoneInv
  <2> QED
    BY <1>4, <2>1, StepAlone, LostAlone, PassingAlone DEF Next
<1> QED
  BY <1>3, <1>4

LEMMA LoneMeans == IInv /\ LoneInv => SoloRecords
<1> SUFFICES ASSUME IInv, Lone PROVE HistoryComplete /\ BoardFresh
  BY DEF LoneInv, SoloRecords
<1> DEFINE L == db[Active]
<1>1. L \in Nat /\ L >= 1 /\ Latest = L
  BY LatestIsActive, Constants DEF IInv, Typed, Books, Rounds
<1>2. ASSUME NEW n \in Rounds
      PROVE  Cardinality({s \in stats : s.round = n}) = IF n < L THEN 1 ELSE 0
  <2>1. stats = {Stat(m) : m \in 1 .. L - 1}
    BY DEF Lone, Records, OwnStatistics
  <2>2. n \in Nat /\ n >= 1
    BY Constants DEF Rounds
  <2>3. CASE n < L
    <3>1. {s \in stats : s.round = n} = {Stat(n)}
      BY <1>1, <2>1, <2>2, <2>3 DEF Stat
    <3> QED
      BY <2>3, <3>1, FS_Singleton
  <2>4. CASE ~(n < L)
    <3>1. {s \in stats : s.round = n} = {}
      BY <1>1, <2>1, <2>2, <2>4 DEF Stat
    <3> QED
      BY <2>4, <3>1, FS_EmptySet
  <2> QED
    BY <2>3, <2>4
<1>3. HistoryComplete
  BY <1>1, <1>2 DEF HistoryComplete, Lone, Records, Remembered
<1>4. ASSUME Open(Played) = {} PROVE \A p \in Proc : pc[p] # "invalidate"
  BY <1>4 DEF Open, IInv, RequestInv, Fits
<1>5. BoardFresh
  BY <1>4 DEF BoardFresh, Lone, Records, Shown
<1> QED
  BY <1>3, <1>5

\* While no two requests have overlapped, every round that ended left its own statistics,
\* the cron ended none before its time (checkAndReset), every legend was inducted before
\* its Moral was taken (inductLegends), and the cached ranking shows no less than what the
\* decay leaves of the Moral and no more than the last trampo, fight or reset made of it
\* (invalidateLeaderboardCache), connections lost at any point included: SoloRecords.
THEOREM SoloRecordsHold == Spec => []SoloRecords
<1>1. Init => LoneInv
  BY LoneInitInv
<1>2. IInv /\ LoneInv /\ [Next]_vars => LoneInv'
  BY LoneNextInv
<1>3. IInv /\ LoneInv => SoloRecords
  BY LoneMeans
<1> QED
  BY <1>1, <1>2, <1>3, Inductive, PTL DEF Spec
=============================================================================
