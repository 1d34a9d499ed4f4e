---------------------------- MODULE VitalsProofs ----------------------------
(* The NIL, the role ability and the operating system of a character, for any  *)
(* parameters of the game and any number of concurrent requests: every value   *)
(* keeps its range, no NIL of one interval is spent twice, and no day has more *)
(* activations of the operating system than charges.                           *)
EXTENDS Vitals, TLAPS

-----------------------------------------------------------------------------
(* The inductive invariant.                                                    *)

Characters == [role : Role, nil : 0 .. MaxNil, at : Times, active : Int, cooldown : Int, os : BOOLEAN,
               flat : BOOLEAN, osUntil : Int, osUses : 0 .. OsUses, osDate : Int]

Statements == {"idle", "read", "issue", "spend", "restore", "lock", "activate", "bonus", "consume", "commit"}
Reading == {"issue", "spend", "restore", "activate", "bonus", "consume"}
Days == 0 .. MaxNow \div Day

RowTyped ==
  /\ DOMAIN db = {Me} /\ DOMAIN pend = {Me} /\ DOMAIN owner = {Me}
  /\ db[Me] \in Characters /\ pend[Me] \in Characters
  /\ owner[Me] \in Proc \cup {NoProc}

LocalsTyped ==
  /\ pc \in [Proc -> Statements]
  /\ req \in [Proc -> Requests \cup {NoRequest}]
  /\ stamp \in [Proc -> Times] /\ DOMAIN chr = Proc

Answers == [spent : Int, added : Int, bought : BOOLEAN, effect : Int, alone : BOOLEAN, charges : [Days -> Nat]]

Typed == RowTyped /\ LocalsTyped /\ now \in Times /\ hist \in Answers

\* The statements of each kind of request.
Fits(p) ==
  /\ pc[p] = "idle" <=> req[p] = NoRequest
  /\ req[p].op = "consume" => pc[p] \in {"read", "issue", "spend"}
  /\ req[p].op = "accept" => pc[p] \in {"read", "issue", "spend", "commit"}
  /\ req[p].op = "stim" => pc[p] \in {"read", "issue", "restore"}
  /\ req[p].op = "buy" => pc[p] \in {"read", "issue", "restore", "commit"}
  /\ req[p].op = "activate" => pc[p] \in {"read", "issue", "activate"}
  /\ req[p].op = "use" => pc[p] \in {"read", "bonus", "consume", "commit"}
  /\ req[p].op \in {"attack", "os"} => pc[p] \in {"lock", "commit"}

Early(t) == t < Interval

\* The charges that row c counts on day d.
Counted(c, d) == IF c.osDate # None /\ c.osDate \div Day = d THEN c.osUses ELSE 0

\* A request goes by a character it read and a clock that has not run back.  It holds the
\* row from its write to its COMMIT, and there the row has what it paid (a NIL of the
\* first interval stays spent) and the one charge it used.
RequestInv(p) ==
  /\ Fits(p)
  /\ pc[p] \in Reading \/ (req[p].op = "buy" /\ pc[p] = "commit") => chr[p] \in Characters
  /\ stamp[p] <= now
  /\ owner[Me] = p <=> pc[p] = "commit"
  /\ pc[p] = "commit" =>
       /\ req[p].op = "accept" /\ Early(stamp[p]) => pend[Me].nil + req[p].amount <= db[Me].nil
       /\ req[p].op = "attack" => pend[Me].nil + AttackCost <= db[Me].nil
       /\ req[p].op \in {"use", "os"} => pend[Me].nil = db[Me].nil
       /\ req[p].op # "os" => pend[Me].osUses = db[Me].osUses /\ pend[Me].osDate = db[Me].osDate
       /\ req[p].op = "os" =>
            /\ pend[Me].osDate # None /\ pend[Me].osDate \div Day = stamp[p] \div Day
            /\ pend[Me].osUses = Counted(db[Me], stamp[p] \div Day) + 1
            /\ db[Me].osDate # None => db[Me].osDate \div Day <= stamp[p] \div Day

\* The NIL of the first interval is what the answers say.
NilBalanced == Early(now) /\ ~hist.bought => db[Me].nil <= InitNil + hist.added - hist.spent

\* The row counts the activations of its latest day, and there are none on a later one.
ChargesCounted ==
  /\ \A d \in Days : hist.charges[d] <= OsUses
  /\ \A d \in Days : hist.charges[d] # 0 => db[Me].osDate # None /\ d <= db[Me].osDate \div Day
  /\ \A d \in Days : db[Me].osDate # None /\ db[Me].osDate \div Day = d => hist.charges[d] = db[Me].osUses
  /\ db[Me].osDate # None => db[Me].osDate \div Day <= now \div Day

IInv ==
  /\ Typed /\ PendingIsOwned /\ NilBalanced /\ ChargesCounted
  /\ \A p \in Proc : RequestInv(p)
-----------------------------------------------------------------------------
\* Arithmetic.

LEMMA MinOfTwo ==
  \A a, b \in Int : Min({a, b}) \in {a, b} /\ Min({a, b}) <= a /\ Min({a, b}) <= b
<1> TAKE a, b \in Int
<1>1. \E x \in {a, b} : \A y \in {a, b} : x =< y
  <2>1. CASE a <= b
    BY <2>1
  <2>2. CASE ~(a <= b)
    BY <2>2
  <2> QED
    BY <2>1, <2>2
<1>2. Min({a, b}) \in {a, b} /\ \A y \in {a, b} : Min({a, b}) =< y
  BY <1>1 DEF Min
<1> QED
  BY <1>2

\* Ticks and days.
LEMMA Whole ==
  ASSUME NEW n \in Nat, NEW d \in Nat \ {0}
  PROVE  n \div d \in Nat /\ (n < d => n \div d = 0)
  OBVIOUS

LEMMA DayOrder ==
  ASSUME NEW m \in Nat, NEW n \in Nat, NEW d \in Nat \ {0}, m <= n
  PROVE  m \div d <= n \div d
  OBVIOUS

LEMMA DayOfMidnight ==
  ASSUME NEW n \in Nat, NEW d \in Nat \ {0}
  PROVE  (n * d) \div d = n /\ n * d \in Nat
  OBVIOUS
-----------------------------------------------------------------------------
\* Requests and characters.

LEMMA Asking ==
  ASSUME VitalsAssumption, LocalsTyped, NEW p \in Proc
  PROVE  /\ req[p].op \in {"none", "consume", "accept", "stim", "buy", "attack", "activate", "use", "os"}
         /\ req[p] = NoRequest <=> req[p].op = "none"
         /\ req[p].op \in {"consume", "accept"} => req[p].amount \in Nat \ {0}
<1>1. req[p] \in Requests \cup {NoRequest} /\ Amounts \subseteq Nat \ {0}
  BY DEF LocalsTyped, VitalsAssumption
<1>2. CASE req[p] \in [op : {"consume", "accept"}, amount : Amounts]
  <2>1. req[p].op \in {"consume", "accept"} /\ req[p].amount \in Nat \ {0}
    BY <1>1, <1>2
  <2>2. NoRequest.op = "none"
    BY DEF NoRequest
  <2> QED
    BY <2>1, <2>2
<1>3. CASE req[p] \in [op : {"stim", "buy", "attack", "activate", "use", "os"}]
  <2>1. req[p].op \in {"stim", "buy", "attack", "activate", "use", "os"}
    BY <1>3
  <2>2. NoRequest.op = "none"
    BY DEF NoRequest
  <2> QED
    BY <2>1, <2>2
<1>4. CASE req[p] = NoRequest
  BY <1>4 DEF NoRequest
<1> QED
  BY <1>1, <1>2, <1>3, <1>4 DEF Requests

\* A row without a request keeps its values, one with it finds its own.
LEMMA SeesTyped ==
  ASSUME RowTyped, NEW p
  PROVE  Sees(p, Me) \in Characters /\ (owner[Me] # p => Sees(p, Me) = db[Me])
  BY DEF RowTyped, Sees

LEMMA RegenTyped ==
  ASSUME VitalsAssumption, NEW c \in Characters, NEW t \in Times
  PROVE  /\ RegenOffset(c, t) \in Nat /\ (Early(t) => RegenOffset(c, t) = 0)
         /\ calculateRegen(c, t) \in 0 .. MaxNil /\ (Early(t) => calculateRegen(c, t) = c.nil)
<1>1. c.nil \in 0 .. MaxNil /\ c.at \in Nat /\ t \in Nat /\ Interval \in Nat \ {0} /\ MaxNil \in Nat
  BY DEF Characters, Times, VitalsAssumption
<1>2. RegenOffset(c, t) \in Nat /\ (Early(t) => RegenOffset(c, t) = 0)
  <2>1. CASE t > c.at
    <3>1. t - c.at \in Nat /\ (t < Interval => t - c.at < Interval)
      BY <1>1, <2>1
    <3>2. (t - c.at) \div Interval \in Nat /\ (t - c.at < Interval => (t - c.at) \div Interval = 0)
      BY <1>1, <3>1, Whole
    <3> QED
      BY <2>1, <3>1, <3>2 DEF RegenOffset, Early
  <2>2. CASE ~(t > c.at)
    BY <2>2 DEF RegenOffset
  <2> QED
    BY <2>1, <2>2
<1> DEFINE n == c.nil + RegenOffset(c, t)
<1>3. n \in Nat /\ (Early(t) => n = c.nil) /\ n >= 0
  BY <1>1, <1>2
<1>4. calculateRegen(c, t) = Min({MaxNil, n})
  BY DEF calculateRegen
<1> HIDE DEF n
<1>5. Min({MaxNil, n}) \in {MaxNil, n} /\ Min({MaxNil, n}) <= MaxNil /\ Min({MaxNil, n}) <= n
  <2>1. MaxNil \in Int /\ n \in Int
    BY <1>1, <1>3
  <2> QED
    BY <2>1, MinOfTwo, Zenon
<1> QED
  BY <1>1, <1>2, <1>3, <1>4, <1>5

\* What a spend finds, and what a Pingado makes of it.
LEMMA RegenedTyped ==
  ASSUME VitalsAssumption, RowTyped, NEW p \in Proc, chr[p] \in Characters, stamp[p] \in Times
  PROVE  /\ Regened(p) \in 0 .. MaxNil /\ (Early(stamp[p]) => Regened(p) <= Sees(p, Me).nil)
         /\ Restored(p) \in 0 .. MaxNil /\ Added(p) \in Int
         /\ Early(stamp[p]) => Added(p) = Restored(p) - chr[p].nil
<1>1. Sees(p, Me).nil \in 0 .. MaxNil /\ MaxNil \in Nat /\ StimNil \in Nat
  BY SeesTyped DEF Characters, VitalsAssumption
<1>2. /\ RegenOffset(chr[p], stamp[p]) \in Nat /\ (Early(stamp[p]) => RegenOffset(chr[p], stamp[p]) = 0)
      /\ calculateRegen(chr[p], stamp[p]) \in 0 .. MaxNil
      /\ Early(stamp[p]) => calculateRegen(chr[p], stamp[p]) = chr[p].nil
  BY RegenTyped
<1> DEFINE n == Sees(p, Me).nil + RegenOffset(chr[p], stamp[p])
           k == calculateRegen(chr[p], stamp[p]) + StimNil
<1>3. n \in Nat /\ (Early(stamp[p]) => n = Sees(p, Me).nil) /\ k \in Nat
  BY <1>1, <1>2
<1>4. Regened(p) = Min({MaxNil, n}) /\ Restored(p) = Min({MaxNil, k})
  BY DEF Regened, Restored
<1> HIDE DEF n, k
<1>5. /\ Min({MaxNil, n}) \in {MaxNil, n} /\ Min({MaxNil, n}) <= MaxNil /\ Min({MaxNil, n}) <= n
      /\ Min({MaxNil, k}) \in {MaxNil, k} /\ Min({MaxNil, k}) <= MaxNil
  <2>1. MaxNil \in Int /\ n \in Int /\ k \in Int
    BY <1>1, <1>3
  <2> QED
    BY <2>1, MinOfTwo, Zenon
<1>6. Added(p) = Restored(p) - calculateRegen(chr[p], stamp[p])
  BY DEF Added
<1>7. Regened(p) \in 0 .. MaxNil /\ Restored(p) \in 0 .. MaxNil
  BY <1>1, <1>3, <1>4, <1>5
<1> QED
  BY <1>1, <1>2, <1>3, <1>4, <1>5, <1>6, <1>7

\* A write of the NIL leaves the charges alone.
LEMMA WithNilTyped ==
  ASSUME RowTyped, NEW p \in Proc, stamp[p] \in Times, NEW n \in 0 .. MaxNil
  PROVE  /\ WithNil(p, n) \in Characters /\ WithNil(p, n).nil = n
         /\ WithNil(p, n).osUses = Sees(p, Me).osUses /\ WithNil(p, n).osDate = Sees(p, Me).osDate
<1>1. Sees(p, Me) \in Characters
  BY SeesTyped
<1> QED
  BY <1>1 DEF WithNil, Characters

\* And so does one of the ability, the NIL too.
LEMMA AbilityTyped ==
  ASSUME NEW c \in Characters, NEW a \in Int, NEW b \in Int
  PROVE  /\ Ability(c, a, b) \in Characters /\ Ability(c, a, b).nil = c.nil
         /\ Ability(c, a, b).osUses = c.osUses /\ Ability(c, a, b).osDate = c.osDate
  BY DEF Ability, Characters

LEMMA InitInv ==
  ASSUME VitalsAssumption, Init
  PROVE  IInv
<1>1. PICK role \in Role, os \in BOOLEAN :
        RcInit([r \in {Me} |->
          [role |-> role, nil |-> InitNil, at |-> 0, active |-> None, cooldown |-> None,
           os |-> os, flat |-> FALSE, osUntil |-> None, osUses |-> 0, osDate |-> None]])
  BY DEF Init
<1> DEFINE c == [role |-> role, nil |-> InitNil, at |-> 0, active |-> None, cooldown |-> None,
                 os |-> os, flat |-> FALSE, osUntil |-> None, osUses |-> 0, osDate |-> None]
<1>2. /\ 0 \in Times /\ InitNil \in 0 .. MaxNil /\ InitNil \in Int /\ 0 \in 0 .. OsUses /\ None \in Int
      /\ OsUses \in Nat /\ MaxNow \in Nat /\ Day \in Nat \ {0}
  BY DEF VitalsAssumption, Times, None
<1>3. c \in Characters /\ c.nil = InitNil /\ c.osDate = None
  BY <1>2 DEF Characters
<1>4. db = [r \in {Me} |-> c] /\ pend = [r \in {Me} |-> c] /\ owner = [r \in {Me} |-> NoProc]
  BY <1>1 DEF RcInit
<1> HIDE DEF c
<1>5. /\ now = 0 /\ pc = [p \in Proc |-> "idle"] /\ req = [p \in Proc |-> NoRequest]
      /\ chr = [p \in Proc |-> NoRow] /\ stamp = [p \in Proc |-> 0]
      /\ hist = [spent |-> 0, added |-> 0, bought |-> FALSE, effect |-> None, alone |-> TRUE,
                 charges |-> [d \in 0 .. MaxNow \div Day |-> 0]]
  BY DEF Init
<1>6. Typed
  BY <1>2, <1>3, <1>4, <1>5 DEF Typed, RowTyped, LocalsTyped, Statements, Answers, Days
<1>7. PendingIsOwned
  BY <1>4 DEF PendingIsOwned
<1>8. NilBalanced
  BY <1>2, <1>3, <1>4, <1>5 DEF NilBalanced
<1>9. ChargesCounted
  <2>1. \A d \in Days : hist.charges[d] = 0
    BY <1>5 DEF Days
  <2>2. db[Me].osDate = None
    BY <1>3, <1>4
  <2> QED
    BY <1>2, <2>1, <2>2 DEF ChargesCounted
<1>10. ASSUME NEW p \in Proc
       PROVE  RequestInv(p)
  <2>1. /\ pc[p] = "idle" /\ req[p] = NoRequest /\ NoRequest.op = "none" /\ stamp[p] = 0
        /\ owner[Me] # p
    BY <1>4, <1>5 DEF NoRequest, VitalsAssumption
  <2> QED
    BY <1>5, <2>1 DEF RequestInv, Fits, Reading
<1> QED
  BY <1>6, <1>7, <1>8, <1>9, <1>10 DEF IInv
-----------------------------------------------------------------------------
\* What every step leaves alone.

Unmoved(q) == pc'[q] = pc[q] /\ req'[q] = req[q] /\ chr'[q] = chr[q] /\ stamp'[q] = stamp[q]

\* A step of another request takes the row from nobody, and changes it for nobody else.
LeavesAlone(q) ==
  /\ owner'[Me] = q <=> owner[Me] = q
  /\ owner[Me] = q => db'[Me] = db[Me] /\ pend'[Me] = pend[Me]

LEMMA OthersKeep ==
  ASSUME VitalsAssumption, IInv, now \in Times, now' \in Times, now <= now',
         NEW q \in Proc, Unmoved(q), LeavesAlone(q)
  PROVE  RequestInv(q)'
<1>1. pc'[q] = pc[q] /\ req'[q] = req[q] /\ chr'[q] = chr[q] /\ stamp'[q] = stamp[q]
  BY DEF Unmoved
<1>2. RequestInv(q) /\ stamp[q] \in Times
  BY DEF IInv, Typed, LocalsTyped
<1>3. Fits(q)'
  BY <1>1, <1>2 DEF RequestInv, Fits
<1>4. stamp[q] <= now'
  BY <1>2 DEF RequestInv, Times, VitalsAssumption
<1>5. pc[q] = "commit" => db'[Me] = db[Me] /\ pend'[Me] = pend[Me]
  BY <1>2 DEF RequestInv, LeavesAlone
<1>6. owner'[Me] = q <=> pc'[q] = "commit"
  BY <1>1, <1>2 DEF RequestInv, LeavesAlone
<1> QED
  BY <1>1, <1>2, <1>3, <1>4, <1>5, <1>6 DEF RequestInv, Counted

\* What is to show of a step of p.
LEMMA StepKeeps ==
  ASSUME VitalsAssumption, IInv, NEW p \in Proc, now' = now, Typed', PendingIsOwned', NilBalanced', ChargesCounted',
         RequestInv(p)', \A q \in Proc \ {p} : Unmoved(q) /\ LeavesAlone(q)
  PROVE  IInv'
<1>1. now \in Times /\ now' \in Times /\ now <= now'
  BY DEF IInv, Typed, Times, VitalsAssumption
<1>2. \A q \in Proc : RequestInv(q)'
  BY <1>1, OthersKeep
<1> QED
  BY <1>2 DEF IInv

\* The row and the answers stay, and the others' locals with them.
LEMMA LocalStep ==
  ASSUME VitalsAssumption, IInv, NEW p \in Proc, UNCHANGED <<rcVars, now, hist>>, LocalsTyped', RequestInv(p)',
         \A q \in Proc \ {p} : Unmoved(q)
  PROVE  IInv'
<1>1. db' = db /\ pend' = pend /\ owner' = owner /\ now' = now /\ hist' = hist
  BY DEF rcVars
<1>2. Typed' /\ PendingIsOwned' /\ NilBalanced' /\ ChargesCounted'
  BY <1>1 DEF IInv, Typed, RowTyped, PendingIsOwned, NilBalanced, ChargesCounted
<1>3. \A q \in Proc \ {p} : LeavesAlone(q)
  BY <1>1 DEF LeavesAlone
<1> QED
  BY <1>1, <1>2, <1>3, StepKeeps

\* A request that is over holds nothing.
LEMMA IdleInv ==
  ASSUME VitalsAssumption, NEW p \in Proc, now' \in Times, Answered(p), LocalsTyped, owner'[Me] # p
  PROVE  /\ LocalsTyped' /\ RequestInv(p)'
         /\ \A q \in Proc \ {p} : Unmoved(q)
<1>1. /\ pc' = [pc EXCEPT ![p] = "idle"] /\ req' = [req EXCEPT ![p] = NoRequest]
      /\ chr' = [chr EXCEPT ![p] = NoRow] /\ stamp' = [stamp EXCEPT ![p] = 0]
  BY DEF Answered, Goto
<1>2. 0 \in Times /\ 0 <= now'
  BY DEF Times, VitalsAssumption
<1>3. LocalsTyped'
  BY <1>1, <1>2 DEF LocalsTyped, Statements
<1>4. /\ pc'[p] = "idle" /\ req'[p] = NoRequest /\ stamp'[p] = 0
      /\ \A q \in Proc \ {p} : Unmoved(q)
  BY <1>1 DEF LocalsTyped, Unmoved
<1>5. NoRequest.op = "none"
  BY DEF NoRequest
<1>6. RequestInv(p)'
  BY <1>2, <1>4, <1>5 DEF RequestInv, Fits, Reading
<1> QED
  BY <1>3, <1>4, <1>6

\* Rolling back gives the row its committed version.
LEMMA RejectInv ==
  ASSUME VitalsAssumption, IInv, NEW p \in Proc, Reject(p)
  PROVE  IInv'
<1>1. /\ Answered(p) /\ now' = now /\ hist' = hist /\ db' = db
      /\ pend' = [r \in DOMAIN db |-> IF owner[r] = p THEN db[r] ELSE pend[r]]
      /\ owner' = [r \in DOMAIN owner |-> IF owner[r] = p THEN NoProc ELSE owner[r]]
  BY DEF Reject, Rollback, Released
<1>2. RowTyped /\ LocalsTyped /\ now \in Times /\ NoProc \notin Proc
  BY DEF IInv, Typed, VitalsAssumption
<1>3. /\ DOMAIN pend' = {Me} /\ DOMAIN owner' = {Me}
      /\ owner'[Me] = IF owner[Me] = p THEN NoProc ELSE owner[Me]
      /\ pend'[Me] = IF owner[Me] = p THEN db[Me] ELSE pend[Me]
  BY <1>1, <1>2 DEF RowTyped
<1>4. RowTyped'
  BY <1>1, <1>2, <1>3 DEF RowTyped
<1>5. owner'[Me] # p /\ now' \in Times
  BY <1>1, <1>2, <1>3
<1>6. LocalsTyped' /\ RequestInv(p)' /\ \A q \in Proc \ {p} : Unmoved(q)
  BY <1>1, <1>2, <1>5, IdleInv
<1>7. Typed'
  BY <1>1, <1>4, <1>5, <1>6 DEF IInv, Typed
<1>8. PendingIsOwned'
  BY <1>1, <1>2, <1>3 DEF IInv, PendingIsOwned, RowTyped
<1>9. NilBalanced' /\ ChargesCounted'
  BY <1>1 DEF IInv, NilBalanced, ChargesCounted
<1>10. \A q \in Proc \ {p} : LeavesAlone(q)
  BY <1>1, <1>2, <1>3 DEF LeavesAlone
<1> QED
  BY <1>1, <1>6, <1>7, <1>8, <1>9, <1>10, StepKeeps

\* A write that p will commit.
LEMMA PutRow ==
  ASSUME VitalsAssumption, IInv, NEW p \in Proc, NEW v \in Characters, Put(p, Me, v), UNCHANGED <<now, hist>>
  PROVE  /\ db' = db /\ owner'[Me] = p /\ pend'[Me] = v /\ RowTyped'
         /\ PendingIsOwned' /\ NilBalanced' /\ ChargesCounted'
         /\ \A q \in Proc \ {p} : LeavesAlone(q)
<1>1. /\ db' = db /\ pend' = [pend EXCEPT ![Me] = v] /\ owner' = [owner EXCEPT ![Me] = p]
      /\ owner[Me] \in {p, NoProc} /\ now' = now /\ hist' = hist
  BY DEF Put, CanLock
<1>2. RowTyped /\ NoProc \notin Proc
  BY DEF IInv, Typed, VitalsAssumption
<1>3. /\ DOMAIN pend' = {Me} /\ DOMAIN owner' = {Me} /\ owner'[Me] = p /\ pend'[Me] = v
  BY <1>1, <1>2 DEF RowTyped
<1>4. RowTyped'
  BY <1>1, <1>2, <1>3 DEF RowTyped
<1>5. PendingIsOwned'
  BY <1>1, <1>2, <1>3 DEF PendingIsOwned, RowTyped
<1>6. NilBalanced' /\ ChargesCounted'
  BY <1>1 DEF IInv, NilBalanced, ChargesCounted
<1>7. \A q \in Proc \ {p} : LeavesAlone(q)
  BY <1>1, <1>2, <1>3 DEF LeavesAlone
<1> QED
  BY <1>1, <1>3, <1>4, <1>5, <1>6, <1>7

\* A statement of its own answers its request and leaves the charges alone.
LEMMA WriteInv ==
  ASSUME VitalsAssumption, IInv, NEW p \in Proc, NEW v \in Characters, pc[p] # "commit", WriteNow(p, Me, v),
         v.osUses = db[Me].osUses, v.osDate = db[Me].osDate, Answered(p), now' = now,
         hist' \in Answers, hist'.charges = hist.charges,
         Early(now) /\ ~hist'.bought => v.nil <= InitNil + hist'.added - hist'.spent
  PROVE  IInv'
<1>1. /\ db' = [db EXCEPT ![Me] = v] /\ pend' = [pend EXCEPT ![Me] = v] /\ owner' = owner
      /\ owner[Me] \in {p, NoProc}
  BY DEF WriteNow, CanLock
<1>2. RowTyped /\ LocalsTyped /\ now \in Times /\ NoProc \notin Proc
  BY DEF IInv, Typed, VitalsAssumption
<1>3. owner[Me] = NoProc
  BY <1>1 DEF IInv, RequestInv
<1>4. DOMAIN db' = {Me} /\ DOMAIN pend' = {Me} /\ db'[Me] = v /\ pend'[Me] = v /\ owner'[Me] = NoProc
  BY <1>1, <1>2, <1>3 DEF RowTyped
<1>5. RowTyped'
  BY <1>1, <1>2, <1>4 DEF RowTyped
<1>6. LocalsTyped' /\ RequestInv(p)' /\ \A q \in Proc \ {p} : Unmoved(q)
  BY <1>2, <1>4, IdleInv
<1>7. Typed'
  BY <1>2, <1>5, <1>6 DEF IInv, Typed
<1>8. PendingIsOwned'
  BY <1>4 DEF PendingIsOwned
<1>9. NilBalanced'
  BY <1>4 DEF NilBalanced
<1>10. ChargesCounted'
  BY <1>4 DEF IInv, ChargesCounted
<1>11. \A q \in Proc \ {p} : LeavesAlone(q)
  BY <1>1, <1>2, <1>3 DEF LeavesAlone
<1> QED
  BY <1>6, <1>7, <1>8, <1>9, <1>10, <1>11, StepKeeps
-----------------------------------------------------------------------------
\* The reads and the local decisions.

\* p goes on to statement l; what it asks for stays.
GoesTo(p, l) ==
  /\ pc' = [pc EXCEPT ![p] = l] /\ l \in Statements /\ req' = req
  /\ DOMAIN chr' = Proc /\ stamp' \in [Proc -> Times]
  /\ \A q \in Proc \ {p} : chr'[q] = chr[q] /\ stamp'[q] = stamp[q]

LEMMA GoesToLocals ==
  ASSUME IInv, NEW p \in Proc, NEW l, GoesTo(p, l)
  PROVE  /\ LocalsTyped' /\ pc'[p] = l /\ req'[p] = req[p]
         /\ \A q \in Proc \ {p} : Unmoved(q)
  BY DEF IInv, Typed, LocalsTyped, GoesTo, Unmoved

\* Looking at the clock.
LEMMA Decides ==
  ASSUME IInv, NEW p \in Proc, NEW l \in Statements, stamp' = [stamp EXCEPT ![p] = now], Goto(p, l),
         UNCHANGED <<req, chr>>
  PROVE  GoesTo(p, l) /\ stamp'[p] = now
  BY DEF IInv, Typed, LocalsTyped, GoesTo, Goto

LEMMA StartInv ==
  ASSUME VitalsAssumption, IInv, NEW p \in Proc, Start(p)
  PROVE  IInv'
<1>1. PICK r \in Requests :
        /\ req' = [req EXCEPT ![p] = r]
        /\ pc' = [pc EXCEPT ![p] = IF r.op \in {"attack", "os"} THEN "lock" ELSE "read"]
  BY DEF Start, Goto
<1>2. /\ UNCHANGED <<rcVars, now, chr, stamp>> /\ pc[p] = "idle"
      /\ hist' = [hist EXCEPT !.alone = hist.alone /\ \A q \in Proc \ {p} : pc[q] = "idle"]
  BY DEF Start
<1>3. LocalsTyped /\ RequestInv(p)
  BY DEF IInv, Typed
<1>4. r.op \in {"consume", "accept", "stim", "buy", "attack", "activate", "use", "os"} /\ NoRequest.op = "none"
  BY DEF Requests, NoRequest
<1>5. /\ req'[p] = r /\ r # NoRequest
      /\ pc'[p] = IF r.op \in {"attack", "os"} THEN "lock" ELSE "read"
      /\ chr'[p] = chr[p] /\ stamp'[p] = stamp[p] /\ now' = now /\ owner' = owner
  BY <1>1, <1>2, <1>3, <1>4 DEF LocalsTyped, rcVars
<1>6. LocalsTyped' /\ \A q \in Proc \ {p} : Unmoved(q)
  BY <1>1, <1>2, <1>3 DEF LocalsTyped, Statements, Unmoved
<1>7. RequestInv(p)'
  BY <1>2, <1>3, <1>4, <1>5 DEF RequestInv, Fits, Reading
<1>8. /\ hist' \in Answers /\ hist'.spent = hist.spent /\ hist'.added = hist.added
      /\ hist'.bought = hist.bought /\ hist'.charges = hist.charges
  BY <1>2 DEF IInv, Typed, Answers
<1>9. db' = db /\ pend' = pend /\ owner' = owner
  BY <1>2 DEF rcVars
<1>10. Typed' /\ PendingIsOwned' /\ NilBalanced' /\ ChargesCounted'
  BY <1>2, <1>6, <1>8, <1>9 DEF IInv, Typed, RowTyped, PendingIsOwned, NilBalanced, ChargesCounted
<1>11. \A q \in Proc \ {p} : LeavesAlone(q)
  BY <1>9 DEF LeavesAlone
<1> QED
  BY <1>2, <1>6, <1>7, <1>10, <1>11, StepKeeps

LEMMA ReadInv ==
  ASSUME VitalsAssumption, IInv, NEW p \in Proc, Read(p)
  PROVE  IInv'
<1> DEFINE c == Sees(p, Me)
           l == IF req[p].op = "use" THEN "bonus" ELSE "issue"
<1>1. /\ pc[p] = "read" /\ chr' = [chr EXCEPT ![p] = c] /\ Goto(p, l)
      /\ UNCHANGED <<rcVars, now, hist, req, stamp>>
  BY DEF Read
<1>2. LocalsTyped /\ RowTyped /\ RequestInv(p)
  BY DEF IInv, Typed
<1>3. c \in Characters
  BY <1>2, SeesTyped
<1>4. l \in {"bonus", "issue"} /\ (l = "bonus" <=> req[p].op = "use")
  OBVIOUS
<1> HIDE DEF c, l
<1>5. GoesTo(p, l) /\ chr'[p] = c /\ stamp'[p] = stamp[p] /\ owner' = owner /\ now' = now
  BY <1>1, <1>2, <1>4 DEF GoesTo, Goto, LocalsTyped, Statements, rcVars
<1>6. LocalsTyped' /\ pc'[p] = l /\ req'[p] = req[p] /\ \A q \in Proc \ {p} : Unmoved(q)
  BY <1>5, GoesToLocals
<1>7. req[p].op \notin {"none", "attack", "os"} /\ req[p] # NoRequest
  BY <1>1, <1>2, Asking DEF RequestInv, Fits
<1>8. RequestInv(p)'
  BY <1>1, <1>2, <1>3, <1>4, <1>5, <1>6, <1>7 DEF RequestInv, Fits, Reading
<1> QED
  BY <1>1, <1>6, <1>8, LocalStep

\* A decision by the row that was read.
LEMMA DecidesInv ==
  ASSUME VitalsAssumption, IInv, NEW p \in Proc, NEW l \in Reading \ {"issue"}, pc[p] \in Reading,
         stamp' = [stamp EXCEPT ![p] = now], Goto(p, l), UNCHANGED <<rcVars, now, hist, req, chr>>,
         req[p].op \in {"consume", "accept"} => l = "spend",
         req[p].op \in {"stim", "buy"} => l = "restore",
         req[p].op = "activate" => l = "activate",
         req[p].op = "use" => l = "consume"
  PROVE  IInv'
<1>1. l \in Statements
  BY DEF Reading, Statements
<1>2. GoesTo(p, l) /\ stamp'[p] = now /\ chr'[p] = chr[p] /\ owner' = owner /\ now' = now
  BY <1>1, Decides DEF rcVars
<1>3. LocalsTyped' /\ pc'[p] = l /\ req'[p] = req[p] /\ \A q \in Proc \ {p} : Unmoved(q)
  BY <1>2, GoesToLocals
<1>4. RequestInv(p) /\ now \in Times /\ LocalsTyped
  BY DEF IInv, Typed
<1>5. req[p].op \notin {"none", "attack", "os"} /\ req[p] # NoRequest
  BY <1>4, Asking DEF RequestInv, Fits, Reading
<1>6. now <= now'
  BY <1>2, <1>4 DEF Times, VitalsAssumption
<1>7. RequestInv(p)'
  BY <1>2, <1>3, <1>4, <1>5, <1>6 DEF RequestInv, Fits, Reading
<1> QED
  BY <1>3, <1>7, LocalStep

LEMMA IssueNilInv ==
  ASSUME VitalsAssumption, IInv, NEW p \in Proc, IssueNil(p)
  PROVE  IInv'
<1>1. CASE Reject(p)
  BY <1>1, RejectInv
<1>2. CASE ~Reject(p)
  <2> DEFINE l == IF req[p].op \in {"consume", "accept"} THEN "spend" ELSE "restore"
  <2>1. /\ pc[p] = "issue" /\ req[p].op \in {"consume", "accept", "stim", "buy"}
        /\ stamp' = [stamp EXCEPT ![p] = now] /\ Goto(p, l) /\ UNCHANGED <<rcVars, now, hist, req, chr>>
    BY <1>2 DEF IssueNil
  <2>2. l \in Reading \ {"issue"}
    BY DEF Reading
  <2>3. pc[p] \in Reading
    BY <2>1 DEF Reading
  <2> QED
    BY <2>1, <2>2, <2>3, DecidesInv
<1> QED
  BY <1>1, <1>2

LEMMA IssueActivationInv ==
  ASSUME VitalsAssumption, IInv, NEW p \in Proc, IssueActivation(p)
  PROVE  IInv'
<1>1. CASE Reject(p)
  BY <1>1, RejectInv
<1>2. CASE ~Reject(p)
  <2>1. /\ pc[p] = "issue" /\ req[p].op = "activate"
        /\ stamp' = [stamp EXCEPT ![p] = now] /\ Goto(p, "activate") /\ UNCHANGED <<rcVars, now, hist, req, chr>>
    BY <1>2 DEF IssueActivation
  <2>2. "activate" \in Reading \ {"issue"} /\ pc[p] \in Reading
    BY <2>1 DEF Reading
  <2> QED
    BY <2>1, <2>2, DecidesInv
<1> QED
  BY <1>1, <1>2

LEMMA CheckBonusInv ==
  ASSUME VitalsAssumption, IInv, NEW p \in Proc, CheckBonus(p)
  PROVE  IInv'
<1>1. CASE Reject(p)
  BY <1>1, RejectInv
<1>2. CASE ~Reject(p)
  <2>1. /\ pc[p] = "bonus"
        /\ stamp' = [stamp EXCEPT ![p] = now] /\ Goto(p, "consume") /\ UNCHANGED <<rcVars, now, hist, req, chr>>
    BY <1>2 DEF CheckBonus
  <2>2. "consume" \in Reading \ {"issue"} /\ pc[p] \in Reading
    BY <2>1 DEF Reading
  <2>3. req[p].op = "use"
    <3>1. LocalsTyped /\ Fits(p)
      BY DEF IInv, Typed, RequestInv
    <3> QED
      BY <2>1, <3>1, Asking DEF Fits
  <2> QED
    BY <2>1, <2>2, <2>3, DecidesInv
<1> QED
  BY <1>1, <1>2
-----------------------------------------------------------------------------
\* The writes.

\* A write that will be committed, at the clock it was decided by.
LEMMA HoldsInv ==
  ASSUME VitalsAssumption, IInv, NEW p \in Proc, NEW v \in Characters, Put(p, Me, v), GoesTo(p, "commit"),
         UNCHANGED <<now, hist>>, stamp'[p] <= now,
         req[p].op \in {"accept", "buy", "attack", "use", "os"},
         req[p].op = "buy" => chr'[p] \in Characters,
         req[p].op = "accept" /\ Early(stamp'[p]) => v.nil + req[p].amount <= db[Me].nil,
         req[p].op = "attack" => v.nil + AttackCost <= db[Me].nil,
         req[p].op \in {"use", "os"} => v.nil = db[Me].nil,
         req[p].op # "os" => v.osUses = db[Me].osUses /\ v.osDate = db[Me].osDate,
         req[p].op = "os" =>
            /\ v.osDate # None /\ v.osDate \div Day = stamp'[p] \div Day
            /\ v.osUses = Counted(db[Me], stamp'[p] \div Day) + 1
            /\ db[Me].osDate # None => db[Me].osDate \div Day <= stamp'[p] \div Day
  PROVE  IInv'
<1>1. /\ db' = db /\ owner'[Me] = p /\ pend'[Me] = v /\ RowTyped'
      /\ PendingIsOwned' /\ NilBalanced' /\ ChargesCounted'
      /\ \A q \in Proc \ {p} : LeavesAlone(q)
  BY PutRow
<1>2. LocalsTyped' /\ pc'[p] = "commit" /\ req'[p] = req[p] /\ \A q \in Proc \ {p} : Unmoved(q)
  BY GoesToLocals
<1>3. Typed'
  BY <1>1, <1>2 DEF IInv, Typed
<1>4. req[p] # NoRequest
  BY DEF NoRequest
<1>5. RequestInv(p)'
  BY <1>1, <1>2, <1>4 DEF RequestInv, Fits, Reading, Counted
<1> QED
  BY <1>1, <1>2, <1>3, <1>5, StepKeeps

\* The row that p has not written is the committed one.
LEMMA SeesCommitted ==
  ASSUME IInv, NEW p \in Proc, pc[p] # "commit"
  PROVE  Sees(p, Me) = db[Me] /\ db[Me] \in Characters
  BY SeesTyped DEF IInv, Typed, RowTyped, RequestInv

LEMMA UpdateNilSpendInv ==
  ASSUME VitalsAssumption, IInv, NEW p \in Proc, UpdateNilSpend(p)
  PROVE  IInv'
<1> DEFINE n == Regened(p) - req[p].amount
           c == WithNil(p, n)
<1>1. CASE Reject(p)
  BY <1>1, RejectInv
<1>2. CASE ~Reject(p)
  <2>1. /\ pc[p] = "spend" /\ Covers(p)
        /\ IF req[p].op = "accept"
           THEN Put(p, Me, c) /\ Goto(p, "commit") /\ UNCHANGED <<now, hist, req, chr, stamp>>
           ELSE /\ WriteNow(p, Me, c)
                /\ hist' = [hist EXCEPT !.spent = @ + req[p].amount]
                /\ Answered(p) /\ UNCHANGED now
    BY <1>2 DEF UpdateNilSpend
  <2>2. RowTyped /\ LocalsTyped /\ RequestInv(p) /\ now \in Nat /\ hist \in Answers /\ NilBalanced
    BY DEF IInv, Typed, Times, VitalsAssumption
  <2>3. req[p].op \in {"consume", "accept"} /\ req[p].amount \in Nat \ {0} /\ chr[p] \in Characters
    <3>1. Fits(p) /\ pc[p] \in Reading
      BY <2>1, <2>2 DEF RequestInv, Reading
    <3>2. req[p].op \in {"consume", "accept"}
      BY <2>1, <2>2, <3>1, Asking DEF Fits
    <3>3. req[p].amount \in Nat \ {0}
      BY <2>2, <3>2, Asking
    <3> QED
      BY <2>2, <3>1, <3>2, <3>3 DEF RequestInv
  <2>4. stamp[p] \in Times /\ stamp[p] <= now
    BY <2>2 DEF LocalsTyped, RequestInv
  <2>5. /\ Regened(p) \in 0 .. MaxNil /\ (Early(stamp[p]) => Regened(p) <= db[Me].nil)
        /\ Sees(p, Me) = db[Me] /\ db[Me].nil \in 0 .. MaxNil
    BY <2>1, <2>2, <2>3, <2>4, RegenedTyped, SeesCommitted DEF Characters
  <2>6. n \in 0 .. MaxNil /\ (Early(stamp[p]) => n + req[p].amount <= db[Me].nil)
    BY <2>1, <2>3, <2>5 DEF Covers, VitalsAssumption
  <2>7. c \in Characters /\ c.nil = n /\ c.osUses = db[Me].osUses /\ c.osDate = db[Me].osDate
    BY <2>2, <2>4, <2>5, <2>6, WithNilTyped
  <2> HIDE DEF n, c
  <2>8. CASE req[p].op = "accept"
    <3>1. GoesTo(p, "commit") /\ stamp'[p] = stamp[p]
      BY <2>1, <2>2, <2>8 DEF LocalsTyped, GoesTo, Goto, Statements
    <3> QED
      BY <2>1, <2>4, <2>6, <2>7, <2>8, <3>1, HoldsInv
  <2>9. CASE req[p].op # "accept"
    <3>1. /\ hist'.spent = hist.spent + req[p].amount /\ hist' \in Answers
          /\ hist'.added = hist.added /\ hist'.bought = hist.bought /\ hist'.charges = hist.charges
      BY <2>1, <2>2, <2>3, <2>9 DEF Answers
    <3>2. Early(now) => Early(stamp[p])
      <4>1. stamp[p] \in Nat /\ Interval \in Nat
        BY <2>4 DEF Times, VitalsAssumption
      <4> QED
        BY <2>2, <2>4, <4>1 DEF Early
    <3>3. Early(now) /\ ~hist'.bought => c.nil <= InitNil + hist'.added - hist'.spent
      <4>1. InitNil \in Int /\ hist.added \in Int /\ hist.spent \in Int
        BY <2>2 DEF Answers, VitalsAssumption
      <4> QED
        BY <2>2, <2>3, <2>5, <2>6, <2>7, <3>1, <3>2, <4>1 DEF NilBalanced
    <3> QED
      BY <2>1, <2>7, <2>9, <3>1, <3>3, WriteInv
  <2> QED
    BY <2>8, <2>9
<1> QED
  BY <1>1, <1>2

LEMMA UpdateNilSetInv ==
  ASSUME VitalsAssumption, IInv, NEW p \in Proc, UpdateNilSet(p)
  PROVE  IInv'
<1> DEFINE c == WithNil(p, Restored(p))
<1>1. CASE Reject(p)
  BY <1>1, RejectInv
<1>2. CASE ~Reject(p)
  <2>1. /\ pc[p] = "restore"
        /\ IF req[p].op = "stim"
           THEN /\ NotLower(p) /\ WriteNow(p, Me, c)
                /\ hist' = [hist EXCEPT !.added = @ + Added(p)]
                /\ Answered(p) /\ UNCHANGED now
           ELSE Put(p, Me, c) /\ Goto(p, "commit") /\ UNCHANGED <<now, hist, req, chr, stamp>>
    BY <1>2 DEF UpdateNilSet
  <2>2. RowTyped /\ LocalsTyped /\ RequestInv(p) /\ now \in Nat /\ hist \in Answers /\ NilBalanced
    BY DEF IInv, Typed, Times, VitalsAssumption
  <2>3. req[p].op \in {"stim", "buy"} /\ chr[p] \in Characters
    <3>1. Fits(p) /\ pc[p] \in Reading
      BY <2>1, <2>2 DEF RequestInv, Reading
    <3>2. req[p].op \in {"stim", "buy"}
      BY <2>1, <2>2, <3>1, Asking DEF Fits
    <3> QED
      BY <2>2, <3>1, <3>2 DEF RequestInv
  <2>4. stamp[p] \in Times /\ stamp[p] <= now
    BY <2>2 DEF LocalsTyped, RequestInv
  <2>5. /\ Restored(p) \in 0 .. MaxNil /\ Added(p) \in Int
        /\ Early(stamp[p]) => Added(p) = Restored(p) - chr[p].nil
        /\ Sees(p, Me) = db[Me] /\ db[Me].nil \in 0 .. MaxNil /\ chr[p].nil \in 0 .. MaxNil
    BY <2>1, <2>2, <2>3, <2>4, RegenedTyped, SeesCommitted DEF Characters
  <2>6. c \in Characters /\ c.nil = Restored(p) /\ c.osUses = db[Me].osUses /\ c.osDate = db[Me].osDate
    BY <2>2, <2>4, <2>5, WithNilTyped
  <2> HIDE DEF c
  <2>7. CASE req[p].op = "buy"
    <3>1. GoesTo(p, "commit") /\ stamp'[p] = stamp[p] /\ chr' = chr
      BY <2>1, <2>2, <2>7 DEF LocalsTyped, GoesTo, Goto, Statements
    <3> QED
      BY <2>1, <2>3, <2>4, <2>6, <2>7, <3>1, HoldsInv
  <2>8. CASE req[p].op = "stim"
    <3>1. /\ hist'.added = hist.added + Added(p) /\ hist' \in Answers
          /\ hist'.spent = hist.spent /\ hist'.bought = hist.bought /\ hist'.charges = hist.charges
      <4> HIDE DEF Added
      <4> QED
        BY <2>1, <2>2, <2>5, <2>8 DEF Answers
    <3>2. Early(now) => Early(stamp[p])
      <4>1. stamp[p] \in Nat /\ Interval \in Nat
        BY <2>4 DEF Times, VitalsAssumption
      <4> QED
        BY <2>2, <2>4, <4>1 DEF Early
    <3>3. chr[p].nil <= db[Me].nil
      <4>1. NotLower(p)
        BY <2>1, <2>8
      <4> QED
        BY <2>5, <4>1 DEF NotLower
    <3>4. Early(now) /\ ~hist'.bought => c.nil <= InitNil + hist'.added - hist'.spent
      <4>1. InitNil \in Int /\ hist.added \in Int /\ hist.spent \in Int /\ MaxNil \in Int
        BY <2>2 DEF Answers, VitalsAssumption
      <4>2. Early(now) /\ ~hist.bought => db[Me].nil <= InitNil + hist.added - hist.spent
        BY <2>2 DEF NilBalanced
      <4> QED
        BY <2>5, <2>6, <3>1, <3>2, <3>3, <4>1, <4>2
    <3> QED
      BY <2>1, <2>6, <2>8, <3>1, <3>4, WriteInv
  <2> QED
    BY <2>3, <2>7, <2>8
<1> QED
  BY <1>1, <1>2

LEMMA PayAttackInv ==
  ASSUME VitalsAssumption, IInv, NEW p \in Proc, PayAttack(p)
  PROVE  IInv'
<1> DEFINE v == [Sees(p, Me) EXCEPT !.nil = @ - AttackCost]
<1>1. CASE Reject(p)
  BY <1>1, RejectInv
<1>2. CASE ~Reject(p)
  <2>1. /\ pc[p] = "lock" /\ req[p].op = "attack" /\ ~(Sees(p, Me).nil < AttackCost)
        /\ Put(p, Me, v) /\ stamp' = [stamp EXCEPT ![p] = now] /\ Goto(p, "commit")
        /\ UNCHANGED <<now, hist, req, chr>>
    BY <1>2 DEF PayAttack
  <2>2. Sees(p, Me) = db[Me] /\ db[Me] \in Characters
    BY <2>1, SeesCommitted
  <2>3. db[Me].nil \in 0 .. MaxNil /\ AttackCost \in Nat /\ MaxNil \in Nat
    BY <2>2 DEF Characters, VitalsAssumption
  <2>4. db[Me].nil - AttackCost \in 0 .. MaxNil
    BY <2>1, <2>2, <2>3
  <2>5. /\ v \in Characters /\ v.nil = db[Me].nil - AttackCost
        /\ v.osUses = db[Me].osUses /\ v.osDate = db[Me].osDate
    BY <2>2, <2>4 DEF Characters
  <2> HIDE DEF v
  <2>6. GoesTo(p, "commit") /\ stamp'[p] = now /\ now <= now
    <3>1. now \in Int /\ "commit" \in Statements
      BY DEF IInv, Typed, Times, VitalsAssumption, Statements
    <3>2. UNCHANGED <<req, chr>>
      BY <2>1
    <3>3. stamp' = [stamp EXCEPT ![p] = now] /\ Goto(p, "commit")
      BY <2>1
    <3>4. GoesTo(p, "commit") /\ stamp'[p] = now
      BY <3>1, <3>2, <3>3, Decides
    <3> QED
      BY <3>1, <3>4
  <2>7. v.nil + AttackCost <= db[Me].nil
    BY <2>3, <2>5
  <2> QED
    BY <2>1, <2>5, <2>6, <2>7, HoldsInv
<1> QED
  BY <1>1, <1>2

LEMMA ActivateInv ==
  ASSUME VitalsAssumption, IInv, NEW p \in Proc, Activate(p)
  PROVE  IInv'
<1> DEFINE v == computeActivation(Sees(p, Me), stamp[p])
<1>1. /\ pc[p] = "activate" /\ WriteNow(p, Me, v) /\ Answered(p) /\ now' = now
      /\ hist' = IF Duration[chr[p].role] > 0 THEN [hist EXCEPT !.effect = stamp[p]] ELSE hist
  BY DEF Activate
<1>2. Sees(p, Me) = db[Me] /\ db[Me] \in Characters
  BY <1>1, SeesCommitted
<1>3. stamp[p] \in Int /\ hist \in Answers /\ NilBalanced
  BY DEF IInv, Typed, LocalsTyped, Times, VitalsAssumption
<1>4. Duration[db[Me].role] \in Int /\ Cooldown[db[Me].role] \in Int
  BY <1>2 DEF Characters, VitalsAssumption
<1>5. v = Ability(db[Me], stamp[p] + Duration[db[Me].role],
                  stamp[p] + Duration[db[Me].role] + Cooldown[db[Me].role])
  BY <1>2 DEF computeActivation
<1>6. v \in Characters /\ v.nil = db[Me].nil /\ v.osUses = db[Me].osUses /\ v.osDate = db[Me].osDate
  BY <1>2, <1>3, <1>4, <1>5, AbilityTyped
<1> HIDE DEF v
<1>7. /\ hist' \in Answers /\ hist'.charges = hist.charges /\ hist'.spent = hist.spent
      /\ hist'.added = hist.added /\ hist'.bought = hist.bought
  BY <1>1, <1>3 DEF Answers
<1>8. Early(now) /\ ~hist'.bought => v.nil <= InitNil + hist'.added - hist'.spent
  BY <1>3, <1>6, <1>7 DEF NilBalanced
<1> QED
  BY <1>1, <1>6, <1>7, <1>8, WriteInv

LEMMA ConsumeAbilityInv ==
  ASSUME VitalsAssumption, IInv, NEW p \in Proc, ConsumeAbility(p)
  PROVE  IInv'
<1> DEFINE v == computeConsumption(Sees(p, Me), now)
<1>1. /\ pc[p] = "consume" /\ Put(p, Me, v) /\ Goto(p, "commit") /\ UNCHANGED <<now, hist, req, chr, stamp>>
  BY DEF ConsumeAbility
<1>2. Sees(p, Me) = db[Me] /\ db[Me] \in Characters
  BY <1>1, SeesCommitted
<1>3. LocalsTyped /\ RequestInv(p) /\ now \in Int /\ stamp[p] <= now
  BY DEF IInv, Typed, Times, VitalsAssumption, RequestInv
<1>4. Cooldown[db[Me].role] \in Int /\ None \in Int
  BY <1>2 DEF Characters, VitalsAssumption, None
<1>5. v = Ability(db[Me], None, now + Cooldown[db[Me].role])
  BY <1>2 DEF computeConsumption
<1>6. v \in Characters /\ v.nil = db[Me].nil /\ v.osUses = db[Me].osUses /\ v.osDate = db[Me].osDate
  BY <1>2, <1>3, <1>4, <1>5, AbilityTyped
<1> HIDE DEF v
<1>7. req[p].op = "use"
  BY <1>1, <1>3, Asking DEF RequestInv, Fits
<1>8. GoesTo(p, "commit") /\ stamp' = stamp
  BY <1>1, <1>3 DEF LocalsTyped, GoesTo, Goto, Statements
<1> QED
  BY <1>1, <1>3, <1>6, <1>7, <1>8, HoldsInv

\* The charge counted on the day of the activation.
LEMMA ActivateOsInv ==
  ASSUME VitalsAssumption, IInv, NEW p \in Proc, ActivateOs(p)
  PROVE  IInv'
<1> DEFINE date == (now \div Day) * Day
           uses == UsesToday(Sees(p, Me), now) + 1
           until == now + OsDuration
           v == [Sees(p, Me) EXCEPT !.osUntil = until, !.osUses = uses, !.osDate = date]
<1>1. CASE Reject(p)
  BY <1>1, RejectInv
<1>2. CASE ~Reject(p)
  <2>1. /\ pc[p] = "lock" /\ req[p].op = "os" /\ canActivateOs(Sees(p, Me), now)
        /\ Put(p, Me, v) /\ stamp' = [stamp EXCEPT ![p] = now] /\ Goto(p, "commit")
        /\ UNCHANGED <<now, hist, req, chr>>
    BY <1>2 DEF ActivateOs
  <2>2. Sees(p, Me) = db[Me] /\ db[Me] \in Characters
    BY <2>1, SeesCommitted
  <2>3. now \in Nat /\ Day \in Nat \ {0} /\ OsDuration \in Nat /\ OsUses \in Nat
    BY DEF IInv, Typed, Times, VitalsAssumption
  <2>4. date \in Nat /\ date \div Day = now \div Day /\ until \in Int
    <3>1. now \div Day \in Nat
      BY <2>3, Whole
    <3> QED
      BY <2>3, <3>1, DayOfMidnight
  <2>5. date # None
    BY <2>4 DEF None
  <2>6. UsesToday(db[Me], now) = Counted(db[Me], now \div Day)
    BY DEF UsesToday, isSameUtcDay, Counted
  <2>7. UsesToday(db[Me], now) \in 0 .. OsUses
    BY <2>2, <2>3 DEF UsesToday, Characters
  <2>8. UsesToday(db[Me], now) < OsUses
    BY <2>1, <2>2 DEF canActivateOs
  <2>9. uses \in 0 .. OsUses /\ uses = Counted(db[Me], now \div Day) + 1
    BY <2>2, <2>3, <2>6, <2>7, <2>8
  <2> HIDE DEF date, uses, until
  <2>10. v \in Characters /\ v.osUses = uses /\ v.osDate = date /\ v.nil = db[Me].nil
    <3> DEFINE c == db[Me]
    <3>1. v = [c EXCEPT !.osUntil = until, !.osUses = uses, !.osDate = date]
      BY <2>2
    <3>2. c \in Characters
      BY <2>2
    <3>3. until \in Int /\ date \in Int /\ uses \in 0 .. OsUses
      BY <2>4, <2>9
    <3> HIDE DEF c, v
    <3>4. v \in Characters /\ v.osUses = uses /\ v.osDate = date /\ v.nil = c.nil
      BY <3>1, <3>2, <3>3 DEF Characters
    <3> QED
      BY <3>4 DEF c
  <2> HIDE DEF v
  <2>11. GoesTo(p, "commit") /\ stamp'[p] = now /\ now <= now
    <3>1. "commit" \in Statements
      BY DEF Statements
    <3>2. UNCHANGED <<req, chr>>
      BY <2>1
    <3>3. stamp' = [stamp EXCEPT ![p] = now] /\ Goto(p, "commit")
      BY <2>1
    <3>4. GoesTo(p, "commit") /\ stamp'[p] = now
      BY <3>1, <3>2, <3>3, Decides
    <3> QED
      BY <2>3, <3>4
  <2>12. db[Me].osDate # None => db[Me].osDate \div Day <= now \div Day
    BY DEF IInv, ChargesCounted
  <2> QED
    BY <2>1, <2>4, <2>5, <2>9, <2>10, <2>11, <2>12, HoldsInv
<1> QED
  BY <1>1, <1>2
-----------------------------------------------------------------------------
\* COMMIT.

\* The charge that a COMMIT publishes is the one that the answer counts.
LEMMA ChargePublished ==
  ASSUME VitalsAssumption, IInv, NEW p \in Proc, pc[p] = "commit", req[p].op = "os",
         db'[Me] = pend[Me], now' = now, hist' = [hist EXCEPT !.charges[stamp[p] \div Day] = @ + 1]
  PROVE  hist' \in Answers /\ ChargesCounted'
<1> DEFINE e == stamp[p] \div Day
<1>1. stamp[p] \in Nat /\ stamp[p] <= now /\ now \in Nat /\ now <= MaxNow /\ MaxNow \in Nat /\ Day \in Nat \ {0}
  BY DEF IInv, Typed, LocalsTyped, RequestInv, Times, VitalsAssumption
<1>2. e \in Nat /\ e <= now \div Day /\ now \div Day \in Nat /\ now \div Day <= MaxNow \div Day /\ MaxNow \div Day \in Nat
  BY <1>1, Whole, DayOrder
<1>3. e \in Days
  BY <1>2 DEF Days
<1>4. hist \in Answers /\ db[Me] \in Characters /\ pend[Me] \in Characters
  BY DEF IInv, Typed, RowTyped
<1>5. /\ pend[Me].osDate # None /\ pend[Me].osDate \div Day = e
      /\ pend[Me].osUses = Counted(db[Me], e) + 1
      /\ db[Me].osDate # None => db[Me].osDate \div Day <= e
  BY DEF IInv, RequestInv
<1>6. /\ \A d \in Days : hist.charges[d] <= OsUses
      /\ \A d \in Days : hist.charges[d] # 0 => db[Me].osDate # None /\ d <= db[Me].osDate \div Day
      /\ \A d \in Days : db[Me].osDate # None /\ db[Me].osDate \div Day = d => hist.charges[d] = db[Me].osUses
  BY DEF IInv, ChargesCounted
<1>7. hist' = [hist EXCEPT !.charges[e] = @ + 1]
  OBVIOUS
<1> HIDE DEF e
<1>8. hist.charges \in [Days -> Nat]
  BY <1>4 DEF Answers
<1>9. hist'.charges = [hist.charges EXCEPT ![e] = @ + 1] /\ hist' \in Answers
  <2>1. [hist.charges EXCEPT ![e] = @ + 1] \in [Days -> Nat]
    BY <1>3, <1>8
  <2> QED
    BY <1>4, <1>7, <2>1 DEF Answers
<1>10. /\ hist'.charges[e] = hist.charges[e] + 1 /\ hist.charges[e] \in Nat
       /\ \A d \in Days \ {e} : hist'.charges[d] = hist.charges[d]
  BY <1>3, <1>8, <1>9
\* Nothing was counted on this day, or what the row counts is.
<1>11. Counted(db[Me], e) = hist.charges[e]
  <2>1. CASE db[Me].osDate # None /\ db[Me].osDate \div Day = e
    BY <1>3, <1>6, <2>1 DEF Counted
  <2>2. CASE ~(db[Me].osDate # None /\ db[Me].osDate \div Day = e)
    <3>1. Counted(db[Me], e) = 0
      BY <2>2 DEF Counted
    <3>2. hist.charges[e] = 0
      <4>1. SUFFICES ASSUME hist.charges[e] # 0 PROVE FALSE
        OBVIOUS
      <4>2. db[Me].osDate # None /\ e <= db[Me].osDate \div Day /\ db[Me].osDate \div Day <= e
        BY <1>3, <1>5, <1>6, <4>1
      <4>3. db[Me].osDate \div Day \in Int
        <5>1. db[Me].osDate \in Int
          BY <1>4 DEF Characters
        <5> QED
          BY <1>1, <5>1
      <4> QED
        BY <1>2, <2>2, <4>2, <4>3
    <3> QED
      BY <3>1, <3>2
  <2> QED
    BY <2>1, <2>2
<1>12. pend[Me].osUses = hist'.charges[e] /\ pend[Me].osUses <= OsUses
  <2>1. pend[Me].osUses \in 0 .. OsUses /\ OsUses \in Nat
    BY <1>4 DEF Characters, VitalsAssumption
  <2> QED
    BY <1>5, <1>10, <1>11, <2>1
<1>13. \A d \in Days : hist'.charges[d] <= OsUses
  BY <1>6, <1>10, <1>12
<1>14. \A d \in Days : hist'.charges[d] # 0 => d <= pend[Me].osDate \div Day
  <2> SUFFICES ASSUME NEW d \in Days, hist'.charges[d] # 0
               PROVE  d <= e
    BY <1>5
  <2>1. CASE d = e
    BY <1>2, <2>1
  <2>2. CASE d # e
    <3>1. db[Me].osDate # None /\ d <= db[Me].osDate \div Day /\ db[Me].osDate \div Day <= e
      BY <1>5, <1>6, <1>10, <2>2
    <3>2. db[Me].osDate \div Day \in Int /\ d \in Int
      <4>1. db[Me].osDate \in Int
        BY <1>4 DEF Characters
      <4> QED
        BY <1>1, <1>2, <4>1 DEF Days
    <3> QED
      BY <1>2, <3>1, <3>2
  <2> QED
    BY <2>1, <2>2
<1>15. \A d \in Days : pend[Me].osDate \div Day = d => hist'.charges[d] = pend[Me].osUses
  BY <1>5, <1>12
<1>16. ChargesCounted'
  BY <1>2, <1>5, <1>13, <1>14, <1>15 DEF ChargesCounted
<1> QED
  BY <1>9, <1>16

\* The other COMMITs publish the NIL that their answers count, and no charge.
LEMMA NilPublished ==
  ASSUME VitalsAssumption, IInv, NEW p \in Proc, pc[p] = "commit", req[p].op # "os",
         db'[Me] = pend[Me], now' = now,
         req[p].op = "accept" => hist' = [hist EXCEPT !.spent = @ + req[p].amount],
         req[p].op = "buy" => hist' = [hist EXCEPT !.added = @ + Added(p), !.bought = TRUE],
         req[p].op = "attack" => hist' = [hist EXCEPT !.spent = @ + AttackCost],
         req[p].op = "use" => hist' = [hist EXCEPT !.effect = stamp[p]]
  PROVE  hist' \in Answers /\ ChargesCounted' /\ NilBalanced'
<1>1. RowTyped /\ LocalsTyped /\ RequestInv(p) /\ hist \in Answers /\ NilBalanced /\ ChargesCounted
  BY DEF IInv, Typed
<1>2. req[p].op \in {"accept", "buy", "attack", "use"}
  BY <1>1, Asking DEF RequestInv, Fits
<1>3. /\ pend[Me].nil \in Int /\ db[Me].nil \in Int /\ InitNil \in Int
      /\ hist.spent \in Int /\ hist.added \in Int
  BY <1>1 DEF RowTyped, Characters, Answers, VitalsAssumption
<1>4. stamp[p] \in Times /\ stamp[p] \in Int /\ now \in Int /\ Interval \in Int /\ stamp[p] <= now
  BY <1>1 DEF IInv, Typed, LocalsTyped, RequestInv, Times, VitalsAssumption
<1>5. Early(now) => Early(stamp[p])
  BY <1>4 DEF Early
<1>6. hist' \in Answers /\ hist'.charges = hist.charges
      /\ (req[p].op = "accept" => hist'.spent = hist.spent + req[p].amount)
      /\ (req[p].op = "attack" => hist'.spent = hist.spent + AttackCost)
      /\ (req[p].op = "use" => hist'.spent = hist.spent)
      /\ (req[p].op = "buy" => hist'.bought)
      /\ (req[p].op # "buy" => hist'.added = hist.added /\ hist'.bought = hist.bought)
  <2>1. CASE req[p].op = "accept"
    <3>1. req[p].amount \in Int
      BY <1>1, <2>1, Asking
    <3> QED
      BY <1>1, <2>1, <3>1 DEF Answers
  <2>2. CASE req[p].op = "attack"
    BY <1>1, <2>2 DEF Answers, VitalsAssumption
  <2>3. CASE req[p].op = "use"
    BY <1>1, <1>4, <2>3 DEF Answers
  <2>4. CASE req[p].op = "buy"
    <3> DEFINE a == Added(p)
    <3>1. chr[p] \in Characters
      BY <1>1, <2>4 DEF RequestInv
    <3>2. a \in Int
      BY <1>1, <1>4, <3>1, RegenedTyped
    <3>3. hist' = [hist EXCEPT !.added = @ + a, !.bought = TRUE]
      BY <2>4
    <3> HIDE DEF a
    <3>4. hist.added + a \in Int
      BY <1>3, <3>2
    <3>5. /\ hist' \in Answers /\ hist'.charges = hist.charges /\ hist'.bought
      BY <1>1, <3>3, <3>4 DEF Answers
    <3> QED
      BY <2>4, <3>5
  <2> QED
    BY <1>2, <2>1, <2>2, <2>3, <2>4
<1>7. ChargesCounted'
  <2>1. pend[Me].osUses = db[Me].osUses /\ pend[Me].osDate = db[Me].osDate
    BY <1>1 DEF RequestInv
  <2> QED
    BY <1>1, <1>6, <2>1 DEF ChargesCounted
<1>8. NilBalanced'
  <2>1. SUFFICES ASSUME Early(now), ~hist'.bought
                 PROVE  pend[Me].nil <= InitNil + hist'.added - hist'.spent
    BY DEF NilBalanced
  <2>2. req[p].op # "buy" /\ ~hist.bought /\ hist'.added = hist.added
    BY <1>6, <2>1
  <2>3. db[Me].nil <= InitNil + hist.added - hist.spent
    BY <1>1, <2>1, <2>2 DEF NilBalanced
  <2>4. CASE req[p].op = "accept"
    <3>1. pend[Me].nil + req[p].amount <= db[Me].nil /\ req[p].amount \in Int
      BY <1>1, <1>5, <2>1, <2>4, Asking DEF RequestInv
    <3> QED
      BY <1>3, <1>6, <2>2, <2>3, <2>4, <3>1
  <2>5. CASE req[p].op = "attack"
    <3>1. pend[Me].nil + AttackCost <= db[Me].nil /\ AttackCost \in Int
      BY <1>1, <2>5 DEF RequestInv, VitalsAssumption
    <3> QED
      BY <1>3, <1>6, <2>2, <2>3, <2>5, <3>1
  <2>6. CASE req[p].op = "use"
    <3>1. pend[Me].nil = db[Me].nil
      BY <1>1, <2>6 DEF RequestInv
    <3> QED
      BY <1>3, <1>6, <2>2, <2>3, <2>6, <3>1
  <2> QED
    BY <1>2, <2>2, <2>4, <2>5, <2>6
<1> QED
  BY <1>6, <1>7, <1>8

LEMMA CommitRequestInv ==
  ASSUME VitalsAssumption, IInv, NEW p \in Proc, CommitRequest(p)
  PROVE  IInv'
<1> DEFINE op == req[p].op
<1>1. /\ pc[p] = "commit" /\ Answered(p) /\ now' = now
      /\ db' = [r \in DOMAIN db |-> Sees(p, r)] /\ pend' = pend
      /\ owner' = [r \in DOMAIN owner |-> IF owner[r] = p THEN NoProc ELSE owner[r]]
      /\ hist' = CASE op = "accept" -> [hist EXCEPT !.spent = @ + req[p].amount]
                   [] op = "buy" -> [hist EXCEPT !.added = @ + Added(p), !.bought = TRUE]
                   [] op = "attack" -> [hist EXCEPT !.spent = @ + AttackCost]
                   [] op = "use" -> [hist EXCEPT !.effect = stamp[p]]
                   [] op = "os" -> [hist EXCEPT !.charges[stamp[p] \div Day] = @ + 1]
  BY DEF CommitRequest, Commit, Released
<1>2. RowTyped /\ LocalsTyped /\ RequestInv(p) /\ now \in Times /\ NoProc \notin Proc /\ PendingIsOwned
  BY DEF IInv, Typed, VitalsAssumption
<1>3. owner[Me] = p
  BY <1>1, <1>2 DEF RequestInv
<1>4. DOMAIN db' = {Me} /\ DOMAIN owner' = {Me} /\ db'[Me] = pend[Me] /\ owner'[Me] = NoProc
  BY <1>1, <1>2, <1>3 DEF RowTyped, Sees
<1>5. RowTyped'
  BY <1>1, <1>2, <1>4 DEF RowTyped
<1>6. LocalsTyped' /\ RequestInv(p)' /\ \A q \in Proc \ {p} : Unmoved(q)
  BY <1>1, <1>2, <1>4, IdleInv
<1>7. PendingIsOwned'
  BY <1>1, <1>4 DEF PendingIsOwned
<1>8. op \in {"accept", "buy", "attack", "use", "os"}
  BY <1>1, <1>2, Asking DEF RequestInv, Fits
<1>9. hist' \in Answers /\ ChargesCounted' /\ NilBalanced'
  <2>1. CASE op = "os"
    <3>1. hist' = [hist EXCEPT !.charges[stamp[p] \div Day] = @ + 1]
      BY <1>1, <2>1
    <3>2. hist' \in Answers /\ ChargesCounted'
      BY <1>1, <1>4, <2>1, <3>1, ChargePublished
    <3>3. NilBalanced'
      <4>1. pend[Me].nil = db[Me].nil
        BY <1>1, <1>2, <2>1 DEF RequestInv
      <4>2. hist'.bought = hist.bought /\ hist'.added = hist.added /\ hist'.spent = hist.spent
        BY <3>1 DEF IInv, Typed, Answers
      <4> QED
        BY <1>1, <1>4, <4>1, <4>2 DEF IInv, NilBalanced
    <3> QED
      BY <3>2, <3>3
  <2>2. CASE op # "os"
    <3>1. /\ op = "accept" => hist' = [hist EXCEPT !.spent = @ + req[p].amount]
          /\ op = "buy" => hist' = [hist EXCEPT !.added = @ + Added(p), !.bought = TRUE]
          /\ op = "attack" => hist' = [hist EXCEPT !.spent = @ + AttackCost]
          /\ op = "use" => hist' = [hist EXCEPT !.effect = stamp[p]]
      BY <1>1
    <3> QED
      BY <1>1, <1>4, <2>2, <3>1, NilPublished
  <2> QED
    BY <2>1, <2>2
<1>10. Typed'
  BY <1>1, <1>2, <1>5, <1>6, <1>9 DEF Typed
<1>11. \A q \in Proc \ {p} : LeavesAlone(q)
  BY <1>2, <1>3, <1>4 DEF LeavesAlone
<1> QED
  BY <1>1, <1>6, <1>7, <1>9, <1>10, <1>11, StepKeeps
-----------------------------------------------------------------------------
\* The steps of nobody's request.

LEMMA FlatlineInv ==
  ASSUME VitalsAssumption, IInv, Flatline
  PROVE  IInv'
<1>1. /\ owner[Me] = NoProc /\ db' = [db EXCEPT ![Me].flat = TRUE] /\ pend' = [pend EXCEPT ![Me].flat = TRUE]
      /\ owner' = owner /\ now' = now /\ hist' = hist
      /\ pc' = pc /\ req' = req /\ chr' = chr /\ stamp' = stamp
  BY DEF Flatline, local
<1>2. RowTyped /\ LocalsTyped /\ now \in Times /\ hist \in Answers /\ NoProc \notin Proc
  BY DEF IInv, Typed, VitalsAssumption
<1>3. db[Me] \in Characters /\ pend[Me] = db[Me]
  BY <1>1, <1>2 DEF IInv, PendingIsOwned, RowTyped
<1>4. /\ DOMAIN db' = {Me} /\ DOMAIN pend' = {Me}
      /\ db'[Me] = [db[Me] EXCEPT !.flat = TRUE] /\ pend'[Me] = db'[Me]
  BY <1>1, <1>2, <1>3 DEF RowTyped
<1>5. /\ db'[Me] \in Characters /\ db'[Me].nil = db[Me].nil
      /\ db'[Me].osUses = db[Me].osUses /\ db'[Me].osDate = db[Me].osDate
  BY <1>3, <1>4 DEF Characters
<1>6. Typed'
  BY <1>1, <1>2, <1>4, <1>5 DEF Typed, RowTyped, LocalsTyped
<1>7. PendingIsOwned' /\ NilBalanced' /\ ChargesCounted'
  BY <1>1, <1>4, <1>5 DEF IInv, PendingIsOwned, NilBalanced, ChargesCounted
<1>8. now <= now' /\ now' \in Times
  BY <1>1, <1>2 DEF Times, VitalsAssumption
<1>9. ASSUME NEW q \in Proc
      PROVE  RequestInv(q)'
  <2>1. Unmoved(q) /\ LeavesAlone(q)
    BY <1>1, <1>2 DEF Unmoved, LeavesAlone
  <2> QED
    BY <1>2, <1>8, <2>1, OthersKeep
<1> QED
  BY <1>6, <1>7, <1>9 DEF IInv

LEMMA TickInv ==
  ASSUME VitalsAssumption, IInv, Tick
  PROVE  IInv'
<1>1. /\ now < MaxNow /\ now' = now + 1 /\ db' = db /\ pend' = pend /\ owner' = owner /\ hist' = hist
      /\ pc' = pc /\ req' = req /\ chr' = chr /\ stamp' = stamp
  BY DEF Tick, local, rcVars
<1>2. now \in Nat /\ MaxNow \in Nat /\ Day \in Nat \ {0} /\ Interval \in Nat
  BY DEF IInv, Typed, Times, VitalsAssumption
<1>3. now' \in Times /\ now \in Times /\ now <= now' /\ (Early(now') => Early(now))
  BY <1>1, <1>2 DEF Times, Early
<1>4. Typed' /\ PendingIsOwned' /\ NilBalanced'
  BY <1>1, <1>3 DEF IInv, Typed, RowTyped, LocalsTyped, PendingIsOwned, NilBalanced
<1>5. ChargesCounted'
  <2>1. now \div Day <= now' \div Day /\ now \div Day \in Int /\ now' \div Day \in Int
    <3>1. now + 1 \in Nat /\ now <= now + 1
      BY <1>2
    <3>2. now \div Day <= (now + 1) \div Day /\ now \div Day \in Int /\ (now + 1) \div Day \in Int
      BY <1>2, <3>1, DayOrder, Whole
    <3> QED
      BY <1>1, <3>2
  <2>2. db[Me].osDate # None => db[Me].osDate \div Day \in Int
    <3>1. db[Me].osDate \in Int
      BY DEF IInv, Typed, RowTyped, Characters
    <3> QED
      BY <1>2, <3>1
  <2> QED
    BY <1>1, <2>1, <2>2 DEF IInv, ChargesCounted
<1>6. ASSUME NEW q \in Proc
      PROVE  RequestInv(q)'
  <2>1. Unmoved(q) /\ LeavesAlone(q)
    BY <1>1 DEF Unmoved, LeavesAlone
  <2> QED
    BY <1>3, <2>1, OthersKeep
<1> QED
  BY <1>4, <1>5, <1>6 DEF IInv
-----------------------------------------------------------------------------

LEMMA NextInv ==
  ASSUME VitalsAssumption, IInv, [Next]_vars
  PROVE  IInv'
<1>1. CASE Tick
  BY <1>1, TickInv
<1>2. CASE Flatline
  BY <1>2, FlatlineInv
<1>3. CASE \E p \in Proc : Start(p) \/ Step(p) \/ Lost(p)
  <2>1. PICK p \in Proc : Start(p) \/ Step(p) \/ Lost(p)
    BY <1>3
  <2>2. CASE Start(p)
    BY <2>2, StartInv
  <2>3. CASE Lost(p)
    BY <2>3, RejectInv DEF Lost
  <2>4. CASE Read(p)
    BY <2>4, ReadInv
  <2>5. CASE IssueNil(p)
    BY <2>5, IssueNilInv
  <2>6. CASE UpdateNilSpend(p)
    BY <2>6, UpdateNilSpendInv
  <2>7. CASE UpdateNilSet(p)
    BY <2>7, UpdateNilSetInv
  <2>8. CASE PayAttack(p)
    BY <2>8, PayAttackInv
  <2>9. CASE IssueActivation(p)
    BY <2>9, IssueActivationInv
  <2>10. CASE Activate(p)
    BY <2>10, ActivateInv
  <2>11. CASE CheckBonus(p)
    BY <2>11, CheckBonusInv
  <2>12. CASE ConsumeAbility(p)
    BY <2>12, ConsumeAbilityInv
  <2>13. CASE ActivateOs(p)
    BY <2>13, ActivateOsInv
  <2>14. CASE CommitRequest(p)
    BY <2>14, CommitRequestInv
  <2> QED
    BY <2>1, <2>2, <2>3, <2>4, <2>5, <2>6, <2>7, <2>8, <2>9, <2>10, <2>11, <2>12, <2>13, <2>14 DEF Step
<1>4. CASE UNCHANGED vars
  <2>1. /\ db' = db /\ pend' = pend /\ owner' = owner /\ now' = now /\ hist' = hist
        /\ pc' = pc /\ req' = req /\ chr' = chr /\ stamp' = stamp
    BY <1>4 DEF vars, rcVars, local
  <2> QED
    BY <2>1 DEF IInv, Typed, RowTyped, LocalsTyped, PendingIsOwned, NilBalanced, ChargesCounted, RequestInv, Fits, Counted
<1> QED
  BY <1>1, <1>2, <1>3, <1>4 DEF Next

\* The invariant of the row, the answers and the requests under way.
THEOREM Inductive ==
  ASSUME VitalsAssumption
  PROVE  Spec => []IInv
<1>1. Init => IInv
  BY InitInv
<1>2. IInv /\ [Next]_vars => IInv'
  BY NextInv
<1> QED
  BY <1>1, <1>2, PTL DEF Spec

\* Whatever requests overlap, every value of the row keeps its type, and the NIL and
\* the charges their range: no UPDATE takes more NIL than there is or gives more than
\* its ceiling.
THEOREM RowTypedAlways ==
  ASSUME VitalsAssumption
  PROVE  Spec => []TypeOK
<1>1. IInv => TypeOK
  <2> SUFFICES ASSUME IInv PROVE TypeOK
    OBVIOUS
  <2>1. RowTyped /\ LocalsTyped /\ now \in Times
    BY DEF IInv, Typed
  <2>2. ASSUME NEW c \in {db[Me], pend[Me]}
        PROVE  /\ c.role \in Role /\ {c.os, c.flat} \subseteq BOOLEAN /\ c.nil \in 0 .. MaxNil /\ c.at \in Times
               /\ {c.active, c.cooldown, c.osUntil, c.osDate} \subseteq Int /\ c.osUses \in 0 .. OsUses
    <3>1. c \in Characters
      BY <2>1 DEF RowTyped
    <3> QED
      BY <3>1 DEF Characters
  <2> QED
    BY <2>1, <2>2 DEF TypeOK, RowTyped, LocalsTyped, Statements
<1> QED
  BY <1>1, Inductive, PTL

\* No NIL of the first interval is spent twice or comes from nowhere, and no day has more
\* activations of the operating system than charges, however many requests overlap and
\* whatever midnight falls between their reads and their COMMITs.
THEOREM NothingFreeAlways ==
  ASSUME VitalsAssumption
  PROVE  Spec => []NothingFree
<1>1. IInv => NothingFree
  <2> SUFFICES ASSUME IInv PROVE NothingFree
    OBVIOUS
  <2>1. hist \in Answers /\ now \in Times /\ db[Me] \in Characters
    BY DEF IInv, Typed, RowTyped
  <2>2. OsChargesHold
    <3>1. DOMAIN hist.charges = Days
      BY <2>1 DEF Answers
    <3> QED
      BY <3>1 DEF IInv, ChargesCounted, OsChargesHold
  <2>3. ASSUME now < Interval, ~hist.bought
        PROVE  NilCovered
    <3>1. db[Me].nil <= InitNil + hist.added - hist.spent
      BY <2>3 DEF IInv, NilBalanced, Early
    <3>2. calculateRegen(db[Me], now) = db[Me].nil
      BY <2>1, <2>3, RegenTyped DEF Early
    <3>3. now \div Interval = 0
      <4>1. now \in Nat /\ Interval \in Nat \ {0}
        BY <2>1 DEF Times, VitalsAssumption
      <4> QED
        BY <2>3, <4>1, Whole
    <3>4. /\ InitNil \in Int /\ hist.added \in Int /\ hist.spent \in Int /\ db[Me].nil \in Int
      BY <2>1 DEF Answers, Characters, VitalsAssumption
    <3> QED
      BY <3>1, <3>2, <3>3, <3>4 DEF NilCovered
  <2> QED
    BY <2>2, <2>3 DEF NothingFree
<1> QED
  BY <1>1, Inductive, PTL
-----------------------------------------------------------------------------
(* One request at a time: what it has read is what is committed, so a tick is  *)
(* paid for once and an ability comes back when its cooldown is over.          *)

Busy(p) == pc[p] # "idle"
Single == \A p, q \in Proc : Busy(p) /\ Busy(q) => p = q

\* But for a flatline, c is d.
SameAbility(c, d) == c.role = d.role /\ c.active = d.active /\ c.cooldown = d.cooldown
Same(c, d) == SameAbility(c, d) /\ c.nil = d.nil /\ c.at = d.at

\* The NIL a row written at t may hold.
Owed(t) == InitNil + hist.added + t \div Interval - hist.spent
Covered == db[Me].at <= now /\ db[Me].nil <= Owed(db[Me].at)

\* An effect at t keeps its distance from the latest.
Apart(t) ==
  LET r == db[Me].role IN hist.effect # None => t > hist.effect + Duration[r] + Cooldown[r]

\* The cooldown of the latest effect stands, and a one-shot that is active was activated
\* after it.
Spaced ==
  LET c == db[Me] IN
  /\ hist.effect # None =>
       /\ hist.effect \in Nat
       /\ c.cooldown >= hist.effect + Duration[c.role] + Cooldown[c.role]
  /\ Duration[c.role] = 0 /\ c.active # None => c.active <= now /\ Apart(c.active)

LoneRequest(p) ==
  LET op == req[p].op
      c == pend[Me] IN
  /\ pc[p] \in Reading => Same(chr[p], db[Me])
  /\ pc[p] \in {"spend", "restore"} => db[Me].at <= stamp[p]
  /\ pc[p] = "activate" => Apart(stamp[p])
  /\ pc[p] = "consume" => Duration[db[Me].role] = 0 /\ Apart(stamp[p])
  /\ pc[p] = "commit" =>
       /\ c.role = db[Me].role
       /\ op \in {"accept", "buy"} => c.at = stamp[p]
       /\ op \notin {"accept", "buy"} => c.at = db[Me].at
       /\ op = "accept" => c.nil + req[p].amount <= Owed(stamp[p])
       /\ op = "buy" => c.nil <= Owed(stamp[p]) + Added(p)
       /\ op # "use" => SameAbility(c, db[Me])
       /\ op = "use" =>
            /\ Duration[c.role] = 0 /\ Apart(stamp[p])
            /\ c.active = None /\ c.cooldown >= stamp[p] + Cooldown[c.role]

SoloInv == hist.alone => Single /\ Covered /\ Spaced /\ \A p \in Proc : LoneRequest(p)

\* Ticks counted apart are no more than the ticks of the whole time.
LEMMA TicksAddUp ==
  ASSUME NEW m \in Nat, NEW n \in Nat, NEW d \in Nat \ {0}
  PROVE  m \div d + n \div d <= (m + n) \div d
<1> DEFINE k == m \div d
           l == n \div d
<1>1. k \in Nat /\ l \in Nat /\ k * d <= m /\ l * d <= n
  OBVIOUS
<1> HIDE DEF k, l
<1>2. (k + l) \in Nat /\ (k + l) * d = k * d + l * d
  BY <1>1
<1>3. ((k + l) * d) \div d = k + l /\ (k + l) * d \in Nat
  BY <1>2, DayOfMidnight
<1>4. (k + l) * d <= m + n /\ m + n \in Nat
  BY <1>1, <1>2, <1>3
<1>5. ((k + l) * d) \div d <= (m + n) \div d
  BY <1>3, <1>4, DayOrder
<1>6. k + l <= (m + n) \div d
  BY <1>3, <1>5
<1> QED
  BY <1>6 DEF k, l

\* What a covered row regains is covered.
LEMMA Regains ==
  ASSUME VitalsAssumption, NEW c \in Characters, NEW t \in Times, NEW b \in Int,
         c.at <= t, c.nil <= b + c.at \div Interval
  PROVE  calculateRegen(c, t) <= b + t \div Interval
<1>1. c.nil \in Nat /\ c.at \in Nat /\ t \in Nat /\ Interval \in Nat \ {0} /\ MaxNil \in Nat
  BY DEF Characters, Times, VitalsAssumption
<1> DEFINE u == t - c.at
<1>2. u \in Nat /\ c.at + u = t
  BY <1>1
<1>3. c.at \div Interval + u \div Interval <= t \div Interval
  BY <1>1, <1>2, TicksAddUp
<1>4. /\ c.at \div Interval \in Nat /\ u \div Interval \in Nat /\ t \div Interval \in Nat
      /\ u = 0 => u \div Interval = 0
  <2>1. u = 0 => u < Interval
    BY <1>1
  <2> QED
    BY <1>1, <1>2, <2>1, Whole
<1>5. RegenOffset(c, t) = u \div Interval
  <2>1. CASE t > c.at
    BY <2>1 DEF RegenOffset
  <2>2. CASE ~(t > c.at)
    <3>1. u = 0
      BY <1>1, <2>2
    <3> QED
      BY <1>4, <2>2, <3>1 DEF RegenOffset
  <2> QED
    BY <2>1, <2>2
<1> HIDE DEF u
<1> DEFINE n == c.nil + RegenOffset(c, t)
<1>6. n \in Int /\ n <= b + t \div Interval
  BY <1>1, <1>3, <1>4, <1>5
<1> HIDE DEF n
<1>7. Min({MaxNil, n}) <= n /\ Min({MaxNil, n}) \in {MaxNil, n}
  <2>1. MaxNil \in Int
    BY <1>1
  <2> QED
    BY <1>6, <2>1, MinOfTwo, Zenon
<1>8. calculateRegen(c, t) = Min({MaxNil, n})
  BY DEF calculateRegen, n
<1> QED
  BY <1>1, <1>4, <1>6, <1>7, <1>8

\* By a character read alone, a spend and a Pingado derive what is covered.
LEMMA LoneRegains ==
  ASSUME VitalsAssumption, IInv, Covered, NEW p \in Proc, pc[p] \in {"spend", "restore"}, LoneRequest(p)
  PROVE  /\ Regened(p) = calculateRegen(chr[p], stamp[p])
         /\ calculateRegen(chr[p], stamp[p]) <= Owed(stamp[p])
         /\ stamp[p] \in Times /\ stamp[p] <= now
         /\ Regened(p) \in Int /\ Restored(p) \in Int /\ Owed(stamp[p]) \in Int /\ Added(p) \in Int
<1>1. /\ chr[p] \in Characters /\ stamp[p] \in Times /\ stamp[p] <= now /\ Sees(p, Me) = db[Me]
      /\ db[Me] \in Characters /\ RowTyped
  BY SeesCommitted DEF IInv, Typed, LocalsTyped, RequestInv, Reading
<1>2. Same(chr[p], db[Me]) /\ db[Me].at <= stamp[p]
  BY DEF LoneRequest, Reading
<1>3. hist.added \in Int /\ hist.spent \in Int /\ InitNil \in Int
  BY DEF IInv, Typed, Answers, VitalsAssumption
<1>4. chr[p].at <= stamp[p] /\ chr[p].nil <= (InitNil + hist.added - hist.spent) + chr[p].at \div Interval
  <2>1. db[Me].at \in Nat /\ Interval \in Nat \ {0}
    BY <1>1 DEF Characters, Times, VitalsAssumption
  <2>2. db[Me].at \div Interval \in Int
    BY <2>1, Whole
  <2> QED
    BY <1>2, <1>3, <2>2 DEF Same, Covered, Owed
<1>5. calculateRegen(chr[p], stamp[p]) <= (InitNil + hist.added - hist.spent) + stamp[p] \div Interval
  <2>1. InitNil + hist.added - hist.spent \in Int
    BY <1>3
  <2> QED
    BY <1>1, <1>4, <2>1, Regains
<1>6. stamp[p] \div Interval \in Nat
  <2>1. stamp[p] \in Nat /\ Interval \in Nat \ {0}
    BY <1>1 DEF Times, VitalsAssumption
  <2> QED
    BY <2>1, Whole
<1>7. calculateRegen(chr[p], stamp[p]) <= Owed(stamp[p]) /\ Owed(stamp[p]) \in Int
  BY <1>3, <1>5, <1>6 DEF Owed
<1>8. Regened(p) = calculateRegen(chr[p], stamp[p])
  BY <1>1, <1>2 DEF Regened, calculateRegen, Same
<1>9. Regened(p) \in Int /\ Restored(p) \in Int /\ Added(p) \in Int
  BY <1>1, RegenedTyped
<1> QED
  BY <1>1, <1>7, <1>8, <1>9

\* What is to show of a step of the only request.
LEMMA LoneStep ==
  ASSUME IInv, Single, NEW p \in Proc, Busy(p), \A q \in Proc \ {p} : Unmoved(q),
         Covered', Spaced', LoneRequest(p)'
  PROVE  SoloInv'
<1>1. \A q \in Proc \ {p} : pc'[q] = "idle"
  BY DEF Single, Busy, Unmoved
<1>2. Single'
  BY <1>1 DEF Single, Busy
<1>3. \A q \in Proc \ {p} : LoneRequest(q)'
  BY <1>1 DEF LoneRequest, Reading
<1> QED
  BY <1>2, <1>3 DEF SoloInv

\* What a request that is answered leaves to show.
LEMMA LoneAnswer ==
  ASSUME IInv, Single, NEW p \in Proc, Busy(p), Answered(p), Covered', Spaced'
  PROVE  SoloInv'
<1>1. /\ pc' = [pc EXCEPT ![p] = "idle"] /\ req' = [req EXCEPT ![p] = NoRequest]
      /\ chr' = [chr EXCEPT ![p] = NoRow] /\ stamp' = [stamp EXCEPT ![p] = 0]
  BY DEF Answered, Goto
<1>2. pc'[p] = "idle" /\ \A q \in Proc \ {p} : Unmoved(q)
  BY <1>1 DEF IInv, Typed, LocalsTyped, Unmoved
<1>3. LoneRequest(p)'
  BY <1>2 DEF LoneRequest, Reading
<1> QED
  BY <1>2, <1>3, LoneStep

\* Neither the committed row nor the answers change.
LEMMA NothingPublished ==
  ASSUME Covered, Spaced, db' = db, now' = now, hist' = hist
  PROVE  Covered' /\ Spaced' /\ EffectStep
  BY DEF Covered, Spaced, Owed, Apart, EffectStep

LEMMA LoneReject ==
  ASSUME IInv, Single, Covered, Spaced, NEW p \in Proc, Busy(p), Reject(p)
  PROVE  SoloInv' /\ EffectStep
<1>1. Answered(p) /\ now' = now /\ hist' = hist /\ db' = db
  BY DEF Reject, Rollback
<1>2. Covered' /\ Spaced' /\ EffectStep
  BY <1>1, NothingPublished
<1> QED
  BY <1>1, <1>2, LoneAnswer

LEMMA LoneStart ==
  ASSUME VitalsAssumption, IInv, SoloInv, NEW p \in Proc, Start(p), hist'.alone
  PROVE  SoloInv' /\ EffectStep
<1>1. PICK r \in Requests :
        /\ req' = [req EXCEPT ![p] = r]
        /\ pc' = [pc EXCEPT ![p] = IF r.op \in {"attack", "os"} THEN "lock" ELSE "read"]
  BY DEF Start, Goto
<1>2. /\ db' = db /\ now' = now /\ chr' = chr /\ stamp' = stamp
      /\ hist' = [hist EXCEPT !.alone = hist.alone /\ \A q \in Proc \ {p} : pc[q] = "idle"]
  BY DEF Start, rcVars
<1>3. /\ hist.alone /\ \A q \in Proc \ {p} : pc[q] = "idle"
      /\ hist'.added = hist.added /\ hist'.spent = hist.spent /\ hist'.effect = hist.effect
  BY <1>2 DEF IInv, Typed, Answers
<1>4. /\ pc'[p] \in {"lock", "read"}
      /\ \A q \in Proc \ {p} : pc'[q] = "idle"
  BY <1>1, <1>3 DEF IInv, Typed, LocalsTyped
<1>5. Single'
  BY <1>4 DEF Single, Busy
<1>6. Covered' /\ Spaced'
  BY <1>2, <1>3 DEF SoloInv, Covered, Spaced, Owed, Apart
<1>7. \A q \in Proc : LoneRequest(q)'
  BY <1>4 DEF LoneRequest, Reading
<1> QED
  BY <1>3, <1>5, <1>6, <1>7 DEF SoloInv, EffectStep

LEMMA LoneRead ==
  ASSUME VitalsAssumption, IInv, SoloInv, hist.alone, NEW p \in Proc, Read(p)
  PROVE  SoloInv' /\ EffectStep
<1> DEFINE l == IF req[p].op = "use" THEN "bonus" ELSE "issue"
<1>1. /\ pc[p] = "read" /\ chr' = [chr EXCEPT ![p] = Sees(p, Me)] /\ pc' = [pc EXCEPT ![p] = l]
      /\ UNCHANGED <<rcVars, now, hist, req, stamp>>
  BY DEF Read, Goto
<1>2. Single /\ Covered /\ Spaced /\ Busy(p) /\ Sees(p, Me) = db[Me]
  BY <1>1, SeesCommitted DEF SoloInv, Busy
<1>3. l \in {"bonus", "issue"}
  OBVIOUS
<1> HIDE DEF l
<1>4. /\ pc'[p] = l /\ chr'[p] = db[Me] /\ db' = db /\ hist' = hist /\ now' = now
      /\ \A q \in Proc \ {p} : Unmoved(q)
  BY <1>1, <1>2 DEF IInv, Typed, LocalsTyped, Unmoved, rcVars
<1>5. LoneRequest(p)'
  BY <1>3, <1>4 DEF LoneRequest, Same, SameAbility
<1> QED
  BY <1>2, <1>4, <1>5, LoneStep, NothingPublished

\* A decision, by a character that is the committed one.
LEMMA LoneDecides ==
  ASSUME VitalsAssumption, IInv, SoloInv, hist.alone, NEW p \in Proc, pc[p] \in {"issue", "bonus"},
         NEW l \in {"spend", "restore", "activate", "consume"},
         stamp' = [stamp EXCEPT ![p] = now], Goto(p, l), UNCHANGED <<rcVars, now, hist, req, chr>>,
         l = "activate" => Apart(now), l = "consume" => Duration[db[Me].role] = 0 /\ Apart(now)
  PROVE  SoloInv' /\ EffectStep
<1>1. Single /\ Covered /\ Spaced /\ Busy(p) /\ LoneRequest(p)
  BY DEF SoloInv, Busy
<1>2. /\ pc'[p] = l /\ stamp'[p] = now /\ chr'[p] = chr[p] /\ db' = db /\ hist' = hist /\ now' = now
      /\ \A q \in Proc \ {p} : Unmoved(q)
  BY DEF IInv, Typed, LocalsTyped, Unmoved, Goto, rcVars
<1>3. Same(chr[p], db[Me]) /\ db[Me].at <= now
  BY <1>1 DEF LoneRequest, Reading, Covered
<1>4. LoneRequest(p)'
  BY <1>2, <1>3 DEF LoneRequest, Reading, Same, SameAbility, Apart
<1> QED
  BY <1>1, <1>2, <1>4, LoneStep, NothingPublished

LEMMA LoneIssueNil ==
  ASSUME VitalsAssumption, IInv, SoloInv, hist.alone, NEW p \in Proc, IssueNil(p)
  PROVE  SoloInv' /\ EffectStep
<1>1. CASE Reject(p)
  BY <1>1, LoneReject DEF IssueNil, SoloInv, Busy
<1>2. CASE ~Reject(p)
  <2> DEFINE l == IF req[p].op \in {"consume", "accept"} THEN "spend" ELSE "restore"
  <2>1. /\ pc[p] = "issue"
        /\ stamp' = [stamp EXCEPT ![p] = now] /\ Goto(p, l) /\ UNCHANGED <<rcVars, now, hist, req, chr>>
    BY <1>2 DEF IssueNil
  <2>2. l \in {"spend", "restore"}
    OBVIOUS
  <2> HIDE DEF l
  <2> QED
    BY <2>1, <2>2, LoneDecides
<1> QED
  BY <1>1, <1>2

\* An ability is ready when the cooldown of its latest effect is over.
LEMMA LoneIssueActivation ==
  ASSUME VitalsAssumption, IInv, SoloInv, hist.alone, NEW p \in Proc, IssueActivation(p)
  PROVE  SoloInv' /\ EffectStep
<1>1. CASE Reject(p)
  BY <1>1, LoneReject DEF IssueActivation, SoloInv, Busy
<1>2. CASE ~Reject(p)
  <2>1. /\ pc[p] = "issue" /\ resolveAbilityState(chr[p], now) = "ready"
        /\ stamp' = [stamp EXCEPT ![p] = now] /\ Goto(p, "activate") /\ UNCHANGED <<rcVars, now, hist, req, chr>>
    BY <1>2 DEF IssueActivation
  <2> DEFINE c == db[Me]
  <2>2. SameAbility(chr[p], c)
    BY <2>1 DEF SoloInv, LoneRequest, Reading, Same
  <2>3. \/ c.cooldown # None /\ c.cooldown < now
        \/ c.active = None /\ c.cooldown = None
    BY <2>1, <2>2 DEF resolveAbilityState, SameAbility
  <2>4. /\ now \in Nat /\ c.cooldown \in Int
        /\ Duration[c.role] \in Nat /\ Cooldown[c.role] \in Nat
    BY DEF IInv, Typed, RowTyped, Characters, Times, VitalsAssumption
  <2>5. Apart(now)
    <3>1. hist.effect # None =>
            hist.effect \in Nat /\ c.cooldown >= hist.effect + Duration[c.role] + Cooldown[c.role]
      BY DEF SoloInv, Spaced
    <3> HIDE DEF c
    <3>2. hist.effect # None => now > hist.effect + Duration[c.role] + Cooldown[c.role]
      BY <2>3, <2>4, <3>1 DEF None
    <3> QED
      BY <3>2 DEF Apart, c
  <2> QED
    BY <2>1, <2>5, LoneDecides
<1> QED
  BY <1>1, <1>2

\* The bonus of a one-shot is of an activation after its latest use.
LEMMA LoneCheckBonus ==
  ASSUME VitalsAssumption, IInv, SoloInv, hist.alone, NEW p \in Proc, CheckBonus(p)
  PROVE  SoloInv' /\ EffectStep
<1>1. CASE Reject(p)
  BY <1>1, LoneReject DEF CheckBonus, SoloInv, Busy
<1>2. CASE ~Reject(p)
  <2>1. /\ pc[p] = "bonus" /\ ~(Duration[chr[p].role] > 0) /\ resolveAbilityState(chr[p], now) = "active"
        /\ stamp' = [stamp EXCEPT ![p] = now] /\ Goto(p, "consume") /\ UNCHANGED <<rcVars, now, hist, req, chr>>
    BY <1>2 DEF CheckBonus
  <2> DEFINE c == db[Me]
  <2>2. SameAbility(chr[p], c)
    BY <2>1 DEF SoloInv, LoneRequest, Reading, Same
  <2>3. c.active # None
    BY <2>1, <2>2 DEF resolveAbilityState, SameAbility
  <2>4. /\ now \in Nat /\ c.active \in Int
        /\ Duration[c.role] \in Nat /\ Cooldown[c.role] \in Nat
    BY DEF IInv, Typed, RowTyped, Characters, Times, VitalsAssumption
  <2>5. Duration[c.role] = 0
    BY <2>1, <2>2, <2>4 DEF SameAbility
  <2>6. c.active <= now /\ Apart(c.active)
    BY <2>3, <2>5 DEF SoloInv, Spaced
  <2>7. hist.effect # None => hist.effect \in Nat
    BY DEF SoloInv, Spaced
  <2>8. Apart(now)
    BY <2>4, <2>6, <2>7 DEF Apart
  <2> QED
    BY <2>1, <2>5, <2>8, LoneDecides
<1> QED
  BY <1>1, <1>2

\* A row that one request has written at t.
LEMMA LoneWrite ==
  ASSUME VitalsAssumption, IInv, Single, NEW p \in Proc, Busy(p), pc[p] # "commit", NEW v \in Characters,
         WriteNow(p, Me, v), Answered(p), now' = now, v.at <= now,
         v.nil <= InitNil + hist'.added + v.at \div Interval - hist'.spent,
         /\ hist'.effect # None =>
              /\ hist'.effect \in Nat
              /\ v.cooldown >= hist'.effect + Duration[v.role] + Cooldown[v.role]
         /\ Duration[v.role] = 0 /\ v.active # None =>
              /\ v.active <= now
              /\ hist'.effect # None => v.active > hist'.effect + Duration[v.role] + Cooldown[v.role]
  PROVE  SoloInv'
<1>1. db' = [db EXCEPT ![Me] = v]
  BY DEF WriteNow
<1>2. db'[Me] = v
  BY <1>1 DEF IInv, Typed, RowTyped
<1>3. Covered'
  BY <1>2 DEF Covered, Owed
<1>4. Spaced'
  BY <1>2 DEF Spaced, Apart
<1> QED
  BY <1>3, <1>4, LoneAnswer

\* A row that one request will commit.
LEMMA LonePut ==
  ASSUME VitalsAssumption, IInv, SoloInv, hist.alone, NEW p \in Proc, Busy(p), NEW v,
         Put(p, Me, v), Goto(p, "commit"), UNCHANGED <<now, hist, req, chr>>,
         \A q \in Proc \ {p} : stamp'[q] = stamp[q],
         /\ v.role = db[Me].role
         /\ req[p].op \in {"accept", "buy"} => v.at = stamp'[p]
         /\ req[p].op \notin {"accept", "buy"} => v.at = db[Me].at
         /\ req[p].op = "accept" => v.nil + req[p].amount <= Owed(stamp'[p])
         /\ req[p].op = "buy" => stamp'[p] = stamp[p] /\ v.nil <= Owed(stamp[p]) + Added(p)
         /\ req[p].op # "use" => SameAbility(v, db[Me])
         /\ req[p].op = "use" =>
              /\ Duration[v.role] = 0 /\ Apart(stamp'[p])
              /\ v.active = None /\ v.cooldown >= stamp'[p] + Cooldown[v.role]
  PROVE  SoloInv' /\ EffectStep
<1>1. /\ db' = db /\ pend' = [pend EXCEPT ![Me] = v] /\ pc' = [pc EXCEPT ![p] = "commit"]
      /\ now' = now /\ hist' = hist /\ req' = req /\ chr' = chr
  BY DEF Put, Goto
<1>2. /\ pend'[Me] = v /\ pc'[p] = "commit" /\ \A q \in Proc \ {p} : Unmoved(q)
  BY <1>1 DEF IInv, Typed, RowTyped, LocalsTyped, Unmoved
<1>3. req[p].op = "buy" => Added(p)' = Added(p) /\ Owed(stamp[p])' = Owed(stamp[p])
  BY <1>1 DEF Added, Restored, calculateRegen, RegenOffset, Owed
<1>4. Single /\ Covered /\ Spaced
  BY DEF SoloInv
<1>5. LoneRequest(p)'
  BY <1>1, <1>2, <1>3 DEF LoneRequest, Reading, SameAbility, Owed, Apart
<1> QED
  BY <1>1, <1>2, <1>4, <1>5, LoneStep, NothingPublished

\* The only request's row as it finds it.
LEMMA LoneRow ==
  ASSUME VitalsAssumption, IInv, SoloInv, hist.alone, NEW p \in Proc, pc[p] # "idle"
  PROVE  /\ Single /\ Covered /\ Spaced /\ Busy(p) /\ LoneRequest(p) /\ RequestInv(p)
         /\ db[Me] \in Characters /\ (pc[p] # "commit" => Sees(p, Me) = db[Me])
         /\ now \in Times /\ stamp[p] \in Times /\ hist \in Answers
         /\ db[Me].nil \in Int /\ db[Me].at \in Nat /\ {db[Me].active, db[Me].cooldown} \subseteq Int
         /\ Duration[db[Me].role] \in Nat /\ Cooldown[db[Me].role] \in Nat
         /\ db[Me].at \div Interval \in Int /\ stamp[p] \div Interval \in Int
         /\ InitNil \in Int /\ hist.added \in Int /\ hist.spent \in Int
<1>1. Single /\ Covered /\ Spaced /\ Busy(p) /\ LoneRequest(p)
  BY DEF SoloInv, Busy
<1>2. db[Me] \in Characters /\ (pc[p] # "commit" => Sees(p, Me) = db[Me])
  BY SeesCommitted DEF IInv, Typed, RowTyped
<1>3. now \in Times /\ stamp[p] \in Times /\ hist \in Answers /\ RequestInv(p)
  BY DEF IInv, Typed, LocalsTyped
<1>4. db[Me].nil \in Int /\ db[Me].at \in Times /\ {db[Me].active, db[Me].cooldown} \subseteq Int /\ db[Me].role \in Role
  BY <1>2 DEF Characters
<1>5. Duration[db[Me].role] \in Nat /\ Cooldown[db[Me].role] \in Nat
  BY <1>4 DEF VitalsAssumption
<1>6. db[Me].at \in Nat /\ stamp[p] \in Nat /\ Interval \in Nat \ {0}
  BY <1>3, <1>4 DEF Times, VitalsAssumption
<1>7. db[Me].at \div Interval \in Int /\ stamp[p] \div Interval \in Int
  BY <1>6, Whole
<1>8. InitNil \in Int /\ hist.added \in Int /\ hist.spent \in Int
  BY <1>3 DEF Answers, VitalsAssumption
<1> QED
  BY <1>1, <1>2, <1>3, <1>4, <1>5, <1>6, <1>7, <1>8

LEMMA LoneUpdateNilSpend ==
  ASSUME VitalsAssumption, IInv, SoloInv, hist.alone, NEW p \in Proc, UpdateNilSpend(p)
  PROVE  SoloInv' /\ EffectStep
<1> DEFINE n == Regened(p) - req[p].amount
           c == WithNil(p, n)
<1>1. CASE Reject(p)
  BY <1>1, LoneReject DEF UpdateNilSpend, SoloInv, Busy
<1>2. CASE ~Reject(p)
  <2>1. /\ pc[p] = "spend" /\ Covers(p)
        /\ IF req[p].op = "accept"
           THEN Put(p, Me, c) /\ Goto(p, "commit") /\ UNCHANGED <<now, hist, req, chr, stamp>>
           ELSE /\ WriteNow(p, Me, c)
                /\ hist' = [hist EXCEPT !.spent = @ + req[p].amount]
                /\ Answered(p) /\ UNCHANGED now
    BY <1>2 DEF UpdateNilSpend
  <2>2. /\ Single /\ Covered /\ Spaced /\ Busy(p) /\ LoneRequest(p) /\ RequestInv(p)
        /\ db[Me] \in Characters /\ Sees(p, Me) = db[Me]
        /\ stamp[p] \in Times /\ hist \in Answers
        /\ hist.added \in Int /\ hist.spent \in Int /\ InitNil \in Int /\ stamp[p] \div Interval \in Int
    BY <2>1, LoneRow
  <2>3. /\ Regened(p) <= Owed(stamp[p]) /\ stamp[p] <= now /\ Regened(p) \in 0 .. MaxNil /\ Owed(stamp[p]) \in Int
    <3>1. chr[p] \in Characters /\ RowTyped
      BY <2>1, <2>2 DEF RequestInv, Reading, IInv, Typed
    <3> QED
      BY <2>1, <2>2, <3>1, LoneRegains, RegenedTyped
  <2>4. req[p].op \in {"consume", "accept"} /\ req[p].amount \in Nat \ {0}
    <3>1. LocalsTyped /\ Fits(p)
      BY <2>2 DEF IInv, Typed, RequestInv
    <3>2. req[p].op \in {"consume", "accept"}
      BY <2>1, <3>1, Asking DEF Fits
    <3> QED
      BY <3>1, <3>2, Asking
  <2>5. n \in 0 .. MaxNil /\ n + req[p].amount <= Owed(stamp[p])
    BY <2>1, <2>3, <2>4 DEF Covers, VitalsAssumption
  <2>6. c = [db[Me] EXCEPT !.nil = n, !.at = stamp[p]]
    BY <2>2 DEF WithNil
  <2>7. /\ c \in Characters /\ c.nil = n /\ c.at = stamp[p] /\ SameAbility(c, db[Me])
    BY <2>2, <2>5, <2>6 DEF Characters, SameAbility
  <2> HIDE DEF n, c
  <2>8. CASE req[p].op = "accept"
    BY <2>1, <2>2, <2>5, <2>7, <2>8, LonePut DEF SameAbility
  <2>9. CASE req[p].op # "accept"
    <3>1. /\ hist'.spent = hist.spent + req[p].amount /\ hist'.added = hist.added /\ hist'.effect = hist.effect
      BY <2>1, <2>2, <2>9 DEF Answers
    <3>2. c.nil <= InitNil + hist'.added + c.at \div Interval - hist'.spent
      BY <2>2, <2>3, <2>4, <2>5, <2>7, <3>1 DEF Owed
    <3>3. /\ hist'.effect # None =>
              /\ hist'.effect \in Nat
              /\ c.cooldown >= hist'.effect + Duration[c.role] + Cooldown[c.role]
          /\ Duration[c.role] = 0 /\ c.active # None =>
              /\ c.active <= now
              /\ hist'.effect # None => c.active > hist'.effect + Duration[c.role] + Cooldown[c.role]
      BY <2>2, <2>7, <3>1 DEF Spaced, Apart, SameAbility
    <3>4. SoloInv'
      BY <2>1, <2>2, <2>3, <2>7, <2>9, <3>2, <3>3, LoneWrite
    <3> QED
      BY <3>1, <3>4 DEF EffectStep
  <2> QED
    BY <2>8, <2>9
<1> QED
  BY <1>1, <1>2

LEMMA LoneUpdateNilSet ==
  ASSUME VitalsAssumption, IInv, SoloInv, hist.alone, NEW p \in Proc, UpdateNilSet(p)
  PROVE  SoloInv' /\ EffectStep
<1> DEFINE n == Restored(p)
           c == WithNil(p, n)
<1>1. CASE Reject(p)
  BY <1>1, LoneReject DEF UpdateNilSet, SoloInv, Busy
<1>2. CASE ~Reject(p)
  <2>1. /\ pc[p] = "restore"
        /\ IF req[p].op = "stim"
           THEN /\ WriteNow(p, Me, c)
                /\ hist' = [hist EXCEPT !.added = @ + Added(p)]
                /\ Answered(p) /\ UNCHANGED now
           ELSE Put(p, Me, c) /\ Goto(p, "commit") /\ UNCHANGED <<now, hist, req, chr, stamp>>
    BY <1>2 DEF UpdateNilSet
  <2>2. /\ Single /\ Covered /\ Spaced /\ Busy(p) /\ LoneRequest(p) /\ RequestInv(p)
        /\ db[Me] \in Characters /\ Sees(p, Me) = db[Me]
        /\ stamp[p] \in Times /\ hist \in Answers
        /\ hist.added \in Int /\ hist.spent \in Int /\ InitNil \in Int /\ stamp[p] \div Interval \in Int
    BY <2>1, LoneRow
  <2>3. /\ n <= Owed(stamp[p]) + Added(p) /\ stamp[p] <= now /\ n \in 0 .. MaxNil
        /\ Owed(stamp[p]) \in Int /\ Added(p) \in Int
    <3>1. chr[p] \in Characters /\ RowTyped
      BY <2>1, <2>2 DEF RequestInv, Reading, IInv, Typed
    <3>2. n \in 0 .. MaxNil
      BY <2>2, <3>1, RegenedTyped
    <3>3. /\ Regened(p) = calculateRegen(chr[p], stamp[p]) /\ calculateRegen(chr[p], stamp[p]) <= Owed(stamp[p])
          /\ stamp[p] <= now /\ Regened(p) \in Int /\ Owed(stamp[p]) \in Int /\ Added(p) \in Int
      BY <2>1, <2>2, LoneRegains
    <3>4. Added(p) = n - calculateRegen(chr[p], stamp[p])
      BY DEF Added
    <3> HIDE DEF n
    <3> QED
      BY <3>2, <3>3, <3>4
  <2>4. req[p].op \in {"stim", "buy"}
    <3>1. LocalsTyped /\ Fits(p)
      BY <2>2 DEF IInv, Typed, RequestInv
    <3> QED
      BY <2>1, <3>1, Asking DEF Fits
  <2>5. c = [db[Me] EXCEPT !.nil = n, !.at = stamp[p]]
    BY <2>2 DEF WithNil
  <2> HIDE DEF n
  <2>6. /\ c \in Characters /\ c.nil = n /\ c.at = stamp[p] /\ SameAbility(c, db[Me])
    BY <2>2, <2>3, <2>5 DEF Characters, SameAbility
  <2> HIDE DEF c
  <2>7. CASE req[p].op = "buy"
    BY <2>1, <2>2, <2>3, <2>6, <2>7, LonePut DEF SameAbility
  <2>8. CASE req[p].op = "stim"
    <3>1. /\ hist'.spent = hist.spent /\ hist'.added = hist.added + Added(p) /\ hist'.effect = hist.effect
      BY <2>1, <2>2, <2>8 DEF Answers
    <3>2. c.nil <= InitNil + hist'.added + c.at \div Interval - hist'.spent
      BY <2>2, <2>3, <2>6, <3>1 DEF Owed
    <3>3. /\ hist'.effect # None =>
              /\ hist'.effect \in Nat
              /\ c.cooldown >= hist'.effect + Duration[c.role] + Cooldown[c.role]
          /\ Duration[c.role] = 0 /\ c.active # None =>
              /\ c.active <= now
              /\ hist'.effect # None => c.active > hist'.effect + Duration[c.role] + Cooldown[c.role]
      BY <2>2, <2>6, <3>1 DEF Spaced, Apart, SameAbility
    <3>4. SoloInv'
      BY <2>1, <2>2, <2>3, <2>6, <2>8, <3>2, <3>3, LoneWrite
    <3> QED
      BY <3>1, <3>4 DEF EffectStep
  <2> QED
    BY <2>4, <2>7, <2>8
<1> QED
  BY <1>1, <1>2

LEMMA LonePayAttack ==
  ASSUME VitalsAssumption, IInv, SoloInv, hist.alone, NEW p \in Proc, PayAttack(p)
  PROVE  SoloInv' /\ EffectStep
<1> DEFINE c == [db[Me] EXCEPT !.nil = @ - AttackCost]
<1>1. CASE Reject(p)
  BY <1>1, LoneReject DEF PayAttack, SoloInv, Busy
<1>2. CASE ~Reject(p)
  <2>1. pc[p] = "lock" /\ req[p].op = "attack"
    BY DEF PayAttack
  <2>2. Busy(p) /\ db[Me] \in Characters /\ Sees(p, Me) = db[Me]
    BY <2>1, LoneRow
  <2>3. /\ Put(p, Me, c) /\ stamp' = [stamp EXCEPT ![p] = now] /\ Goto(p, "commit")
        /\ UNCHANGED <<now, hist, req, chr>>
    BY <1>2, <2>2 DEF PayAttack
  <2>4. c.at = db[Me].at /\ SameAbility(c, db[Me])
    BY <2>2 DEF Characters, SameAbility
  <2>5. \A q \in Proc \ {p} : stamp'[q] = stamp[q]
    BY <2>3 DEF IInv, Typed, LocalsTyped
  <2> HIDE DEF c
  <2> QED
    BY <2>1, <2>2, <2>3, <2>4, <2>5, LonePut DEF SameAbility
<1> QED
  BY <1>1, <1>2

LEMMA LoneActivateOs ==
  ASSUME VitalsAssumption, IInv, SoloInv, hist.alone, NEW p \in Proc, ActivateOs(p)
  PROVE  SoloInv' /\ EffectStep
<1> DEFINE c == [db[Me] EXCEPT !.osUntil = now + OsDuration, !.osUses = UsesToday(db[Me], now) + 1,
                               !.osDate = (now \div Day) * Day]
<1>1. CASE Reject(p)
  BY <1>1, LoneReject DEF ActivateOs, SoloInv, Busy
<1>2. CASE ~Reject(p)
  <2>1. pc[p] = "lock" /\ req[p].op = "os"
    BY DEF ActivateOs
  <2>2. Busy(p) /\ db[Me] \in Characters /\ Sees(p, Me) = db[Me]
    BY <2>1, LoneRow
  <2>3. /\ Put(p, Me, c) /\ stamp' = [stamp EXCEPT ![p] = now] /\ Goto(p, "commit")
        /\ UNCHANGED <<now, hist, req, chr>>
    BY <1>2, <2>2 DEF ActivateOs
  <2>4. c.at = db[Me].at /\ SameAbility(c, db[Me])
    BY <2>2 DEF Characters, SameAbility
  <2>5. \A q \in Proc \ {p} : stamp'[q] = stamp[q]
    BY <2>3 DEF IInv, Typed, LocalsTyped
  <2> HIDE DEF c
  <2> QED
    BY <2>1, <2>2, <2>3, <2>4, <2>5, LonePut DEF SameAbility
<1> QED
  BY <1>1, <1>2

\* An effect that lasts begins with its activation.
LEMMA LoneActivate ==
  ASSUME VitalsAssumption, IInv, SoloInv, hist.alone, NEW p \in Proc, Activate(p)
  PROVE  SoloInv' /\ EffectStep
<1> DEFINE r == db[Me].role
           v == Ability(db[Me], stamp[p] + Duration[r], stamp[p] + Duration[r] + Cooldown[r])
<1>1. /\ pc[p] = "activate" /\ Answered(p) /\ now' = now
      /\ WriteNow(p, Me, computeActivation(Sees(p, Me), stamp[p]))
      /\ hist' = IF Duration[chr[p].role] > 0 THEN [hist EXCEPT !.effect = stamp[p]] ELSE hist
  BY DEF Activate
<1>2. /\ Single /\ Covered /\ Spaced /\ Busy(p) /\ LoneRequest(p) /\ RequestInv(p)
      /\ db[Me] \in Characters /\ Sees(p, Me) = db[Me] /\ db[Me].at \in Nat /\ db[Me].nil \in Int
      /\ now \in Times /\ stamp[p] \in Times /\ hist \in Answers
      /\ Duration[r] \in Nat /\ Cooldown[r] \in Nat
  BY <1>1, LoneRow
<1>3. chr[p].role = r /\ Apart(stamp[p]) /\ stamp[p] <= now /\ stamp[p] \in Nat
  BY <1>1, <1>2 DEF LoneRequest, RequestInv, Reading, Same, SameAbility, Times, VitalsAssumption
<1>4. computeActivation(Sees(p, Me), stamp[p]) = v
  BY <1>2 DEF computeActivation
<1>5. /\ v \in Characters /\ v.role = r /\ v.active = stamp[p] + Duration[r]
      /\ v.cooldown = stamp[p] + Duration[r] + Cooldown[r] /\ v.at = db[Me].at /\ v.nil = db[Me].nil
  <2>1. stamp[p] + Duration[r] \in Int /\ stamp[p] + Duration[r] + Cooldown[r] \in Int
    BY <1>2, <1>3
  <2>2. v \in Characters /\ v.nil = db[Me].nil
    BY <1>2, <2>1, AbilityTyped
  <2>3. /\ v.role = db[Me].role /\ v.at = db[Me].at /\ v.active = stamp[p] + Duration[r]
        /\ v.cooldown = stamp[p] + Duration[r] + Cooldown[r]
    <3> HIDE DEF r
    <3> QED
      BY <1>2 DEF Ability, Characters
  <2> QED
    BY <2>2, <2>3
<1>6. /\ hist'.spent = hist.spent /\ hist'.added = hist.added
      /\ hist'.effect = IF Duration[r] > 0 THEN stamp[p] ELSE hist.effect
  BY <1>1, <1>2, <1>3 DEF Answers
<1>7. hist.effect # None => hist.effect \in Nat /\ stamp[p] > hist.effect + Duration[r] + Cooldown[r]
  BY <1>2, <1>3 DEF Spaced, Apart
<1> HIDE DEF v, r
<1>8. v.at <= now /\ v.nil <= InitNil + hist'.added + v.at \div Interval - hist'.spent
  BY <1>2, <1>5, <1>6 DEF Covered, Owed
<1>9. /\ hist'.effect # None =>
           hist'.effect \in Nat /\ v.cooldown >= hist'.effect + Duration[v.role] + Cooldown[v.role]
      /\ Duration[v.role] = 0 /\ v.active # None =>
           /\ v.active <= now
           /\ hist'.effect # None => v.active > hist'.effect + Duration[v.role] + Cooldown[v.role]
  BY <1>2, <1>3, <1>5, <1>6, <1>7
<1>10. SoloInv'
  BY <1>1, <1>2, <1>4, <1>5, <1>8, <1>9, LoneWrite
<1>11. EffectStep
  BY <1>6, <1>7 DEF EffectStep, r
<1> QED
  BY <1>10, <1>11

LEMMA LoneConsumeAbility ==
  ASSUME VitalsAssumption, IInv, SoloInv, hist.alone, NEW p \in Proc, ConsumeAbility(p)
  PROVE  SoloInv' /\ EffectStep
<1> DEFINE r == db[Me].role
           v == Ability(db[Me], None, now + Cooldown[r])
<1>1. /\ pc[p] = "consume" /\ Goto(p, "commit") /\ UNCHANGED <<now, hist, req, chr, stamp>>
      /\ Put(p, Me, computeConsumption(Sees(p, Me), now))
  BY DEF ConsumeAbility
<1>2. /\ Busy(p) /\ LoneRequest(p) /\ RequestInv(p)
      /\ db[Me] \in Characters /\ Sees(p, Me) = db[Me]
      /\ now \in Times /\ stamp[p] \in Times /\ Duration[r] \in Nat /\ Cooldown[r] \in Nat
  BY <1>1, LoneRow
<1>3. Duration[r] = 0 /\ Apart(stamp[p]) /\ stamp[p] <= now /\ stamp[p] \in Nat /\ now \in Nat
  BY <1>1, <1>2 DEF LoneRequest, RequestInv, Times, VitalsAssumption
<1>4. req[p].op = "use"
  <2>1. LocalsTyped
    BY DEF IInv, Typed
  <2> QED
    BY <1>1, <1>2, <2>1, Asking DEF RequestInv, Fits
<1>5. computeConsumption(Sees(p, Me), now) = v
  BY <1>2 DEF computeConsumption
<1>6. v.role = r /\ v.active = None /\ v.cooldown = now + Cooldown[r] /\ v.at = db[Me].at
  BY <1>2 DEF Ability, Characters
<1>7. v.cooldown >= stamp[p] + Cooldown[v.role]
  BY <1>2, <1>3, <1>6
<1> HIDE DEF v
<1> QED
  BY <1>1, <1>2, <1>3, <1>4, <1>5, <1>6, <1>7, LonePut

\* The COMMIT publishes what the answer says.
LEMMA LoneCommitRequest ==
  ASSUME VitalsAssumption, IInv, SoloInv, hist.alone, NEW p \in Proc, CommitRequest(p)
  PROVE  SoloInv' /\ EffectStep
<1> DEFINE op == req[p].op
           c == pend[Me]
           r == db[Me].role
<1>1. /\ pc[p] = "commit" /\ Answered(p) /\ now' = now
      /\ db' = [x \in DOMAIN db |-> Sees(p, x)]
      /\ hist' = CASE op = "accept" -> [hist EXCEPT !.spent = @ + req[p].amount]
                   [] op = "buy" -> [hist EXCEPT !.added = @ + Added(p), !.bought = TRUE]
                   [] op = "attack" -> [hist EXCEPT !.spent = @ + AttackCost]
                   [] op = "use" -> [hist EXCEPT !.effect = stamp[p]]
                   [] op = "os" -> [hist EXCEPT !.charges[stamp[p] \div Day] = @ + 1]
  BY DEF CommitRequest, Commit
<1>2. /\ Single /\ Covered /\ Spaced /\ Busy(p) /\ LoneRequest(p) /\ RequestInv(p)
      /\ db[Me] \in Characters /\ now \in Times /\ stamp[p] \in Times /\ hist \in Answers
      /\ db[Me].nil \in Int /\ db[Me].at \in Nat /\ {db[Me].active, db[Me].cooldown} \subseteq Int
      /\ Duration[r] \in Nat /\ Cooldown[r] \in Nat
      /\ db[Me].at \div Interval \in Int /\ stamp[p] \div Interval \in Int
      /\ InitNil \in Int /\ hist.added \in Int /\ hist.spent \in Int
  BY <1>1, LoneRow
<1>3. LocalsTyped /\ RowTyped
  BY DEF IInv, Typed
<1>4. op \in {"accept", "buy", "attack", "use", "os"}
  BY <1>1, <1>2, <1>3, Asking DEF RequestInv, Fits
<1>5. db'[Me] = c
  BY <1>1, <1>2, <1>3 DEF RequestInv, RowTyped, Sees
<1>6. /\ c.nil \in Int /\ stamp[p] <= now /\ stamp[p] \in Nat /\ AttackCost \in Int
      /\ op = "accept" => req[p].amount \in Int
      /\ op = "buy" => Added(p) \in Int
  <2>1. op = "buy" => Added(p) \in Int
    <3>1. op = "buy" => chr[p] \in Characters
      BY <1>1, <1>2 DEF RequestInv
    <3> QED
      BY <1>2, <1>3, <3>1, RegenedTyped
  <2>2. op = "accept" => req[p].amount \in Int
    BY <1>3, Asking
  <2> QED
    BY <1>2, <1>3, <2>1, <2>2 DEF RowTyped, Characters, RequestInv, Times, VitalsAssumption
<1>7. /\ op = "accept" => hist' = [hist EXCEPT !.spent = @ + req[p].amount]
      /\ op = "buy" => hist' = [hist EXCEPT !.added = @ + Added(p), !.bought = TRUE]
      /\ op = "attack" => hist' = [hist EXCEPT !.spent = @ + AttackCost]
      /\ op = "use" => hist' = [hist EXCEPT !.effect = stamp[p]]
      /\ op = "os" => hist' = [hist EXCEPT !.charges[stamp[p] \div Day] = @ + 1]
  BY <1>1
<1>8. /\ hist'.spent = hist.spent + (IF op = "accept" THEN req[p].amount ELSE IF op = "attack" THEN AttackCost ELSE 0)
      /\ hist'.added = hist.added + (IF op = "buy" THEN Added(p) ELSE 0)
      /\ hist'.effect = IF op = "use" THEN stamp[p] ELSE hist.effect
  <2>1. CASE op = "accept"
    BY <1>2, <1>6, <1>7, <2>1 DEF Answers
  <2>2. CASE op = "buy"
    <3>1. hist' = [hist EXCEPT !.added = @ + Added(p), !.bought = TRUE]
      BY <1>7, <2>2
    <3>2. /\ hist'.spent = hist.spent /\ hist'.added = hist.added + Added(p)
          /\ hist'.effect = hist.effect
      BY <1>2, <3>1 DEF Answers
    <3> QED
      BY <1>2, <2>2, <3>2
  <2>3. CASE op = "attack"
    BY <1>2, <1>6, <1>7, <2>3 DEF Answers
  <2>4. CASE op = "use"
    BY <1>2, <1>6, <1>7, <2>4 DEF Answers
  <2>5. CASE op = "os"
    BY <1>2, <1>6, <1>7, <2>5 DEF Answers
  <2> QED
    BY <1>4, <2>1, <2>2, <2>3, <2>4, <2>5
<1>9. Covered'
  <2>1. CASE op = "accept"
    <3>1. c.at = stamp[p] /\ c.nil + req[p].amount <= Owed(stamp[p])
      BY <1>1, <1>2, <2>1 DEF LoneRequest
    <3> QED
      BY <1>1, <1>2, <1>5, <1>6, <1>8, <2>1, <3>1 DEF Covered, Owed
  <2>2. CASE op = "buy"
    <3>1. c.at = stamp[p] /\ c.nil <= Owed(stamp[p]) + Added(p)
      BY <1>1, <1>2, <2>2 DEF LoneRequest
    <3> QED
      BY <1>1, <1>2, <1>5, <1>6, <1>8, <2>2, <3>1 DEF Covered, Owed
  <2>3. CASE op = "attack"
    <3>1. c.at = db[Me].at /\ c.nil + AttackCost <= db[Me].nil
      BY <1>1, <1>2, <2>3 DEF LoneRequest, RequestInv
    <3> QED
      BY <1>1, <1>2, <1>5, <1>6, <1>8, <2>3, <3>1 DEF Covered, Owed
  <2>4. CASE op \in {"use", "os"}
    <3>1. c.at = db[Me].at /\ c.nil = db[Me].nil
      BY <1>1, <1>2, <2>4 DEF LoneRequest, RequestInv
    <3> QED
      BY <1>1, <1>2, <1>5, <1>6, <1>8, <2>4, <3>1 DEF Covered, Owed
  <2> QED
    BY <1>4, <2>1, <2>2, <2>3, <2>4
<1>10. c.role = r
  BY <1>1, <1>2 DEF LoneRequest
<1>11. CASE op = "use"
  <2>1. Duration[r] = 0 /\ Apart(stamp[p]) /\ c.active = None /\ c.cooldown >= stamp[p] + Cooldown[r]
    BY <1>1, <1>2, <1>10, <1>11 DEF LoneRequest
  <2>2. c.cooldown \in Int
    BY <1>3 DEF RowTyped, Characters
  <2>3. hist.effect # None => stamp[p] > hist.effect + Duration[r] + Cooldown[r]
    BY <2>1 DEF Apart
  <2> HIDE DEF c, r
  <2>4. c.cooldown >= stamp[p] + Duration[r] + Cooldown[r] /\ stamp[p] \in Nat
    BY <1>2, <1>6, <2>1, <2>2
  <2>5. Spaced'
    BY <1>5, <1>8, <1>10, <1>11, <2>1, <2>4 DEF Spaced, Apart
  <2>6. EffectStep
    BY <1>8, <1>11, <2>3 DEF EffectStep, r
  <2> QED
    BY <1>1, <1>2, <1>9, <2>5, <2>6, LoneAnswer
<1>12. CASE op # "use"
  <2>1. SameAbility(c, db[Me])
    BY <1>1, <1>2, <1>12 DEF LoneRequest
  <2>2. Spaced'
    BY <1>1, <1>2, <1>5, <1>8, <1>12, <2>1 DEF Spaced, Apart, SameAbility
  <2>3. EffectStep
    BY <1>8, <1>12 DEF EffectStep
  <2> QED
    BY <1>1, <1>2, <1>9, <2>2, <2>3, LoneAnswer
<1> QED
  BY <1>11, <1>12

\* A flatline touches neither the NIL nor the ability.
LEMMA LoneFlatline ==
  ASSUME VitalsAssumption, IInv, SoloInv, hist.alone, Flatline
  PROVE  SoloInv' /\ EffectStep
<1>1. /\ owner[Me] = NoProc /\ db' = [db EXCEPT ![Me].flat = TRUE]
      /\ now' = now /\ hist' = hist /\ pc' = pc /\ req' = req /\ chr' = chr /\ stamp' = stamp
  BY DEF Flatline, local
<1>2. db[Me] \in Characters /\ DOMAIN db = {Me}
  BY DEF IInv, Typed, RowTyped
<1>3. Same(db'[Me], db[Me])
  BY <1>1, <1>2 DEF Same, SameAbility, Characters
<1>4. Single' /\ Covered' /\ Spaced'
  BY <1>1, <1>3 DEF SoloInv, Single, Busy, Covered, Spaced, Owed, Apart, Same, SameAbility
<1>5. ASSUME NEW q \in Proc
      PROVE  LoneRequest(q)'
  <2>1. pc[q] # "commit" /\ LoneRequest(q)
    BY <1>1 DEF IInv, RequestInv, VitalsAssumption, SoloInv
  <2> QED
    BY <1>1, <1>3, <2>1 DEF LoneRequest, Same, SameAbility, Apart
<1> QED
  BY <1>1, <1>4, <1>5 DEF SoloInv, EffectStep

LEMMA LoneTick ==
  ASSUME VitalsAssumption, IInv, SoloInv, hist.alone, Tick
  PROVE  SoloInv' /\ EffectStep
<1>1. /\ now' = now + 1 /\ db' = db /\ pend' = pend /\ hist' = hist
      /\ pc' = pc /\ req' = req /\ chr' = chr /\ stamp' = stamp
  BY DEF Tick, local, rcVars
<1>2. now \in Nat /\ db[Me].at \in Int /\ db[Me].active \in Int
  BY DEF IInv, Typed, RowTyped, Characters, Times, VitalsAssumption
<1>3. Single' /\ Covered' /\ Spaced'
  BY <1>1, <1>2 DEF SoloInv, Single, Busy, Covered, Spaced, Owed, Apart
<1>4. \A q \in Proc : LoneRequest(q)'
  <2>1. \A q \in Proc : Added(q)' = Added(q)
    BY <1>1 DEF Added, Restored, calculateRegen, RegenOffset
  <2> QED
    BY <1>1, <2>1 DEF SoloInv, LoneRequest, Same, SameAbility, Apart, Owed
<1> QED
  BY <1>1, <1>3, <1>4 DEF SoloInv, EffectStep

\* Only a request that overlaps another ends the time alone.
LEMMA AloneBefore ==
  ASSUME VitalsAssumption, IInv, [Next]_vars, hist'.alone
  PROVE  hist.alone
<1>1. hist \in Answers
  BY DEF IInv, Typed
<1>2. ASSUME NEW p \in Proc, Start(p)
      PROVE  hist.alone
  BY <1>1, <1>2 DEF Start, Answers
<1>3. ASSUME NEW p \in Proc, CommitRequest(p)
      PROVE  hist.alone
  <2>1. RequestInv(p) /\ LocalsTyped /\ pc[p] = "commit"
    BY <1>3 DEF IInv, Typed, CommitRequest
  <2>2. req[p].op \in {"accept", "buy", "attack", "use", "os"}
    BY <2>1, Asking DEF RequestInv, Fits
  <2> QED
    BY <1>1, <1>3, <2>2 DEF CommitRequest, Answers
<1>4. ASSUME NEW p \in Proc, Step(p) \/ Lost(p), ~CommitRequest(p)
      PROVE  hist.alone
  <2>1. \/ hist' = hist
        \/ \E n : hist' = [hist EXCEPT !.spent = n] \/ hist' = [hist EXCEPT !.added = n]
                  \/ hist' = [hist EXCEPT !.effect = n]
    BY <1>4 DEF Step, Lost, Reject, Read, IssueNil, UpdateNilSpend, UpdateNilSet, PayAttack, IssueActivation,
       Activate, CheckBonus, ConsumeAbility, ActivateOs
  <2> QED
    BY <1>1, <2>1 DEF Answers
<1>5. CASE Tick \/ Flatline \/ UNCHANGED vars
  BY <1>5 DEF Tick, Flatline, vars
<1> QED
  BY <1>2, <1>3, <1>4, <1>5 DEF Next

LEMMA SoloNext ==
  ASSUME VitalsAssumption, IInv, SoloInv, [Next]_vars
  PROVE  SoloInv' /\ (hist'.alone => EffectStep)
<1>1. CASE ~hist'.alone
  BY <1>1 DEF SoloInv
<1>2. CASE hist'.alone
  <2>1. hist.alone
    BY <1>2, AloneBefore
  <2>2. CASE Tick
    BY <2>1, <2>2, LoneTick
  <2>3. CASE Flatline
    BY <2>1, <2>3, LoneFlatline
  <2>4. ASSUME NEW p \in Proc, Start(p) \/ Step(p) \/ Lost(p)
        PROVE  SoloInv' /\ EffectStep
    <3>1. CASE Start(p)
      BY <1>2, <3>1, LoneStart
    <3>2. CASE Lost(p)
      BY <2>1, <3>2, LoneReject DEF Lost, SoloInv, Busy
    <3>3. CASE Read(p)
      BY <2>1, <3>3, LoneRead
    <3>4. CASE IssueNil(p)
      BY <2>1, <3>4, LoneIssueNil
    <3>5. CASE UpdateNilSpend(p)
      BY <2>1, <3>5, LoneUpdateNilSpend
    <3>6. CASE UpdateNilSet(p)
      BY <2>1, <3>6, LoneUpdateNilSet
    <3>7. CASE PayAttack(p)
      BY <2>1, <3>7, LonePayAttack
    <3>8. CASE IssueActivation(p)
      BY <2>1, <3>8, LoneIssueActivation
    <3>9. CASE Activate(p)
      BY <2>1, <3>9, LoneActivate
    <3>10. CASE CheckBonus(p)
      BY <2>1, <3>10, LoneCheckBonus
    <3>11. CASE ConsumeAbility(p)
      BY <2>1, <3>11, LoneConsumeAbility
    <3>12. CASE ActivateOs(p)
      BY <2>1, <3>12, LoneActivateOs
    <3>13. CASE CommitRequest(p)
      BY <2>1, <3>13, LoneCommitRequest
    <3> QED
      BY <2>4, <3>1, <3>2, <3>3, <3>4, <3>5, <3>6, <3>7, <3>8, <3>9, <3>10, <3>11, <3>12, <3>13 DEF Step
  <2>5. CASE UNCHANGED vars
    <3>1. /\ db' = db /\ pend' = pend /\ owner' = owner /\ now' = now /\ hist' = hist
          /\ pc' = pc /\ req' = req /\ chr' = chr /\ stamp' = stamp
      BY <2>5 DEF vars, rcVars, local
    <3>2. \A q \in Proc : Added(q)' = Added(q)
      BY <3>1 DEF Added, Restored, calculateRegen, RegenOffset
    <3> QED
      BY <3>1, <3>2 DEF SoloInv, Single, Busy, Covered, Spaced, LoneRequest, Same, SameAbility, Apart, Owed, EffectStep
  <2> QED
    BY <2>2, <2>3, <2>4, <2>5 DEF Next
<1> QED
  BY <1>1, <1>2

LEMMA SoloInit ==
  ASSUME VitalsAssumption, Init
  PROVE  SoloInv
<1>1. PICK role \in Role, os \in BOOLEAN :
        RcInit([r \in {Me} |->
          [role |-> role, nil |-> InitNil, at |-> 0, active |-> None, cooldown |-> None,
           os |-> os, flat |-> FALSE, osUntil |-> None, osUses |-> 0, osDate |-> None]])
  BY DEF Init
<1>2. db[Me].nil = InitNil /\ db[Me].at = 0 /\ db[Me].active = None
  BY <1>1 DEF RcInit
<1>3. /\ now = 0 /\ pc = [p \in Proc |-> "idle"]
      /\ hist.spent = 0 /\ hist.added = 0 /\ hist.effect = None
  BY DEF Init
<1>4. 0 \div Interval = 0 /\ InitNil \in Int
  <2>1. Interval \in Nat \ {0} /\ 0 \in Nat /\ 0 < Interval /\ InitNil \in Int
    BY DEF VitalsAssumption
  <2> QED
    BY <2>1, Whole
<1>5. Covered /\ Spaced
  BY <1>2, <1>3, <1>4 DEF Covered, Owed, Spaced
<1> QED
  BY <1>3, <1>5 DEF SoloInv, Single, Busy, LoneRequest, Reading

\* As long as no two requests have overlapped, no NIL is spent twice or comes from
\* nowhere however the ticks fall, and two effects of a role ability are its duration
\* and its cooldown apart, lost connections and a flatline included.
THEOREM SoloHoldsAlways ==
  ASSUME VitalsAssumption
  PROVE  Spec => SoloHolds
<1>1. Spec => []IInv
  BY Inductive
<1>2. Init => SoloInv
  BY SoloInit
<1>3. IInv /\ SoloInv /\ [Next]_vars => SoloInv'
  BY SoloNext
<1> DEFINE Kept == hist.alone => NilCovered
<1>4. IInv /\ SoloInv => Kept
  <2> SUFFICES ASSUME IInv, SoloInv, hist.alone
               PROVE  NilCovered
    OBVIOUS
  <2>1. db[Me] \in Characters /\ now \in Times /\ hist.added \in Int /\ hist.spent \in Int /\ InitNil \in Int
    BY DEF IInv, Typed, RowTyped, Answers, VitalsAssumption
  <2>2. now \in Nat /\ db[Me].at \in Nat /\ Interval \in Nat \ {0}
    BY <2>1 DEF Characters, Times, VitalsAssumption
  <2>3. now \div Interval \in Int /\ db[Me].at \div Interval \in Int /\ InitNil + hist.added - hist.spent \in Int
    BY <2>1, <2>2, Whole
  <2>4. db[Me].at <= now /\ db[Me].nil <= (InitNil + hist.added - hist.spent) + db[Me].at \div Interval
    BY <2>1, <2>3 DEF SoloInv, Covered, Owed
  <2>5. calculateRegen(db[Me], now) <= (InitNil + hist.added - hist.spent) + now \div Interval
    BY <2>1, <2>3, <2>4, Regains
  <2>6. calculateRegen(db[Me], now) \in Int
    BY <2>1, RegenTyped
  <2> QED
    BY <2>1, <2>3, <2>5, <2>6 DEF NilCovered
<1>5. IInv /\ SoloInv /\ Kept' /\ [Next]_vars => [hist'.alone => EffectStep /\ NilCovered']_vars
  BY SoloNext
<1> HIDE DEF Kept
<1> QED
  BY <1>1, <1>2, <1>3, <1>4, <1>5, PTL DEF Spec, SoloHolds
=============================================================================
