------------------------------- MODULE Chrome -------------------------------
(***************************************************************************)
(* What touches a character's humanity: installing and uninstalling cromo  *)
(* (services/chrome-service), therapy (services/therapy-service) and       *)
(* anti-insanity consumables (services/consumable-service), as concurrent  *)
(* requests of one character over READ COMMITTED rows.                     *)
(*                                                                         *)
(* Rows: the character, its wallet, its stock of one consumable, and one   *)
(* installed_chrome row per implant definition (unique on character and    *)
(* definition); a row that is there holds its id.  An install reads the    *)
(* character without a lock and locks the wallet before the character;     *)
(* therapy and consumables lock the character first (FOR UPDATE), which a  *)
(* pending row that references the character (FOR KEY SHARE) makes wait.   *)
(* The two orders can deadlock, and PostgreSQL then aborts a transaction.  *)
(*                                                                         *)
(* total keeps what the committed transactions recorded: transaction_log,  *)
(* therapy_sessions and consumable_uses.  Vendor and catalogue lookups     *)
(* have no effect and always succeed here.                                 *)
(***************************************************************************)
EXTENDS ReadCommitted, Integers, FiniteSets, FiniteSetsExt

CONSTANTS Proc, Implant,
          Price, HumanityCost, NilBonus, Slot,   \* of an implant
          Capacity,         \* slot -> implants it takes
          TherapyCost, TherapyRestore,  \* what a session may cost and restore
          Restore,          \* uses in the window -> what the next use restores
          MaxUses,          \* uses a window allows
          BandCap,          \* humanity above which consumables are refused
          MaxHumanity, BaseNil,
          InitHumanity, InitBalance, InitQuantity,
          InitOverclock     \* whether the character may start with Overclock active

ChromeAssumption ==
  /\ NoProc \notin Proc /\ NoRow \notin Nat
  /\ IsFiniteSet(Implant) /\ Implant \cap {"character", "wallet", "consumable"} = {}
  /\ Price \in [Implant -> Nat \ {0}]
  /\ HumanityCost \in [Implant -> Nat \ {0}] /\ NilBonus \in [Implant -> Nat]
  /\ Capacity \in [{Slot[i] : i \in Implant} -> Nat]
  /\ TherapyCost \subseteq Nat \ {0} /\ TherapyRestore \subseteq Nat \ {0}
  /\ MaxUses \in Nat /\ Restore \in [0 .. MaxUses - 1 -> Nat]
  /\ BandCap \in Nat /\ MaxHumanity \in Nat \ {0} /\ BaseNil \in Nat \ {0}
  /\ InitHumanity \in 1 .. MaxHumanity /\ InitBalance \in Nat /\ InitQuantity \in Nat
  /\ InitOverclock \subseteq BOOLEAN

VARIABLES total,   \* what committed requests recorded
          rested,  \* the pause after the last therapy session is over
          used,    \* consumable_uses rows in the rolling window
          pc, req, \* request -> its next statement, what it asks for
          chr,     \* request -> the character it read
          wal,     \* request -> the wallet it read
          aim,     \* request -> the id, max_nil or points it goes on to write
          alone    \* history: no two requests have overlapped

local == <<pc, req, chr, wal, aim>>
vars == <<rcVars, total, rested, used, local, alone>>

Rows == {"character", "wallet", "consumable"} \cup Implant
Characters == [humanity : Int, flat : BOOLEAN, overclock : BOOLEAN, nil : Int, max : Nat]
WalletRows == [balance : Int, version : Nat]
Requests == [op : {"install", "uninstall"}, implant : Implant]
              \cup [op : {"therapy", "consumable"}]
NoRequest == [op |-> "none"]

Init ==
  /\ \E overclock \in InitOverclock : RcInit([r \in Rows |->
       CASE r = "character" -> [humanity |-> InitHumanity, flat |-> FALSE,
                                overclock |-> overclock, nil |-> BaseNil, max |-> BaseNil]
         [] r = "wallet" -> [balance |-> InitBalance, version |-> 0]
         [] r = "consumable" -> InitQuantity
         [] OTHER -> NoRow])
  /\ total = [installs |-> 0, spent |-> 0, drained |-> 0, restored |-> 0, uses |-> 0]
  /\ rested = TRUE
  /\ used = 0
  /\ pc = [p \in Proc |-> "idle"]
  /\ req = [p \in Proc |-> NoRequest]
  /\ chr = [p \in Proc |-> NoRow]
  /\ wal = [p \in Proc |-> NoRow]
  /\ aim = [p \in Proc |-> 0]
  /\ alone = TRUE

Goto(p, l) == pc' = [pc EXCEPT ![p] = l]

Answered(p) ==
  /\ Goto(p, "idle")
  /\ req' = [req EXCEPT ![p] = NoRequest]
  /\ chr' = [chr EXCEPT ![p] = NoRow]
  /\ wal' = [wal EXCEPT ![p] = NoRow]
  /\ aim' = [aim EXCEPT ![p] = 0]

\* The handler throws and its transaction rolls back.
Reject(p) == Answered(p) /\ Rollback(p) /\ UNCHANGED <<total, rested, used>>

\* Row locks.  An install references the character (FOR KEY SHARE) from its
\* audit entry on; therapy and consumables hold it FOR UPDATE.
References(q) == pc[q] \in {"implant", "humanity"}
LocksCharacter(q) == req[q].op \in {"therapy", "consumable"}

\* The row p's next statement needs.
NextRow(p) ==
  CASE pc[p] = "debit" -> "wallet"
    [] pc[p] \in {"implant", "delete"} -> req[p].implant
    [] pc[p] = "consume" -> "consumable"
    [] OTHER -> "character"

\* q's transaction makes p's next statement wait.
HoldsBack(q, p) ==
  /\ q # p
  /\ pc[p] \in {"lock", "debit", "audit", "implant", "humanity", "delete", "max",
                "restore", "consume"}
  /\ \/ owner[NextRow(p)] = q /\ (pc[p] = "audit" => LocksCharacter(q))
     \/ pc[p] = "lock" /\ References(q)
MayGo(p) == \A q \in Proc : ~HoldsBack(q, p)

Start(p) ==
  /\ pc[p] = "idle"
  /\ \E r \in Requests :
       /\ req' = [req EXCEPT ![p] = r]
       /\ Goto(p, CASE r.op = "install" -> "character"
                    [] r.op = "uninstall" -> "installed"
                    [] OTHER -> "lock")
  /\ UNCHANGED <<rcVars, total, rested, used, chr, wal, aim>>
-----------------------------------------------------------------------------
\* installChrome.

\* findById and the flatline gate.
ReadCharacter(p) ==
  LET c == Sees(p, "character") IN
  /\ pc[p] = "character"
  /\ \/ c.flat /\ Reject(p)
     \/ /\ ~c.flat
        /\ chr' = [chr EXCEPT ![p] = c]
        /\ Goto(p, "loadout")
        /\ UNCHANGED <<rcVars, total, rested, used, req, wal, aim>>

Installed(p) == {i \in Implant : Sees(p, i) # NoRow}
InSlot(is, s) == {i \in is : Slot[i] = s}

\* Overclock: half the price (rounded up), no humanity.
PriceOf(p) == LET i == req[p].implant IN
  IF chr[p].overclock THEN (Price[i] + 1) \div 2 ELSE Price[i]
CostOf(p) == IF chr[p].overclock THEN 0 ELSE HumanityCost[req[p].implant]

\* Duplicate, slot capacity (an OS slot takes one) and humanity.
MayInstall(p, is) ==
  LET i == req[p].implant IN
  /\ i \notin is
  /\ Cardinality(InSlot(is, Slot[i])) < Capacity[Slot[i]]
  /\ chr[p].humanity - CostOf(p) >= 0

ReadLoadout(p) ==
  /\ pc[p] = "loadout"
  /\ \/ ~MayInstall(p, Installed(p)) /\ Reject(p)
     \/ /\ MayInstall(p, Installed(p))
        /\ Goto(p, "wallet")
        /\ UNCHANGED <<rcVars, total, rested, used, req, chr, wal, aim>>

\* wallets.ensure and the funds check.  A session rolls its cost and its
\* restore before.
Costs(p) == IF req[p].op = "install" THEN {PriceOf(p)} ELSE TherapyCost
ReadWallet(p) ==
  LET w == Sees(p, "wallet") IN
  /\ pc[p] = "wallet"
  /\ \E cost \in Costs(p) :
       \/ w.balance < cost /\ Reject(p)
       \/ /\ w.balance >= cost
          /\ wal' = [wal EXCEPT ![p] = w]
          /\ aim' = [aim EXCEPT ![p] = cost]
          /\ Goto(p, "debit")
          /\ UNCHANGED <<rcVars, total, rested, used, req, chr>>

VersionMatches_NoCas(p, w) == TRUE
VersionMatches(p, w) == w.version = wal[p].version

\* updateOptimistic.
DebitWallet(p) ==
  LET w == Sees(p, "wallet") IN
  /\ pc[p] = "debit"
  /\ MayGo(p)
  /\ \/ ~VersionMatches(p, w) /\ Reject(p)
     \/ /\ VersionMatches(p, w)
        /\ Put(p, "wallet", [balance |-> wal[p].balance - aim[p],
                             version |-> wal[p].version + 1])
        /\ Goto(p, IF req[p].op = "install" THEN "audit" ELSE "restore")
        /\ UNCHANGED <<total, rested, used, req, chr, wal, aim>>

\* The CHROME_PURCHASE entry references the character.
InsertAudit(p) ==
  /\ pc[p] = "audit"
  /\ MayGo(p)
  /\ Goto(p, "implant")
  /\ UNCHANGED <<rcVars, total, rested, used, req, chr, wal, aim>>

\* insertInstalled: the unique key is the last line of defence.
InsertInstalled(p) ==
  LET i == req[p].implant IN
  /\ pc[p] = "implant"
  /\ MayGo(p)
  /\ \/ Sees(p, i) # NoRow /\ Reject(p)
     \/ /\ Sees(p, i) = NoRow
        /\ Put(p, i, total.installs + 1)
        /\ Goto(p, "humanity")
        /\ UNCHANGED <<total, rested, used, req, chr, wal, aim>>

\* updateHumanityGuarded writes an absolute value, and does not say whether
\* its guard held; updateFlatline goes by the value that was to be written.
HumanityLeft(p) == chr[p].humanity - CostOf(p)
Drains_BelowZero(p) == HumanityLeft(p) < 0
Drains(p) == HumanityLeft(p) <= 0
Guarded(p, c) == CostOf(p) > 0 /\ c.humanity >= CostOf(p)

DecrementHumanity(p) ==
  LET c == Sees(p, "character") IN
  /\ pc[p] = "humanity"
  /\ MayGo(p)
  /\ Put(p, "character",
         [c EXCEPT !.humanity = IF Guarded(p, c) THEN HumanityLeft(p) ELSE @,
                   !.flat = @ \/ Drains(p),
                   !.overclock = @ /\ ~chr[p].overclock])
  /\ Goto(p, "bonuses")
  /\ UNCHANGED <<total, rested, used, req, chr, wal, aim>>
-----------------------------------------------------------------------------
\* The new max_nil, by installs and uninstalls.

\* calculateNilMaxBonus over listInstalledBonuses.
MaxNilOf(is) == BaseNil + MapThenSumSet(LAMBDA i : NilBonus[i], is)

ReadBonuses(p) ==
  /\ pc[p] = "bonuses"
  /\ aim' = [aim EXCEPT ![p] = MaxNilOf(Installed(p))]
  /\ Goto(p, "max")
  /\ UNCHANGED <<rcVars, total, rested, used, req, chr, wal>>

\* updateMaxNil, under CHECK (nil <= max_nil).
UpdateMaxNil(p) ==
  LET c == Sees(p, "character") IN
  /\ pc[p] = "max"
  /\ MayGo(p)
  /\ \/ c.nil > aim[p] /\ Reject(p)
     \/ /\ c.nil <= aim[p]
        /\ Put(p, "character", [c EXCEPT !.max = aim[p]])
        /\ Goto(p, "commit")
        /\ UNCHANGED <<total, rested, used, req, chr, wal, aim>>
-----------------------------------------------------------------------------
\* uninstallChrome: the implant is looked up before the transaction.

IsOs(i) == Slot[i] = "operating_system"

FindInstalled(p) ==
  LET i == req[p].implant IN
  /\ pc[p] = "installed"
  /\ \/ (db[i] = NoRow \/ IsOs(i)) /\ Reject(p)
     \/ /\ db[i] # NoRow /\ ~IsOs(i)
        /\ aim' = [aim EXCEPT ![p] = db[i]]
        /\ Goto(p, "delete")
        /\ UNCHANGED <<rcVars, total, rested, used, req, chr, wal>>

\* deleteInstalled, by id.
DeleteInstalled(p) ==
  LET i == req[p].implant IN
  /\ pc[p] = "delete"
  /\ MayGo(p)
  /\ IF Sees(p, i) = aim[p] THEN Put(p, i, NoRow) ELSE UNCHANGED rcVars
  /\ Goto(p, "bonuses")
  /\ UNCHANGED <<total, rested, used, req, chr, wal, aim>>
-----------------------------------------------------------------------------
\* undergoTherapy and useConsumable: the character is locked first.

OutOfUses(n) == n >= MaxUses

\* The gates of the locked character: flatline, and the pause between sessions
\* or the stock, band and uses of a consumable.
MayTreat(p, c) ==
  /\ ~c.flat
  /\ IF req[p].op = "therapy" THEN rested
     ELSE Sees(p, "consumable") > 0 /\ c.humanity <= BandCap /\ ~OutOfUses(used)

\* findByIdForUpdate.
Lock(p) == ForUpdate(p, "character")

LockCharacter(p) ==
  LET c == Sees(p, "character") IN
  /\ pc[p] = "lock"
  /\ MayGo(p)
  /\ \/ ~MayTreat(p, c) /\ Reject(p)
     \/ /\ MayTreat(p, c)
        /\ Lock(p)
        /\ chr' = [chr EXCEPT ![p] = c]
        /\ aim' = [aim EXCEPT ![p] = IF req[p].op = "therapy" THEN 0 ELSE Restore[used]]
        /\ Goto(p, IF req[p].op = "therapy" THEN "wallet" ELSE "restore")
        /\ UNCHANGED <<total, rested, used, req, wal>>

Clamped(h) == IF h > MaxHumanity THEN MaxHumanity ELSE h

\* updateHumanity.  A session row must have restored something (CHECK).
RestoreHumanity(p) ==
  /\ pc[p] = "restore"
  /\ MayGo(p)
  /\ \E raw \in IF req[p].op = "therapy" THEN TherapyRestore ELSE {aim[p]} :
       LET h == Clamped(chr[p].humanity + raw) IN
       \/ req[p].op = "therapy" /\ h = chr[p].humanity /\ Reject(p)
       \/ /\ req[p].op = "therapy" => h > chr[p].humanity
          /\ Put(p, "character", [Sees(p, "character") EXCEPT !.humanity = h])
          /\ Goto(p, IF req[p].op = "therapy" THEN "commit" ELSE "consume")
          /\ UNCHANGED <<total, rested, used, req, chr, wal, aim>>

\* decrementQuantity.
Consume(p) ==
  /\ pc[p] = "consume"
  /\ MayGo(p)
  /\ IF Sees(p, "consumable") > 0
     THEN /\ Put(p, "consumable", Sees(p, "consumable") - 1)
          /\ Goto(p, "commit")
          /\ UNCHANGED <<total, rested, used, req, chr, wal, aim>>
     ELSE Reject(p)
-----------------------------------------------------------------------------
CommitRequest(p) ==
  LET op == req[p].op
      restored == pend["character"].humanity - chr[p].humanity
  IN
  /\ pc[p] = "commit"
  /\ Commit(p)
  /\ total' =
       CASE op = "install" ->
              [total EXCEPT !.installs = @ + 1, !.spent = @ + PriceOf(p),
                            !.drained = @ + CostOf(p)]
         [] op = "therapy" -> [total EXCEPT !.spent = @ + aim[p], !.restored = @ + restored]
         [] op = "consumable" -> [total EXCEPT !.uses = @ + 1, !.restored = @ + restored]
         [] OTHER -> total
  /\ rested' = IF op = "therapy" THEN FALSE ELSE rested
  /\ used' = IF op = "consumable" THEN used + 1 ELSE used
  /\ Answered(p)

Lost(p) == pc[p] # "idle" /\ Reject(p)

\* PostgreSQL aborts a transaction that waits in a cycle.
Deadlocked(p) ==
  \E S \in SUBSET Proc : p \in S /\ \A q \in S : \E r \in S : HoldsBack(r, q)
DetectDeadlock(p) == Deadlocked(p) /\ Reject(p)

\* 500 ms pass; a day passes.
Rest == ~rested /\ rested' = TRUE /\ UNCHANGED <<rcVars, total, used, local>>
DayPasses == used > 0 /\ used' = 0 /\ UNCHANGED <<rcVars, total, rested, local>>

\* NIL is spent or filled elsewhere, on the row as it is.
NilChanges ==
  /\ owner["character"] = NoProc
  /\ \E n \in {0, db["character"].max} :
       /\ db' = [db EXCEPT !["character"].nil = n]
       /\ pend' = [pend EXCEPT !["character"].nil = n]
  /\ UNCHANGED <<owner, total, rested, used, local>>

Step(p) ==
  \/ ReadCharacter(p) \/ ReadLoadout(p) \/ ReadWallet(p) \/ DebitWallet(p)
  \/ InsertAudit(p) \/ InsertInstalled(p) \/ DecrementHumanity(p)
  \/ ReadBonuses(p) \/ UpdateMaxNil(p)
  \/ FindInstalled(p) \/ DeleteInstalled(p)
  \/ LockCharacter(p) \/ RestoreHumanity(p) \/ Consume(p)
  \/ CommitRequest(p)

Action ==
  \/ \E p \in Proc : Start(p) \/ Step(p) \/ Lost(p) \/ DetectDeadlock(p)
  \/ Rest \/ DayPasses \/ NilChanges

StaysAlone == \A p, q \in Proc : pc'[p] # "idle" /\ pc'[q] # "idle" => p = q

Next == Action /\ alone' = (alone /\ StaysAlone)

Spec == Init /\ [][Next]_vars
-----------------------------------------------------------------------------
\* Every value has its type.
TypeOK ==
  /\ DOMAIN db = Rows /\ DOMAIN pend = Rows
  /\ owner \in [Rows -> Proc \cup {NoProc}]
  /\ \A c \in {db["character"], pend["character"]} :
       c \in Characters /\ c.humanity \in 0 .. MaxHumanity /\ c.nil \in 0 .. c.max
  /\ \A w \in {db["wallet"], pend["wallet"]} : w \in WalletRows /\ w.balance >= 0
  /\ db["consumable"] \in Nat /\ pend["consumable"] \in Nat
  /\ \A i \in Implant : db[i] \in Nat \cup {NoRow} /\ pend[i] \in Nat \cup {NoRow}
  /\ total \in [installs : Nat, spent : Nat, drained : Nat, restored : Int, uses : Nat]
  /\ rested \in BOOLEAN /\ used \in Nat
  /\ pc \in [Proc -> {"idle", "character", "loadout", "wallet", "debit", "audit", "implant",
                      "humanity", "bonuses", "max", "installed", "delete", "lock",
                      "restore", "consume", "commit"}]
  /\ req \in [Proc -> Requests \cup {NoRequest}]
  /\ chr \in [Proc -> Characters \cup {NoRow}]
  /\ wal \in [Proc -> WalletRows \cup {NoRow}]
  /\ aim \in [Proc -> Nat]

\* The wallet paid for the installs and the sessions that took effect, and for
\* nothing else, whichever transactions raced, failed or deadlocked.
WalletAccounted == db["wallet"].balance = InitBalance - total.spent

\* Humanity never stands at zero in a character that is not flatlined, though
\* the flatline goes by a stale read and the decrement by a guard.
ZeroIsApagado == db["character"].humanity = 0 => db["character"].flat

\* Every consumable used left the stock, and no window holds more uses than its
\* multipliers allow, however many requests counted the uses at once.
UsesCounted ==
  /\ InitQuantity = db["consumable"] + total.uses
  /\ used <= MaxUses

\* Grana and goods at once.
PaidAndUsed == WalletAccounted /\ UsesCounted

\* Humanity is what the installs drained and the restores gave back.
HumanityAccounted ==
  db["character"].humanity = InitHumanity - total.drained + total.restored

\* Nothing paid for is lost: grana and uses always, and, until an install is
\* committed, every point of humanity that sessions and consumables restore in any
\* order, as the row lock of the character serialises them.
Accounted == PaidAndUsed /\ (total.installs = 0 => HumanityAccounted)

\* The NIL ceiling is the base and the bonuses of what is installed.
MaxNilMatches ==
  db["character"].max = MaxNilOf({i \in Implant : db[i] # NoRow})

\* A flatlined character never gets humanity back.
NoWayBackStep ==
  db["character"].flat =>
    db'["character"].flat /\ db'["character"].humanity <= db["character"].humanity

\* While no two requests have overlapped, lost ones included, installs too cost what
\* humanity they drain and the NIL ceiling follows what is installed.
SoloAccounts == alone => HumanityAccounted /\ MaxNilMatches

\* One request at a time, that and the permanence of a flatline.
SoloBody == []SoloAccounts /\ [][alone' => NoWayBackStep]_vars
=============================================================================
