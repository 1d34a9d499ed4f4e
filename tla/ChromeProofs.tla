---------------------------- MODULE ChromeProofs ----------------------------
(* What a character pays, uses and survives on the operating table, for any    *)
(* implants, prices and costs and any number of concurrent requests.           *)
EXTENDS Chrome, FiniteSetTheorems, WellFoundedInduction, TLAPS

-----------------------------------------------------------------------------
(* The inductive invariant.                                                    *)

\* A character that the game still counts has humanity.  The NIL and its ceiling, a
\* sum over what is installed, stay untyped.
Whole(c) ==
  /\ DOMAIN c = {"humanity", "flat", "overclock", "nil", "max"}
  /\ c.humanity \in 0 .. MaxHumanity /\ c.flat \in BOOLEAN /\ c.overclock \in BOOLEAN
  /\ c.humanity = 0 => c.flat

Purses == [balance : Nat, version : Nat]

RowsTyped ==
  /\ DOMAIN db = Rows /\ DOMAIN pend = Rows
  /\ owner \in [Rows -> Proc \cup {NoProc}]
  /\ Whole(db["character"]) /\ Whole(pend["character"])
  /\ db["wallet"] \in Purses /\ pend["wallet"] \in Purses
  /\ db["consumable"] \in Nat /\ pend["consumable"] \in Nat

Installing == {"character", "loadout", "wallet", "debit", "audit", "implant", "humanity", "bonuses", "max", "commit"}
Paid == {"audit", "implant", "humanity", "bonuses", "max", "commit"}
Drained == {"bonuses", "max", "commit"}
Uninstalling == {"installed", "delete", "bonuses", "max", "commit"}
Sessions == {"lock", "wallet", "debit", "restore", "commit"}
Using == {"lock", "restore", "consume", "commit"}
Statements == Installing \cup Uninstalling \cup Sessions \cup Using \cup {"idle"}

Totals == [installs : Nat, spent : Int, drained : Int, restored : Int, uses : Nat]

LocalsTyped ==
  /\ pc \in [Proc -> Statements]
  /\ req \in [Proc -> Requests \cup {NoRequest}]
  /\ DOMAIN chr = Proc /\ DOMAIN wal = Proc /\ DOMAIN aim = Proc

Typed == RowsTyped /\ LocalsTyped /\ total \in Totals /\ used \in 0 .. MaxUses

\* The statements of each kind of request.
Fits(p) ==
  /\ pc[p] = "idle" <=> req[p] = NoRequest
  /\ req[p].op = "install" => pc[p] \in Installing
  /\ req[p].op = "uninstall" => pc[p] \in Uninstalling
  /\ req[p].op = "therapy" => pc[p] \in Sessions
  /\ req[p].op = "consumable" => pc[p] \in Using

\* What a purchase costs: an install computes it anew, a session rolled it.
Due(p) == IF req[p].op = "install" THEN PriceOf(p) ELSE aim[p]

\* A debit is covered by the wallet it read, a version of which has one content.
Affords(p) ==
  pc[p] = "debit" =>
    /\ wal[p] \in Purses /\ aim[p] \in Nat /\ aim[p] = Due(p) /\ wal[p].balance >= aim[p]
    /\ wal[p].version <= db["wallet"].version
    /\ wal[p].version = db["wallet"].version => wal[p].balance = db["wallet"].balance

\* From the debit on a purchase holds the wallet, less what is due.
HoldsWallet(p) ==
  /\ owner["wallet"] = p <=> \/ req[p].op = "install" /\ pc[p] \in Paid
                             \/ req[p].op = "therapy" /\ pc[p] \in {"restore", "commit"}
  /\ owner["wallet"] = p =>
       /\ Due(p) \in Nat
       /\ pend["wallet"].balance = db["wallet"].balance - Due(p)
       /\ pend["wallet"].version = db["wallet"].version + 1

HoldsConsumable(p) ==
  /\ owner["consumable"] = p <=> req[p].op = "consumable" /\ pc[p] = "commit"
  /\ owner["consumable"] = p => pend["consumable"] = db["consumable"] - 1

\* Sessions and consumables hold the character from their first statement on, installs
\* and uninstalls from their write, and an uninstall does not touch its humanity.
HoldsCharacter(p) ==
  /\ owner["character"] = p <=> \/ LocksCharacter(p) /\ pc[p] # "lock"
                                \/ req[p].op = "install" /\ pc[p] \in Drained
                                \/ req[p].op = "uninstall" /\ pc[p] = "commit"
  /\ req[p].op = "uninstall" /\ pc[p] = "commit" => pend["character"].humanity = db["character"].humanity

\* What a request goes by: an install by a character that had the humanity for it; the
\* others by the character as it is, and a consumable by a count that is still open.
Goes(p) ==
  /\ req[p].op = "install" /\ pc[p] # "character" => Whole(chr[p])
  /\ req[p].op = "install" /\ pc[p] \notin {"character", "loadout"} => HumanityLeft(p) >= 0
  /\ LocksCharacter(p) /\ pc[p] # "lock" =>
       Whole(chr[p]) /\ ~chr[p].flat /\ chr[p].humanity = db["character"].humanity
  /\ req[p].op = "consumable" /\ pc[p] # "lock" => used < MaxUses /\ aim[p] \in Nat

RequestInv(p) ==
  Fits(p) /\ Affords(p) /\ HoldsWallet(p) /\ HoldsConsumable(p) /\ HoldsCharacter(p) /\ Goes(p)

IInv ==
  /\ Typed /\ PendingIsOwned /\ Accounted
  /\ \A p \in Proc : RequestInv(p)
-----------------------------------------------------------------------------
\* Rows and costs.

LEMMA RowNames ==
  ASSUME ChromeAssumption
  PROVE  /\ "character" \in Rows /\ "wallet" \in Rows /\ "consumable" \in Rows
         /\ \A i \in Implant : i \in Rows /\ i \notin {"character", "wallet", "consumable"}
         /\ NoProc \notin Proc /\ MaxHumanity \in Nat \ {0} /\ MaxUses \in Nat
  BY DEF ChromeAssumption, Rows

\* What a request asks for.
LEMMA Asking ==
  ASSUME LocalsTyped, NEW p \in Proc
  PROVE  /\ req[p].op \in {"none", "install", "uninstall", "therapy", "consumable"}
         /\ req[p] = NoRequest <=> req[p].op = "none"
         /\ req[p].op \in {"install", "uninstall"} => req[p].implant \in Implant
<1>1. req[p] \in Requests \cup {NoRequest}
  BY DEF LocalsTyped
<1> QED
  BY <1>1 DEF Requests, NoRequest

LEMMA CostsTyped ==
  ASSUME ChromeAssumption, LocalsTyped, NEW p \in Proc, req[p].op = "install"
  PROVE  PriceOf(p) \in Nat /\ CostOf(p) \in Nat
<1> DEFINE i == req[p].implant
           price == Price[i]
<1>1. price \in Nat /\ HumanityCost[i] \in Nat
  BY Asking DEF ChromeAssumption
<1>2. (price + 1) \div 2 \in Nat
  <2> HIDE DEF price
  <2> QED
    BY <1>1
<1> QED
  BY <1>1, <1>2 DEF PriceOf, CostOf

\* What a request finds in the rows.
LEMMA SeesTyped ==
  ASSUME Typed, NEW p
  PROVE  /\ Whole(Sees(p, "character")) /\ Sees(p, "wallet") \in Purses /\ Sees(p, "consumable") \in Nat
  BY DEF Typed, RowsTyped, Sees

LEMMA InitInv ==
  ASSUME ChromeAssumption, Init
  PROVE  IInv
<1> DEFINE First(r, overclock) ==
             CASE r = "character" -> [humanity |-> InitHumanity, flat |-> FALSE,
                                      overclock |-> overclock, nil |-> BaseNil, max |-> BaseNil]
               [] r = "wallet" -> [balance |-> InitBalance, version |-> 0]
               [] r = "consumable" -> InitQuantity
               [] OTHER -> NoRow
<1>1. PICK overclock \in InitOverclock : RcInit([r \in Rows |-> First(r, overclock)])
  BY DEF Init
<1> DEFINE rows == [r \in Rows |-> First(r, overclock)]
<1>2. db = rows /\ pend = rows /\ owner = [r \in DOMAIN rows |-> NoProc]
  BY <1>1 DEF RcInit
<1>3. /\ DOMAIN db = Rows /\ pend = db /\ owner \in [Rows -> Proc \cup {NoProc}]
      /\ \A r \in Rows : owner[r] = NoProc
  BY <1>2
<1>4. /\ db["character"] = [humanity |-> InitHumanity, flat |-> FALSE, overclock |-> overclock,
                            nil |-> BaseNil, max |-> BaseNil]
      /\ db["wallet"] = [balance |-> InitBalance, version |-> 0]
      /\ db["consumable"] = InitQuantity
  BY <1>2, RowNames
<1> HIDE DEF rows
<1>5. /\ total = [installs |-> 0, spent |-> 0, drained |-> 0, restored |-> 0, uses |-> 0]
      /\ used = 0 /\ pc = [p \in Proc |-> "idle"] /\ req = [p \in Proc |-> NoRequest]
      /\ DOMAIN chr = Proc /\ DOMAIN wal = Proc /\ DOMAIN aim = Proc
  BY DEF Init
<1>6. /\ overclock \in BOOLEAN /\ InitHumanity \in 1 .. MaxHumanity /\ MaxHumanity \in Nat
      /\ InitBalance \in Nat /\ InitQuantity \in Nat /\ MaxUses \in Nat
  BY DEF ChromeAssumption
<1>7. RowsTyped
  <2>1. Whole(db["character"])
    BY <1>4, <1>6 DEF Whole
  <2>2. db["wallet"] \in Purses
    BY <1>4, <1>6 DEF Purses
  <2> QED
    BY <1>3, <1>4, <1>6, <2>1, <2>2 DEF RowsTyped
<1>8. Typed
  BY <1>5, <1>6, <1>7 DEF Typed, LocalsTyped, Statements, Totals
<1>9. PendingIsOwned
  BY <1>3 DEF PendingIsOwned
<1>10. Accounted
  BY <1>4, <1>5, <1>6 DEF Accounted, PaidAndUsed, WalletAccounted, UsesCounted, HumanityAccounted
<1>11. ASSUME NEW p \in Proc
       PROVE  RequestInv(p)
  <2>1. /\ pc[p] = "idle" /\ req[p] = NoRequest /\ NoRequest.op = "none"
        /\ \A r \in Rows : owner[r] # p
    BY <1>3, <1>5, RowNames DEF NoRequest
  <2> QED
    BY <2>1, RowNames DEF RequestInv, Fits, Affords, HoldsWallet, HoldsConsumable, HoldsCharacter, Goes, LocksCharacter
<1> QED
  BY <1>8, <1>9, <1>10, <1>11 DEF IInv
-----------------------------------------------------------------------------
\* What every step leaves alone.

Unmoved(q) ==
  pc'[q] = pc[q] /\ req'[q] = req[q] /\ chr'[q] = chr[q] /\ wal'[q] = wal[q] /\ aim'[q] = aim[q]

\* A step of another request leaves the rows q holds alone, publishes a later version
\* where it publishes a wallet, and counts no use while q holds the character.
LeavesAlone(q) ==
  /\ \A r \in Rows : /\ owner'[r] = q <=> owner[r] = q
                     /\ owner[r] = q => db'[r] = db[r] /\ pend'[r] = pend[r]
  /\ db'["wallet"] = db["wallet"] \/ db'["wallet"].version > db["wallet"].version
  /\ owner["character"] = q => used' <= used

LEMMA OthersKeep ==
  ASSUME ChromeAssumption, Typed, Typed', NEW q \in Proc, RequestInv(q), Unmoved(q), LeavesAlone(q)
  PROVE  RequestInv(q)'
<1>1. /\ pc'[q] = pc[q] /\ req'[q] = req[q] /\ chr'[q] = chr[q] /\ wal'[q] = wal[q] /\ aim'[q] = aim[q]
  BY DEF Unmoved
<1>2. \A r \in {"character", "wallet", "consumable"} :
        /\ owner'[r] = q <=> owner[r] = q
        /\ owner[r] = q => db'[r] = db[r] /\ pend'[r] = pend[r]
  BY RowNames DEF LeavesAlone
<1>3. PriceOf(q)' = PriceOf(q) /\ CostOf(q)' = CostOf(q)
  BY <1>1 DEF PriceOf, CostOf
<1>4. Due(q)' = Due(q) /\ HumanityLeft(q)' = HumanityLeft(q)
  BY <1>1, <1>3 DEF Due, HumanityLeft
<1>5. LocksCharacter(q)' = LocksCharacter(q)
  BY <1>1 DEF LocksCharacter
<1>6. Fits(q)'
  BY <1>1 DEF RequestInv, Fits
<1>7. Affords(q)'
  <2>1. db["wallet"] \in Purses /\ db'["wallet"] \in Purses
    BY DEF Typed, RowsTyped
  <2>2. db'["wallet"] = db["wallet"] \/ db'["wallet"].version > db["wallet"].version
    BY DEF LeavesAlone
  <2> QED
    BY <1>1, <1>4, <2>1, <2>2 DEF RequestInv, Affords, Purses
<1>8. HoldsWallet(q)'
  BY <1>1, <1>2, <1>4 DEF RequestInv, HoldsWallet
<1>9. HoldsConsumable(q)'
  BY <1>1, <1>2 DEF RequestInv, HoldsConsumable
<1>10. HoldsCharacter(q)'
  BY <1>1, <1>2, <1>5 DEF RequestInv, HoldsCharacter
<1>11. Goes(q)'
  <2>1. LocksCharacter(q) /\ pc[q] # "lock" => owner["character"] = q
    BY DEF RequestInv, HoldsCharacter
  <2>2. owner["character"] = q => used' <= used
    BY DEF LeavesAlone
  <2>3. used \in Nat /\ used' \in Nat /\ MaxUses \in Nat
    BY RowNames DEF Typed
  <2>4. req[q].op = "consumable" => LocksCharacter(q)
    BY DEF LocksCharacter
  <2> QED
    BY <1>1, <1>2, <1>4, <1>5, <2>1, <2>2, <2>3, <2>4 DEF RequestInv, Goes
<1> QED
  BY <1>6, <1>7, <1>8, <1>9, <1>10, <1>11 DEF RequestInv

\* What is to show of a step of p.
LEMMA StepKeeps ==
  ASSUME ChromeAssumption, IInv, NEW p \in Proc, Typed', PendingIsOwned', Accounted', RequestInv(p)',
         \A q \in Proc \ {p} : Unmoved(q) /\ LeavesAlone(q)
  PROVE  IInv'
<1>1. \A q \in Proc : RequestInv(q)'
  BY OthersKeep DEF IInv
<1> QED
  BY <1>1 DEF IInv

\* The rows and the totals stay, and the others' locals with them.
LEMMA LocalStep ==
  ASSUME ChromeAssumption, IInv, NEW p \in Proc, UNCHANGED <<rcVars, total, used>>, LocalsTyped', RequestInv(p)',
         \A q \in Proc \ {p} : Unmoved(q)
  PROVE  IInv'
<1>1. /\ db' = db /\ pend' = pend /\ owner' = owner /\ total' = total /\ used' = used
  BY DEF rcVars
<1>2. used \in Nat
  BY RowNames DEF IInv, Typed
<1>3. \A q \in Proc \ {p} : LeavesAlone(q)
  BY <1>1, <1>2 DEF LeavesAlone
<1>4. Typed' /\ PendingIsOwned' /\ Accounted'
  BY <1>1 DEF IInv, Typed, RowsTyped, PendingIsOwned, Accounted, PaidAndUsed, WalletAccounted, UsesCounted, HumanityAccounted
<1> QED
  BY <1>3, <1>4, StepKeeps

\* A request that is over holds nothing.
LEMMA IdleInv ==
  ASSUME ChromeAssumption, NEW p \in Proc, pc'[p] = "idle", req'[p] = NoRequest, \A r \in Rows : owner'[r] # p
  PROVE  RequestInv(p)'
<1>1. NoRequest.op = "none"
  BY DEF NoRequest
<1> QED
  BY <1>1, RowNames DEF RequestInv, Fits, Affords, HoldsWallet, HoldsConsumable, HoldsCharacter, Goes, LocksCharacter

LEMMA AnsweredLocals ==
  ASSUME IInv, NEW p \in Proc, Answered(p)
  PROVE  /\ LocalsTyped' /\ pc'[p] = "idle" /\ req'[p] = NoRequest
         /\ \A q \in Proc \ {p} : Unmoved(q)
  BY DEF IInv, Typed, LocalsTyped, Statements, Answered, Goto, Unmoved

\* Rolling back gives the rows p holds their committed versions.
LEMMA RejectInv ==
  ASSUME ChromeAssumption, IInv, NEW p \in Proc, Reject(p)
  PROVE  IInv'
<1> USE DEF IInv, Typed
<1>1. /\ Answered(p) /\ total' = total /\ used' = used /\ db' = db
      /\ pend' = [r \in DOMAIN db |-> IF owner[r] = p THEN db[r] ELSE pend[r]]
      /\ owner' = [r \in DOMAIN owner |-> IF owner[r] = p THEN NoProc ELSE owner[r]]
  BY DEF Reject, Rollback, Released
<1>2. DOMAIN db = Rows /\ DOMAIN owner = Rows
  BY DEF RowsTyped
<1>3. \A r \in Rows : /\ owner'[r] = IF owner[r] = p THEN NoProc ELSE owner[r]
                      /\ pend'[r] = IF owner[r] = p THEN db[r] ELSE pend[r]
  BY <1>1, <1>2
<1>4. DOMAIN pend' = Rows /\ owner' \in [Rows -> Proc \cup {NoProc}]
  BY <1>1, <1>2 DEF RowsTyped
<1>5. RowsTyped'
  BY <1>1, <1>3, <1>4, RowNames DEF RowsTyped
<1>6. PendingIsOwned'
  BY <1>1, <1>2, <1>3 DEF PendingIsOwned
<1>7. Accounted'
  BY <1>1 DEF Accounted, PaidAndUsed, WalletAccounted, UsesCounted, HumanityAccounted
<1>8. used \in Nat
  BY RowNames
<1>9. \A q \in Proc \ {p} : LeavesAlone(q)
  BY <1>1, <1>3, <1>8, RowNames DEF LeavesAlone
<1>10. RequestInv(p)'
  BY <1>1, <1>3, RowNames, AnsweredLocals, IdleInv
<1> QED
  BY <1>1, <1>5, <1>6, <1>7, <1>9, <1>10, AnsweredLocals, StepKeeps

\* Writing a row.
LEMMA PutRow ==
  ASSUME ChromeAssumption, IInv, NEW p \in Proc, NEW r \in Rows, NEW v, Put(p, r, v), UNCHANGED <<total, used>>
  PROVE  /\ db' = db /\ owner'[r] = p /\ pend'[r] = v /\ owner[r] \in {p, NoProc}
         /\ \A s \in Rows \ {r} : owner'[s] = owner[s] /\ pend'[s] = pend[s]
         /\ DOMAIN pend' = Rows /\ owner' \in [Rows -> Proc \cup {NoProc}]
         /\ PendingIsOwned' /\ Accounted'
         /\ \A q \in Proc \ {p} : LeavesAlone(q)
<1> USE DEF IInv, Typed
<1>1. /\ db' = db /\ pend' = [pend EXCEPT ![r] = v] /\ owner' = [owner EXCEPT ![r] = p]
      /\ owner[r] \in {p, NoProc} /\ total' = total /\ used' = used
  BY DEF Put, CanLock
<1>2. DOMAIN db = Rows /\ DOMAIN pend = Rows /\ owner \in [Rows -> Proc \cup {NoProc}]
  BY DEF RowsTyped
<1>3. /\ owner'[r] = p /\ pend'[r] = v
      /\ \A s \in Rows \ {r} : owner'[s] = owner[s] /\ pend'[s] = pend[s]
      /\ DOMAIN pend' = Rows /\ owner' \in [Rows -> Proc \cup {NoProc}]
  BY <1>1, <1>2
<1>4. PendingIsOwned'
  BY <1>1, <1>2, <1>3, RowNames DEF PendingIsOwned
<1>5. Accounted'
  BY <1>1 DEF Accounted, PaidAndUsed, WalletAccounted, UsesCounted, HumanityAccounted
<1>6. \A q \in Proc \ {p} : LeavesAlone(q)
  BY <1>1, <1>3, RowNames DEF LeavesAlone
<1> QED
  BY <1>1, <1>3, <1>4, <1>5, <1>6
-----------------------------------------------------------------------------
\* The reads and the local decisions.

\* p goes on to statement l; what it asks for stays.
GoesTo(p, l) ==
  /\ pc' = [pc EXCEPT ![p] = l] /\ l \in Statements /\ req' = req
  /\ DOMAIN chr' = Proc /\ DOMAIN wal' = Proc /\ DOMAIN aim' = Proc
  /\ \A q \in Proc \ {p} : chr'[q] = chr[q] /\ wal'[q] = wal[q] /\ aim'[q] = aim[q]

LEMMA GoesToLocals ==
  ASSUME IInv, NEW p \in Proc, NEW l, GoesTo(p, l)
  PROVE  /\ LocalsTyped' /\ pc'[p] = l /\ req'[p] = req[p]
         /\ \A q \in Proc \ {p} : Unmoved(q)
  BY DEF IInv, Typed, LocalsTyped, GoesTo, Unmoved

LEMMA StartInv ==
  ASSUME ChromeAssumption, IInv, NEW p \in Proc, Start(p)
  PROVE  IInv'
<1>1. PICK r \in Requests :
        /\ req' = [req EXCEPT ![p] = r]
        /\ pc' = [pc EXCEPT ![p] = CASE r.op = "install" -> "character"
                                     [] r.op = "uninstall" -> "installed"
                                     [] OTHER -> "lock"]
  BY DEF Start, Goto
<1>2. UNCHANGED <<rcVars, total, rested, used, chr, wal, aim>> /\ pc[p] = "idle"
  BY DEF Start
<1>3. req[p] = NoRequest /\ req[p].op = "none"
  BY <1>2 DEF IInv, RequestInv, Fits, NoRequest
<1>4. owner["character"] # p /\ owner["wallet"] # p /\ owner["consumable"] # p
  BY <1>3 DEF IInv, RequestInv, HoldsWallet, HoldsConsumable, HoldsCharacter, LocksCharacter
<1>5. r.op \in {"install", "uninstall", "therapy", "consumable"} /\ r # NoRequest
  BY DEF Requests, NoRequest
<1>6. /\ req'[p] = r
      /\ r.op = "install" => pc'[p] = "character"
      /\ r.op = "uninstall" => pc'[p] = "installed"
      /\ r.op \in {"therapy", "consumable"} => pc'[p] = "lock"
  BY <1>1, <1>5 DEF IInv, Typed, LocalsTyped
<1>7. LocalsTyped' /\ \A q \in Proc \ {p} : Unmoved(q)
  BY <1>1, <1>2, <1>5 DEF IInv, Typed, LocalsTyped, Statements, Installing, Uninstalling, Sessions, Unmoved
<1>8. RequestInv(p)'
  <2>1. owner' = owner
    BY <1>2 DEF rcVars
  <2> QED
    BY <1>4, <1>5, <1>6, <2>1 DEF RequestInv, Fits, Affords, HoldsWallet, HoldsConsumable, HoldsCharacter, Goes,
         LocksCharacter, Installing, Uninstalling, Sessions, Using, Paid, Drained
<1> QED
  BY <1>2, <1>7, <1>8, LocalStep

LEMMA ReadCharacterInv ==
  ASSUME ChromeAssumption, IInv, NEW p \in Proc, ReadCharacter(p)
  PROVE  IInv'
<1>1. CASE Reject(p)
  BY <1>1, RejectInv
<1>2. CASE ~Reject(p)
  <2> DEFINE c == Sees(p, "character")
  <2>1. /\ pc[p] = "character" /\ chr' = [chr EXCEPT ![p] = c] /\ Goto(p, "loadout")
        /\ UNCHANGED <<rcVars, total, rested, used, req, wal, aim>>
    BY <1>2 DEF ReadCharacter
  <2>2. Whole(c)
    BY SeesTyped DEF IInv
  <2> HIDE DEF c
  <2>3. GoesTo(p, "loadout") /\ chr'[p] = c
    BY <2>1 DEF IInv, Typed, LocalsTyped, GoesTo, Goto, Statements, Installing
  <2>4. LocalsTyped' /\ pc'[p] = "loadout" /\ req'[p] = req[p] /\ \A q \in Proc \ {p} : Unmoved(q)
    BY <2>3, GoesToLocals
  <2>5. req[p].op = "install"
    BY <2>1, Asking DEF IInv, Typed, RequestInv, Fits, Uninstalling, Sessions, Using
  <2>6. RequestInv(p)'
    <3>1. owner' = owner /\ RequestInv(p)
      BY <2>1 DEF rcVars, IInv
    <3>2. Whole(chr[p])'
      BY <2>2, <2>3
    <3> QED
      BY <2>1, <2>4, <2>5, <3>1, <3>2 DEF RequestInv, Fits, Affords, HoldsWallet, HoldsConsumable, HoldsCharacter, Goes,
           LocksCharacter, Installing, Paid, Drained, NoRequest
  <2> QED
    BY <2>1, <2>4, <2>6, LocalStep
<1> QED
  BY <1>1, <1>2

LEMMA ReadLoadoutInv ==
  ASSUME ChromeAssumption, IInv, NEW p \in Proc, ReadLoadout(p)
  PROVE  IInv'
<1>1. CASE Reject(p)
  BY <1>1, RejectInv
<1>2. CASE ~Reject(p)
  <2>1. /\ pc[p] = "loadout" /\ Goto(p, "wallet") /\ chr[p].humanity - CostOf(p) >= 0
        /\ UNCHANGED <<rcVars, total, rested, used, req, chr, wal, aim>>
    BY <1>2 DEF ReadLoadout, MayInstall
  <2>2. GoesTo(p, "wallet")
    BY <2>1 DEF IInv, Typed, LocalsTyped, GoesTo, Goto, Statements, Installing
  <2>3. LocalsTyped' /\ pc'[p] = "wallet" /\ req'[p] = req[p] /\ \A q \in Proc \ {p} : Unmoved(q)
    BY <2>2, GoesToLocals
  <2>4. req[p].op = "install"
    BY <2>1, Asking DEF IInv, Typed, RequestInv, Fits, Uninstalling, Sessions, Using
  <2>5. HumanityLeft(p)' >= 0
    BY <2>1, <2>3 DEF HumanityLeft, CostOf
  <2>6. RequestInv(p)'
    <3>1. owner' = owner /\ chr' = chr /\ RequestInv(p)
      BY <2>1 DEF rcVars, IInv
    <3> QED
      BY <2>1, <2>3, <2>4, <2>5, <3>1 DEF RequestInv, Fits, Affords, HoldsWallet, HoldsConsumable, HoldsCharacter, Goes,
           Whole, LocksCharacter, Installing, Paid, Drained, NoRequest
  <2> QED
    BY <2>1, <2>3, <2>6, LocalStep
<1> QED
  BY <1>1, <1>2

LEMMA ReadWalletInv ==
  ASSUME ChromeAssumption, IInv, NEW p \in Proc, ReadWallet(p)
  PROVE  IInv'
<1>1. CASE Reject(p)
  BY <1>1, RejectInv
<1>2. CASE ~Reject(p)
  <2> DEFINE w == Sees(p, "wallet")
  <2>1. PICK cost \in Costs(p) :
          /\ pc[p] = "wallet" /\ w.balance >= cost
          /\ wal' = [wal EXCEPT ![p] = w] /\ aim' = [aim EXCEPT ![p] = cost] /\ Goto(p, "debit")
          /\ UNCHANGED <<rcVars, total, rested, used, req, chr>>
    BY <1>2 DEF ReadWallet
  <2>2. RequestInv(p) /\ LocalsTyped
    BY DEF IInv, Typed
  <2>3. req[p].op \in {"install", "therapy"}
    BY <2>1, <2>2, Asking DEF RequestInv, Fits, Uninstalling, Using
  <2>4. /\ cost \in Nat
        /\ req[p].op = "install" => cost = PriceOf(p)
    <3>1. CASE req[p].op = "install"
      BY <2>2, <3>1, CostsTyped DEF Costs
    <3>2. CASE req[p].op = "therapy"
      BY <3>2 DEF Costs, ChromeAssumption
    <3> QED
      BY <2>3, <3>1, <3>2
  <2>5. owner["wallet"] # p
    BY <2>1, <2>2 DEF RequestInv, HoldsWallet, Paid
  <2>6. w = db["wallet"] /\ w \in Purses
    BY <2>5, SeesTyped DEF Sees, IInv
  <2> HIDE DEF w
  <2>7. GoesTo(p, "debit") /\ wal'[p] = w /\ aim'[p] = cost
    BY <2>1 DEF IInv, Typed, LocalsTyped, GoesTo, Goto, Statements, Installing
  <2>8. LocalsTyped' /\ pc'[p] = "debit" /\ req'[p] = req[p] /\ \A q \in Proc \ {p} : Unmoved(q)
    BY <2>7, GoesToLocals
  <2>9. /\ owner' = owner /\ db' = db /\ pend' = pend /\ chr' = chr /\ used' = used
    BY <2>1 DEF rcVars
  <2>10. PriceOf(p)' = PriceOf(p) /\ HumanityLeft(p)' = HumanityLeft(p)
    BY <2>8, <2>9 DEF PriceOf, HumanityLeft, CostOf
  <2>11. Affords(p)'
    <3>1. Due(p)' = cost
      BY <2>4, <2>7, <2>8, <2>10 DEF Due
    <3>2. w.version \in Nat
      BY <2>6 DEF Purses
    <3> QED
      BY <2>1, <2>4, <2>6, <2>7, <2>9, <3>1, <3>2 DEF Affords
  <2>12. RequestInv(p)'
    <3>1. (Fits(p) /\ HoldsWallet(p) /\ HoldsConsumable(p) /\ HoldsCharacter(p))'
      BY <2>1, <2>2, <2>3, <2>8, <2>9 DEF RequestInv, Fits, HoldsWallet, HoldsConsumable, HoldsCharacter, LocksCharacter,
           Installing, Sessions, Paid, Drained, NoRequest
    <3>2. Goes(p)'
      BY <2>1, <2>2, <2>3, <2>8, <2>9, <2>10 DEF RequestInv, Goes, Whole, LocksCharacter
    <3> QED
      BY <2>11, <3>1, <3>2 DEF RequestInv
  <2> QED
    BY <2>1, <2>8, <2>12, LocalStep
<1> QED
  BY <1>1, <1>2

LEMMA InsertAuditInv ==
  ASSUME ChromeAssumption, IInv, NEW p \in Proc, InsertAudit(p)
  PROVE  IInv'
<1>1. /\ pc[p] = "audit" /\ Goto(p, "implant")
      /\ UNCHANGED <<rcVars, total, rested, used, req, chr, wal, aim>>
  BY DEF InsertAudit
<1>2. GoesTo(p, "implant")
  BY <1>1 DEF IInv, Typed, LocalsTyped, GoesTo, Goto, Statements, Installing
<1>3. LocalsTyped' /\ pc'[p] = "implant" /\ req'[p] = req[p] /\ \A q \in Proc \ {p} : Unmoved(q)
  BY <1>2, GoesToLocals
<1>4. RequestInv(p) /\ req[p].op = "install"
  BY <1>1, Asking DEF IInv, Typed, RequestInv, Fits, Uninstalling, Sessions, Using
<1>5. owner' = owner /\ db' = db /\ pend' = pend /\ chr' = chr /\ aim' = aim /\ used' = used
  BY <1>1 DEF rcVars
<1>6. Due(p)' = Due(p) /\ HumanityLeft(p)' = HumanityLeft(p)
  BY <1>3, <1>5 DEF Due, PriceOf, HumanityLeft, CostOf
<1>7. RequestInv(p)'
  BY <1>1, <1>3, <1>4, <1>5, <1>6 DEF RequestInv, Fits, Affords, HoldsWallet, HoldsConsumable, HoldsCharacter, Goes,
       Whole, LocksCharacter, Installing, Paid, Drained, NoRequest
<1> QED
  BY <1>1, <1>3, <1>7, LocalStep

LEMMA ReadBonusesInv ==
  ASSUME ChromeAssumption, IInv, NEW p \in Proc, ReadBonuses(p)
  PROVE  IInv'
<1> DEFINE n == MaxNilOf(Installed(p))
<1>1. /\ pc[p] = "bonuses" /\ aim' = [aim EXCEPT ![p] = n] /\ Goto(p, "max")
      /\ UNCHANGED <<rcVars, total, rested, used, req, chr, wal>>
  BY DEF ReadBonuses
<1> HIDE DEF n
<1>2. GoesTo(p, "max")
  BY <1>1 DEF IInv, Typed, LocalsTyped, GoesTo, Goto, Statements, Installing
<1>3. LocalsTyped' /\ pc'[p] = "max" /\ req'[p] = req[p] /\ \A q \in Proc \ {p} : Unmoved(q)
  BY <1>2, GoesToLocals
<1>4. RequestInv(p) /\ req[p].op \in {"install", "uninstall"}
  BY <1>1, Asking DEF IInv, Typed, RequestInv, Fits, Sessions, Using
<1>5. owner' = owner /\ db' = db /\ pend' = pend /\ chr' = chr /\ used' = used
  BY <1>1 DEF rcVars
<1>6. HumanityLeft(p)' = HumanityLeft(p) /\ (req[p].op = "install" => Due(p)' = Due(p))
  BY <1>3, <1>5 DEF Due, PriceOf, HumanityLeft, CostOf
<1>7. RequestInv(p)'
  BY <1>1, <1>3, <1>4, <1>5, <1>6 DEF RequestInv, Fits, Affords, HoldsWallet, HoldsConsumable, HoldsCharacter, Goes,
       Whole, LocksCharacter, Installing, Uninstalling, Paid, Drained, NoRequest
<1> QED
  BY <1>1, <1>3, <1>7, LocalStep

LEMMA FindInstalledInv ==
  ASSUME ChromeAssumption, IInv, NEW p \in Proc, FindInstalled(p)
  PROVE  IInv'
<1>1. CASE Reject(p)
  BY <1>1, RejectInv
<1>2. CASE ~Reject(p)
  <2> DEFINE id == db[req[p].implant]
  <2>1. /\ pc[p] = "installed" /\ aim' = [aim EXCEPT ![p] = id] /\ Goto(p, "delete")
        /\ UNCHANGED <<rcVars, total, rested, used, req, chr, wal>>
    BY <1>2 DEF FindInstalled
  <2> HIDE DEF id
  <2>2. GoesTo(p, "delete")
    BY <2>1 DEF IInv, Typed, LocalsTyped, GoesTo, Goto, Statements, Uninstalling
  <2>3. LocalsTyped' /\ pc'[p] = "delete" /\ req'[p] = req[p] /\ \A q \in Proc \ {p} : Unmoved(q)
    BY <2>2, GoesToLocals
  <2>4. RequestInv(p) /\ req[p].op = "uninstall"
    BY <2>1, Asking DEF IInv, Typed, RequestInv, Fits, Installing, Sessions, Using
  <2>5. owner' = owner
    BY <2>1 DEF rcVars
  <2>6. RequestInv(p)'
    BY <2>1, <2>3, <2>4, <2>5 DEF RequestInv, Fits, Affords, HoldsWallet, HoldsConsumable, HoldsCharacter, Goes,
         LocksCharacter, Uninstalling, NoRequest
  <2> QED
    BY <2>1, <2>3, <2>6, LocalStep
<1> QED
  BY <1>1, <1>2
-----------------------------------------------------------------------------
\* The writes.

LEMMA DebitWalletInv ==
  ASSUME ChromeAssumption, IInv, NEW p \in Proc, DebitWallet(p)
  PROVE  IInv'
<1>1. CASE Reject(p)
  BY <1>1, RejectInv
<1>2. CASE ~Reject(p)
  <2> DEFINE v == [balance |-> wal[p].balance - aim[p], version |-> wal[p].version + 1]
             l == IF req[p].op = "install" THEN "audit" ELSE "restore"
  <2>1. /\ pc[p] = "debit" /\ wal[p].version = Sees(p, "wallet").version /\ Put(p, "wallet", v) /\ Goto(p, l)
        /\ UNCHANGED <<total, rested, used, req, chr, wal, aim>>
    BY <1>2 DEF DebitWallet, VersionMatches
  <2>2. RequestInv(p) /\ req[p].op \in {"install", "therapy"}
    BY <2>1, Asking DEF IInv, Typed, RequestInv, Fits, Uninstalling, Using
  <2>3. owner["wallet"] # p
    BY <2>1, <2>2 DEF RequestInv, HoldsWallet, Paid
  <2>4. /\ aim[p] \in Nat /\ aim[p] = Due(p) /\ wal[p].balance >= aim[p] /\ wal[p] \in Purses
        /\ db["wallet"].balance = wal[p].balance /\ db["wallet"].version = wal[p].version
    BY <2>1, <2>2, <2>3 DEF Sees, RequestInv, Affords
  <2>5. v \in Purses /\ v.balance = db["wallet"].balance - aim[p] /\ v.version = db["wallet"].version + 1
    BY <2>4 DEF Purses
  <2> HIDE DEF v
  <2>6. /\ db' = db /\ owner'["wallet"] = p /\ pend'["wallet"] = v
        /\ \A s \in Rows \ {"wallet"} : owner'[s] = owner[s] /\ pend'[s] = pend[s]
        /\ DOMAIN pend' = Rows /\ owner' \in [Rows -> Proc \cup {NoProc}] /\ PendingIsOwned' /\ Accounted'
        /\ \A q \in Proc \ {p} : LeavesAlone(q)
    BY <2>1, PutRow, RowNames
  <2>7. GoesTo(p, l)
    BY <2>1 DEF IInv, Typed, LocalsTyped, GoesTo, Goto, Statements, Installing, Sessions
  <2>8. LocalsTyped' /\ pc'[p] = l /\ req'[p] = req[p] /\ \A q \in Proc \ {p} : Unmoved(q)
    BY <2>7, GoesToLocals
  <2>9. Typed'
    BY <2>1, <2>5, <2>6, <2>8, RowNames DEF IInv, Typed, RowsTyped
  <2>10. Due(p)' = Due(p) /\ HumanityLeft(p)' = HumanityLeft(p)
    BY <2>1, <2>8 DEF Due, PriceOf, HumanityLeft, CostOf
  <2>11. HoldsWallet(p)'
    BY <2>2, <2>4, <2>5, <2>6, <2>8, <2>10 DEF HoldsWallet, Paid
  <2>12. RequestInv(p)'
    <3>1. (Fits(p) /\ Affords(p) /\ HoldsConsumable(p) /\ HoldsCharacter(p))'
      BY <2>1, <2>2, <2>6, <2>8, RowNames DEF RequestInv, Fits, Affords, HoldsConsumable, HoldsCharacter, LocksCharacter,
           Installing, Sessions, Drained, NoRequest
    <3>2. Goes(p)'
      BY <2>1, <2>2, <2>6, <2>8, <2>10 DEF RequestInv, Goes, Whole, LocksCharacter
    <3> QED
      BY <2>11, <3>1, <3>2 DEF RequestInv
  <2> QED
    BY <2>6, <2>8, <2>9, <2>12, StepKeeps
<1> QED
  BY <1>1, <1>2

\* Writes of an installed_chrome row touch nothing that is counted here.
LEMMA ImplantWritten ==
  ASSUME ChromeAssumption, IInv, NEW p \in Proc, NEW i \in Implant, NEW v, NEW l, GoesTo(p, l),
         Put(p, i, v), UNCHANGED <<total, used, chr, wal, aim>>,
         \/ req[p].op = "install" /\ pc[p] = "implant" /\ l = "humanity"
         \/ req[p].op = "uninstall" /\ pc[p] = "delete" /\ l = "bonuses"
  PROVE  IInv'
<1>1. i \in Rows /\ i \notin {"character", "wallet", "consumable"}
  BY RowNames
<1>2. /\ db' = db /\ \A s \in Rows \ {i} : owner'[s] = owner[s] /\ pend'[s] = pend[s]
      /\ DOMAIN pend' = Rows /\ owner' \in [Rows -> Proc \cup {NoProc}] /\ PendingIsOwned' /\ Accounted'
      /\ \A q \in Proc \ {p} : LeavesAlone(q)
  BY <1>1, PutRow
<1>3. LocalsTyped' /\ pc'[p] = l /\ req'[p] = req[p] /\ \A q \in Proc \ {p} : Unmoved(q)
  BY GoesToLocals
<1>4. \A r \in {"character", "wallet", "consumable"} : owner'[r] = owner[r] /\ pend'[r] = pend[r]
  BY <1>1, <1>2, RowNames
<1>5. Typed'
  BY <1>2, <1>3, <1>4 DEF IInv, Typed, RowsTyped
<1>6. Due(p)' = Due(p) /\ HumanityLeft(p)' = HumanityLeft(p)
  BY <1>3 DEF Due, PriceOf, HumanityLeft, CostOf
<1>7. RequestInv(p)
  BY DEF IInv
<1>8. RequestInv(p)'
  BY <1>2, <1>3, <1>4, <1>6, <1>7 DEF RequestInv, Fits, Affords, HoldsWallet, HoldsConsumable, HoldsCharacter, Goes,
       Whole, LocksCharacter, Installing, Uninstalling, Paid, Drained, NoRequest
<1> QED
  BY <1>2, <1>3, <1>5, <1>8, StepKeeps

LEMMA InsertInstalledInv ==
  ASSUME ChromeAssumption, IInv, NEW p \in Proc, InsertInstalled(p)
  PROVE  IInv'
<1>1. CASE Reject(p)
  BY <1>1, RejectInv
<1>2. CASE ~Reject(p)
  <2> DEFINE i == req[p].implant
  <2>1. /\ pc[p] = "implant" /\ Put(p, i, total.installs + 1) /\ Goto(p, "humanity")
        /\ UNCHANGED <<total, rested, used, req, chr, wal, aim>>
    BY <1>2 DEF InsertInstalled
  <2>2. req[p].op = "install" /\ i \in Implant
    BY <2>1, Asking DEF IInv, Typed, RequestInv, Fits, Uninstalling, Sessions, Using
  <2>3. GoesTo(p, "humanity")
    BY <2>1 DEF IInv, Typed, LocalsTyped, GoesTo, Goto, Statements, Installing
  <2> HIDE DEF i
  <2> QED
    BY <2>1, <2>2, <2>3, ImplantWritten
<1> QED
  BY <1>1, <1>2

LEMMA DeleteInstalledInv ==
  ASSUME ChromeAssumption, IInv, NEW p \in Proc, DeleteInstalled(p)
  PROVE  IInv'
<1> DEFINE i == req[p].implant
<1>1. Goto(p, "bonuses") /\ UNCHANGED <<total, rested, used, req, chr, wal, aim>>
  BY DEF DeleteInstalled
<1>2. pc[p] = "delete" /\ (Put(p, i, NoRow) \/ UNCHANGED rcVars)
  BY DEF DeleteInstalled
<1>3. RequestInv(p) /\ req[p].op = "uninstall" /\ i \in Implant
  BY <1>2, Asking DEF IInv, Typed, RequestInv, Fits, Installing, Sessions, Using
<1>4. GoesTo(p, "bonuses")
  BY <1>1 DEF IInv, Typed, LocalsTyped, GoesTo, Goto, Statements, Installing
<1>5. CASE Put(p, i, NoRow)
  <2> HIDE DEF i
  <2> QED
    BY <1>1, <1>2, <1>3, <1>4, <1>5, ImplantWritten
<1>6. CASE UNCHANGED rcVars
  <2>1. LocalsTyped' /\ pc'[p] = "bonuses" /\ req'[p] = req[p] /\ \A q \in Proc \ {p} : Unmoved(q)
    BY <1>4, GoesToLocals
  <2>2. owner' = owner
    BY <1>6 DEF rcVars
  <2>3. RequestInv(p)'
    BY <1>2, <1>3, <2>1, <2>2 DEF RequestInv, Fits, Affords, HoldsWallet, HoldsConsumable, HoldsCharacter, Goes,
         LocksCharacter, Uninstalling, NoRequest
  <2> QED
    BY <1>1, <1>6, <2>1, <2>3, LocalStep
<1> QED
  BY <1>2, <1>5, <1>6

\* Writes of the character by a request that does not change what it goes by.
LEMMA CharacterWritten ==
  ASSUME ChromeAssumption, IInv, NEW p \in Proc, NEW v, Whole(v), NEW l, GoesTo(p, l),
         Put(p, "character", v), UNCHANGED <<total, used, chr, wal, aim>>,
         \/ req[p].op = "install" /\ pc[p] = "humanity" /\ l = "bonuses"
         \/ req[p].op = "install" /\ pc[p] = "max" /\ l = "commit"
         \/ req[p].op = "uninstall" /\ pc[p] = "max" /\ l = "commit" /\ v.humanity = db["character"].humanity
         \/ req[p].op = "therapy" /\ pc[p] = "restore" /\ l = "commit"
         \/ req[p].op = "consumable" /\ pc[p] = "restore" /\ l = "consume"
  PROVE  IInv'
<1>1. /\ db' = db /\ owner'["character"] = p /\ pend'["character"] = v
      /\ \A s \in Rows \ {"character"} : owner'[s] = owner[s] /\ pend'[s] = pend[s]
      /\ DOMAIN pend' = Rows /\ owner' \in [Rows -> Proc \cup {NoProc}] /\ PendingIsOwned' /\ Accounted'
      /\ \A q \in Proc \ {p} : LeavesAlone(q)
  BY PutRow, RowNames
<1>2. LocalsTyped' /\ pc'[p] = l /\ req'[p] = req[p] /\ \A q \in Proc \ {p} : Unmoved(q)
  BY GoesToLocals
<1>3. Typed'
  BY <1>1, <1>2, RowNames DEF IInv, Typed, RowsTyped
<1>4. Due(p)' = Due(p) /\ HumanityLeft(p)' = HumanityLeft(p)
  BY <1>2 DEF Due, PriceOf, HumanityLeft, CostOf
<1>5. RequestInv(p)
  BY DEF IInv
<1>6. (Fits(p) /\ Affords(p) /\ HoldsWallet(p) /\ HoldsConsumable(p))'
  BY <1>1, <1>2, <1>4, <1>5, RowNames DEF RequestInv, Fits, Affords, HoldsWallet, HoldsConsumable,
       Installing, Uninstalling, Sessions, Using, Paid, NoRequest
<1>7. HoldsCharacter(p)' /\ Goes(p)'
  BY <1>1, <1>2, <1>4, <1>5 DEF RequestInv, HoldsCharacter, Goes, Whole, LocksCharacter, Drained
<1> QED
  BY <1>1, <1>2, <1>3, <1>6, <1>7, StepKeeps DEF RequestInv

\* The guard writes what the stale read leaves, and the flatline follows that value:
\* a character at zero is flatlined whichever of the two went by the older row.
LEMMA DecrementHumanityInv ==
  ASSUME ChromeAssumption, IInv, NEW p \in Proc, DecrementHumanity(p)
  PROVE  IInv'
<1> DEFINE c == Sees(p, "character")
           h == IF Guarded(p, c) THEN HumanityLeft(p) ELSE c.humanity
           f == c.flat \/ Drains(p)
           o == c.overclock /\ ~chr[p].overclock
           v == [c EXCEPT !.humanity = h, !.flat = f, !.overclock = o]
<1>1. /\ pc[p] = "humanity" /\ Put(p, "character", v) /\ Goto(p, "bonuses")
      /\ UNCHANGED <<total, rested, used, req, chr, wal, aim>>
  BY DEF DecrementHumanity
<1>2. RequestInv(p) /\ req[p].op = "install" /\ LocalsTyped
  BY <1>1, Asking DEF IInv, Typed, RequestInv, Fits, Uninstalling, Sessions, Using
<1>3. Whole(c) /\ Whole(chr[p]) /\ HumanityLeft(p) >= 0
  BY <1>1, <1>2, SeesTyped DEF IInv, RequestInv, Goes
<1>4. CostOf(p) \in Nat
  BY <1>2, CostsTyped
<1>5. h \in 0 .. MaxHumanity /\ f \in BOOLEAN /\ o \in BOOLEAN /\ (h = 0 => f)
  BY <1>3, <1>4, RowNames DEF Whole, HumanityLeft, Drains
<1>6. Whole(v)
  <2> HIDE DEF h, f, o, c
  <2>1. DOMAIN v = DOMAIN c /\ v.humanity = h /\ v.flat = f /\ v.overclock = o
    BY <1>3 DEF Whole
  <2> QED
    BY <1>3, <1>5, <2>1 DEF Whole
<1>7. GoesTo(p, "bonuses")
  BY <1>1 DEF IInv, Typed, LocalsTyped, GoesTo, Goto, Statements, Installing
<1> HIDE DEF v
<1> QED
  BY <1>1, <1>2, <1>6, <1>7, CharacterWritten

LEMMA UpdateMaxNilInv ==
  ASSUME ChromeAssumption, IInv, NEW p \in Proc, UpdateMaxNil(p)
  PROVE  IInv'
<1>1. CASE Reject(p)
  BY <1>1, RejectInv
<1>2. CASE ~Reject(p)
  <2> DEFINE c == Sees(p, "character")
             v == [c EXCEPT !.max = aim[p]]
  <2>1. /\ pc[p] = "max" /\ Put(p, "character", v) /\ Goto(p, "commit")
        /\ UNCHANGED <<total, rested, used, req, chr, wal, aim>>
    BY <1>2 DEF UpdateMaxNil
  <2>2. RequestInv(p) /\ req[p].op \in {"install", "uninstall"}
    BY <2>1, Asking DEF IInv, Typed, RequestInv, Fits, Sessions, Using
  <2>3. Whole(c)
    BY SeesTyped DEF IInv
  <2>4. req[p].op = "uninstall" => c = db["character"]
    BY <2>1, <2>2 DEF RequestInv, HoldsCharacter, LocksCharacter, Sees
  <2>5. Whole(v) /\ v.humanity = c.humanity
    <3> HIDE DEF c
    <3> QED
      BY <2>3 DEF Whole
  <2>6. GoesTo(p, "commit")
    BY <2>1 DEF IInv, Typed, LocalsTyped, GoesTo, Goto, Statements, Installing
  <2> HIDE DEF v, c
  <2> QED
    BY <2>1, <2>2, <2>4, <2>5, <2>6, CharacterWritten
<1> QED
  BY <1>1, <1>2

LEMMA LockCharacterInv ==
  ASSUME ChromeAssumption, IInv, NEW p \in Proc, LockCharacter(p)
  PROVE  IInv'
<1>1. CASE Reject(p)
  BY <1>1, RejectInv
<1>2. CASE ~Reject(p)
  <2> DEFINE c == Sees(p, "character")
             points == IF req[p].op = "therapy" THEN 0 ELSE Restore[used]
             l == IF req[p].op = "therapy" THEN "wallet" ELSE "restore"
  <2>1. /\ pc[p] = "lock" /\ MayTreat(p, c) /\ Put(p, "character", c)
        /\ chr' = [chr EXCEPT ![p] = c] /\ aim' = [aim EXCEPT ![p] = points] /\ Goto(p, l)
        /\ UNCHANGED <<total, rested, used, req, wal>>
    BY <1>2 DEF LockCharacter, Lock, ForUpdate
  <2>2. RequestInv(p) /\ req[p].op \in {"therapy", "consumable"}
    BY <2>1, Asking DEF IInv, Typed, RequestInv, Fits, Installing, Uninstalling
  <2>3. c = db["character"] /\ Whole(c) /\ ~c.flat
    <3>1. owner["character"] # p
      BY <2>1, <2>2 DEF RequestInv, HoldsCharacter, LocksCharacter
    <3> QED
      BY <2>1, <3>1, SeesTyped DEF IInv, Sees, MayTreat
  <2>4. req[p].op = "consumable" => used < MaxUses /\ points \in Nat
    <3>1. used \in Nat /\ MaxUses \in Nat /\ Restore \in [0 .. MaxUses - 1 -> Nat]
      BY DEF IInv, Typed, ChromeAssumption
    <3> QED
      BY <2>1, <3>1 DEF MayTreat, OutOfUses
  <2> HIDE DEF c, points
  <2>5. /\ db' = db /\ owner'["character"] = p /\ pend'["character"] = c
        /\ \A s \in Rows \ {"character"} : owner'[s] = owner[s] /\ pend'[s] = pend[s]
        /\ DOMAIN pend' = Rows /\ owner' \in [Rows -> Proc \cup {NoProc}] /\ PendingIsOwned' /\ Accounted'
        /\ \A q \in Proc \ {p} : LeavesAlone(q)
    BY <2>1, PutRow, RowNames
  <2>6. GoesTo(p, l) /\ chr'[p] = c /\ aim'[p] = points
    BY <2>1 DEF IInv, Typed, LocalsTyped, GoesTo, Goto, Statements, Sessions, Using
  <2>7. LocalsTyped' /\ pc'[p] = l /\ req'[p] = req[p] /\ \A q \in Proc \ {p} : Unmoved(q)
    BY <2>6, GoesToLocals
  <2>8. Typed'
    BY <2>1, <2>3, <2>5, <2>7, RowNames DEF IInv, Typed, RowsTyped
  <2>9. (Fits(p) /\ Affords(p) /\ HoldsWallet(p) /\ HoldsConsumable(p))'
    BY <2>1, <2>2, <2>5, <2>7, RowNames DEF RequestInv, Fits, Affords, HoldsWallet, HoldsConsumable, Sessions, Using, NoRequest
  <2>10. HoldsCharacter(p)' /\ Goes(p)'
    BY <2>1, <2>2, <2>3, <2>4, <2>5, <2>6, <2>7 DEF HoldsCharacter, Goes, LocksCharacter
  <2> QED
    BY <2>5, <2>7, <2>8, <2>9, <2>10, StepKeeps DEF RequestInv
<1> QED
  BY <1>1, <1>2

\* What is restored is added to the character under the lock, up to the maximum.
LEMMA RestoreHumanityInv ==
  ASSUME ChromeAssumption, IInv, NEW p \in Proc, RestoreHumanity(p)
  PROVE  IInv'
<1>1. CASE Reject(p)
  BY <1>1, RejectInv
<1>2. CASE ~Reject(p)
  <2> DEFINE c == Sees(p, "character")
             l == IF req[p].op = "therapy" THEN "commit" ELSE "consume"
             Left(raw) == Clamped(chr[p].humanity + raw)
  <2>1. PICK raw \in IF req[p].op = "therapy" THEN TherapyRestore ELSE {aim[p]} :
          /\ pc[p] = "restore" /\ Put(p, "character", [c EXCEPT !.humanity = Left(raw)]) /\ Goto(p, l)
          /\ UNCHANGED <<total, rested, used, req, chr, wal, aim>>
    BY <1>2 DEF RestoreHumanity
  <2> DEFINE h == Left(raw)
             v == [c EXCEPT !.humanity = h]
  <2>2. RequestInv(p) /\ req[p].op \in {"therapy", "consumable"}
    BY <2>1, Asking DEF IInv, Typed, RequestInv, Fits, Installing, Uninstalling
  <2>3. Whole(c) /\ Whole(chr[p]) /\ chr[p].humanity > 0
    BY <2>1, <2>2, SeesTyped DEF IInv, RequestInv, Goes, LocksCharacter, Whole
  <2>4. raw \in Nat
    BY <2>1, <2>2 DEF ChromeAssumption, RequestInv, Goes
  <2>5. h \in 1 .. MaxHumanity
    BY <2>3, <2>4, RowNames DEF Whole, Clamped
  <2> HIDE DEF c, Left
  <2>6. Whole(v)
    BY <2>3, <2>5 DEF Whole
  <2>7. GoesTo(p, l)
    BY <2>1 DEF IInv, Typed, LocalsTyped, GoesTo, Goto, Statements, Sessions, Using
  <2> HIDE DEF v
  <2> QED
    BY <2>1, <2>2, <2>6, <2>7, CharacterWritten DEF v
<1> QED
  BY <1>1, <1>2

LEMMA ConsumeInv ==
  ASSUME ChromeAssumption, IInv, NEW p \in Proc, Consume(p)
  PROVE  IInv'
<1>1. CASE Reject(p)
  BY <1>1, RejectInv
<1>2. CASE ~Reject(p)
  <2> DEFINE n == Sees(p, "consumable")
             v == n - 1
  <2>1. /\ pc[p] = "consume" /\ n > 0 /\ Put(p, "consumable", v) /\ Goto(p, "commit")
        /\ UNCHANGED <<total, rested, used, req, chr, wal, aim>>
    BY <1>2 DEF Consume
  <2>2. RequestInv(p) /\ req[p].op = "consumable"
    BY <2>1, Asking DEF IInv, Typed, RequestInv, Fits, Installing, Uninstalling, Sessions
  <2>3. n = db["consumable"] /\ v \in Nat
    <3>1. owner["consumable"] # p
      BY <2>1, <2>2 DEF RequestInv, HoldsConsumable
    <3> QED
      BY <2>1, <3>1, SeesTyped DEF IInv, Sees
  <2> HIDE DEF n
  <2>4. /\ db' = db /\ owner'["consumable"] = p /\ pend'["consumable"] = v
        /\ \A s \in Rows \ {"consumable"} : owner'[s] = owner[s] /\ pend'[s] = pend[s]
        /\ DOMAIN pend' = Rows /\ owner' \in [Rows -> Proc \cup {NoProc}] /\ PendingIsOwned' /\ Accounted'
        /\ \A q \in Proc \ {p} : LeavesAlone(q)
    BY <2>1, PutRow, RowNames
  <2>5. GoesTo(p, "commit")
    BY <2>1 DEF IInv, Typed, LocalsTyped, GoesTo, Goto, Statements, Sessions
  <2>6. LocalsTyped' /\ pc'[p] = "commit" /\ req'[p] = req[p] /\ \A q \in Proc \ {p} : Unmoved(q)
    BY <2>5, GoesToLocals
  <2>7. Typed'
    BY <2>1, <2>3, <2>4, <2>6, RowNames DEF IInv, Typed, RowsTyped
  <2>8. RequestInv(p)'
    BY <2>1, <2>2, <2>3, <2>4, <2>6, RowNames DEF RequestInv, Fits, Affords, HoldsWallet, HoldsConsumable, HoldsCharacter,
         Goes, Whole, LocksCharacter, Using, NoRequest
  <2> QED
    BY <2>4, <2>6, <2>7, <2>8, StepKeeps
<1> QED
  BY <1>1, <1>2
-----------------------------------------------------------------------------
\* The commit, and what happens outside every request.

\* What a commit adds to the totals.
LEMMA InstallAdds ==
  ASSUME NEW t \in Totals, NEW cost \in Nat, NEW points \in Nat, NEW n,
         n = [t EXCEPT !.installs = @ + 1, !.spent = @ + cost, !.drained = @ + points]
  PROVE  /\ n \in Totals /\ n.installs = t.installs + 1 /\ n.spent = t.spent + cost /\ n.uses = t.uses
         /\ n.drained = t.drained + points /\ n.restored = t.restored
<1> DEFINE a == t.installs + 1
           b == t.spent + cost
           c == t.drained + points
<1>1. a \in Nat /\ b \in Int /\ c \in Int
  BY DEF Totals
<1>2. n = [t EXCEPT !.installs = a, !.spent = b, !.drained = c]
  OBVIOUS
<1> HIDE DEF a, b, c
<1>3. /\ n \in Totals /\ n.installs = a /\ n.spent = b /\ n.uses = t.uses
      /\ n.drained = c /\ n.restored = t.restored
  BY <1>1, <1>2 DEF Totals
<1> QED
  BY <1>3 DEF a, b, c

LEMMA SessionAdds ==
  ASSUME NEW t \in Totals, NEW cost \in Nat, NEW points \in Int, NEW n,
         n = [t EXCEPT !.spent = @ + cost, !.restored = @ + points]
  PROVE  /\ n \in Totals /\ n.installs = t.installs /\ n.spent = t.spent + cost /\ n.uses = t.uses
         /\ n.drained = t.drained /\ n.restored = t.restored + points
<1> DEFINE a == t.spent + cost
           b == t.restored + points
<1>1. a \in Int /\ b \in Int
  BY DEF Totals
<1>2. n = [t EXCEPT !.spent = a, !.restored = b]
  OBVIOUS
<1> HIDE DEF a, b
<1>3. /\ n \in Totals /\ n.installs = t.installs /\ n.spent = a /\ n.uses = t.uses
      /\ n.drained = t.drained /\ n.restored = b
  BY <1>1, <1>2 DEF Totals
<1> QED
  BY <1>3 DEF a, b

LEMMA UseAdds ==
  ASSUME NEW t \in Totals, NEW points \in Int, NEW n,
         n = [t EXCEPT !.uses = @ + 1, !.restored = @ + points]
  PROVE  /\ n \in Totals /\ n.installs = t.installs /\ n.spent = t.spent /\ n.uses = t.uses + 1
         /\ n.drained = t.drained /\ n.restored = t.restored + points
<1> DEFINE a == t.uses + 1
           b == t.restored + points
<1>1. a \in Nat /\ b \in Int
  BY DEF Totals
<1>2. n = [t EXCEPT !.uses = a, !.restored = b]
  OBVIOUS
<1> HIDE DEF a, b
<1>3. /\ n \in Totals /\ n.installs = t.installs /\ n.spent = t.spent /\ n.uses = a
      /\ n.drained = t.drained /\ n.restored = b
  BY <1>1, <1>2 DEF Totals
<1> QED
  BY <1>3 DEF a, b

LEMMA CommitInv ==
  ASSUME ChromeAssumption, IInv, NEW p \in Proc, CommitRequest(p)
  PROVE  IInv'
<1> USE DEF IInv, Typed
<1> DEFINE op == req[p].op
           restored == pend["character"].humanity - chr[p].humanity
<1>1. /\ pc[p] = "commit" /\ Answered(p)
      /\ db' = [r \in DOMAIN db |-> Sees(p, r)] /\ pend' = pend
      /\ owner' = [r \in DOMAIN owner |-> IF owner[r] = p THEN NoProc ELSE owner[r]]
      /\ used' = IF op = "consumable" THEN used + 1 ELSE used
  BY DEF CommitRequest, Commit, Released
<1>2. /\ op = "install" => total' = [total EXCEPT !.installs = @ + 1, !.spent = @ + PriceOf(p), !.drained = @ + CostOf(p)]
      /\ op = "therapy" => total' = [total EXCEPT !.spent = @ + aim[p], !.restored = @ + restored]
      /\ op = "consumable" => total' = [total EXCEPT !.uses = @ + 1, !.restored = @ + restored]
      /\ op \notin {"install", "therapy", "consumable"} => total' = total
  BY DEF CommitRequest
<1>3. RequestInv(p) /\ op \in {"install", "uninstall", "therapy", "consumable"}
  BY <1>1, Asking DEF RequestInv, Fits
<1>4. DOMAIN db = Rows /\ DOMAIN pend = Rows /\ DOMAIN owner = Rows
  BY DEF RowsTyped
<1>5. \A r \in Rows : /\ owner'[r] = IF owner[r] = p THEN NoProc ELSE owner[r]
                      /\ db'[r] = IF owner[r] = p THEN pend[r] ELSE db[r]
                      /\ pend'[r] = pend[r]
  BY <1>1, <1>4 DEF Sees
<1>6. DOMAIN db' = Rows /\ DOMAIN pend' = Rows /\ owner' \in [Rows -> Proc \cup {NoProc}]
  BY <1>1, <1>4 DEF RowsTyped
<1>7. RowsTyped'
  BY <1>5, <1>6, RowNames DEF RowsTyped
<1>8. PendingIsOwned'
  BY <1>4, <1>5, <1>6 DEF PendingIsOwned
<1>9. /\ owner["wallet"] = p <=> op \in {"install", "therapy"}
      /\ owner["consumable"] = p <=> op = "consumable"
      /\ owner["character"] = p
  BY <1>1, <1>3 DEF RequestInv, HoldsWallet, HoldsConsumable, HoldsCharacter, LocksCharacter, Paid, Drained
<1>10. /\ op \in {"install", "therapy"} =>
            Due(p) \in Nat /\ db'["wallet"].balance = db["wallet"].balance - Due(p)
       /\ op \notin {"install", "therapy"} => db'["wallet"] = db["wallet"]
       /\ op = "consumable" => db'["consumable"] = db["consumable"] - 1
       /\ op # "consumable" => db'["consumable"] = db["consumable"]
  BY <1>3, <1>5, <1>9, RowNames DEF RequestInv, HoldsWallet, HoldsConsumable
<1>11. /\ op \in {"therapy", "consumable"} =>
            restored \in Int /\ db'["character"].humanity = db["character"].humanity + restored
       /\ op = "uninstall" => db'["character"].humanity = db["character"].humanity
  <2>1. op \in {"therapy", "consumable"} =>
          chr[p].humanity \in Int /\ chr[p].humanity = db["character"].humanity
    BY <1>1, <1>3 DEF RequestInv, Goes, LocksCharacter, Whole
  <2>2. op = "uninstall" => pend["character"].humanity = db["character"].humanity
    BY <1>1, <1>3 DEF RequestInv, HoldsCharacter
  <2>3. pend["character"].humanity \in Int /\ db["character"].humanity \in Int /\ db'["character"] = pend["character"]
    BY <1>5, <1>9, RowNames DEF RowsTyped, Whole
  <2> QED
    BY <1>3, <2>1, <2>2, <2>3
<1> HIDE DEF restored
<1>12. /\ total' \in Totals
       /\ Accounted'
  <2> USE DEF Accounted, PaidAndUsed, WalletAccounted, UsesCounted, HumanityAccounted, Totals
  <2>0. /\ used \in 0 .. MaxUses /\ MaxUses \in Nat /\ db["consumable"] \in Nat /\ db["wallet"].balance \in Nat
        /\ db["character"].humanity \in Int /\ InitBalance \in Nat /\ InitHumanity \in Nat /\ InitQuantity \in Nat
    BY DEF RowsTyped, Whole, Purses, ChromeAssumption
  <2>1. CASE op = "install"
    <3> DEFINE cost == PriceOf(p)
               points == CostOf(p)
    <3>1. cost \in Nat /\ points \in Nat /\ cost = Due(p)
      BY <2>1, CostsTyped DEF Due
    <3> HIDE DEF cost, points
    <3>2. /\ total' = [total EXCEPT !.installs = @ + 1, !.spent = @ + cost, !.drained = @ + points]
      BY <1>2, <2>1 DEF cost, points
    <3>3. /\ total'.installs = total.installs + 1 /\ total'.spent = total.spent + cost /\ total'.uses = total.uses
          /\ total' \in Totals
      BY <3>1, <3>2, InstallAdds
    <3>4. used' = used /\ db'["consumable"] = db["consumable"]
      BY <1>1, <1>10, <2>1
    <3> QED
      BY <1>10, <2>0, <2>1, <3>1, <3>3, <3>4
  <2>2. CASE op = "therapy"
    <3> DEFINE cost == aim[p]
    <3>1. cost \in Nat /\ cost = Due(p)
      BY <1>10, <2>2 DEF Due
    <3> HIDE DEF cost
    <3>2. total' = [total EXCEPT !.spent = @ + cost, !.restored = @ + restored]
      BY <1>2, <2>2 DEF cost
    <3>3. /\ total'.installs = total.installs /\ total'.spent = total.spent + cost /\ total'.uses = total.uses
          /\ total'.drained = total.drained /\ total'.restored = total.restored + restored /\ total' \in Totals
      BY <1>11, <2>2, <3>1, <3>2, SessionAdds
    <3>4. used' = used /\ db'["consumable"] = db["consumable"]
      BY <1>1, <1>10, <2>2
    <3> QED
      BY <1>10, <1>11, <2>0, <2>2, <3>1, <3>3, <3>4
  <2>3. CASE op = "consumable"
    <3>1. total' = [total EXCEPT !.uses = @ + 1, !.restored = @ + restored]
      BY <1>2, <2>3
    <3>2. /\ total'.installs = total.installs /\ total'.spent = total.spent /\ total'.uses = total.uses + 1
          /\ total'.drained = total.drained /\ total'.restored = total.restored + restored /\ total' \in Totals
      BY <1>11, <2>3, <3>1, UseAdds
    <3>3. used' = used + 1 /\ used < MaxUses /\ db'["wallet"] = db["wallet"]
      BY <1>1, <1>3, <1>10, <2>3 DEF RequestInv, Goes
    <3> QED
      BY <1>10, <1>11, <2>0, <2>3, <3>2, <3>3
  <2>4. CASE op = "uninstall"
    <3>1. total' = total /\ used' = used /\ db'["wallet"] = db["wallet"] /\ db'["consumable"] = db["consumable"]
      BY <1>1, <1>2, <1>10, <2>4
    <3> QED
      BY <1>11, <2>0, <2>4, <3>1
  <2> QED
    BY <1>3, <2>1, <2>2, <2>3, <2>4
<1>13. used' \in 0 .. MaxUses
  <2>1. op = "consumable" => used < MaxUses
    BY <1>1, <1>3 DEF RequestInv, Goes
  <2> QED
    BY <1>1, <2>1, RowNames
<1>14. \A q \in Proc \ {p} : LeavesAlone(q)
  <2>1. used' = used \/ owner["character"] = p
    BY <1>9
  <2>2. db'["wallet"] = db["wallet"] \/ db'["wallet"].version > db["wallet"].version
    <3>1. db["wallet"].version \in Nat
      BY DEF RowsTyped, Purses
    <3> QED
      BY <1>3, <1>5, <3>1, RowNames DEF RequestInv, HoldsWallet
  <2> QED
    BY <1>5, <1>9, <2>1, <2>2, RowNames DEF LeavesAlone
<1>15. RequestInv(p)'
  BY <1>1, <1>5, RowNames, AnsweredLocals, IdleInv
<1> QED
  BY <1>1, <1>7, <1>8, <1>12, <1>13, <1>14, <1>15, AnsweredLocals, StepKeeps

\* A step of nobody's leaves everybody's rows and locals alone.
LEMMA OutsideStep ==
  ASSUME ChromeAssumption, IInv, UNCHANGED <<owner, total, local>>, Typed', PendingIsOwned', Accounted',
         \A q \in Proc : LeavesAlone(q)
  PROVE  IInv'
<1>1. \A q \in Proc : Unmoved(q)
  BY DEF local, Unmoved
<1>2. \A q \in Proc : RequestInv(q)'
  BY <1>1, OthersKeep DEF IInv
<1> QED
  BY <1>2 DEF IInv

LEMMA DayPassesInv ==
  ASSUME ChromeAssumption, IInv, DayPasses
  PROVE  IInv'
<1>1. used' = 0 /\ UNCHANGED <<rcVars, total, rested, local>> /\ used \in 0 .. MaxUses /\ MaxUses \in Nat
  BY RowNames DEF DayPasses, IInv, Typed
<1>2. Typed' /\ PendingIsOwned' /\ Accounted'
  BY <1>1 DEF IInv, Typed, RowsTyped, LocalsTyped, PendingIsOwned, Accounted, PaidAndUsed, WalletAccounted, UsesCounted,
       HumanityAccounted, rcVars, local
<1>3. \A q \in Proc : LeavesAlone(q)
  BY <1>1 DEF LeavesAlone, rcVars
<1> QED
  BY <1>1, <1>2, <1>3, OutsideStep DEF rcVars

LEMMA RestInv ==
  ASSUME ChromeAssumption, IInv, Rest
  PROVE  IInv'
<1>1. used' = used /\ UNCHANGED <<rcVars, total, local>> /\ used \in Nat
  BY RowNames DEF Rest, IInv, Typed
<1>2. Typed' /\ PendingIsOwned' /\ Accounted'
  BY <1>1 DEF IInv, Typed, RowsTyped, LocalsTyped, PendingIsOwned, Accounted, PaidAndUsed, WalletAccounted, UsesCounted,
       HumanityAccounted, rcVars, local
<1>3. \A q \in Proc : LeavesAlone(q)
  BY <1>1 DEF LeavesAlone, rcVars
<1> QED
  BY <1>1, <1>2, <1>3, OutsideStep DEF rcVars

LEMMA NilChangesInv ==
  ASSUME ChromeAssumption, IInv, NilChanges
  PROVE  IInv'
<1> USE DEF IInv, Typed
<1>1. PICK n : /\ db' = [db EXCEPT !["character"] = [db["character"] EXCEPT !.nil = n]]
               /\ pend' = [pend EXCEPT !["character"] = [pend["character"] EXCEPT !.nil = n]]
  BY DEF NilChanges
<1>2. owner["character"] = NoProc /\ UNCHANGED <<owner, total, rested, used, local>>
  BY DEF NilChanges
<1> DEFINE c == [db["character"] EXCEPT !.nil = n]
           v == [pend["character"] EXCEPT !.nil = n]
<1>3. Whole(c) /\ Whole(v) /\ c.humanity = db["character"].humanity
  BY DEF RowsTyped, Whole
<1>4. c = v
  BY <1>2, RowNames DEF PendingIsOwned, RowsTyped
<1> HIDE DEF c, v
<1>5. db' = [db EXCEPT !["character"] = c] /\ pend' = [pend EXCEPT !["character"] = v]
  BY <1>1 DEF c, v
<1>6. /\ db'["character"] = c /\ pend'["character"] = v /\ DOMAIN db' = Rows /\ DOMAIN pend' = Rows
      /\ \A r \in Rows \ {"character"} : db'[r] = db[r] /\ pend'[r] = pend[r]
  BY <1>5, RowNames DEF RowsTyped
<1>7. Typed'
  BY <1>2, <1>3, <1>6, RowNames DEF RowsTyped, LocalsTyped, local
<1>8. PendingIsOwned'
  BY <1>2, <1>4, <1>6 DEF PendingIsOwned, RowsTyped
<1>9. Accounted'
  BY <1>2, <1>3, <1>6, RowNames DEF Accounted, PaidAndUsed, WalletAccounted, UsesCounted, HumanityAccounted
<1>10. \A q \in Proc : LeavesAlone(q)
  BY <1>2, <1>6, RowNames DEF LeavesAlone
<1> QED
  BY <1>2, <1>7, <1>8, <1>9, <1>10, OutsideStep
-----------------------------------------------------------------------------
(* Every step, and the theorems.                                               *)

LEMMA NextInv ==
  ASSUME ChromeAssumption
  PROVE  IInv /\ [Next]_vars => IInv'
<1> SUFFICES ASSUME IInv, [Next]_vars PROVE IInv'
  OBVIOUS
<1>1. ASSUME NEW p \in Proc, Start(p)
      PROVE  IInv'
  BY <1>1, StartInv
<1>2. ASSUME NEW p \in Proc, Step(p)
      PROVE  IInv'
  BY <1>2, ReadCharacterInv, ReadLoadoutInv, ReadWalletInv, DebitWalletInv, InsertAuditInv, InsertInstalledInv,
     DecrementHumanityInv, ReadBonusesInv, UpdateMaxNilInv, FindInstalledInv, DeleteInstalledInv, LockCharacterInv,
     RestoreHumanityInv, ConsumeInv, CommitInv DEF Step
<1>3. ASSUME NEW p \in Proc, Lost(p) \/ DetectDeadlock(p)
      PROVE  IInv'
  BY <1>3, RejectInv DEF Lost, DetectDeadlock
<1>4. CASE Rest \/ DayPasses \/ NilChanges
  BY <1>4, RestInv, DayPassesInv, NilChangesInv
<1>5. CASE UNCHANGED vars
  <2>1. UNCHANGED <<rcVars, total, used, local>> /\ used \in Nat
    BY <1>5, RowNames DEF vars, IInv, Typed
  <2>2. Typed' /\ PendingIsOwned' /\ Accounted'
    BY <2>1 DEF IInv, Typed, RowsTyped, LocalsTyped, PendingIsOwned, Accounted, PaidAndUsed, WalletAccounted, UsesCounted,
         HumanityAccounted, rcVars, local
  <2>3. \A q \in Proc : LeavesAlone(q)
    BY <2>1 DEF LeavesAlone, rcVars
  <2> QED
    BY <2>1, <2>2, <2>3, OutsideStep DEF rcVars
<1> QED
  BY <1>1, <1>2, <1>3, <1>4, <1>5 DEF Next, Action

\* Installs, uninstalls, sessions and consumables keep the inductive invariant,
\* however they overlap, fail or deadlock.
THEOREM Inductive ==
  ASSUME ChromeAssumption
  PROVE  Spec => []IInv
<1>1. Init => IInv
  BY InitInv
<1>2. IInv /\ [Next]_vars => IInv'
  BY NextInv
<1> QED
  BY <1>1, <1>2, PTL DEF Spec

\* No wallet is overdrawn and humanity stays between zero and its maximum
\* (chrome-service, therapy-service, consumable-service): the rows' types, but for the
\* NIL ceiling.
THEOREM RowsTypedAlways ==
  ASSUME ChromeAssumption
  PROVE  Spec => []RowsTyped
<1>1. IInv => RowsTyped
  BY DEF IInv, Typed
<1> QED
  BY Inductive, <1>1, PTL

\* Humanity never stands at zero in a character that is not flatlined
\* (updateHumanityGuarded and updateFlatline of chrome-service): ZeroIsApagado.
THEOREM ZeroIsApagadoAlways ==
  ASSUME ChromeAssumption
  PROVE  Spec => []ZeroIsApagado
<1>1. IInv => ZeroIsApagado
  BY DEF IInv, Typed, RowsTyped, Whole, ZeroIsApagado
<1> QED
  BY Inductive, <1>1, PTL

\* The wallet paid for what took effect and nothing else, every consumable used left
\* the stock, no window holds more uses than allowed, and what sessions and consumables
\* restored is kept until an install is committed (updateOptimistic, findByIdForUpdate
\* and decrementQuantity): Accounted.
THEOREM AccountedAlways ==
  ASSUME ChromeAssumption
  PROVE  Spec => []Accounted
<1>1. IInv => Accounted
  BY DEF IInv
<1> QED
  BY Inductive, <1>1, PTL
-----------------------------------------------------------------------------
(* One request at a time: what it has read is what it commits over.            *)

Single == \A p, q \in Proc : pc[p] # "idle" /\ pc[q] # "idle" => p = q

HasRead(p) == \/ req[p].op = "install" /\ pc[p] # "character"
              \/ LocksCharacter(p) /\ pc[p] # "lock"

\* The humanity is as the request read it, and not yet gone.
Reads(p) ==
  HasRead(p) => chr[p].humanity = db["character"].humanity /\ ~chr[p].flat /\ ~db["character"].flat

\* An install writes what it drains; the ceiling an install or an uninstall writes follows
\* what it leaves installed, and the other requests touch neither.
Writes(p) ==
  /\ req[p].op = "install" /\ pc[p] \in Drained =>
       pend["character"].humanity = db["character"].humanity - CostOf(p)
  /\ pc[p] = "max" => aim[p] = MaxNilOf(Installed(p))
  /\ req[p].op \in {"install", "uninstall"} /\ pc[p] = "commit" =>
       pend["character"].max = MaxNilOf(Installed(p))
  /\ req[p].op = "uninstall" /\ pc[p] = "commit" => pend["character"].flat = db["character"].flat
  /\ LocksCharacter(p) /\ pc[p] # "lock" => pend["character"].max = db["character"].max
  /\ req[p].op \notin {"install", "uninstall"} => \A i \in Implant : owner[i] # p

Lone(p) == Reads(p) /\ Writes(p)

SoloInv == alone => Single /\ HumanityAccounted /\ MaxNilMatches /\ \A p \in Proc : Lone(p)

\* What a step may do to what the body is promised.
Promises == (HumanityAccounted /\ MaxNilMatches)' /\ NoWayBackStep

\* A set of naturals has a least member: induction, without a predicate as a parameter.
LEMMA Least ==
  ASSUME NEW T \in SUBSET Nat, T # {}
  PROVE  \E n \in T : \A m \in T : n <= m
<1> DEFINE Below == {ss \in Nat \X Nat : ss[1] < ss[2]}
<1>1. IsWellFoundedOn(Below, Nat)
  BY NatLessThanWellFounded, Zenon DEF OpToRel
<1>2. PICK n \in T : \A m \in T : <<m, n>> \notin Below
  <2> HIDE DEF Below
  <2> QED
    BY <1>1, WFMin
<1>3. \A m \in T : ~(m < n)
  <2> TAKE m \in T
  <2>1. <<m, n>> \in Nat \X Nat /\ <<m, n>> \notin Below
    BY <1>2
  <2> QED
    BY <2>1
<1> QED
  BY <1>3

\* The bonuses of finitely many implants add up: the sum, a function that picks one
\* implant after another, is defined for sets of every size and is a natural.
LEMMA CeilingTyped ==
  ASSUME ChromeAssumption, NEW S \in SUBSET Implant
  PROVE  MaxNilOf(S) \in Nat
<1>0. IsFiniteSet(S) /\ NilBonus \in [Implant -> Nat] /\ BaseNil \in Nat
  BY FS_Subset DEF ChromeAssumption
<1> DEFINE pick(s) == CHOOSE x \in s : TRUE
           Sum(f, s) == IF s = {} THEN 0 ELSE NilBonus[pick(s)] + f[s \ {pick(s)}]
           Size(n) == {s \in SUBSET S : Cardinality(s) <= n}
           Good(n) == \E g \in [Size(n) -> Nat] : \A s \in Size(n) : g[s] = Sum(g, s)
           iter == CHOOSE f : f = [s \in SUBSET S |-> Sum(f, s)]
<1>1. MaxNilOf(S) = BaseNil + iter[S]
  BY Zenon DEF MaxNilOf, MapThenSumSet, MapThenFoldSet
<1>2. \A s \in SUBSET S : s # {} =>
        /\ pick(s) \in s /\ s \ {pick(s)} \in SUBSET S /\ NilBonus[pick(s)] \in Nat
        /\ Cardinality(s) \in Nat \ {0} /\ Cardinality(s \ {pick(s)}) = Cardinality(s) - 1
  <2> TAKE s \in SUBSET S
  <2> HAVE s # {}
  <2>1. pick(s) \in s /\ NilBonus[pick(s)] \in Nat
    BY <1>0
  <2>2. IsFiniteSet(s)
    BY <1>0, FS_Subset
  <2>3. Cardinality(s) \in Nat /\ Cardinality(s) # 0
    BY <2>2, FS_CardinalityType, FS_EmptySet
  <2>4. Cardinality(s \ {pick(s)}) = Cardinality(s) - 1
    BY <2>1, <2>2, FS_RemoveElement
  <2> QED
    BY <2>1, <2>3, <2>4
<1> HIDE DEF pick
<1>3. Good(0)
  <2>1. \A s \in Size(0) : s = {}
    <3> TAKE s \in Size(0)
    <3> SUFFICES ASSUME s # {} PROVE FALSE
      OBVIOUS
    <3>1. Cardinality(s) \in Nat \ {0} /\ Cardinality(s) <= 0
      BY <1>2
    <3> QED
      BY <3>1
  <2> DEFINE g == [s \in Size(0) |-> 0]
  <2>2. g \in [Size(0) -> Nat] /\ \A s \in Size(0) : g[s] = Sum(g, s)
    BY <2>1
  <2> QED
    BY <2>2
<1>4. ASSUME NEW n \in Nat, Good(n)
      PROVE  Good(n + 1)
  <2>1. PICK g \in [Size(n) -> Nat] : \A s \in Size(n) : g[s] = Sum(g, s)
    BY <1>4
  <2> DEFINE h == [s \in Size(n + 1) |-> Sum(g, s)]
  <2>2. \A s \in Size(n + 1) : s # {} => s \ {pick(s)} \in Size(n)
    BY <1>2
  <2>3. Size(n) \subseteq Size(n + 1)
    <3> SUFFICES ASSUME NEW s \in Size(n) PROVE s \in Size(n + 1)
      OBVIOUS
    <3>1. Cardinality(s) \in Int
      BY <1>0, FS_Subset, FS_CardinalityType
    <3> QED
      BY <3>1
  <2>4. h \in [Size(n + 1) -> Nat]
    <3> SUFFICES ASSUME NEW s \in Size(n + 1)
                 PROVE  Sum(g, s) \in Nat
      OBVIOUS
    <3>1. CASE s = {}
      BY <3>1
    <3>2. CASE s # {}
      <4>1. NilBonus[pick(s)] \in Nat /\ g[s \ {pick(s)}] \in Nat
        BY <1>2, <2>1, <2>2, <3>2
      <4> QED
        BY <3>2, <4>1
    <3> QED
      BY <3>1, <3>2
  <2>5. \A s \in Size(n) : h[s] = g[s]
    <3> HIDE DEF Size
    <3> QED
      BY <2>1, <2>3
  <2>6. \A s \in Size(n + 1) : h[s] = Sum(h, s)
    <3> TAKE s \in Size(n + 1)
    <3>1. h[s] = Sum(g, s)
      OBVIOUS
    <3>2. s # {} => h[s \ {pick(s)}] = g[s \ {pick(s)}]
      <4> HIDE DEF h
      <4> QED
        BY <2>2, <2>5
    <3> HIDE DEF h
    <3> QED
      BY <3>1, <3>2
  <2> HIDE DEF h
  <2> QED
    BY <2>4, <2>6
<1>5. \A n \in Nat : Good(n)
  <2> DEFINE Bad == {n \in Nat : ~Good(n)}
  <2> SUFFICES ASSUME Bad # {} PROVE FALSE
    OBVIOUS
  <2>1. PICK n \in Bad : \A m \in Bad : n <= m
    <3>1. Bad \in SUBSET Nat
      OBVIOUS
    <3> HIDE DEF Bad
    <3> QED
      BY <3>1, Least
  <2>2. n \in Nat /\ ~Good(n)
    OBVIOUS
  <2> HIDE DEF Good
  <2>3. n - 1 \in Nat
    BY <1>3, <2>2
  <2>4. Good(n - 1)
    BY <2>1, <2>3
  <2>5. Good((n - 1) + 1)
    BY <1>4, <2>3, <2>4
  <2> QED
    BY <2>2, <2>5
<1>6. iter = [s \in SUBSET S |-> Sum(iter, s)]
  <2>1. Cardinality(S) \in Nat /\ Size(Cardinality(S)) = SUBSET S
    BY <1>0, FS_Subset, FS_CardinalityType
  <2>2. PICK g \in [SUBSET S -> Nat] : \A s \in SUBSET S : g[s] = Sum(g, s)
    <3>1. Good(Cardinality(S))
      <4> HIDE DEF Good
      <4> QED
        BY <1>5, <2>1
    <3> HIDE DEF Sum, Size
    <3> QED
      BY <2>1, <3>1
  <2>3. g = [s \in SUBSET S |-> Sum(g, s)]
    <3> HIDE DEF Sum
    <3> QED
      BY <2>2
  <2> HIDE DEF Sum
  <2> QED
    BY <2>3
<1>7. \A s \in SUBSET S : iter[s] \in Nat
  <2> HIDE DEF iter
  <2> DEFINE Bad == {n \in Nat : \E s \in SUBSET S : Cardinality(s) = n /\ iter[s] \notin Nat}
  <2>1. Bad = {}
    <3> SUFFICES ASSUME Bad # {} PROVE FALSE
      OBVIOUS
    <3>1. PICK n \in Bad : \A m \in Bad : n <= m
      <4>1. Bad \in SUBSET Nat
        OBVIOUS
      <4> HIDE DEF Bad
      <4> QED
        BY <4>1, Least
    <3>2. PICK s \in SUBSET S : Cardinality(s) = n /\ iter[s] \notin Nat
      OBVIOUS
    <3>3. iter[s] = Sum(iter, s)
      <4> HIDE DEF Sum
      <4> QED
        BY <1>6
    <3>4. s # {}
      BY <3>2, <3>3
    <3> DEFINE t == s \ {pick(s)}
    <3>5. t \in SUBSET S /\ Cardinality(t) = n - 1 /\ n - 1 \in Nat /\ NilBonus[pick(s)] \in Nat
      BY <1>2, <3>2, <3>4
    <3>6. iter[t] \notin Nat
      BY <3>2, <3>3, <3>4, <3>5
    <3> HIDE DEF t
    <3>7. n - 1 \in Bad
      BY <3>5, <3>6
    <3> QED
      BY <3>1, <3>5, <3>7
  <2> TAKE s \in SUBSET S
  <2>2. Cardinality(s) \in Nat
    BY <1>0, FS_Subset, FS_CardinalityType
  <2> QED
    BY <2>1, <2>2
<1> HIDE DEF iter
<1> QED
  BY <1>0, <1>1, <1>7

\* With nothing installed the ceiling is the base.
LEMMA NoBonus == ASSUME ChromeAssumption PROVE MaxNilOf({}) = BaseNil
<1> DEFINE S == {}
           Sum(f, s) == IF s = {} THEN 0 ELSE LET x == CHOOSE x \in s : TRUE IN NilBonus[x] + f[s \ {x}]
           iter == CHOOSE f : f = [s \in SUBSET S |-> Sum(f, s)]
<1>1. MaxNilOf(S) = BaseNil + iter[S]
  BY Zenon DEF MaxNilOf, MapThenSumSet, MapThenFoldSet
<1>2. [s \in SUBSET S |-> 0] = [s \in SUBSET S |-> Sum([x \in SUBSET S |-> 0], s)]
  OBVIOUS
<1>3. iter = [s \in SUBSET S |-> Sum(iter, s)]
  <2> HIDE DEF Sum
  <2> QED
    BY <1>2
<1>4. iter[S] = 0
  <2>1. S \in SUBSET S /\ Sum(iter, S) = 0
    OBVIOUS
  <2> HIDE DEF Sum, iter
  <2> QED
    BY <1>3, <2>1
<1> QED
  BY <1>1, <1>4 DEF ChromeAssumption

\* The request that is over holds nothing, and has read nothing.
LEMMA LoneIdle ==
  ASSUME NEW p \in Proc, pc'[p] = "idle", req'[p] = NoRequest, \A i \in Implant : owner'[i] # p
  PROVE  Lone(p)'
  BY DEF Lone, Reads, Writes, HasRead, LocksCharacter, NoRequest

\* What is not committed breaks no promise.
LEMMA Unpublished ==
  ASSUME IInv, HumanityAccounted, MaxNilMatches, db' = db, total' = total
  PROVE  Promises
<1>1. db["character"].humanity \in Int
  BY DEF IInv, Typed, RowsTyped, Whole
<1>2. (HumanityAccounted /\ MaxNilMatches)'
  BY DEF HumanityAccounted, MaxNilMatches
<1> QED
  BY <1>1, <1>2 DEF Promises, NoWayBackStep

LEMMA RejectLone ==
  ASSUME ChromeAssumption, IInv, NEW p \in Proc, Reject(p)
  PROVE  Lone(p)' /\ db' = db /\ total' = total
<1>1. db' = db /\ total' = total /\ Answered(p)
  BY DEF Reject, Rollback
<1>2. \A i \in Implant : owner'[i] # p
  BY RowNames DEF Reject, Rollback, Released, IInv, Typed, RowsTyped
<1> QED
  BY <1>1, <1>2, LoneIdle, AnsweredLocals

\* The view of what is installed depends on the implants' rows only.
LEMMA InstalledKept ==
  ASSUME NEW p \in Proc, \A i \in Implant : owner'[i] = owner[i] /\ pend'[i] = pend[i] /\ db'[i] = db[i]
  PROVE  Installed(p)' = Installed(p)
  BY DEF Installed, Sees

LEMMA CostKept ==
  ASSUME NEW p \in Proc, req'[p] = req[p], chr'[p] = chr[p]
  PROVE  CostOf(p)' = CostOf(p)
  BY DEF CostOf

\* The reads, and the audit entry.
LEMMA ReadLone ==
  ASSUME ChromeAssumption, IInv, NEW p \in Proc, Lone(p), ~Reject(p),
         \/ Start(p) \/ ReadCharacter(p) \/ ReadLoadout(p) \/ ReadWallet(p) \/ InsertAudit(p)
         \/ ReadBonuses(p) \/ FindInstalled(p)
  PROVE  Lone(p)' /\ db' = db /\ total' = total
<1>1. db' = db /\ total' = total /\ owner' = owner /\ pend' = pend
  BY DEF Start, ReadCharacter, ReadLoadout, ReadWallet, InsertAudit, ReadBonuses, FindInstalled, rcVars
<1>2. RequestInv(p)
  BY DEF IInv
<1>3. pc \in [Proc -> Statements] /\ req \in [Proc -> Requests \cup {NoRequest}] /\ DOMAIN chr = Proc /\ DOMAIN aim = Proc
  BY DEF IInv, Typed, LocalsTyped
<1>4. CASE Start(p)
  <2>1. req[p].op = "none"
    BY <1>2, <1>4 DEF Start, RequestInv, Fits, NoRequest
  <2>2. PICK r \in Requests :
          /\ req' = [req EXCEPT ![p] = r]
          /\ Goto(p, CASE r.op = "install" -> "character"
                       [] r.op = "uninstall" -> "installed"
                       [] OTHER -> "lock")
    BY <1>4 DEF Start
  <2>3. /\ req'[p] = r /\ r.op \in {"install", "uninstall", "therapy", "consumable"}
        /\ r.op = "install" => pc'[p] = "character"
        /\ r.op = "uninstall" => pc'[p] = "installed"
        /\ r.op \in {"therapy", "consumable"} => pc'[p] = "lock"
    BY <1>3, <2>2 DEF Requests, Goto
  <2> QED
    BY <1>1, <2>1, <2>3 DEF Lone, Reads, Writes, HasRead, LocksCharacter, Drained
<1>5. CASE ReadCharacter(p)
  <2>1. req[p].op = "install" /\ owner["character"] # p
    BY <1>2, <1>5, Asking DEF ReadCharacter, IInv, Typed, RequestInv, Fits, Uninstalling, Sessions, Using,
         HoldsCharacter, LocksCharacter, Drained
  <2>2. chr'[p] = db["character"] /\ ~db["character"].flat /\ pc'[p] = "loadout" /\ req' = req
    BY <1>3, <1>5, <2>1 DEF ReadCharacter, Sees, Goto
  <2> QED
    BY <1>1, <2>1, <2>2 DEF Lone, Reads, Writes, HasRead, LocksCharacter, Drained
<1>6. CASE ReadLoadout(p) \/ ReadWallet(p) \/ InsertAudit(p)
  <2>1. /\ req' = req /\ chr' = chr /\ pc[p] \in {"loadout", "wallet", "audit"}
        /\ pc'[p] \in {"wallet", "debit", "implant"}
    BY <1>3, <1>6 DEF ReadLoadout, ReadWallet, InsertAudit, Goto
  <2> QED
    BY <1>1, <2>1 DEF Lone, Reads, Writes, HasRead, LocksCharacter, Drained
<1>7. CASE ReadBonuses(p)
  <2>1. /\ req' = req /\ chr' = chr /\ pc[p] = "bonuses" /\ pc'[p] = "max"
        /\ aim'[p] = MaxNilOf(Installed(p))
    BY <1>3, <1>7 DEF ReadBonuses, Goto
  <2>2. Installed(p)' = Installed(p) /\ CostOf(p)' = CostOf(p)
    BY <1>1, <2>1, InstalledKept, CostKept
  <2> QED
    BY <1>1, <2>1, <2>2 DEF Lone, Reads, Writes, HasRead, LocksCharacter, Drained
<1>8. CASE FindInstalled(p)
  <2>1. req' = req /\ pc[p] = "installed" /\ pc'[p] = "delete"
    BY <1>3, <1>8 DEF FindInstalled, Goto
  <2>2. req[p].op = "uninstall"
    BY <1>2, <2>1, Asking DEF IInv, Typed, RequestInv, Fits, Installing, Sessions, Using
  <2> QED
    BY <1>1, <2>1, <2>2 DEF Lone, Reads, Writes, HasRead, LocksCharacter, Drained
<1> QED
  BY <1>4, <1>5, <1>6, <1>7, <1>8

\* The writes of the wallet, of an implant and of the stock: the character stays.
LEMMA RowLone ==
  ASSUME ChromeAssumption, IInv, NEW p \in Proc, Lone(p), ~Reject(p),
         DebitWallet(p) \/ InsertInstalled(p) \/ DeleteInstalled(p) \/ Consume(p)
  PROVE  Lone(p)' /\ db' = db /\ total' = total
<1>1. /\ db' = db /\ total' = total /\ used' = used /\ req' = req /\ chr' = chr
      /\ pc[p] \in {"debit", "implant", "delete", "consume"}
      /\ pc'[p] \in {"audit", "restore", "humanity", "bonuses", "commit"}
  BY DEF DebitWallet, InsertInstalled, DeleteInstalled, Consume, Put, Goto, rcVars, IInv, Typed, LocalsTyped
<1>2. RequestInv(p)
  BY DEF IInv
<1>3. req[p].op \in {"install", "uninstall"} =>
        pc'[p] \in {"audit", "humanity"} \/ (req[p].op = "uninstall" /\ pc'[p] = "bonuses")
  <2>1. /\ req[p].op = "install" => pc[p] \in {"debit", "implant"}
        /\ req[p].op = "uninstall" => pc[p] = "delete"
    BY <1>1, <1>2 DEF RequestInv, Fits, Installing, Uninstalling
  <2>2. pc \in [Proc -> Statements]
    BY DEF IInv, Typed, LocalsTyped
  <2>3. CASE DebitWallet(p)
    <3>1. pc[p] = "debit" /\ pc'[p] = IF req[p].op = "install" THEN "audit" ELSE "restore"
      BY <2>2, <2>3 DEF DebitWallet, Goto
    <3> QED
      BY <2>1, <3>1
  <2>4. CASE InsertInstalled(p)
    <3>1. pc'[p] = "humanity"
      BY <2>2, <2>4 DEF InsertInstalled, Goto
    <3> QED
      BY <3>1
  <2>5. CASE DeleteInstalled(p)
    <3>1. pc[p] = "delete" /\ pc'[p] = "bonuses"
      BY <2>2, <2>5 DEF DeleteInstalled, Goto
    <3> QED
      BY <2>1, <3>1
  <2>6. CASE Consume(p)
    <3>1. pc[p] = "consume"
      BY <2>6 DEF Consume
    <3> QED
      BY <2>1, <3>1
  <2> QED
    BY <2>3, <2>4, <2>5, <2>6
<1>4. Reads(p)'
  BY <1>1 DEF Lone, Reads, HasRead, LocksCharacter
<1>5. ASSUME LocksCharacter(p)
      PROVE  /\ \A i \in Implant : owner'[i] # p
             /\ pend'["character"].max = db["character"].max
  <2>1. PICK r \in {"wallet", "consumable"} : \E v : Put(p, r, v)
    <3>1. pc[p] \in {"debit", "consume"}
      BY <1>1, <1>2, <1>5 DEF LocksCharacter, RequestInv, Fits, Sessions, Using
    <3> QED
      BY <3>1 DEF DebitWallet, InsertInstalled, DeleteInstalled, Consume
  <2>2. \A s \in Rows \ {r} : owner'[s] = owner[s] /\ pend'[s] = pend[s]
    BY <1>1, <2>1, PutRow, RowNames
  <2> QED
    BY <1>1, <1>5, <2>2, RowNames DEF Lone, Writes, LocksCharacter
<1>6. req[p].op \in {"install", "uninstall"} \/ LocksCharacter(p)
  <2>1. req[p] # NoRequest
    BY <1>1, <1>2 DEF RequestInv, Fits
  <2> QED
    BY <2>1, Asking DEF LocksCharacter, IInv, Typed
<1> QED
  BY <1>1, <1>3, <1>4, <1>5, <1>6 DEF Lone, Writes, LocksCharacter, Drained

\* The writes of the character.
LEMMA CharacterLone ==
  ASSUME ChromeAssumption, IInv, NEW p \in Proc, Lone(p), ~Reject(p),
         DecrementHumanity(p) \/ UpdateMaxNil(p) \/ LockCharacter(p) \/ RestoreHumanity(p)
  PROVE  Lone(p)' /\ db' = db /\ total' = total
<1> DEFINE c == Sees(p, "character")
<1>1. RequestInv(p) /\ Whole(c) /\ Whole(db["character"])
  BY SeesTyped DEF IInv, Typed, RowsTyped
<1>2. pc \in [Proc -> Statements] /\ req \in [Proc -> Requests \cup {NoRequest}] /\ DOMAIN chr = Proc
  BY DEF IInv, Typed, LocalsTyped
<1>3. ASSUME NEW v, Put(p, "character", v), UNCHANGED <<total, used>>
      PROVE  /\ db' = db /\ pend'["character"] = v
             /\ \A i \in Implant : owner'[i] = owner[i] /\ pend'[i] = pend[i] /\ db'[i] = db[i]
  BY <1>3, PutRow, RowNames
<1>4. CASE DecrementHumanity(p)
  <2> DEFINE v == [c EXCEPT !.humanity = IF Guarded(p, c) THEN HumanityLeft(p) ELSE @,
                            !.flat = @ \/ Drains(p),
                            !.overclock = @ /\ ~chr[p].overclock]
  <2>1. /\ pc[p] = "humanity" /\ Put(p, "character", v) /\ pc'[p] = "bonuses"
        /\ UNCHANGED <<total, used, req, chr>>
    BY <1>2, <1>4 DEF DecrementHumanity, Goto
  <2>2. req[p].op = "install"
    BY <1>1, <2>1, Asking DEF IInv, Typed, RequestInv, Fits, Uninstalling, Sessions, Using
  <2>3. c = db["character"]
    BY <1>1, <2>1, <2>2 DEF RequestInv, HoldsCharacter, LocksCharacter, Drained, Sees
  <2>4. /\ chr[p].humanity = c.humanity /\ HumanityLeft(p) >= 0 /\ CostOf(p) \in Nat /\ c.humanity \in Nat
        /\ ~chr[p].flat /\ ~db["character"].flat
    BY <1>1, <2>1, <2>2, <2>3, CostsTyped, RowNames DEF Lone, Reads, HasRead, RequestInv, Goes, Whole, IInv, Typed
  <2>5. v.humanity = db["character"].humanity - CostOf(p)
    <3>1. v.humanity = IF Guarded(p, c) THEN HumanityLeft(p) ELSE c.humanity
      BY <1>1 DEF Whole
    <3> QED
      BY <2>3, <2>4, <3>1 DEF Guarded, HumanityLeft
  <2> HIDE DEF v
  <2>6. db' = db /\ pend'["character"] = v
    BY <1>3, <2>1
  <2>7. CostOf(p)' = CostOf(p)
    BY <2>1, CostKept
  <2> QED
    BY <2>1, <2>2, <2>3, <2>4, <2>5, <2>6, <2>7 DEF Lone, Reads, Writes, HasRead, LocksCharacter, Drained
<1>5. CASE UpdateMaxNil(p)
  <2> DEFINE v == [c EXCEPT !.max = aim[p]]
  <2>1. /\ pc[p] = "max" /\ Put(p, "character", v) /\ pc'[p] = "commit"
        /\ UNCHANGED <<total, used, req, chr>>
    BY <1>2, <1>5 DEF UpdateMaxNil, Goto
  <2>2. req[p].op \in {"install", "uninstall"}
    BY <1>1, <2>1, Asking DEF IInv, Typed, RequestInv, Fits, Sessions, Using
  <2>3. /\ req[p].op = "install" => c = pend["character"]
        /\ req[p].op = "uninstall" => c = db["character"]
    BY <1>1, <2>1 DEF RequestInv, HoldsCharacter, LocksCharacter, Drained, Sees
  <2>4. v.max = aim[p] /\ v.humanity = c.humanity /\ v.flat = c.flat
    BY <1>1 DEF Whole
  <2> HIDE DEF v
  <2>5. /\ db' = db /\ pend'["character"] = v
        /\ Installed(p)' = Installed(p) /\ CostOf(p)' = CostOf(p)
    BY <1>3, <2>1, InstalledKept, CostKept
  <2>6. Reads(p)'
    BY <2>1, <2>5 DEF Lone, Reads, HasRead, LocksCharacter
  <2>7. Writes(p)'
    BY <2>1, <2>2, <2>3, <2>4, <2>5 DEF Lone, Writes, LocksCharacter, Drained
  <2> QED
    BY <2>1, <2>5, <2>6, <2>7 DEF Lone
<1>6. CASE LockCharacter(p)
  <2>1. /\ pc[p] = "lock" /\ MayTreat(p, c) /\ Put(p, "character", c) /\ chr'[p] = c
        /\ pc'[p] \in {"wallet", "restore"} /\ UNCHANGED <<total, used, req>>
    BY <1>2, <1>6 DEF LockCharacter, Lock, ForUpdate, Goto
  <2>2. req[p].op \in {"therapy", "consumable"}
    BY <1>1, <2>1, Asking DEF IInv, Typed, RequestInv, Fits, Installing, Uninstalling
  <2>3. c = db["character"] /\ ~c.flat
    BY <1>1, <2>1, <2>2 DEF RequestInv, HoldsCharacter, LocksCharacter, Sees, MayTreat
  <2> HIDE DEF c
  <2>4. db' = db /\ pend'["character"] = c /\ \A i \in Implant : owner'[i] = owner[i]
    BY <1>3, <2>1
  <2> QED
    BY <2>1, <2>2, <2>3, <2>4 DEF Lone, Reads, Writes, HasRead, LocksCharacter, Drained
<1>7. CASE RestoreHumanity(p)
  <2>1. PICK h : /\ pc[p] = "restore" /\ Put(p, "character", [c EXCEPT !.humanity = h])
                 /\ pc'[p] \in {"commit", "consume"} /\ UNCHANGED <<total, used, req, chr>>
    BY <1>2, <1>7 DEF RestoreHumanity, Goto
  <2> DEFINE v == [c EXCEPT !.humanity = h]
  <2>2. req[p].op \in {"therapy", "consumable"}
    BY <1>1, <2>1, Asking DEF IInv, Typed, RequestInv, Fits, Installing, Uninstalling
  <2>3. c = pend["character"] /\ v.max = c.max
    BY <1>1, <2>1, <2>2 DEF RequestInv, HoldsCharacter, LocksCharacter, Sees, Whole
  <2> HIDE DEF v
  <2>4. db' = db /\ pend'["character"] = v /\ \A i \in Implant : owner'[i] = owner[i]
    BY <1>3, <2>1 DEF v
  <2> QED
    BY <2>1, <2>2, <2>3, <2>4 DEF Lone, Reads, Writes, HasRead, LocksCharacter, Drained
<1> QED
  BY <1>4, <1>5, <1>6, <1>7 DEF DecrementHumanity, UpdateMaxNil, LockCharacter, RestoreHumanity
\* The commit publishes what the request had read, paid and written.
LEMMA CommitLone ==
  ASSUME ChromeAssumption, IInv, NEW p \in Proc, Lone(p), HumanityAccounted, MaxNilMatches, CommitRequest(p)
  PROVE  Lone(p)' /\ Promises
<1> DEFINE op == req[p].op
           restored == pend["character"].humanity - chr[p].humanity
           c == db["character"]
           v == pend["character"]
<1>1. /\ pc[p] = "commit" /\ Answered(p)
      /\ db' = [r \in DOMAIN db |-> Sees(p, r)]
      /\ owner' = [r \in DOMAIN owner |-> IF owner[r] = p THEN NoProc ELSE owner[r]]
  BY DEF CommitRequest, Commit, Released
<1>2. /\ op = "install" => total' = [total EXCEPT !.installs = @ + 1, !.spent = @ + PriceOf(p), !.drained = @ + CostOf(p)]
      /\ op = "therapy" => total' = [total EXCEPT !.spent = @ + aim[p], !.restored = @ + restored]
      /\ op = "consumable" => total' = [total EXCEPT !.uses = @ + 1, !.restored = @ + restored]
      /\ op \notin {"install", "therapy", "consumable"} => total' = total
  BY DEF CommitRequest
<1>3. RequestInv(p) /\ op \in {"install", "uninstall", "therapy", "consumable"}
  BY <1>1, Asking DEF IInv, Typed, RequestInv, Fits
<1>4. DOMAIN db = Rows /\ DOMAIN owner = Rows /\ Whole(c) /\ Whole(v) /\ total \in Totals
  BY DEF IInv, Typed, RowsTyped
<1>5. owner["character"] = p /\ db'["character"] = v /\ \A i \in Implant : db'[i] = Sees(p, i)
  <2>1. owner["character"] = p
    BY <1>1, <1>3 DEF RequestInv, HoldsCharacter, LocksCharacter, Drained
  <2> QED
    BY <1>1, <1>4, <2>1, RowNames DEF Sees
<1>6. Lone(p)'
  BY <1>1, <1>4, RowNames, AnsweredLocals, LoneIdle
<1>7. op = "install" => v.humanity = c.humanity - CostOf(p) /\ CostOf(p) \in Nat /\ ~c.flat
  BY <1>1, CostsTyped DEF Lone, Reads, Writes, HasRead, Drained, IInv, Typed
<1>8. op = "uninstall" => v.humanity = c.humanity /\ v.flat = c.flat
  BY <1>1, <1>3 DEF Lone, Writes, RequestInv, HoldsCharacter
<1>9. LocksCharacter(p) => restored \in Int /\ v.humanity = c.humanity + restored /\ ~c.flat
  BY <1>1, <1>4 DEF Lone, Reads, HasRead, Whole
<1>10. NoWayBackStep
  <2>1. op = "install" \/ LocksCharacter(p) => ~c.flat
    BY <1>7, <1>9
  <2>2. op = "uninstall" => NoWayBackStep
    <3>1. c.humanity <= c.humanity /\ db'["character"] = v
      BY <1>4, <1>5 DEF Whole
    <3> QED
      BY <1>8, <3>1, Zenon DEF NoWayBackStep
  <2> QED
    BY <1>3, <2>1, <2>2 DEF NoWayBackStep, LocksCharacter
<1>11. HumanityAccounted'
  <2> HIDE DEF restored
  <2>0. c.humanity \in Int /\ InitHumanity \in Int /\ total.drained \in Int /\ total.restored \in Int
    BY <1>4 DEF Whole, Totals, ChromeAssumption
  <2>5. total \in Totals
    BY <1>4
  <2>1. CASE op = "install"
    <3> DEFINE cost == PriceOf(p)
               points == CostOf(p)
    <3>1. cost \in Nat /\ points \in Nat
      BY <2>1, CostsTyped DEF IInv, Typed
    <3>2. v.humanity = c.humanity - points
      BY <1>7, <2>1
    <3> HIDE DEF cost, points
    <3>3. total' = [total EXCEPT !.installs = @ + 1, !.spent = @ + cost, !.drained = @ + points]
      BY <1>2, <2>1 DEF cost, points
    <3>4. /\ total'.installs = total.installs + 1 /\ total'.spent = total.spent + cost /\ total'.uses = total.uses
          /\ total'.drained = total.drained + points /\ total'.restored = total.restored /\ total' \in Totals
      BY <2>5, <3>1, <3>3, InstallAdds DEF Totals
    <3> QED
      BY <1>5, <2>0, <3>1, <3>2, <3>4 DEF HumanityAccounted
  <2>2. CASE op = "therapy"
    <3> DEFINE cost == aim[p]
    <3>1. cost \in Nat
      BY <1>1, <1>3, <2>2 DEF RequestInv, HoldsWallet, Due
    <3> HIDE DEF cost
    <3>2. total' = [total EXCEPT !.spent = @ + cost, !.restored = @ + restored]
      BY <1>2, <2>2 DEF cost
    <3>3. restored \in Int /\ v.humanity = c.humanity + restored
      BY <1>9, <2>2 DEF LocksCharacter
    <3>4. /\ total'.installs = total.installs /\ total'.spent = total.spent + cost /\ total'.uses = total.uses
          /\ total'.drained = total.drained /\ total'.restored = total.restored + restored /\ total' \in Totals
      BY <2>5, <3>1, <3>2, <3>3, SessionAdds DEF Totals
    <3> QED
      BY <1>5, <2>0, <3>3, <3>4 DEF HumanityAccounted
  <2>3. CASE op = "consumable"
    <3>1. total' = [total EXCEPT !.uses = @ + 1, !.restored = @ + restored]
      BY <1>2, <2>3
    <3>2. restored \in Int /\ v.humanity = c.humanity + restored
      BY <1>9, <2>3 DEF LocksCharacter
    <3>3. total'.drained = total.drained /\ total'.restored = total.restored + restored
      BY <2>5, <3>1, <3>2, UseAdds DEF Totals
    <3> QED
      BY <1>5, <2>0, <3>2, <3>3 DEF HumanityAccounted
  <2>4. CASE op = "uninstall"
    <3>1. total' = total
      BY <1>2, <2>4
    <3> QED
      BY <1>5, <1>8, <2>4, <3>1 DEF HumanityAccounted
  <2> QED
    BY <1>3, <2>1, <2>2, <2>3, <2>4
<1>12. MaxNilMatches'
  <2>1. {i \in Implant : db'[i] # NoRow} = Installed(p)
    BY <1>5 DEF Installed
  <2>2. op \in {"install", "uninstall"} => v.max = MaxNilOf(Installed(p))
    BY <1>1 DEF Lone, Writes
  <2>3. LocksCharacter(p) =>
          v.max = c.max /\ Installed(p) = {i \in Implant : db[i] # NoRow}
    BY <1>1 DEF Lone, Writes, LocksCharacter, Installed, Sees
  <2> QED
    BY <1>3, <1>5, <2>1, <2>2, <2>3 DEF MaxNilMatches, LocksCharacter
<1> QED
  BY <1>6, <1>10, <1>11, <1>12 DEF Promises
\* A step of p moves p, and gives rows to p or to nobody.
Own(p) ==
  /\ \A q \in Proc \ {p} : pc'[q] = pc[q]
  /\ \A r \in Rows : owner'[r] \in {owner[r], p, NoProc}
  /\ pc[p] # "idle" \/ pc'[p] # "idle"

LEMMA MovesOwn ==
  ASSUME IInv, NEW p \in Proc, NEW l, pc[p] # "idle" \/ l # "idle", Goto(p, l),
         \/ owner' = owner
         \/ \E r \in Rows : owner' = [owner EXCEPT ![r] = p]
         \/ owner' = Released(p)
  PROVE  Own(p)
<1>1. DOMAIN owner = Rows /\ DOMAIN pc = Proc
  BY DEF IInv, Typed, RowsTyped, LocalsTyped
<1>2. \A q \in Proc \ {p} : pc'[q] = pc[q]
  BY <1>1 DEF Goto
<1>3. pc[p] # "idle" \/ pc'[p] # "idle"
  BY <1>1 DEF Goto
<1>4. \A r \in Rows : owner'[r] \in {owner[r], p, NoProc}
  BY <1>1 DEF Released
<1> QED
  BY <1>2, <1>3, <1>4 DEF Own

LEMMA RejectOwn ==
  ASSUME IInv, NEW p \in Proc, Reject(p), pc[p] # "idle"
  PROVE  Own(p)
BY MovesOwn DEF Reject, Answered, Rollback

LEMMA PutOwn ==
  ASSUME IInv, NEW p \in Proc, NEW r \in Rows, NEW v, Put(p, r, v), NEW l, Goto(p, l), pc[p] # "idle"
  PROVE  Own(p)
BY MovesOwn DEF Put

LEMMA ReadOwn ==
  ASSUME IInv, NEW p \in Proc, UNCHANGED rcVars, NEW l, Goto(p, l), pc[p] # "idle" \/ l # "idle"
  PROVE  Own(p)
BY MovesOwn DEF rcVars

LEMMA StepOwn ==
  ASSUME ChromeAssumption, IInv, NEW p \in Proc, Start(p) \/ Step(p) \/ Lost(p) \/ DetectDeadlock(p)
  PROVE  Own(p)
<1>1. CASE Start(p)
  <2>1. PICK r \in Requests :
          Goto(p, CASE r.op = "install" -> "character"
                    [] r.op = "uninstall" -> "installed"
                    [] OTHER -> "lock")
    BY <1>1 DEF Start
  <2>2. UNCHANGED rcVars
    BY <1>1 DEF Start
  <2> QED
    BY <2>1, <2>2, ReadOwn
<1>2. CASE Reject(p) /\ pc[p] # "idle"
  BY <1>2, RejectOwn
<1>3. CASE ReadCharacter(p) \/ ReadLoadout(p) \/ ReadWallet(p) \/ InsertAudit(p) \/ ReadBonuses(p) \/ FindInstalled(p)
  <2>1. pc[p] # "idle"
    BY <1>3 DEF ReadCharacter, ReadLoadout, ReadWallet, InsertAudit, ReadBonuses, FindInstalled
  <2>2. Reject(p) \/ (UNCHANGED rcVars /\ \E l : Goto(p, l))
    BY <1>3 DEF ReadCharacter, ReadLoadout, ReadWallet, InsertAudit, ReadBonuses, FindInstalled
  <2> QED
    BY <1>2, <2>1, <2>2, ReadOwn
<1>4. CASE \/ DebitWallet(p) \/ DecrementHumanity(p) \/ UpdateMaxNil(p) \/ LockCharacter(p)
           \/ RestoreHumanity(p) \/ Consume(p)
  <2>1. pc[p] # "idle"
    BY <1>4 DEF DebitWallet, DecrementHumanity, UpdateMaxNil, LockCharacter, RestoreHumanity, Consume
  <2>2. Reject(p) \/ \E r \in {"wallet", "character", "consumable"} : \E v, l : Put(p, r, v) /\ Goto(p, l)
    BY <1>4 DEF DebitWallet, DecrementHumanity, UpdateMaxNil, LockCharacter, Lock, ForUpdate, RestoreHumanity, Consume
  <2> QED
    BY <1>2, <2>1, <2>2, PutOwn, RowNames
<1>5. CASE InsertInstalled(p) \/ DeleteInstalled(p)
  <2>1. pc[p] \in {"implant", "delete"}
    BY <1>5 DEF InsertInstalled, DeleteInstalled
  <2>2. req[p].implant \in Rows
    <3>1. req[p].op \in {"install", "uninstall"}
      BY <2>1, Asking DEF IInv, Typed, RequestInv, Fits, Sessions, Using
    <3> QED
      BY <3>1, Asking, RowNames DEF IInv, Typed
  <2>3. \/ Reject(p)
        \/ UNCHANGED rcVars /\ \E l : Goto(p, l)
        \/ \E v, l : Put(p, req[p].implant, v) /\ Goto(p, l)
    BY <1>5 DEF InsertInstalled, DeleteInstalled
  <2> QED
    BY <1>2, <2>1, <2>2, <2>3, PutOwn, ReadOwn
<1>6. CASE CommitRequest(p)
  BY <1>6, MovesOwn DEF CommitRequest, Commit, Answered
<1>7. CASE Lost(p)
  BY <1>2, <1>7 DEF Lost
<1>8. CASE DetectDeadlock(p)
  <2>1. pc[p] # "idle"
    BY <1>8 DEF DetectDeadlock, Deadlocked, HoldsBack
  <2> QED
    BY <1>2, <1>8, <2>1 DEF DetectDeadlock
<1> QED
  BY <1>1, <1>3, <1>4, <1>5, <1>6, <1>7, <1>8 DEF Step
LEMMA StepLone ==
  ASSUME ChromeAssumption, IInv, NEW p \in Proc, Lone(p), HumanityAccounted, MaxNilMatches,
         Start(p) \/ Step(p) \/ Lost(p) \/ DetectDeadlock(p)
  PROVE  Lone(p)' /\ Promises
<1>1. CASE Reject(p)
  BY <1>1, RejectLone, Unpublished
<1>2. CASE /\ ~Reject(p)
           /\ \/ Start(p) \/ ReadCharacter(p) \/ ReadLoadout(p) \/ ReadWallet(p) \/ InsertAudit(p)
              \/ ReadBonuses(p) \/ FindInstalled(p)
  BY <1>2, ReadLone, Unpublished
<1>3. CASE ~Reject(p) /\ (DebitWallet(p) \/ InsertInstalled(p) \/ DeleteInstalled(p) \/ Consume(p))
  BY <1>3, RowLone, Unpublished
<1>4. CASE ~Reject(p) /\ (DecrementHumanity(p) \/ UpdateMaxNil(p) \/ LockCharacter(p) \/ RestoreHumanity(p))
  BY <1>4, CharacterLone, Unpublished
<1>5. CASE CommitRequest(p)
  BY <1>5, CommitLone
<1> QED
  BY <1>1, <1>2, <1>3, <1>4, <1>5 DEF Step, Lost, DetectDeadlock

\* Nothing but the NIL changes.
LEMMA OutsideLone ==
  ASSUME IInv, HumanityAccounted, MaxNilMatches, UNCHANGED <<owner, total, local>>,
         \A r \in Rows \ {"character"} : db'[r] = db[r] /\ pend'[r] = pend[r],
         \A f \in {"humanity", "flat", "max"} :
           db'["character"][f] = db["character"][f] /\ pend'["character"][f] = pend["character"][f],
         ChromeAssumption
  PROVE  (\A p \in Proc : Lone(p) => Lone(p)') /\ Promises
<1>1. \A i \in Implant : owner'[i] = owner[i] /\ pend'[i] = pend[i] /\ db'[i] = db[i]
  BY RowNames
<1>2. /\ db'["character"].humanity = db["character"].humanity /\ db'["character"].flat = db["character"].flat
      /\ db'["character"].max = db["character"].max /\ pend'["character"].humanity = pend["character"].humanity
      /\ pend'["character"].flat = pend["character"].flat /\ pend'["character"].max = pend["character"].max
  OBVIOUS
<1>3. pc' = pc /\ req' = req /\ chr' = chr /\ aim' = aim /\ owner' = owner /\ total' = total
  BY DEF local
<1>4. ASSUME NEW p \in Proc, Lone(p)
      PROVE  Lone(p)'
  <2>1. Installed(p)' = Installed(p) /\ CostOf(p)' = CostOf(p)
    BY <1>1, <1>3, InstalledKept, CostKept
  <2> QED
    BY <1>2, <1>3, <1>4, <2>1, Zenon DEF Lone, Reads, Writes, HasRead, LocksCharacter
<1>5. (HumanityAccounted /\ MaxNilMatches)'
  <2>1. {i \in Implant : db'[i] # NoRow} = {i \in Implant : db[i] # NoRow}
    BY <1>1
  <2> QED
    BY <1>2, <1>3, <2>1 DEF HumanityAccounted, MaxNilMatches
<1>6. NoWayBackStep
  <2>1. db["character"].humanity <= db["character"].humanity
    BY DEF IInv, Typed, RowsTyped, Whole
  <2> QED
    BY <1>2, <2>1, Zenon DEF NoWayBackStep
<1> QED
  BY <1>4, <1>5, <1>6 DEF Promises

LEMMA NilLone ==
  ASSUME ChromeAssumption, IInv, HumanityAccounted, MaxNilMatches, NilChanges
  PROVE  (\A p \in Proc : Lone(p) => Lone(p)') /\ Promises
<1>1. PICK n : /\ db' = [db EXCEPT !["character"] = [db["character"] EXCEPT !.nil = n]]
               /\ pend' = [pend EXCEPT !["character"] = [pend["character"] EXCEPT !.nil = n]]
  BY DEF NilChanges
<1> DEFINE c == [db["character"] EXCEPT !.nil = n]
           v == [pend["character"] EXCEPT !.nil = n]
<1>2. DOMAIN db = Rows /\ DOMAIN pend = Rows /\ Whole(db["character"]) /\ Whole(pend["character"])
  BY DEF IInv, Typed, RowsTyped
<1>3. \A f \in {"humanity", "flat", "max"} : c[f] = db["character"][f] /\ v[f] = pend["character"][f]
  BY <1>2 DEF Whole
<1> HIDE DEF c, v
<1>4. db' = [db EXCEPT !["character"] = c] /\ pend' = [pend EXCEPT !["character"] = v]
  BY <1>1 DEF c, v
<1>5. /\ db'["character"] = c /\ pend'["character"] = v
      /\ \A r \in Rows \ {"character"} : db'[r] = db[r] /\ pend'[r] = pend[r]
  BY <1>2, <1>4, RowNames
<1>6. UNCHANGED <<owner, total, local>>
  BY DEF NilChanges
<1>7. \A f \in {"humanity", "flat", "max"} :
        db'["character"][f] = db["character"][f] /\ pend'["character"][f] = pend["character"][f]
  BY <1>3, <1>5
<1> QED
  BY <1>5, <1>6, <1>7, OutsideLone

LEMMA SoloInit ==
  ASSUME ChromeAssumption, Init
  PROVE  SoloInv
<1> DEFINE First(r, overclock) ==
             CASE r = "character" -> [humanity |-> InitHumanity, flat |-> FALSE,
                                      overclock |-> overclock, nil |-> BaseNil, max |-> BaseNil]
               [] r = "wallet" -> [balance |-> InitBalance, version |-> 0]
               [] r = "consumable" -> InitQuantity
               [] OTHER -> NoRow
<1>1. PICK overclock \in InitOverclock : RcInit([r \in Rows |-> First(r, overclock)])
  BY DEF Init
<1>2. db = [r \in Rows |-> First(r, overclock)] /\ owner = [r \in Rows |-> NoProc]
  BY <1>1 DEF RcInit
<1>3. /\ db["character"] = [humanity |-> InitHumanity, flat |-> FALSE, overclock |-> overclock,
                            nil |-> BaseNil, max |-> BaseNil]
      /\ \A i \in Implant : db[i] = NoRow /\ owner[i] = NoProc
  BY <1>2, RowNames
<1>4. /\ total.drained = 0 /\ total.restored = 0 /\ InitHumanity \in Int
      /\ pc = [p \in Proc |-> "idle"] /\ req = [p \in Proc |-> NoRequest]
  BY DEF Init, ChromeAssumption
<1>5. HumanityAccounted
  BY <1>3, <1>4 DEF HumanityAccounted
<1>6. MaxNilMatches
  <2>1. {i \in Implant : db[i] # NoRow} = {}
    BY <1>3
  <2> QED
    BY <1>3, <2>1, NoBonus DEF MaxNilMatches
<1>7. \A p \in Proc : Lone(p)
  BY <1>3, <1>4, RowNames DEF Lone, Reads, Writes, HasRead, LocksCharacter, NoRequest
<1> QED
  BY <1>4, <1>5, <1>6, <1>7 DEF SoloInv, Single

\* While requests have not overlapped, only the one that takes the step is in progress
\* before it or after it.
LEMMA SoloNext ==
  ASSUME ChromeAssumption, IInv, IInv', SoloInv, [Next]_vars
  PROVE  SoloInv' /\ (alone' => NoWayBackStep)
<1> SUFFICES ASSUME alone'
             PROVE  Single' /\ (\A p \in Proc : Lone(p)') /\ Promises
  BY DEF SoloInv, Promises
<1>1. alone
  BY DEF Next, vars
<1>2. Single /\ HumanityAccounted /\ MaxNilMatches /\ \A p \in Proc : Lone(p)
  BY <1>1 DEF SoloInv
<1>3. ASSUME UNCHANGED <<rcVars, total, local>>
      PROVE  Single' /\ (\A p \in Proc : Lone(p)') /\ Promises
  <2>1. Single'
    BY <1>2, <1>3 DEF Single, local
  <2> QED
    BY <1>2, <1>3, <2>1, OutsideLone DEF rcVars
<1>4. CASE UNCHANGED vars
  BY <1>3, <1>4 DEF vars
<1>5. CASE Next
  <2>1. Single'
    BY <1>5 DEF Next, StaysAlone, Single
  <2>2. CASE Rest \/ DayPasses
    BY <1>3, <2>2 DEF Rest, DayPasses
  <2>3. CASE NilChanges
    BY <1>2, <2>1, <2>3, NilLone
  <2>4. ASSUME NEW p \in Proc, Start(p) \/ Step(p) \/ Lost(p) \/ DetectDeadlock(p)
        PROVE  (\A q \in Proc : Lone(q)') /\ Promises
    <3>1. Lone(p)' /\ Promises
      BY <1>2, <2>4, StepLone
    <3>2. ASSUME NEW q \in Proc \ {p}
          PROVE  Lone(q)'
      <4>1. Own(p)
        BY <2>4, StepOwn
      <4>2. pc[q] = "idle" /\ pc'[q] = "idle"
        BY <1>2, <2>1, <4>1 DEF Single, Own
      <4>3. req[q] = NoRequest /\ req'[q] = NoRequest
        BY <4>2 DEF IInv, RequestInv, Fits
      <4>4. \A i \in Implant : owner[i] # q
        <5>1. req[q].op \notin {"install", "uninstall"}
          BY <4>3 DEF NoRequest
        <5> QED
          BY <1>2, <5>1 DEF Lone, Writes
      <4>5. \A i \in Implant : owner'[i] # q
        BY <4>1, <4>4, RowNames DEF Own
      <4> QED
        BY <4>2, <4>3, <4>5, LoneIdle
    <3> QED
      BY <3>1, <3>2
  <2> QED
    BY <1>5, <2>1, <2>2, <2>3, <2>4 DEF Next, Action
<1> QED
  BY <1>4, <1>5

\* While no two requests have overlapped, humanity is what installs drained and what was
\* restored, the NIL ceiling is that of the implants, and a flatline is permanent.
THEOREM SoloBodyHolds ==
  ASSUME ChromeAssumption
  PROVE  Spec => SoloBody
<1>1. SoloInv => SoloAccounts
  BY DEF SoloInv, SoloAccounts
<1>2. Init => SoloInv
  BY SoloInit
<1>3. IInv /\ IInv' /\ SoloInv /\ [Next]_vars => SoloInv' /\ [alone' => NoWayBackStep]_vars
  BY SoloNext
<1>4. Spec => []IInv
  BY Inductive
<1> QED
  BY <1>1, <1>2, <1>3, <1>4, PTL DEF Spec, SoloBody
-----------------------------------------------------------------------------
(* What IInv leaves untyped: the NIL under its ceiling, the implants' rows, the     *)
(* totals and the requests' locals.                                               *)

Bodied(c) == c \in Characters /\ c.nil \in 0 .. c.max

RowsFilled ==
  /\ Bodied(db["character"]) /\ Bodied(pend["character"])
  /\ \A i \in Implant : db[i] \in Nat \cup {NoRow} /\ pend[i] \in Nat \cup {NoRow}

LocalsFilled ==
  /\ chr \in [Proc -> Characters \cup {NoRow}]
  /\ wal \in [Proc -> WalletRows \cup {NoRow}]
  /\ aim \in [Proc -> Nat]

TotalsFilled == total.spent \in Nat /\ total.drained \in Nat /\ rested \in BOOLEAN

Filled == RowsFilled /\ LocalsFilled /\ TotalsFilled

LEMMA FilledInit ==
  ASSUME ChromeAssumption, Init
  PROVE  Filled
<1> DEFINE First(r, overclock) ==
             CASE r = "character" -> [humanity |-> InitHumanity, flat |-> FALSE,
                                      overclock |-> overclock, nil |-> BaseNil, max |-> BaseNil]
               [] r = "wallet" -> [balance |-> InitBalance, version |-> 0]
               [] r = "consumable" -> InitQuantity
               [] OTHER -> NoRow
<1>1. PICK overclock \in InitOverclock : RcInit([r \in Rows |-> First(r, overclock)])
  BY DEF Init
<1>2. db = [r \in Rows |-> First(r, overclock)] /\ pend = db
  BY <1>1 DEF RcInit
<1>3. /\ db["character"] = [humanity |-> InitHumanity, flat |-> FALSE,
                            overclock |-> overclock, nil |-> BaseNil, max |-> BaseNil]
      /\ \A i \in Implant : db[i] = NoRow
  BY <1>2, RowNames
<1>4. overclock \in BOOLEAN /\ BaseNil \in Nat /\ InitHumanity \in Int
  BY DEF ChromeAssumption
<1>5. Bodied(db["character"])
  BY <1>3, <1>4 DEF Bodied, Characters
<1>6. RowsFilled
  BY <1>2, <1>3, <1>5 DEF RowsFilled
<1> QED
  BY <1>6 DEF Filled, Init, LocalsFilled, TotalsFilled

LEMMA SeesFilled ==
  ASSUME RowsFilled, NEW p
  PROVE  Bodied(Sees(p, "character")) /\ \A i \in Implant : Sees(p, i) \in Nat \cup {NoRow}
  BY DEF RowsFilled, Sees

\* The rows stay filled when only a wallet, the stock or a filled row is written.
LEMMA PutFilled ==
  ASSUME ChromeAssumption, IInv, RowsFilled, NEW p \in Proc, NEW r \in Rows, NEW v, Put(p, r, v), UNCHANGED <<total, used>>,
         r = "character" => Bodied(v), r \in Implant => v \in Nat \cup {NoRow}
  PROVE  RowsFilled'
<1>1. db' = db /\ pend'[r] = v /\ \A s \in Rows \ {r} : pend'[s] = pend[s]
  BY PutRow
<1> QED
  BY <1>1, RowNames DEF RowsFilled

LEMMA AnsweredFilled ==
  ASSUME LocalsFilled, NEW p \in Proc, Answered(p)
  PROVE  LocalsFilled'
  BY DEF LocalsFilled, Answered

LEMMA RejectFilled ==
  ASSUME ChromeAssumption, IInv, Filled, NEW p \in Proc, Reject(p)
  PROVE  Filled'
<1>1. Answered(p) /\ UNCHANGED <<total, rested, db>>
  BY DEF Reject, Rollback
<1>2. \A r \in Rows : pend'[r] = IF owner[r] = p THEN db[r] ELSE pend[r]
  BY DEF Reject, Rollback, IInv, Typed, RowsTyped
<1>3. RowsFilled'
  BY <1>1, <1>2, RowNames DEF Filled, RowsFilled
<1> QED
  BY <1>1, <1>3, AnsweredFilled DEF Filled, TotalsFilled

\* A statement that only reads.
LEMMA ReadFilled ==
  ASSUME ChromeAssumption, IInv, Filled, NEW p \in Proc, ~Reject(p),
         \/ Start(p) \/ ReadCharacter(p) \/ ReadLoadout(p) \/ ReadWallet(p) \/ InsertAudit(p)
         \/ ReadBonuses(p) \/ FindInstalled(p)
  PROVE  Filled'
<1>1. UNCHANGED <<rcVars, total, rested>>
  BY DEF Start, ReadCharacter, ReadLoadout, ReadWallet, InsertAudit, ReadBonuses, FindInstalled
<1>2. RowsFilled' /\ TotalsFilled'
  BY <1>1 DEF Filled, RowsFilled, TotalsFilled, rcVars
<1>3. LocalsFilled'
  <2> USE DEF Filled, LocalsFilled
  <2>1. CASE Start(p) \/ ReadLoadout(p) \/ InsertAudit(p)
    BY <2>1 DEF Start, ReadLoadout, InsertAudit
  <2>2. CASE ReadCharacter(p)
    <3>1. Sees(p, "character") \in Characters
      BY SeesFilled DEF Bodied
    <3> QED
      BY <2>2, <3>1 DEF ReadCharacter
  <2>3. CASE ReadWallet(p)
    <3>1. Sees(p, "wallet") \in WalletRows
      BY SeesTyped DEF IInv, Purses, WalletRows
    <3>2. req[p].op = "install" => PriceOf(p) \in Nat
      BY CostsTyped DEF IInv, Typed
    <3>3. Costs(p) \subseteq Nat
      BY <3>2 DEF Costs, ChromeAssumption
    <3> QED
      BY <2>3, <3>1, <3>3 DEF ReadWallet
  <2>4. CASE ReadBonuses(p)
    <3>1. MaxNilOf(Installed(p)) \in Nat
      BY CeilingTyped DEF Installed
    <3> QED
      BY <2>4, <3>1 DEF ReadBonuses
  <2>5. CASE FindInstalled(p)
    <3>1. pc[p] = "installed"
      BY <2>5 DEF FindInstalled
    <3>2. req[p].implant \in Implant
      BY <3>1, Asking DEF IInv, Typed, RequestInv, Fits, Installing, Sessions, Using
    <3>3. db[req[p].implant] # NoRow => db[req[p].implant] \in Nat
      BY <3>2 DEF RowsFilled
    <3> QED
      BY <2>5, <3>3 DEF FindInstalled
  <2> QED
    BY <2>1, <2>2, <2>3, <2>4, <2>5
<1> QED
  BY <1>2, <1>3 DEF Filled

\* A statement that writes the wallet, the stock or an implant.
LEMMA RowFilled ==
  ASSUME ChromeAssumption, IInv, Filled, NEW p \in Proc, ~Reject(p),
         DebitWallet(p) \/ InsertInstalled(p) \/ DeleteInstalled(p) \/ Consume(p)
  PROVE  Filled'
<1>1. UNCHANGED <<total, used, rested, chr, wal, aim>>
  BY DEF DebitWallet, InsertInstalled, DeleteInstalled, Consume
<1>2. LocalsFilled' /\ TotalsFilled'
  BY <1>1 DEF Filled, LocalsFilled, TotalsFilled
<1>3. RowsFilled'
  <2>1. CASE DebitWallet(p) \/ Consume(p)
    <3>1. PICK r \in {"wallet", "consumable"} : \E v : Put(p, r, v)
      BY <2>1 DEF DebitWallet, Consume
    <3> QED
      BY <1>1, <3>1, PutFilled, RowNames DEF Filled
  <2>2. CASE InsertInstalled(p) \/ DeleteInstalled(p)
    <3> DEFINE i == req[p].implant
    <3>1. pc[p] \in {"implant", "delete"}
      BY <2>2 DEF InsertInstalled, DeleteInstalled
    <3>2. req[p].op \in {"install", "uninstall"}
      BY <3>1, Asking DEF IInv, Typed, RequestInv, Fits, Sessions, Using
    <3>3. i \in Implant
      BY <3>2, Asking DEF IInv, Typed
    <3>4. UNCHANGED rcVars \/ \E v \in Nat \cup {NoRow} : Put(p, i, v)
      <4>1. total.installs + 1 \in Nat
        BY DEF IInv, Typed, Totals
      <4> QED
        BY <2>2, <4>1 DEF InsertInstalled, DeleteInstalled
    <3> HIDE DEF i
    <3>5. CASE UNCHANGED rcVars
      BY <3>5 DEF Filled, RowsFilled, rcVars
    <3>6. ASSUME NEW v \in Nat \cup {NoRow}, Put(p, i, v)
          PROVE  RowsFilled'
      BY <1>1, <3>3, <3>6, PutFilled, RowNames DEF Filled
    <3> QED
      BY <3>4, <3>5, <3>6
  <2> QED
    BY <2>1, <2>2
<1> QED
  BY <1>2, <1>3 DEF Filled

\* A statement that writes the character.
LEMMA CharacterFilled ==
  ASSUME ChromeAssumption, IInv, Filled, NEW p \in Proc, ~Reject(p),
         DecrementHumanity(p) \/ UpdateMaxNil(p) \/ LockCharacter(p) \/ RestoreHumanity(p)
  PROVE  Filled'
<1> DEFINE c == Sees(p, "character")
<1>1. Bodied(c) /\ Whole(c)
  BY SeesFilled, SeesTyped DEF Filled, IInv
<1>2. RequestInv(p)
  BY DEF IInv
<1>3. UNCHANGED <<total, used, rested>>
  BY DEF DecrementHumanity, UpdateMaxNil, LockCharacter, RestoreHumanity
<1>4. ASSUME NEW v, Put(p, "character", v), Bodied(v)
      PROVE  RowsFilled' /\ TotalsFilled'
  <2>1. RowsFilled'
    BY <1>3, <1>4, PutFilled, RowNames DEF Filled
  <2> QED
    BY <1>3, <2>1 DEF Filled, TotalsFilled
<1>5. CASE DecrementHumanity(p)
  <2> DEFINE h == IF Guarded(p, c) THEN HumanityLeft(p) ELSE c.humanity
             f == c.flat \/ Drains(p)
             o == c.overclock /\ ~chr[p].overclock
             v == [c EXCEPT !.humanity = h, !.flat = f, !.overclock = o]
  <2>1. Put(p, "character", v) /\ pc[p] = "humanity" /\ UNCHANGED <<chr, wal, aim>>
    BY <1>5 DEF DecrementHumanity
  <2>2. req[p].op = "install"
    BY <1>2, <2>1, Asking DEF IInv, Typed, RequestInv, Fits, Uninstalling, Sessions, Using
  <2>3. CostOf(p) \in Nat /\ Whole(chr[p])
    BY <1>2, <2>1, <2>2, CostsTyped DEF RequestInv, Goes, IInv, Typed
  <2>4. h \in Int /\ f \in BOOLEAN /\ o \in BOOLEAN
    BY <1>1, <2>3 DEF Whole, HumanityLeft
  <2> HIDE DEF h, f, o, c
  <2>5. Bodied(v)
    BY <1>1, <2>4 DEF Bodied, Characters
  <2> HIDE DEF v
  <2> QED
    BY <1>4, <2>1, <2>5 DEF Filled, LocalsFilled
<1>6. CASE UpdateMaxNil(p)
  <2> DEFINE v == [c EXCEPT !.max = aim[p]]
  <2>1. Put(p, "character", v) /\ c.nil <= aim[p] /\ UNCHANGED <<chr, wal, aim>>
    BY <1>6 DEF UpdateMaxNil
  <2>2. aim[p] \in Nat
    BY DEF Filled, LocalsFilled
  <2> HIDE DEF c
  <2>3. Bodied(v)
    BY <1>1, <2>1, <2>2 DEF Bodied, Characters
  <2> HIDE DEF v
  <2> QED
    BY <1>4, <2>1, <2>3 DEF Filled, LocalsFilled
<1>7. CASE LockCharacter(p)
  <2>1. /\ Put(p, "character", c) /\ MayTreat(p, c) /\ chr' = [chr EXCEPT ![p] = c] /\ wal' = wal
        /\ aim' = [aim EXCEPT ![p] = IF req[p].op = "therapy" THEN 0 ELSE Restore[used]]
    BY <1>7 DEF LockCharacter, Lock, ForUpdate
  <2>2. req[p].op # "therapy" => Restore[used] \in Nat
    BY <2>1 DEF MayTreat, OutOfUses, ChromeAssumption, IInv, Typed
  <2> HIDE DEF c
  <2>3. c \in Characters
    BY <1>1 DEF Bodied
  <2>4. LocalsFilled'
    BY <2>1, <2>2, <2>3 DEF Filled, LocalsFilled
  <2> QED
    BY <1>1, <1>4, <2>1, <2>4 DEF Filled
<1>8. CASE RestoreHumanity(p)
  <2>1. PICK raw \in IF req[p].op = "therapy" THEN TherapyRestore ELSE {aim[p]} :
          /\ Put(p, "character", [c EXCEPT !.humanity = Clamped(chr[p].humanity + raw)])
          /\ UNCHANGED <<chr, wal, aim>> /\ pc[p] = "restore"
    BY <1>8 DEF RestoreHumanity
  <2>2. LocksCharacter(p)
    BY <1>2, <2>1, Asking DEF IInv, Typed, RequestInv, Fits, Installing, Uninstalling, LocksCharacter
  <2>3. chr[p].humanity \in Int /\ raw \in Int
    <3>1. Whole(chr[p]) /\ aim[p] \in Nat
      BY <1>2, <2>1, <2>2 DEF RequestInv, Goes, Filled, LocalsFilled
    <3> QED
      BY <3>1 DEF Whole, ChromeAssumption
  <2> DEFINE h == Clamped(chr[p].humanity + raw)
             v == [c EXCEPT !.humanity = h]
  <2>4. h \in Int
    BY <2>3, RowNames DEF Clamped
  <2> HIDE DEF h, c
  <2>5. Bodied(v)
    BY <1>1, <2>4 DEF Bodied, Characters
  <2>6. Put(p, "character", v)
    BY <2>1 DEF h, c
  <2> HIDE DEF v
  <2> QED
    BY <1>4, <2>1, <2>5, <2>6 DEF Filled, LocalsFilled
<1> QED
  BY <1>5, <1>6, <1>7, <1>8

LEMMA CommitFilled ==
  ASSUME ChromeAssumption, IInv, Filled, NEW p \in Proc, CommitRequest(p)
  PROVE  Filled'
<1> DEFINE op == req[p].op
           restored == pend["character"].humanity - chr[p].humanity
<1>1. /\ pc[p] = "commit" /\ Answered(p) /\ pend' = pend
      /\ db' = [r \in DOMAIN db |-> Sees(p, r)]
      /\ rested' = IF op = "therapy" THEN FALSE ELSE rested
  BY DEF CommitRequest, Commit
<1>2. /\ op = "install" => total' = [total EXCEPT !.installs = @ + 1, !.spent = @ + PriceOf(p), !.drained = @ + CostOf(p)]
      /\ op = "therapy" => total' = [total EXCEPT !.spent = @ + aim[p], !.restored = @ + restored]
      /\ op = "consumable" => total' = [total EXCEPT !.uses = @ + 1, !.restored = @ + restored]
      /\ op \notin {"install", "therapy", "consumable"} => total' = total
  BY DEF CommitRequest
<1>3. RowsFilled'
  <2>1. \A r \in Rows : db'[r] = Sees(p, r)
    BY <1>1 DEF IInv, Typed, RowsTyped
  <2>2. /\ db'["character"] = Sees(p, "character") /\ pend'["character"] = pend["character"]
        /\ \A i \in Implant : db'[i] = Sees(p, i) /\ pend'[i] = pend[i]
    BY <1>1, <2>1, RowNames
  <2>3. Bodied(Sees(p, "character")) /\ \A i \in Implant : Sees(p, i) \in Nat \cup {NoRow}
    BY SeesFilled DEF Filled
  <2> QED
    BY <2>2, <2>3 DEF RowsFilled, Filled
<1>4. LocalsFilled'
  BY <1>1, AnsweredFilled DEF Filled
<1>5. total'.spent \in Nat /\ total'.drained \in Nat
  <2>1. op \in {"therapy", "consumable"} => restored \in Int
    <3>1. LocksCharacter(p) => chr[p].humanity \in Int
      BY <1>1 DEF IInv, RequestInv, Goes, Whole
    <3>2. pend["character"].humanity \in Int
      BY DEF IInv, Typed, RowsTyped, Whole
    <3> QED
      BY <3>1, <3>2 DEF LocksCharacter
  <2>2. total \in Totals /\ total.spent \in Nat /\ total.drained \in Nat
    BY DEF IInv, Typed, Filled, TotalsFilled
  <2> HIDE DEF restored
  <2>3. CASE op = "install"
    <3> DEFINE cost == PriceOf(p)
               points == CostOf(p)
    <3>1. cost \in Nat /\ points \in Nat
      BY <2>3, CostsTyped DEF IInv, Typed
    <3> HIDE DEF cost, points
    <3>2. total' = [total EXCEPT !.installs = @ + 1, !.spent = @ + cost, !.drained = @ + points]
      BY <1>2, <2>3 DEF cost, points
    <3>3. /\ total'.installs = total.installs + 1 /\ total'.spent = total.spent + cost /\ total'.uses = total.uses
          /\ total'.drained = total.drained + points /\ total'.restored = total.restored /\ total' \in Totals
      BY <2>2, <3>1, <3>2, InstallAdds DEF Totals
    <3> QED
      BY <2>2, <3>1, <3>3
  <2>4. CASE op = "therapy"
    <3> DEFINE cost == aim[p]
    <3>1. cost \in Nat
      BY DEF Filled, LocalsFilled
    <3> HIDE DEF cost
    <3>2. total' = [total EXCEPT !.spent = @ + cost, !.restored = @ + restored]
      BY <1>2, <2>4 DEF cost
    <3>3. /\ total'.installs = total.installs /\ total'.spent = total.spent + cost /\ total'.uses = total.uses
          /\ total'.drained = total.drained /\ total'.restored = total.restored + restored /\ total' \in Totals
      BY <2>1, <2>2, <2>4, <3>1, <3>2, SessionAdds DEF Totals
    <3> QED
      BY <2>2, <3>1, <3>3
  <2>5. CASE op = "consumable"
    <3>1. total' = [total EXCEPT !.uses = @ + 1, !.restored = @ + restored]
      BY <1>2, <2>5
    <3>2. /\ total'.installs = total.installs /\ total'.spent = total.spent /\ total'.uses = total.uses + 1
          /\ total'.drained = total.drained /\ total'.restored = total.restored + restored /\ total' \in Totals
      BY <2>1, <2>2, <2>5, <3>1, UseAdds DEF Totals
    <3> QED
      BY <2>2, <3>2
  <2>6. CASE op \notin {"install", "therapy", "consumable"}
    BY <1>2, <2>2, <2>6
  <2> QED
    BY <2>3, <2>4, <2>5, <2>6
<1>6. rested' \in BOOLEAN
  BY <1>1 DEF Filled, TotalsFilled
<1> QED
  BY <1>3, <1>4, <1>5, <1>6 DEF Filled, TotalsFilled

LEMMA NilFilled ==
  ASSUME ChromeAssumption, IInv, Filled, NilChanges
  PROVE  Filled'
<1>1. PICK n \in {0, db["character"].max} :
        /\ db' = [db EXCEPT !["character"] = [db["character"] EXCEPT !.nil = n]]
        /\ pend' = [pend EXCEPT !["character"] = [pend["character"] EXCEPT !.nil = n]]
  BY DEF NilChanges
<1>2. owner["character"] = NoProc /\ UNCHANGED <<total, rested, local>>
  BY DEF NilChanges
<1>3. DOMAIN db = Rows /\ DOMAIN pend = Rows /\ Bodied(db["character"]) /\ pend["character"] = db["character"]
  BY <1>2, RowNames DEF IInv, Typed, RowsTyped, PendingIsOwned, Filled, RowsFilled
<1> DEFINE c == [db["character"] EXCEPT !.nil = n]
<1>4. Bodied(c)
  BY <1>3 DEF Bodied, Characters
<1> HIDE DEF c
<1>5. db' = [db EXCEPT !["character"] = c] /\ pend' = [pend EXCEPT !["character"] = c]
  BY <1>1, <1>3 DEF c
<1>6. /\ db'["character"] = c /\ pend'["character"] = c
      /\ \A i \in Implant : db'[i] = db[i] /\ pend'[i] = pend[i]
  BY <1>3, <1>5, RowNames
<1>7. RowsFilled'
  BY <1>4, <1>6 DEF Filled, RowsFilled
<1> QED
  BY <1>2, <1>7 DEF Filled, LocalsFilled, TotalsFilled, local

LEMMA FilledNext ==
  ASSUME ChromeAssumption, IInv, Filled, [Next]_vars
  PROVE  Filled'
<1>1. ASSUME NEW p \in Proc, Start(p) \/ Step(p) \/ Lost(p) \/ DetectDeadlock(p)
      PROVE  Filled'
  <2>1. CASE Reject(p)
    BY <2>1, RejectFilled
  <2>2. CASE /\ ~Reject(p)
             /\ \/ Start(p) \/ ReadCharacter(p) \/ ReadLoadout(p) \/ ReadWallet(p) \/ InsertAudit(p)
                \/ ReadBonuses(p) \/ FindInstalled(p)
    BY <2>2, ReadFilled
  <2>3. CASE ~Reject(p) /\ (DebitWallet(p) \/ InsertInstalled(p) \/ DeleteInstalled(p) \/ Consume(p))
    BY <2>3, RowFilled
  <2>4. CASE ~Reject(p) /\ (DecrementHumanity(p) \/ UpdateMaxNil(p) \/ LockCharacter(p) \/ RestoreHumanity(p))
    BY <2>4, CharacterFilled
  <2>5. CASE CommitRequest(p)
    BY <2>5, CommitFilled
  <2> QED
    BY <1>1, <2>1, <2>2, <2>3, <2>4, <2>5 DEF Step, Lost, DetectDeadlock
<1>2. CASE Rest \/ DayPasses \/ UNCHANGED vars
  <2>1. UNCHANGED <<rcVars, total, local>> /\ rested' \in {TRUE, rested}
    BY <1>2 DEF Rest, DayPasses, vars
  <2> QED
    BY <2>1 DEF Filled, RowsFilled, LocalsFilled, TotalsFilled, rcVars, local
<1>3. CASE NilChanges
  BY <1>3, NilFilled
<1> QED
  BY <1>1, <1>2, <1>3 DEF Next, Action

\* Every value has its type, whatever its requests overlap, fail or deadlock with; the
\* NIL is under its ceiling and humanity within its bounds.
THEOREM TypeOKAlways ==
  ASSUME ChromeAssumption
  PROVE  Spec => []TypeOK
<1>1. Spec => []IInv
  BY Inductive
<1>2. Init => Filled
  BY FilledInit
<1>3. IInv /\ Filled /\ [Next]_vars => Filled'
  BY FilledNext
<1>4. ASSUME IInv, Filled
      PROVE  TypeOK
  <2> USE DEF IInv, Typed, RowsTyped, LocalsTyped, Filled, RowsFilled, LocalsFilled, TotalsFilled
  <2>1. \A c \in {db["character"], pend["character"]} :
          c \in Characters /\ c.humanity \in 0 .. MaxHumanity /\ c.nil \in 0 .. c.max
    BY <1>4 DEF Whole, Bodied
  <2>2. \A w \in {db["wallet"], pend["wallet"]} : w \in WalletRows /\ w.balance >= 0
    BY <1>4 DEF Purses, WalletRows
  <2>3. total \in [installs : Nat, spent : Nat, drained : Nat, restored : Int, uses : Nat]
    BY <1>4 DEF Totals
  <2>4. used \in Nat
    BY <1>4, RowNames
  <2>5. pc \in [Proc -> {"idle", "character", "loadout", "wallet", "debit", "audit", "implant",
                         "humanity", "bonuses", "max", "installed", "delete", "lock",
                         "restore", "consume", "commit"}]
    BY <1>4 DEF Statements, Installing, Uninstalling, Sessions, Using
  <2> QED
    BY <1>4, <2>1, <2>2, <2>3, <2>4, <2>5 DEF TypeOK
<1> QED
  BY <1>1, <1>2, <1>3, <1>4, PTL DEF Spec
=============================================================================
