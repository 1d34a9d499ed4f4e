-------------------------- MODULE CharacterProofs --------------------------
(* The books of the trampo loop and its freedom from lock cycles, for any     *)
(* number of requests and any tables of trampos; and, from ChromeProofs, what *)
(* the same character pays, uses and survives on the operating table.         *)
EXTENDS Character, TLAPS

-----------------------------------------------------------------------------
(* The inductive invariant: what each request has in its hands.               *)

Paying == {"heat", "upsert", "close", "commit"}

\* The statements of each operation, and what it has read when it gets there.
OpFits(p) ==
  LET op == req[p].op IN
  /\ pc[p] = "idle" <=> req[p] = NoRequest
  /\ pc[p] \in {"insert", "haul", "requirements", "spend"} => op = "accept"
  /\ pc[p] \in {"active"} => op # "accept"
  /\ pc[p] = "transition" => op \in {"legwork", "execute", "escape"} /\ seen[p] # NoRow
  /\ pc[p] \in {"wallet", "credit", "moral", "heat", "upsert"} => op = "wrapup"
  /\ pc[p] = "close" => op \in {"wrapup", "abandon"} /\ seen[p] # NoRow
  /\ pc[p] = "character" /\ op \in {"execute", "escape", "wrapup"} => seen[p] # NoRow
  /\ op = "accept" /\ pc[p] # "character" => chr[p] \in Characters
  /\ op = "wrapup" /\ pc[p] \in {"wallet", "credit", "moral"} \cup Paying =>
       seen[p] # NoRow /\ chr[p] \in Characters

\* The rows each statement may hold.
LocksNamed(p) ==
  LET op == req[p].op IN
  /\ owner["gig"] = p => \/ op = "accept" /\ pc[p] \in {"requirements", "spend", "commit"}
                         \/ op # "accept" /\ pc[p] = "commit"
  /\ owner["character"] = p => \/ op = "accept" /\ pc[p] = "commit"
                               \/ op = "wrapup" /\ pc[p] \in Paying
  /\ owner["wallet"] = p => op = "wrapup" /\ pc[p] \in {"moral"} \cup Paying
  /\ owner["heat"] = p => op = "wrapup" /\ pc[p] \in {"close", "commit"}

\* The row an accept holds is one that was not there.
OpensNew(p) ==
  req[p].op = "accept" /\ owner["gig"] = p => db["gig"] = NoRow

\* Of the character only what the request is about has moved.
CharacterMoved(p) ==
  /\ req[p].op = "accept" /\ pc[p] = "commit" => owner["character"] = p
  /\ req[p].op = "wrapup" /\ pc[p] \in Paying => owner["character"] = p
  /\ owner["character"] = p =>
       /\ pend["character"].flat = db["character"].flat
       /\ pend["character"].nil = db["character"].nil - (IF req[p].op = "accept" THEN Cost[req[p].gig] ELSE 0)
       /\ pend["character"].nil >= 0 /\ pend["character"].moral <= MaxMoral

\* A credit has something to pay.  The wallet it read is the committed version or
\* an older one, and one version has one content.
WalFaithful(p) ==
  pc[p] = "credit" =>
    /\ PayoutOf(p) > 0 /\ wal[p] \in WalletRows
    /\ wal[p].version <= db["wallet"].version
    /\ wal[p].version = db["wallet"].version => wal[p] = db["wallet"]

\* Past the credit the wallet is held and has moved by the payout, if there is one.
WalletMoved(p) ==
  req[p].op = "wrapup" /\ pc[p] \in {"moral"} \cup Paying =>
    IF PayoutOf(p) > 0
    THEN /\ owner["wallet"] = p
         /\ pend["wallet"].balance = db["wallet"].balance + PayoutOf(p)
         /\ pend["wallet"].version = db["wallet"].version + 1
    ELSE owner["wallet"] # p

\* The heat read is still the committed one when it is written, and has moved by
\* the trampo's when it is published.
HeatMoved(p) ==
  req[p].op = "wrapup" =>
    /\ pc[p] = "upsert" => hot[p] = db["heat"]
    /\ pc[p] \in {"close", "commit"} => owner["heat"] = p /\ pend["heat"] = db["heat"] + HeatOf(p)

RequestInv(p) ==
  /\ OpFits(p) /\ LocksNamed(p) /\ OpensNew(p)
  /\ CharacterMoved(p) /\ WalFaithful(p) /\ WalletMoved(p) /\ HeatMoved(p)

IInv ==
  /\ TypeOK /\ PendingIsOwned /\ BooksBalance
  /\ \A p \in Proc : RequestInv(p)
-----------------------------------------------------------------------------
\* The initial state, and what every step leaves alone.

USE GigAssumption

LEMMA InitInv == Init => IInv
<1> SUFFICES ASSUME Init PROVE IInv
  OBVIOUS
<1> USE DEF Init, RcInit, Rows
<1>1. TypeOK
  BY DEF TypeOK, Characters, WalletRows, Zero, NoRequest
<1>2. PendingIsOwned /\ BooksBalance
  BY DEF PendingIsOwned, BooksBalance, PayoutsBanked, HeatAccounted, NilPaysForGigs
<1>3. ASSUME NEW p \in Proc
      PROVE  RequestInv(p)
  BY DEF RequestInv, OpFits, LocksNamed, OpensNew, CharacterMoved, WalFaithful, WalletMoved, HeatMoved, NoRequest, Paying
<1> QED
  BY <1>1, <1>2, <1>3 DEF IInv

\* A request that has begun asks for something.
LEMMA Asking ==
  ASSUME TypeOK, NEW p \in Proc, OpFits(p), pc[p] # "idle"
  PROVE  req[p] \in Requests /\ req[p].op \in Ops /\ req[p].gig \in Gig
  BY DEF TypeOK, OpFits, Requests

\* The fields of q that only q's own steps change.
Unmoved(q) ==
  /\ pc'[q] = pc[q] /\ req'[q] = req[q] /\ seen'[q] = seen[q]
  /\ chr'[q] = chr[q] /\ wal'[q] = wal[q] /\ hot'[q] = hot[q]

\* A step of another request leaves the rows q holds alone, publishes a later
\* version where it publishes a wallet, and no heat while q holds the character.
RowsOf(q) ==
  /\ \A r \in Rows : /\ owner'[r] = q <=> owner[r] = q
                     /\ owner[r] = q => db'[r] = db[r] /\ pend'[r] = pend[r]
  /\ owner["wallet"] # q =>
       db'["wallet"] = db["wallet"] \/ db'["wallet"].version > db["wallet"].version
  /\ owner["character"] = q => db'["heat"] = db["heat"]

LEMMA OthersKeep ==
  ASSUME TypeOK, TypeOK', NEW q \in Proc, RequestInv(q), Unmoved(q), RowsOf(q)
  PROVE  RequestInv(q)'
<1> USE DEF RequestInv, Unmoved
<1>r. /\ "gig" \in Rows /\ "character" \in Rows /\ "wallet" \in Rows /\ "heat" \in Rows
  BY DEF Rows
<1>1. OpFits(q)'
  BY DEF OpFits
<1>2. (LocksNamed(q) /\ OpensNew(q))'
  BY <1>r DEF LocksNamed, OpensNew, RowsOf
<1>3. CharacterMoved(q)'
  BY <1>r DEF CharacterMoved, RowsOf
<1>4. WalFaithful(q)'
  <2> SUFFICES ASSUME pc[q] = "credit"
               PROVE  WalFaithful(q)'
    BY DEF WalFaithful
  <2>1. owner["wallet"] # q
    BY DEF LocksNamed, Paying
  <2>2. /\ wal[q] \in WalletRows /\ db["wallet"] \in WalletRows /\ db'["wallet"] \in WalletRows
    BY DEF WalFaithful, TypeOK
  <2> QED
    BY <1>r, <2>1, <2>2 DEF WalFaithful, RowsOf, WalletRows, PayoutOf, Succeeded, Tongue
<1>5. WalletMoved(q)'
  BY <1>r DEF WalletMoved, RowsOf, PayoutOf, Succeeded, Tongue
<1>6. HeatMoved(q)'
  <2>1. req[q].op = "wrapup" /\ pc[q] = "upsert" => owner["character"] = q
    BY DEF CharacterMoved, Paying
  <2> QED
    BY <1>r, <2>1 DEF HeatMoved, RowsOf, HeatOf, Succeeded
<1> QED
  BY <1>1, <1>2, <1>3, <1>4, <1>5, <1>6

\* What is to show of a step of p.
LEMMA StepKeeps ==
  ASSUME IInv, NEW p \in Proc, TypeOK', PendingIsOwned', BooksBalance', RequestInv(p)',
         \A q \in Proc \ {p} : Unmoved(q) /\ RowsOf(q)
  PROVE  IInv'
<1>1. \A q \in Proc : RequestInv(q)'
  BY OthersKeep DEF IInv
<1> QED
  BY <1>1 DEF IInv

\* The rows stay, and p's own fields with them.
LEMMA LocalStep ==
  ASSUME IInv, NEW p \in Proc, UNCHANGED <<rcVars, hist, recent>>, TypeOK', RequestInv(p)',
         \A q \in Proc \ {p} : Unmoved(q)
  PROVE  IInv'
<1>1. \A q \in Proc \ {p} : RowsOf(q)
  BY DEF RowsOf, rcVars
<1>2. (PendingIsOwned /\ BooksBalance)'
  BY DEF IInv, rcVars, PendingIsOwned, BooksBalance, PayoutsBanked, HeatAccounted, NilPaysForGigs
<1> QED
  BY <1>1, <1>2, StepKeeps

\* A request that is over holds nothing.
LEMMA IdleInv ==
  ASSUME TypeOK', NEW p \in Proc, pc'[p] = "idle", req'[p] = NoRequest, \A r \in Rows : owner'[r] # p
  PROVE  RequestInv(p)'
  BY DEF RequestInv, OpFits, LocksNamed, OpensNew, CharacterMoved, WalFaithful, WalletMoved, HeatMoved,
         NoRequest, Paying, Rows, Requests, Ops

-----------------------------------------------------------------------------
\* Rolling back.

LEMMA RejectInv ==
  ASSUME IInv, NEW p \in Proc, Reject(p)
  PROVE  IInv'
<1> USE DEF Reject, Answered, Goto, Rollback, Released
<1>1. TypeOK'
  BY DEF IInv, TypeOK, Rows
<1>2. PendingIsOwned'
  BY DEF IInv, PendingIsOwned, TypeOK
<1>3. BooksBalance'
  BY DEF IInv, BooksBalance, PayoutsBanked, HeatAccounted, NilPaysForGigs
<1>4. \A q \in Proc \ {p} : Unmoved(q) /\ RowsOf(q)
  BY DEF IInv, TypeOK, Unmoved, RowsOf
<1>5. RequestInv(p)'
  <2>1. \A r \in Rows : owner'[r] # p
    BY DEF IInv, TypeOK
  <2> QED
    BY <1>1, <2>1, IdleInv DEF IInv, TypeOK
<1> QED
  BY <1>1, <1>2, <1>3, <1>4, <1>5, StepKeeps

-----------------------------------------------------------------------------
\* The reads and the local decisions.

\* Before its first write a request holds no row.
Reading == {"idle", "character", "active", "insert", "haul", "transition", "wallet", "credit"}

LEMMA ReadingHoldsNothing ==
  ASSUME IInv, NEW p \in Proc, pc[p] \in Reading
  PROVE  \A r \in Rows : owner[r] # p
  BY DEF IInv, RequestInv, LocksNamed, Rows, Reading, Paying

\* What a request may find in a row, its own version or the committed one.
LEMMA SeesTyped ==
  ASSUME IInv, NEW p \in Proc
  PROVE  /\ Sees(p, "gig") \in ActiveGigs \cup {NoRow}
         /\ Sees(p, "character") \in Characters
         /\ Sees(p, "character").nil >= 0 /\ Sees(p, "character").moral <= MaxMoral
         /\ Sees(p, "wallet") \in WalletRows
         /\ Sees(p, "heat") \in Nat
  BY DEF IInv, TypeOK, Sees, RequestInv, CharacterMoved

LEMMA StartInv ==
  ASSUME IInv, NEW p \in Proc, Start(p)
  PROVE  IInv'
<1>1. PICK r \in Requests :
        /\ req' = [req EXCEPT ![p] = r]
        /\ Goto(p, IF r.op \in {"accept", "legwork", "abandon"} THEN "character" ELSE "active")
  BY DEF Start
<1>2. UNCHANGED <<rcVars, hist, recent, seen, chr, wal, hot>> /\ pc[p] = "idle"
  BY DEF Start
<1>3. TypeOK'
  BY <1>1, <1>2 DEF IInv, TypeOK, Goto, rcVars
<1>4. \A q \in Proc \ {p} : Unmoved(q)
  BY <1>1, <1>2 DEF IInv, TypeOK, Goto, Unmoved
<1>5. \A s \in Rows : owner'[s] # p
  BY <1>2, ReadingHoldsNothing DEF Reading, rcVars
<1>6. RequestInv(p)'
  <2>1. pc'[p] \in {"character", "active"} /\ req'[p] = r /\ r.op \in Ops /\ r # NoRequest
    BY <1>1 DEF IInv, TypeOK, Goto, Requests, Ops, NoRequest
  <2>2. OpFits(p)'
    BY <1>1, <2>1 DEF IInv, TypeOK, OpFits, Goto, Ops, Paying
  <2> QED
    BY <1>5, <2>1, <2>2 DEF RequestInv, LocksNamed, OpensNew, CharacterMoved, WalFaithful, WalletMoved, HeatMoved, Rows, Paying
<1> QED
  BY <1>2, <1>3, <1>4, <1>6, LocalStep

LEMMA FindCharacterInv ==
  ASSUME IInv, NEW p \in Proc, FindCharacter(p)
  PROVE  IInv'
<1>1. CASE Reject(p)
  BY <1>1, RejectInv
<1>2. CASE ~Reject(p)
  <2>1. /\ pc[p] = "character"
        /\ chr' = [chr EXCEPT ![p] = Sees(p, "character")]
        /\ Goto(p, CASE req[p].op = "accept" -> "insert"
                     [] req[p].op \in {"legwork", "abandon"} -> "active"
                     [] req[p].op \in {"execute", "escape"} -> "transition"
                     [] req[p].op = "wrapup" -> "wallet")
        /\ UNCHANGED <<rcVars, hist, recent, req, seen, wal, hot>>
    BY <1>2 DEF FindCharacter
  <2>2. req[p] \in Requests /\ req[p].op \in Ops
    BY <2>1, Asking DEF IInv, RequestInv
  <2>3. /\ req[p].op = "accept" => pc'[p] = "insert"
        /\ req[p].op \in {"legwork", "abandon"} => pc'[p] = "active"
        /\ req[p].op \in {"execute", "escape"} => pc'[p] = "transition"
        /\ req[p].op = "wrapup" => pc'[p] = "wallet"
        /\ \A q \in Proc \ {p} : pc'[q] = pc[q]
        /\ pc' \in [Proc -> {"idle", "character", "active", "insert", "haul", "requirements",
                      "spend", "transition", "wallet", "credit", "moral", "heat",
                      "upsert", "close", "commit"}]
    BY <2>1, <2>2 DEF IInv, TypeOK, Goto, Ops
  <2>4. Sees(p, "character") \in Characters
    BY SeesTyped
  <2>5. TypeOK'
    BY <2>1, <2>3, <2>4 DEF IInv, TypeOK, rcVars
  <2>6. \A q \in Proc \ {p} : Unmoved(q)
    BY <2>1, <2>3 DEF IInv, TypeOK, Unmoved
  <2>7. \A s \in Rows : owner'[s] # p
    BY <2>1, ReadingHoldsNothing DEF Reading, rcVars
  <2>8. RequestInv(p)'
    <3>1. pc'[p] \in {"insert", "active", "transition", "wallet"} /\ req'[p] = req[p] /\ seen'[p] = seen[p]
          /\ chr'[p] = Sees(p, "character")
      BY <2>1, <2>2, <2>3 DEF IInv, TypeOK, Ops
    <3>2. OpFits(p)'
      BY <2>1, <2>2, <2>3, <2>4, <3>1 DEF IInv, OpFits, RequestInv, Ops, Paying
    <3> QED
      BY <2>7, <3>1, <3>2 DEF RequestInv, LocksNamed, OpensNew, CharacterMoved, WalFaithful, WalletMoved, HeatMoved, Rows, Paying
  <2> QED
    BY <2>1, <2>5, <2>6, <2>8, LocalStep
<1> QED
  BY <1>1, <1>2

LEMMA FindActiveGigInv ==
  ASSUME IInv, NEW p \in Proc, FindActiveGig(p)
  PROVE  IInv'
<1>1. CASE Reject(p)
  BY <1>1, RejectInv
<1>2. CASE ~Reject(p)
  <2>1. /\ pc[p] = "active"
        /\ Sees(p, "gig") # NoRow
        /\ seen' = [seen EXCEPT ![p] = Sees(p, "gig")]
        /\ Goto(p, CASE req[p].op = "legwork" -> "transition"
                     [] req[p].op = "abandon" -> "close"
                     [] OTHER -> "character")
        /\ UNCHANGED <<rcVars, hist, recent, req, chr, wal, hot>>
    BY <1>2 DEF FindActiveGig, MayAct
  <2>2. req[p] \in Requests /\ req[p].op \in Ops /\ req[p].op # "accept"
    BY <2>1, Asking DEF IInv, RequestInv, OpFits
  <2>3. /\ req[p].op = "legwork" => pc'[p] = "transition"
        /\ req[p].op = "abandon" => pc'[p] = "close"
        /\ req[p].op \notin {"legwork", "abandon"} => pc'[p] = "character"
        /\ \A q \in Proc \ {p} : pc'[q] = pc[q]
    BY <2>1 DEF IInv, TypeOK, Goto
  <2>4. TypeOK'
    BY <2>1, SeesTyped DEF IInv, TypeOK, Goto, rcVars
  <2>5. \A q \in Proc \ {p} : Unmoved(q)
    BY <2>1, <2>3 DEF IInv, TypeOK, Unmoved
  <2>6. \A s \in Rows : owner'[s] # p
    BY <2>1, ReadingHoldsNothing DEF Reading, rcVars
  <2>7. RequestInv(p)'
    <3>1. pc'[p] \in {"transition", "close", "character"} /\ req'[p] = req[p] /\ seen'[p] = Sees(p, "gig")
          /\ chr'[p] = chr[p]
      BY <2>1, <2>3 DEF IInv, TypeOK
    <3>2. OpFits(p)'
      BY <2>1, <2>2, <2>3, <3>1 DEF IInv, OpFits, RequestInv, Ops, Paying
    <3> QED
      BY <2>2, <2>3, <2>6, <3>1, <3>2 DEF RequestInv, LocksNamed, OpensNew, CharacterMoved, WalFaithful, WalletMoved, HeatMoved, Rows, Paying
  <2> QED
    BY <2>1, <2>4, <2>5, <2>7, LocalStep
<1> QED
  BY <1>1, <1>2

LEMMA CheckRequirementsInv ==
  ASSUME IInv, NEW p \in Proc, CheckRequirements(p)
  PROVE  IInv'
<1>1. CASE Reject(p)
  BY <1>1, RejectInv
<1>2. CASE ~Reject(p)
  <2>1. /\ pc[p] = "requirements" /\ Goto(p, "spend")
        /\ UNCHANGED <<rcVars, hist, recent, req, seen, chr, wal, hot>>
    BY <1>2 DEF CheckRequirements
  <2>2. TypeOK'
    BY <2>1 DEF IInv, TypeOK, Goto, rcVars
  <2>3. \A q \in Proc \ {p} : Unmoved(q)
    BY <2>1 DEF IInv, TypeOK, Goto, Unmoved
  <2>4. RequestInv(p)'
    BY <2>1 DEF IInv, TypeOK, Goto, rcVars, RequestInv, OpFits, LocksNamed, OpensNew, CharacterMoved,
                WalFaithful, WalletMoved, HeatMoved, Paying
  <2> QED
    BY <2>1, <2>2, <2>3, <2>4, LocalStep
<1> QED
  BY <1>1, <1>2

LEMMA ReadWalletInv ==
  ASSUME IInv, NEW p \in Proc, ReadWallet(p)
  PROVE  IInv'
<1>1. /\ pc[p] = "wallet" /\ wal' = [wal EXCEPT ![p] = Sees(p, "wallet")]
      /\ Goto(p, IF PayoutOf(p) > 0 THEN "credit" ELSE "moral")
      /\ UNCHANGED <<rcVars, hist, recent, req, seen, chr, hot>>
  BY DEF ReadWallet
<1>2. TypeOK'
  BY <1>1, SeesTyped DEF IInv, TypeOK, Goto, rcVars
<1>3. \A q \in Proc \ {p} : Unmoved(q)
  BY <1>1 DEF IInv, TypeOK, Goto, Unmoved
<1>4. RequestInv(p)'
  <2>1. /\ pc'[p] = IF PayoutOf(p) > 0 THEN "credit" ELSE "moral"
        /\ req'[p] = req[p] /\ seen'[p] = seen[p] /\ chr'[p] = chr[p] /\ req[p].op = "wrapup"
        /\ PayoutOf(p)' = PayoutOf(p)
    BY <1>1 DEF IInv, TypeOK, Goto, RequestInv, OpFits, PayoutOf, Succeeded, Tongue
  <2>2. \A s \in Rows : owner[s] # p /\ owner'[s] = owner[s]
    BY <1>1, ReadingHoldsNothing DEF Reading, rcVars
  <2>3. OpFits(p)'
    BY <1>1, <2>1 DEF IInv, RequestInv, OpFits, Paying
  <2>4. WalFaithful(p)'
    <3>1. wal'[p] = db["wallet"] /\ db'["wallet"] = db["wallet"] /\ db["wallet"] \in WalletRows
      BY <1>1, <2>2 DEF IInv, TypeOK, Sees, Rows, rcVars
    <3> QED
      BY <2>1, <3>1 DEF WalFaithful, WalletRows
  <2> QED
    BY <2>1, <2>2, <2>3, <2>4 DEF RequestInv, LocksNamed, OpensNew, CharacterMoved, WalletMoved, HeatMoved, Rows, Paying
<1> QED
  BY <1>1, <1>2, <1>3, <1>4, LocalStep

LEMMA ReadHeatInv ==
  ASSUME IInv, NEW p \in Proc, ReadHeat(p)
  PROVE  IInv'
<1>1. /\ pc[p] = "heat" /\ hot' = [hot EXCEPT ![p] = Sees(p, "heat")] /\ Goto(p, "upsert")
      /\ UNCHANGED <<rcVars, hist, recent, req, seen, chr, wal>>
  BY DEF ReadHeat
<1>2. TypeOK'
  BY <1>1, SeesTyped DEF IInv, TypeOK, Goto, rcVars
<1>3. \A q \in Proc \ {p} : Unmoved(q)
  BY <1>1 DEF IInv, TypeOK, Goto, Unmoved
<1>4. RequestInv(p)'
  <2>1. /\ pc'[p] = "upsert" /\ req'[p] = req[p] /\ seen'[p] = seen[p] /\ chr'[p] = chr[p]
        /\ PayoutOf(p)' = PayoutOf(p) /\ req[p].op = "wrapup"
        /\ owner' = owner /\ pend' = pend /\ db' = db
    BY <1>1 DEF IInv, TypeOK, Goto, RequestInv, OpFits, PayoutOf, Succeeded, Tongue, rcVars
  <2>2. hot'[p] = db'["heat"]
    <3>1. owner["heat"] # p
      BY <1>1 DEF IInv, RequestInv, LocksNamed
    <3> QED
      BY <1>1, <2>1, <3>1 DEF IInv, TypeOK, Sees
  <2> QED
    BY <1>1, <2>1, <2>2 DEF IInv, RequestInv, OpFits, LocksNamed, OpensNew, CharacterMoved, WalFaithful,
                            WalletMoved, HeatMoved, Paying
<1> QED
  BY <1>1, <1>2, <1>3, <1>4, LocalStep
-----------------------------------------------------------------------------
\* The writes.

LEMMA PutFacts ==
  ASSUME IInv, NEW p \in Proc, NEW r \in Rows, NEW v, Put(p, r, v)
  PROVE  /\ pend'[r] = v /\ owner'[r] = p /\ owner[r] \in {p, NoProc}
         /\ \A s \in Rows \ {r} : pend'[s] = pend[s] /\ owner'[s] = owner[s]
         /\ db' = db /\ DOMAIN pend' = Rows /\ owner' \in [Rows -> Proc \cup {NoProc}]
  BY DEF IInv, TypeOK, Put, CanLock

LEMMA PutStep ==
  ASSUME IInv, NEW p \in Proc, NEW r \in Rows, NEW v, Put(p, r, v), UNCHANGED hist,
         TypeOK', RequestInv(p)', \A q \in Proc \ {p} : Unmoved(q)
  PROVE  IInv'
<1>1. /\ pend'[r] = v /\ owner'[r] = p /\ owner[r] \in {p, NoProc}
      /\ \A s \in Rows \ {r} : pend'[s] = pend[s] /\ owner'[s] = owner[s]
      /\ db' = db
  BY PutFacts
<1>2. \A q \in Proc \ {p} : RowsOf(q)
  BY <1>1 DEF RowsOf
<1>3. PendingIsOwned'
  BY <1>1 DEF IInv, TypeOK, PendingIsOwned
<1>4. BooksBalance'
  BY <1>1 DEF IInv, BooksBalance, PayoutsBanked, HeatAccounted, NilPaysForGigs
<1> QED
  BY <1>2, <1>3, <1>4, StepKeeps

LEMMA OpenActiveGigInv ==
  ASSUME IInv, NEW p \in Proc, OpenActiveGig(p)
  PROVE  IInv'
<1>o. req[p] \in Requests /\ req[p].gig \in Gig /\ req[p].op = "accept" /\ pc[p] = "insert"
      /\ chr[p] \in Characters
  BY Asking DEF IInv, RequestInv, OpFits, OpenActiveGig
<1>h. \A s \in Rows : owner[s] # p
  BY <1>o, ReadingHoldsNothing DEF Reading
<1>1. CASE Reject(p)
  BY <1>1, RejectInv
<1>2. ASSUME Goto(p, "haul"), UNCHANGED <<rcVars, hist, recent, req, seen, chr, wal, hot>>
      PROVE  IInv'
  <2>2. TypeOK'
    BY <1>2 DEF IInv, TypeOK, Goto, rcVars
  <2>3. \A q \in Proc \ {p} : Unmoved(q)
    BY <1>2 DEF IInv, TypeOK, Goto, Unmoved
  <2>4. pc'[p] = "haul" /\ req'[p] = req[p] /\ chr'[p] = chr[p] /\ owner' = owner
    BY <1>2 DEF IInv, TypeOK, Goto, rcVars
  <2>5. RequestInv(p)'
    BY <1>o, <1>h, <2>4 DEF IInv, RequestInv, OpFits, LocksNamed, OpensNew, CharacterMoved,
                WalFaithful, WalletMoved, HeatMoved, Paying, Rows
  <2> QED
    BY <1>2, <2>2, <2>3, <2>5, LocalStep
<1>3. ASSUME Sees(p, "gig") = NoRow, Goto(p, "requirements"),
             Put(p, "gig", [id |-> hist.total + 1, gig |-> req[p].gig, phase |-> "meet",
                          legwork |-> FALSE, outcome |-> "none"]),
             UNCHANGED <<hist, recent, req, seen, chr, wal, hot>>
      PROVE  IInv'
  <2> DEFINE v == [id |-> hist.total + 1, gig |-> req[p].gig, phase |-> "meet",
                   legwork |-> FALSE, outcome |-> "none"]
  <2>1. v \in ActiveGigs
    BY <1>o DEF IInv, TypeOK, ActiveGigs, Phases
  <2> HIDE DEF v
  <2>2. Put(p, "gig", v) /\ "gig" \in Rows
    BY <1>3 DEF v, Rows
  <2>3. /\ pend'["gig"] = v /\ owner'["gig"] = p
        /\ \A s \in Rows \ {"gig"} : pend'[s] = pend[s] /\ owner'[s] = owner[s]
        /\ db' = db /\ DOMAIN pend' = Rows /\ owner' \in [Rows -> Proc \cup {NoProc}]
    BY <2>2, PutFacts
  <2>4. TypeOK'
    BY <1>3, <2>1, <2>3 DEF IInv, TypeOK, Goto, Rows
  <2>5. \A q \in Proc \ {p} : Unmoved(q)
    BY <1>3 DEF IInv, TypeOK, Goto, Unmoved
  <2>6. RequestInv(p)'
    <3>1. pc'[p] = "requirements" /\ req'[p] = req[p] /\ chr'[p] = chr[p]
      BY <1>3 DEF IInv, TypeOK, Goto
    <3>2. db'["gig"] = NoRow
      BY <1>3, <1>h, <2>3 DEF Sees, Rows
    <3>3. \A s \in Rows \ {"gig"} : owner'[s] # p
      BY <1>h, <2>3
    <3> QED
      BY <1>o, <3>1, <3>2, <3>3 DEF IInv, RequestInv, OpFits, LocksNamed, OpensNew, CharacterMoved,
                WalFaithful, WalletMoved, HeatMoved, Paying, Rows
  <2> QED
    BY <1>3, <2>2, <2>4, <2>5, <2>6, PutStep
<1> QED
  BY <1>1, <1>2, <1>3 DEF OpenActiveGig

LEMMA SpendNilInv ==
  ASSUME IInv, NEW p \in Proc, SpendNil(p)
  PROVE  IInv'
<1>1. CASE Reject(p)
  BY <1>1, RejectInv
<1>2. CASE ~Reject(p)
  <2> DEFINE c == Sees(p, "character")
             v == [c EXCEPT !.nil = NilAfter(p, c)]
  <2>1. /\ pc[p] = "spend" /\ NilCovers(p, c) /\ Put(p, "character", v) /\ Goto(p, "commit")
        /\ UNCHANGED <<hist, recent, req, seen, chr, wal, hot>>
    BY <1>2 DEF SpendNil
  <2>2. req[p] \in Requests /\ req[p].gig \in Gig /\ req[p].op = "accept" /\ chr[p] \in Characters
    BY <2>1, Asking DEF IInv, RequestInv, OpFits
  <2>3. owner["character"] # p /\ owner["wallet"] # p /\ owner["heat"] # p
    BY <2>1, <2>2 DEF IInv, RequestInv, LocksNamed, Paying
  <2>4. c = db["character"] /\ c \in Characters
    BY <2>3 DEF IInv, TypeOK, Sees
  <2>5. /\ v \in Characters /\ v.flat = db["character"].flat
        /\ v.nil = db["character"].nil - Cost[req[p].gig] /\ v.nil >= 0
        /\ v.moral = db["character"].moral
    <3> HIDE DEF c
    <3>1. NilAfter(p, c) = c.nil - Cost[req[p].gig] /\ NilAfter(p, c) >= 0 /\ NilAfter(p, c) \in Int
      BY <2>1, <2>2, <2>4 DEF Characters, NilAfter, NilCovers
    <3> QED
      BY <2>4, <3>1 DEF Characters
  <2> HIDE DEF v
  <2>6. /\ pend'["character"] = v /\ owner'["character"] = p
        /\ \A s \in Rows \ {"character"} : pend'[s] = pend[s] /\ owner'[s] = owner[s]
        /\ db' = db /\ DOMAIN pend' = Rows /\ owner' \in [Rows -> Proc \cup {NoProc}]
    BY <2>1, PutFacts DEF Rows
  <2>7. TypeOK'
    BY <2>1, <2>5, <2>6 DEF IInv, TypeOK, Goto, Rows
  <2>8. \A q \in Proc \ {p} : Unmoved(q)
    BY <2>1 DEF IInv, TypeOK, Goto, Unmoved
  <2>9. RequestInv(p)'
    <3>1. pc'[p] = "commit" /\ req'[p] = req[p] /\ chr'[p] = chr[p]
      BY <2>1 DEF IInv, TypeOK, Goto
    <3>2. /\ owner'["gig"] = owner["gig"] /\ owner'["wallet"] # p /\ owner'["heat"] # p
      BY <2>3, <2>6 DEF Rows
    <3>3. CharacterMoved(p)'
      BY <2>2, <2>5, <2>6, <3>1 DEF CharacterMoved, IInv, TypeOK
    <3> QED
      BY <2>1, <2>2, <2>6, <3>1, <3>2, <3>3 DEF IInv, RequestInv, OpFits, LocksNamed, OpensNew,
                WalFaithful, WalletMoved, HeatMoved, Paying
  <2> QED
    BY <2>1, <2>7, <2>8, <2>9, PutStep DEF Rows
<1> QED
  BY <1>1, <1>2

LEMMA TransitionActiveGigInv ==
  ASSUME IInv, NEW p \in Proc, TransitionActiveGig(p)
  PROVE  IInv'
<1>1. /\ pc[p] = "transition" /\ Goto(p, "commit")
      /\ UNCHANGED <<hist, recent, req, seen, chr, wal, hot>>
  BY DEF TransitionActiveGig
<1>2. req[p] \in Requests /\ req[p].op \in {"legwork", "execute", "escape"} /\ seen[p] # NoRow
  BY <1>1, Asking DEF IInv, RequestInv, OpFits
<1>h. \A s \in Rows : owner[s] # p
  BY <1>1, ReadingHoldsNothing DEF Reading
<1>3. \A q \in Proc \ {p} : Unmoved(q)
  BY <1>1 DEF IInv, TypeOK, Goto, Unmoved
<1>4. pc'[p] = "commit" /\ req'[p] = req[p]
  BY <1>1 DEF IInv, TypeOK, Goto
<1>5. CASE UNCHANGED rcVars
  <2>1. TypeOK'
    BY <1>1, <1>5 DEF IInv, TypeOK, Goto, rcVars
  <2>2. RequestInv(p)'
    BY <1>2, <1>4, <1>5, <1>h DEF RequestInv, OpFits, LocksNamed, OpensNew, CharacterMoved,
           WalFaithful, WalletMoved, HeatMoved, Paying, Rows, rcVars, NoRequest, Requests
  <2> QED
    BY <1>1, <1>3, <1>5, <2>1, <2>2, LocalStep
<1>6. ASSUME StillThere(p), NEW a \in Patched(p, Sees(p, "gig")), Put(p, "gig", a)
      PROVE  IInv'
  <2>1. Sees(p, "gig") \in ActiveGigs
    BY <1>6, SeesTyped DEF StillThere
  <2>2. a \in ActiveGigs
    <3> DEFINE b == Sees(p, "gig")
    <3>1. b \in ActiveGigs /\ a \in Patched(p, b)
      BY <1>6, <2>1
    <3> HIDE DEF b
    <3>2. CASE req[p].op = "legwork"
      BY <3>1, <3>2 DEF Patched, ActiveGigs, Phases
    <3>3. CASE req[p].op = "execute"
      <4>1. PICK o \in {"success", "failure"} :
              a = [b EXCEPT !.phase = "execute", !.legwork = (seen[p].phase = "legwork"), !.outcome = o]
        BY <3>1, <3>3 DEF Patched
      <4> QED
        BY <3>1, <4>1 DEF ActiveGigs, Phases
    <3>4. CASE req[p].op = "escape"
      BY <3>1, <3>4 DEF Patched, ActiveGigs, Phases
    <3> QED
      BY <1>2, <3>2, <3>3, <3>4
  <2>3. /\ pend'["gig"] = a /\ owner'["gig"] = p
        /\ \A s \in Rows \ {"gig"} : pend'[s] = pend[s] /\ owner'[s] = owner[s]
        /\ db' = db /\ DOMAIN pend' = Rows /\ owner' \in [Rows -> Proc \cup {NoProc}]
    BY <1>6, PutFacts DEF Rows
  <2>4. TypeOK'
    BY <1>1, <2>2, <2>3 DEF IInv, TypeOK, Goto, Rows
  <2>5. RequestInv(p)'
    <3>1. \A s \in Rows \ {"gig"} : owner'[s] # p
      BY <1>h, <2>3
    <3> QED
      BY <1>2, <1>4, <3>1 DEF RequestInv, OpFits, LocksNamed, OpensNew, CharacterMoved,
           WalFaithful, WalletMoved, HeatMoved, Paying, Rows, NoRequest, Requests
  <2> QED
    BY <1>1, <1>3, <1>6, <2>4, <2>5, PutStep DEF Rows
<1> QED
  BY <1>5, <1>6 DEF TransitionActiveGig

LEMMA PayoutTyped ==
  ASSUME IInv, NEW p \in Proc, req[p].op = "wrapup", pc[p] \in {"credit", "moral"} \cup Paying
  PROVE  /\ req[p] \in Requests /\ req[p].gig \in Gig /\ seen[p] \in ActiveGigs /\ chr[p] \in Characters
         /\ PayoutOf(p) \in Nat /\ HeatOf(p) \in Nat
<1>1. /\ req[p] \in Requests /\ req[p].gig \in Gig /\ seen[p] \in ActiveGigs /\ chr[p] \in Characters
  BY Asking DEF IInv, RequestInv, OpFits, Paying, TypeOK
<1>2. seen[p].legwork \in BOOLEAN /\ Tongue(p) \in BOOLEAN
  BY <1>1 DEF ActiveGigs, Tongue
<1>3. PayoutOf(p) \in Nat
  <2> HIDE DEF Tongue
  <2>1. Payout[req[p].gig][seen[p].legwork][Tongue(p)] \in Nat
    BY <1>1, <1>2
  <2> QED
    BY <2>1 DEF PayoutOf
<1>4. HeatOf(p) \in Nat
  <2>1. Heat[req[p].gig] \in Nat
    BY <1>1
  <2> QED
    BY <2>1 DEF HeatOf
<1> QED
  BY <1>1, <1>3, <1>4

LEMMA CreditWalletInv ==
  ASSUME IInv, NEW p \in Proc, CreditWallet(p)
  PROVE  IInv'
<1>1. CASE Reject(p)
  BY <1>1, RejectInv
<1>2. CASE ~Reject(p)
  <2> DEFINE v == [balance |-> wal[p].balance + PayoutOf(p), version |-> wal[p].version + 1]
  <2>1. /\ pc[p] = "credit" /\ VersionMatches(p, Sees(p, "wallet")) /\ Put(p, "wallet", v)
        /\ Goto(p, "moral") /\ UNCHANGED <<hist, recent, req, seen, chr, wal, hot>>
    BY <1>2 DEF CreditWallet
  <2>2. /\ req[p].op = "wrapup" /\ req[p] \in Requests /\ PayoutOf(p) \in Nat /\ seen[p] # NoRow
        /\ chr[p] \in Characters
    <3>1. req[p].op = "wrapup"
      BY <2>1 DEF IInv, RequestInv, OpFits
    <3> QED
      BY <2>1, <3>1, PayoutTyped DEF IInv, RequestInv, OpFits
  <2>3. \A s \in Rows : owner[s] # p
    BY <2>1, ReadingHoldsNothing DEF Reading
  <2>4. wal[p] = db["wallet"] /\ db["wallet"] \in WalletRows
    BY <2>1, <2>3 DEF IInv, TypeOK, RequestInv, WalFaithful, VersionMatches, Sees, Rows
  <2>5. /\ v \in WalletRows
        /\ v.balance = db["wallet"].balance + PayoutOf(p) /\ v.version = db["wallet"].version + 1
    BY <2>2, <2>4 DEF WalletRows
  <2> HIDE DEF v
  <2>6. /\ pend'["wallet"] = v /\ owner'["wallet"] = p
        /\ \A s \in Rows \ {"wallet"} : pend'[s] = pend[s] /\ owner'[s] = owner[s]
        /\ db' = db /\ DOMAIN pend' = Rows /\ owner' \in [Rows -> Proc \cup {NoProc}]
    BY <2>1, PutFacts DEF Rows
  <2>7. TypeOK'
    BY <2>1, <2>5, <2>6 DEF IInv, TypeOK, Goto, Rows
  <2>8. \A q \in Proc \ {p} : Unmoved(q)
    BY <2>1 DEF IInv, TypeOK, Goto, Unmoved
  <2>9. RequestInv(p)'
    <3>1. /\ pc'[p] = "moral" /\ req'[p] = req[p] /\ chr'[p] = chr[p] /\ seen'[p] = seen[p]
          /\ PayoutOf(p)' = PayoutOf(p)
      BY <2>1 DEF IInv, TypeOK, Goto, PayoutOf, Succeeded, Tongue
    <3>2. \A s \in Rows \ {"wallet"} : owner'[s] # p
      BY <2>3, <2>6
    <3>3. PayoutOf(p) > 0
      BY <2>1 DEF IInv, RequestInv, WalFaithful
    <3>4. WalletMoved(p)'
      BY <2>5, <2>6, <3>1, <3>3 DEF WalletMoved
    <3> QED
      BY <2>2, <3>1, <3>2, <3>4 DEF RequestInv, OpFits, LocksNamed, OpensNew, CharacterMoved,
           WalFaithful, HeatMoved, Paying, Rows, NoRequest, Requests
  <2> QED
    BY <2>1, <2>7, <2>8, <2>9, PutStep DEF Rows
<1> QED
  BY <1>1, <1>2

LEMMA GrantMoralInv ==
  ASSUME IInv, NEW p \in Proc, GrantMoral(p)
  PROVE  IInv'
<1>1. /\ pc[p] = "moral" /\ Goto(p, "heat") /\ UNCHANGED <<hist, recent, req, seen, chr, wal, hot>>
  BY DEF GrantMoral
<1>2. /\ req[p].op = "wrapup" /\ req[p] \in Requests /\ seen[p] # NoRow /\ chr[p] \in Characters
  <2>1. req[p].op = "wrapup"
    BY <1>1 DEF IInv, RequestInv, OpFits
  <2> QED
    BY <1>1, <2>1, PayoutTyped DEF IInv, RequestInv, OpFits
<1> DEFINE c == Sees(p, "character")
<1>3. PICK gain \in IF Succeeded(p) THEN Gain[Tongue(p)] ELSE {0} :
        MoralWritten(p, c, Clamped(chr[p].moral + gain))
  BY DEF GrantMoral
<1>4. gain \in Nat
  <2>1. Tongue(p) \in BOOLEAN
    BY DEF Tongue
  <2> HIDE DEF Tongue
  <2>2. Gain[Tongue(p)] \subseteq Nat
    BY <2>1
  <2> QED
    BY <1>3, <2>2
<1> DEFINE m == Clamped(chr[p].moral + gain)
           v == [c EXCEPT !.moral = m, !.max = NewMax(c, m), !.power = IF Tongue(p) THEN "none" ELSE @]
<1>5. m \in Nat /\ m <= MaxMoral
  BY <1>2, <1>4 DEF Clamped, Characters
<1>6. Put(p, "character", v)
  BY <1>3 DEF MoralWritten
<1>7. owner["gig"] # p /\ owner["character"] # p /\ owner["heat"] # p
  BY <1>1, <1>2 DEF IInv, RequestInv, LocksNamed, Paying
<1>8. c = db["character"] /\ c \in Characters
  BY <1>7 DEF IInv, TypeOK, Sees
<1> HIDE DEF c, m
<1>9. /\ v \in Characters /\ v.flat = c.flat /\ v.nil = c.nil /\ v.moral = m
  <2>1. NewMax(c, m) \in Nat
    BY <1>5, <1>8 DEF NewMax, Characters
  <2> HIDE DEF NewMax
  <2> QED
    BY <1>5, <1>8, <2>1 DEF Characters
<1> HIDE DEF v
<1>10. /\ pend'["character"] = v /\ owner'["character"] = p
       /\ \A s \in Rows \ {"character"} : pend'[s] = pend[s] /\ owner'[s] = owner[s]
       /\ db' = db /\ DOMAIN pend' = Rows /\ owner' \in [Rows -> Proc \cup {NoProc}]
  BY <1>6, PutFacts DEF Rows
<1>11. TypeOK'
  BY <1>1, <1>9, <1>10 DEF IInv, TypeOK, Goto, Rows
<1>12. \A q \in Proc \ {p} : Unmoved(q)
  BY <1>1 DEF IInv, TypeOK, Goto, Unmoved
<1>13. RequestInv(p)'
  <2>1. /\ pc'[p] = "heat" /\ req'[p] = req[p] /\ chr'[p] = chr[p] /\ seen'[p] = seen[p]
        /\ PayoutOf(p)' = PayoutOf(p)
    BY <1>1 DEF IInv, TypeOK, Goto, PayoutOf, Succeeded, Tongue
  <2>2. /\ owner'["gig"] # p /\ owner'["heat"] # p /\ owner'["wallet"] = owner["wallet"]
        /\ pend'["wallet"] = pend["wallet"]
    BY <1>7, <1>10 DEF Rows
  <2>3. CharacterMoved(p)'
    <3>1. db["character"].nil \in Int /\ db["character"].nil >= 0
      BY DEF IInv, TypeOK, Characters
    <3> QED
      BY <1>2, <1>5, <1>8, <1>9, <1>10, <2>1, <3>1 DEF CharacterMoved
  <2>4. WalletMoved(p)'
    BY <1>1, <1>2, <1>10, <2>1, <2>2 DEF IInv, RequestInv, WalletMoved
  <2> QED
    BY <1>1, <1>2, <2>1, <2>2, <2>3, <2>4 DEF IInv, RequestInv, OpFits, LocksNamed, OpensNew,
           WalFaithful, HeatMoved, Paying, Rows, NoRequest, Requests
<1> QED
  BY <1>1, <1>6, <1>11, <1>12, <1>13, PutStep DEF Rows

LEMMA UpsertHeatInv ==
  ASSUME IInv, NEW p \in Proc, UpsertHeat(p)
  PROVE  IInv'
<1> DEFINE v == hot[p] + HeatOf(p)
<1>1. /\ pc[p] = "upsert" /\ Put(p, "heat", v) /\ Goto(p, "close")
      /\ UNCHANGED <<hist, recent, req, seen, chr, wal, hot>>
  BY DEF UpsertHeat
<1>2. /\ req[p].op = "wrapup" /\ req[p] \in Requests /\ seen[p] # NoRow /\ chr[p] \in Characters
      /\ HeatOf(p) \in Nat /\ hot[p] = db["heat"]
  <2>1. req[p].op = "wrapup"
    BY <1>1 DEF IInv, RequestInv, OpFits
  <2> QED
    BY <1>1, <2>1, PayoutTyped DEF IInv, RequestInv, OpFits, HeatMoved, Paying
<1>3. v \in Nat /\ v = db["heat"] + HeatOf(p)
  BY <1>2 DEF IInv, TypeOK
<1> HIDE DEF v
<1>4. /\ pend'["heat"] = v /\ owner'["heat"] = p
      /\ \A s \in Rows \ {"heat"} : pend'[s] = pend[s] /\ owner'[s] = owner[s]
      /\ db' = db /\ DOMAIN pend' = Rows /\ owner' \in [Rows -> Proc \cup {NoProc}]
  BY <1>1, PutFacts DEF Rows
<1>5. TypeOK'
  BY <1>1, <1>3, <1>4 DEF IInv, TypeOK, Goto, Rows
<1>6. \A q \in Proc \ {p} : Unmoved(q)
  BY <1>1 DEF IInv, TypeOK, Goto, Unmoved
<1>7. RequestInv(p)'
  <2>1. /\ pc'[p] = "close" /\ req'[p] = req[p] /\ chr'[p] = chr[p] /\ seen'[p] = seen[p]
        /\ PayoutOf(p)' = PayoutOf(p) /\ HeatOf(p)' = HeatOf(p)
    BY <1>1 DEF IInv, TypeOK, Goto, PayoutOf, HeatOf, Succeeded, Tongue
  <2>2. /\ owner'["gig"] = owner["gig"] /\ owner'["wallet"] = owner["wallet"]
        /\ owner'["character"] = owner["character"]
        /\ pend'["wallet"] = pend["wallet"] /\ pend'["character"] = pend["character"]
    BY <1>4 DEF Rows
  <2>3. (CharacterMoved(p) /\ WalletMoved(p))'
    BY <1>1, <1>2, <1>4, <2>1, <2>2 DEF IInv, RequestInv, WalletMoved, CharacterMoved, Paying
  <2>4. HeatMoved(p)'
    BY <1>3, <1>4, <2>1 DEF HeatMoved
  <2> QED
    BY <1>1, <1>2, <2>1, <2>2, <2>3, <2>4 DEF IInv, RequestInv, OpFits, LocksNamed, OpensNew,
           WalFaithful, Paying, Rows, NoRequest, Requests
<1> QED
  BY <1>1, <1>5, <1>6, <1>7, PutStep DEF Rows

LEMMA CloseActiveGigInv ==
  ASSUME IInv, NEW p \in Proc, CloseActiveGig(p)
  PROVE  IInv'
<1>1. /\ pc[p] = "close" /\ Goto(p, "commit") /\ UNCHANGED <<hist, recent, req, seen, chr, wal, hot>>
  BY DEF CloseActiveGig
<1>2. req[p] \in Requests /\ req[p].op \in {"wrapup", "abandon"}
  BY <1>1, Asking DEF IInv, RequestInv, OpFits
<1>3. \A q \in Proc \ {p} : Unmoved(q)
  BY <1>1 DEF IInv, TypeOK, Goto, Unmoved
<1>4. /\ pc'[p] = "commit" /\ req'[p] = req[p] /\ chr'[p] = chr[p] /\ seen'[p] = seen[p]
      /\ PayoutOf(p)' = PayoutOf(p) /\ HeatOf(p)' = HeatOf(p)
  BY <1>1 DEF IInv, TypeOK, Goto, PayoutOf, HeatOf, Succeeded, Tongue
<1>5. ASSUME \A s \in Rows \ {"gig"} : owner'[s] = owner[s] /\ pend'[s] = pend[s], db' = db
      PROVE  RequestInv(p)'
  <2>1. /\ owner'["wallet"] = owner["wallet"] /\ owner'["character"] = owner["character"]
        /\ owner'["heat"] = owner["heat"] /\ pend'["wallet"] = pend["wallet"]
        /\ pend'["character"] = pend["character"] /\ pend'["heat"] = pend["heat"]
    BY <1>5 DEF Rows
  <2>2. (CharacterMoved(p) /\ WalletMoved(p) /\ HeatMoved(p))'
    BY <1>1, <1>2, <1>4, <1>5, <2>1 DEF IInv, RequestInv, WalletMoved, CharacterMoved, HeatMoved, Paying
  <2> QED
    BY <1>1, <1>2, <1>4, <2>1, <2>2 DEF IInv, RequestInv, OpFits, LocksNamed, OpensNew,
           WalFaithful, Paying, NoRequest, Requests
<1>6. CASE UNCHANGED rcVars
  <2>1. TypeOK'
    BY <1>1, <1>6 DEF IInv, TypeOK, Goto, rcVars
  <2> QED
    BY <1>1, <1>3, <1>5, <1>6, <2>1, LocalStep DEF rcVars
<1>7. CASE Put(p, "gig", NoRow)
  <2>1. /\ pend'["gig"] = NoRow
        /\ \A s \in Rows \ {"gig"} : pend'[s] = pend[s] /\ owner'[s] = owner[s]
        /\ db' = db /\ DOMAIN pend' = Rows /\ owner' \in [Rows -> Proc \cup {NoProc}]
    BY <1>7, PutFacts DEF Rows
  <2>2. TypeOK'
    BY <1>1, <2>1 DEF IInv, TypeOK, Goto, Rows
  <2> QED
    BY <1>1, <1>3, <1>5, <1>7, <2>1, <2>2, PutStep DEF Rows
<1> QED
  BY <1>6, <1>7 DEF CloseActiveGig
-----------------------------------------------------------------------------
\* The commit.

\* The totals of gig_history.
Histories == [total : Nat, nil : Nat, opened : [Gig -> Nat], completed : [Gig -> Nat],
              abandoned : [Gig -> Nat], paid : [Gig -> Nat], payout : Nat, moral : Int, heat : Nat]

LEMMA CommitRequestInv ==
  ASSUME IInv, NEW p \in Proc, CommitRequest(p)
  PROVE  IInv'
<1> DEFINE g == req[p].gig
<1>1. pc[p] = "commit" /\ Commit(p) /\ Answered(p)
  BY DEF CommitRequest
<1>2. req[p] \in Requests /\ g \in Gig /\ req[p].op \in Ops
  BY <1>1, Asking DEF IInv, RequestInv
<1>3. /\ req[p].op = "accept" =>
            hist' = [hist EXCEPT !.total = @ + 1, !.nil = @ + Cost[g], !.opened[g] = @ + 1]
      /\ req[p].op = "wrapup" =>
            hist' = [hist EXCEPT !.completed[g] = @ + 1, !.payout = @ + PayoutOf(p),
                                 !.paid[g] = @ + (IF PayoutOf(p) > 0 THEN 1 ELSE 0),
                                 !.moral = @ + Granted(p), !.heat = @ + HeatOf(p)]
      /\ req[p].op = "abandon" => hist' = [hist EXCEPT !.abandoned[g] = @ + 1]
      /\ req[p].op \in {"legwork", "execute", "escape"} => hist' = hist
      /\ recent' = IF req[p].op = "wrapup" THEN recent \cup {g} ELSE recent
  BY <1>2 DEF CommitRequest, Ops
<1>4. /\ \A r \in Rows : db'[r] = (IF owner[r] = p THEN pend[r] ELSE db[r])
      /\ \A r \in Rows : owner'[r] = (IF owner[r] = p THEN NoProc ELSE owner[r])
      /\ DOMAIN db' = Rows /\ owner' \in [Rows -> Proc \cup {NoProc}] /\ pend' = pend
  BY <1>1 DEF IInv, TypeOK, Commit, Released, Sees
<1>5. /\ pc'[p] = "idle" /\ req'[p] = NoRequest
      /\ \A q \in Proc \ {p} : Unmoved(q)
  BY <1>1 DEF IInv, TypeOK, Answered, Goto, Unmoved
<1>6. /\ req[p].op = "accept" => Cost[g] \in Nat
      /\ req[p].op = "wrapup" => PayoutOf(p) \in Nat /\ HeatOf(p) \in Nat /\ Granted(p) \in Int
  <2>1. req[p].op = "wrapup" => PayoutOf(p) \in Nat /\ HeatOf(p) \in Nat /\ chr[p] \in Characters
    BY <1>1, PayoutTyped DEF Paying
  <2>2. pend["character"].moral \in Nat
    BY DEF IInv, TypeOK, Characters
  <2> QED
    BY <1>2, <2>1, <2>2 DEF Granted, Characters
\* What each operation does to the totals.
<1> HIDE DEF g
<1>7. /\ hist' \in Histories
      /\ hist'.payout = hist.payout + (IF req[p].op = "wrapup" THEN PayoutOf(p) ELSE 0)
      /\ hist'.heat = hist.heat + (IF req[p].op = "wrapup" THEN HeatOf(p) ELSE 0)
      /\ hist'.nil = hist.nil + (IF req[p].op = "accept" THEN Cost[g] ELSE 0)
  <2>0. /\ hist \in Histories /\ hist.total \in Nat /\ hist.nil \in Nat /\ hist.opened \in [Gig -> Nat]
        /\ hist.completed \in [Gig -> Nat] /\ hist.abandoned \in [Gig -> Nat] /\ hist.paid \in [Gig -> Nat]
        /\ hist.payout \in Nat /\ hist.moral \in Int /\ hist.heat \in Nat
    BY DEF IInv, TypeOK, Histories
  <2> HIDE DEF PayoutOf, HeatOf, Granted
  <2>1. CASE req[p].op = "accept"
    <3> DEFINE n == hist.nil + Cost[g]
               o == [hist.opened EXCEPT ![g] = hist.opened[g] + 1]
    <3>1. hist' = [hist EXCEPT !.total = hist.total + 1, !.nil = n, !.opened = o]
      BY <1>3, <2>1
    <3>2. n \in Nat /\ o \in [Gig -> Nat] /\ hist.total + 1 \in Nat
      BY <1>2, <1>6, <2>0, <2>1
    <3>3. hist' \in Histories /\ hist'.nil = n /\ hist'.payout = hist.payout /\ hist'.heat = hist.heat
      <4> HIDE DEF n, o
      <4> QED
        BY <2>0, <3>1, <3>2 DEF Histories
    <3> QED
      BY <2>0, <2>1, <3>3
  <2>2. CASE req[p].op = "wrapup"
    <3> DEFINE c == [hist.completed EXCEPT ![g] = hist.completed[g] + 1]
               b == hist.payout + PayoutOf(p)
               d == [hist.paid EXCEPT ![g] = hist.paid[g] + (IF PayoutOf(p) > 0 THEN 1 ELSE 0)]
               m == hist.moral + Granted(p)
               h == hist.heat + HeatOf(p)
    <3>1. hist' = [hist EXCEPT !.completed = c, !.payout = b, !.paid = d, !.moral = m, !.heat = h]
      BY <1>3, <2>2
    <3>2. c \in [Gig -> Nat] /\ d \in [Gig -> Nat]
      BY <1>2, <2>0
    <3>3. b \in Nat /\ m \in Int /\ h \in Nat
      BY <1>6, <2>0, <2>2
    <3>4. hist' \in Histories /\ hist'.nil = hist.nil /\ hist'.payout = b /\ hist'.heat = h
      <4> HIDE DEF c, b, d, m, h
      <4> QED
        BY <2>0, <3>1, <3>2, <3>3 DEF Histories
    <3> QED
      BY <2>0, <2>2, <3>4
  <2>3. CASE req[p].op = "abandon"
    <3> DEFINE d == [hist.abandoned EXCEPT ![g] = hist.abandoned[g] + 1]
    <3>1. hist' = [hist EXCEPT !.abandoned = d]
      BY <1>3, <2>3
    <3>2. d \in [Gig -> Nat]
      BY <1>2, <2>0
    <3>3. hist' \in Histories /\ hist'.nil = hist.nil /\ hist'.payout = hist.payout /\ hist'.heat = hist.heat
      <4> HIDE DEF d
      <4> QED
        BY <2>0, <3>1, <3>2 DEF Histories
    <3> QED
      BY <2>0, <2>3, <3>3
  <2>4. CASE req[p].op \in {"legwork", "execute", "escape"}
    BY <1>3, <2>0, <2>4
  <2> QED
    BY <1>2, <2>1, <2>2, <2>3, <2>4 DEF Ops
\* What each operation publishes.
<1>8. /\ db'["character"].flat = db["character"].flat
      /\ db'["character"].nil = db["character"].nil - (IF req[p].op = "accept" THEN Cost[g] ELSE 0)
  <2>1. owner["character"] = p <=> req[p].op \in {"accept", "wrapup"}
    BY <1>1, <1>2 DEF IInv, RequestInv, LocksNamed, CharacterMoved, Paying, Ops
  <2>2. db["character"].nil \in Int
    BY DEF IInv, TypeOK, Characters
  <2>3. db'["character"] = IF owner["character"] = p THEN pend["character"] ELSE db["character"]
    BY <1>4 DEF Rows
  <2> QED
    BY <2>1, <2>2, <2>3 DEF IInv, RequestInv, CharacterMoved, g
<1>9. /\ db'["wallet"].balance = db["wallet"].balance + (IF req[p].op = "wrapup" THEN PayoutOf(p) ELSE 0)
      /\ db'["wallet"] = db["wallet"] \/ db'["wallet"].version > db["wallet"].version
  <2>1. /\ db'["wallet"] = IF owner["wallet"] = p THEN pend["wallet"] ELSE db["wallet"]
        /\ db["wallet"].balance \in Int /\ db["wallet"].version \in Nat
    BY <1>4 DEF Rows, IInv, TypeOK, WalletRows
  <2>2. CASE req[p].op = "wrapup"
    <3>1. PayoutOf(p) \in Nat
      BY <1>6, <2>2
    <3>2. IF PayoutOf(p) > 0
          THEN /\ owner["wallet"] = p
               /\ pend["wallet"].balance = db["wallet"].balance + PayoutOf(p)
               /\ pend["wallet"].version = db["wallet"].version + 1
          ELSE owner["wallet"] # p
      BY <1>1, <2>2 DEF IInv, RequestInv, WalletMoved, Paying
    <3> HIDE DEF PayoutOf
    <3> QED
      BY <2>1, <2>2, <3>1, <3>2
  <2>3. CASE req[p].op # "wrapup"
    <3>1. owner["wallet"] # p
      BY <2>3 DEF IInv, RequestInv, LocksNamed
    <3> QED
      BY <2>1, <2>3, <3>1
  <2> QED
    BY <2>2, <2>3
<1>10. db'["heat"] = db["heat"] + (IF req[p].op = "wrapup" THEN HeatOf(p) ELSE 0)
  <2>1. /\ db'["heat"] = IF owner["heat"] = p THEN pend["heat"] ELSE db["heat"]
        /\ db["heat"] \in Nat
    BY <1>4 DEF Rows, IInv, TypeOK
  <2>2. CASE req[p].op = "wrapup"
    BY <1>1, <2>1, <2>2 DEF IInv, RequestInv, HeatMoved
  <2>3. CASE req[p].op # "wrapup"
    <3>1. owner["heat"] # p
      BY <2>3 DEF IInv, RequestInv, LocksNamed
    <3> QED
      BY <2>1, <2>3, <3>1
  <2> QED
    BY <2>2, <2>3
<1>11. TypeOK'
  <2>1. /\ db'["gig"] \in ActiveGigs \cup {NoRow} /\ db'["character"] \in Characters
        /\ db'["wallet"] \in WalletRows /\ db'["heat"] \in Nat
        /\ db'["character"].nil >= 0 /\ db'["character"].moral <= MaxMoral
    BY <1>4, SeesTyped DEF Rows, Sees
  <2>2. recent' \subseteq Gig
    BY <1>2, <1>3 DEF IInv, TypeOK
  <2>3. /\ pc' = [pc EXCEPT ![p] = "idle"] /\ req' = [req EXCEPT ![p] = NoRequest]
        /\ seen' = [seen EXCEPT ![p] = NoRow] /\ chr' = [chr EXCEPT ![p] = NoRow]
        /\ wal' = [wal EXCEPT ![p] = NoRow] /\ hot' = [hot EXCEPT ![p] = 0]
    BY <1>1 DEF Answered, Goto
  <2> QED
    BY <1>4, <1>7, <2>1, <2>2, <2>3 DEF IInv, TypeOK, Histories
<1>12. PendingIsOwned'
  BY <1>4 DEF IInv, TypeOK, PendingIsOwned
<1>13. BooksBalance'
  <2>1. /\ db["wallet"].balance \in Int /\ hist.payout \in Nat /\ hist.heat \in Nat /\ hist.nil \in Nat
        /\ db["character"].nil \in Int /\ db["heat"] \in Nat
    BY DEF IInv, TypeOK, WalletRows, Characters
  <2>2. /\ req[p].op = "accept" => Cost[g] \in Nat
        /\ req[p].op = "wrapup" => PayoutOf(p) \in Nat /\ HeatOf(p) \in Nat
    BY <1>6
  <2> HIDE DEF PayoutOf, HeatOf
  <2>3. PayoutsBanked'
    BY <1>7, <1>8, <1>9, <2>1, <2>2 DEF IInv, BooksBalance, PayoutsBanked
  <2>4. HeatAccounted'
    BY <1>7, <1>10, <2>1, <2>2 DEF IInv, BooksBalance, HeatAccounted
  <2>5. NilPaysForGigs'
    BY <1>7, <1>8, <2>1, <2>2 DEF IInv, BooksBalance, NilPaysForGigs
  <2> QED
    BY <2>3, <2>4, <2>5 DEF BooksBalance
<1>14. \A q \in Proc \ {p} : RowsOf(q)
  <2> SUFFICES ASSUME NEW q \in Proc \ {p}
               PROVE  RowsOf(q)
    OBVIOUS
  <2>1. \A r \in Rows : owner'[r] = q <=> owner[r] = q
    BY <1>4 DEF IInv, TypeOK
  <2>2. \A r \in Rows : owner[r] = q => db'[r] = db[r] /\ pend'[r] = pend[r]
    BY <1>4
  <2>3. owner["character"] = q => db'["heat"] = db["heat"]
    <3>1. owner["character"] = q => req[p].op # "wrapup"
      BY <1>1 DEF IInv, RequestInv, CharacterMoved, Paying
    <3>2. db["heat"] \in Nat
      BY DEF IInv, TypeOK
    <3> QED
      BY <1>10, <3>1, <3>2
  <2> QED
    BY <1>9, <2>1, <2>2, <2>3 DEF RowsOf
<1>15. RequestInv(p)'
  BY <1>4, <1>5, <1>11, IdleInv DEF IInv, TypeOK
<1> QED
  BY <1>5, <1>11, <1>12, <1>13, <1>14, <1>15, StepKeeps
-----------------------------------------------------------------------------
\* The steps of nobody's request.

LEMMA CooldownElapsesInv ==
  ASSUME IInv, NEW g \in Gig, CooldownElapses(g)
  PROVE  IInv'
<1> USE DEF CooldownElapses, rcVars, local
<1>1. TypeOK'
  BY DEF IInv, TypeOK
<1>2. (PendingIsOwned /\ BooksBalance)'
  BY DEF IInv, PendingIsOwned, BooksBalance, PayoutsBanked, HeatAccounted, NilPaysForGigs
<1>3. \A q \in Proc : Unmoved(q) /\ RowsOf(q)
  BY DEF Unmoved, RowsOf
<1> QED
  BY <1>1, <1>2, <1>3, OthersKeep DEF IInv

LEMMA FlatlineInv ==
  ASSUME IInv, Flatline
  PROVE  IInv'
<1>1. /\ owner' = owner /\ owner["character"] = NoProc /\ owner["wallet"] = NoProc /\ ~db["character"].flat
      /\ UNCHANGED <<hist, recent, local>>
  BY DEF Flatline
<1>2. /\ db'["character"] = [db["character"] EXCEPT !.flat = TRUE]
      /\ db'["wallet"] = [db["wallet"] EXCEPT !.balance = @ - ImplantPrice, !.version = @ + 1]
      /\ db'["gig"] = db["gig"] /\ db'["heat"] = db["heat"] /\ DOMAIN db' = Rows
  BY DEF Flatline, IInv, TypeOK, Rows
<1>3. /\ pend'["character"] = db'["character"] /\ pend'["wallet"] = db'["wallet"]
      /\ pend'["gig"] = pend["gig"] /\ pend'["heat"] = pend["heat"] /\ DOMAIN pend' = Rows
  BY DEF Flatline, IInv, TypeOK, Rows
<1>4. /\ db'["character"] \in Characters /\ db'["character"].flat = TRUE
      /\ db'["character"].nil = db["character"].nil /\ db'["character"].moral = db["character"].moral
  BY <1>2 DEF IInv, TypeOK, Characters
<1>5. /\ db'["wallet"] \in WalletRows /\ db'["wallet"].balance = db["wallet"].balance - ImplantPrice
      /\ db'["wallet"].version = db["wallet"].version + 1 /\ db["wallet"].version \in Nat
      /\ db["wallet"].balance \in Int
  <2> DEFINE w == db["wallet"]
             b == w.balance - ImplantPrice
             k == w.version + 1
  <2>1. w \in WalletRows /\ db'["wallet"] = [w EXCEPT !.balance = b, !.version = k]
    BY <1>2 DEF IInv, TypeOK
  <2>2. w.version \in Nat /\ w.balance \in Int /\ k \in Nat /\ b \in Int
    BY <2>1 DEF WalletRows
  <2>3. db'["wallet"] \in WalletRows /\ db'["wallet"].balance = b /\ db'["wallet"].version = k
    <3> HIDE DEF w, b, k
    <3> QED
      BY <2>1, <2>2 DEF WalletRows
  <2> QED
    BY <2>2, <2>3
<1>6. TypeOK'
  BY <1>1, <1>2, <1>3, <1>4, <1>5 DEF IInv, TypeOK, local
<1>7. PendingIsOwned'
  BY <1>1, <1>2, <1>3 DEF IInv, TypeOK, PendingIsOwned, Rows
<1>8. BooksBalance'
  <2>1. hist.payout \in Nat
    BY DEF IInv, TypeOK
  <2> QED
    BY <1>1, <1>2, <1>4, <1>5, <2>1 DEF IInv, BooksBalance, PayoutsBanked, HeatAccounted, NilPaysForGigs
<1>9. \A q \in Proc : Unmoved(q) /\ RowsOf(q)
  BY <1>1, <1>2, <1>3, <1>5 DEF Unmoved, RowsOf, local, Rows
<1> QED
  BY <1>6, <1>7, <1>8, <1>9, OthersKeep DEF IInv

LEMMA NextInv == IInv /\ [Next]_vars => IInv'
<1> SUFFICES ASSUME IInv, [Next]_vars PROVE IInv'
  OBVIOUS
<1>1. ASSUME NEW p \in Proc, Start(p) \/ Step(p) \/ Lost(p)
      PROVE  IInv'
  <2>1. CASE Start(p)
    BY <2>1, StartInv
  <2>2. CASE FindCharacter(p) \/ FindActiveGig(p) \/ OpenActiveGig(p)
    BY <2>2, FindCharacterInv, FindActiveGigInv, OpenActiveGigInv
  <2>3. CASE CheckRequirements(p) \/ SpendNil(p) \/ TransitionActiveGig(p)
    BY <2>3, CheckRequirementsInv, SpendNilInv, TransitionActiveGigInv
  <2>4. CASE ReadWallet(p) \/ CreditWallet(p) \/ GrantMoral(p)
    BY <2>4, ReadWalletInv, CreditWalletInv, GrantMoralInv
  <2>5. CASE ReadHeat(p) \/ UpsertHeat(p) \/ CloseActiveGig(p) \/ CommitRequest(p)
    BY <2>5, ReadHeatInv, UpsertHeatInv, CloseActiveGigInv, CommitRequestInv
  <2>6. CASE LongHaul(p) \/ Lost(p)
    BY <2>6, RejectInv DEF LongHaul, Lost
  <2> QED
    BY <1>1, <2>1, <2>2, <2>3, <2>4, <2>5, <2>6 DEF Step
<1>2. ASSUME NEW g \in Gig, CooldownElapses(g)
      PROVE  IInv'
  BY <1>2, CooldownElapsesInv
<1>3. CASE Flatline
  BY <1>3, FlatlineInv
<1>4. CASE UNCHANGED vars
  <2> USE <1>4 DEF vars, rcVars, local
  <2>1. TypeOK' /\ (PendingIsOwned /\ BooksBalance)'
    BY DEF IInv, TypeOK, PendingIsOwned, BooksBalance, PayoutsBanked, HeatAccounted, NilPaysForGigs
  <2>2. \A q \in Proc : Unmoved(q) /\ RowsOf(q)
    BY DEF Unmoved, RowsOf
  <2> QED
    BY <2>1, <2>2, OthersKeep DEF IInv
<1> QED
  BY <1>1, <1>2, <1>3, <1>4 DEF Next, Action

\* Whatever requests interleave and wherever one is cut off, what each has in its
\* hands fits the rows it holds (services/gig-service.ts).
THEOREM Inductive == Spec => []IInv
<1>1. Init => IInv
  BY InitInv
<1>2. IInv /\ [Next]_vars => IInv'
  BY NextInv
<1> QED
  BY <1>1, <1>2, PTL DEF Spec

\* Every value keeps its type: NIL never falls below zero nor Moral past its cap.
THEOREM TypeCorrect == Spec => []TypeOK
<1>1. IInv => TypeOK
  BY DEF IInv
<1> QED
  BY <1>1, Inductive, PTL

\* The wallet, the district's heat and the NIL are at every moment what the
\* committed accepts and wrap-ups account for.
THEOREM BooksBalanceHolds == Spec => []BooksBalance
<1>1. IInv => BooksBalance
  BY DEF IInv
<1> QED
  BY <1>1, Inductive, PTL

\* A request that holds a row and waits for another is an accept that spends, or
\* a wrap-up at its Moral, its heat or its deletion.
LEMMA HoldsAndNeeds ==
  ASSUME IInv, NEW p \in Proc, NEW s \in Rows, owner[s] = p, NEW r \in NeedsRow(p)
  PROVE  \/ req[p].op = "accept" /\ pc[p] = "spend" /\ s = "gig" /\ r = "character"
         \/ req[p].op = "wrapup" /\ pc[p] = "moral" /\ s = "wallet" /\ r = "character"
         \/ req[p].op = "wrapup" /\ pc[p] = "upsert" /\ s \in {"wallet", "character"} /\ r = "heat"
         \/ /\ req[p].op = "wrapup" /\ pc[p] = "close" /\ s \in {"wallet", "character", "heat"}
            /\ r = "gig" /\ StillThere(p)
<1>1. pc[p] \in {"spend", "moral", "upsert", "close"}
  <2>1. pc[p] \notin {"insert", "haul", "transition", "credit"}
    BY ReadingHoldsNothing DEF Reading
  <2>2. pc[p] \in {"insert", "transition", "close", "haul", "spend", "moral", "credit", "upsert"}
    BY DEF NeedsRow
  <2> QED
    BY <2>1, <2>2
<1>2. LocksNamed(p) /\ OpFits(p)
  BY DEF IInv, RequestInv
<1>3. CASE pc[p] = "spend"
  <2>1. r = "character"
    BY <1>3 DEF NeedsRow
  <2> QED
    BY <1>2, <1>3, <2>1 DEF LocksNamed, OpFits, Rows, Paying
<1>4. CASE pc[p] = "moral"
  <2>1. r = "character"
    BY <1>4 DEF NeedsRow
  <2> QED
    BY <1>2, <1>4, <2>1 DEF LocksNamed, OpFits, Rows, Paying
<1>5. CASE pc[p] = "upsert"
  <2>1. r = "heat"
    BY <1>5 DEF NeedsRow
  <2> QED
    BY <1>2, <1>5, <2>1 DEF LocksNamed, OpFits, Rows, Paying
<1>6. CASE pc[p] = "close"
  <2>1. req[p].op = "wrapup" /\ s \in {"wallet", "character", "heat"}
    BY <1>2, <1>6 DEF LocksNamed, OpFits, Rows, Paying
  <2>2. r = "gig" /\ StillThere(p)
    BY <1>6, <2>1 DEF NeedsRow, Deletes
  <2> QED
    BY <1>6, <2>1, <2>2
<1> QED
  BY <1>1, <1>3, <1>4, <1>5, <1>6

\* No two requests ever wait for each other, though an accept locks the trampo
\* before the character and a wrap-up the character before the trampo.
THEOREM NoWaitCycleHolds == Spec => []NoWaitCycle
<1>1. ASSUME IInv PROVE NoWaitCycle
  <2> SUFFICES ASSUME NEW p \in Proc, NEW q \in Proc, NEW r \in NeedsRow(p), NEW s \in NeedsRow(q),
                      owner[r] = q, owner[s] = p, p # q
               PROVE  FALSE
    BY DEF NoWaitCycle, WaitsFor
  <2>0. r \in Rows /\ s \in Rows
    <3>1. \A x : NeedsRow(x) \subseteq Rows
      BY DEF NeedsRow, Rows
    <3> QED
      BY <3>1
  <2> DEFINE Waits(x, held, needed) ==
        \/ req[x].op = "accept" /\ pc[x] = "spend" /\ held = "gig" /\ needed = "character"
        \/ req[x].op = "wrapup" /\ pc[x] = "moral" /\ held = "wallet" /\ needed = "character"
        \/ req[x].op = "wrapup" /\ pc[x] = "upsert" /\ held \in {"wallet", "character"} /\ needed = "heat"
        \/ /\ req[x].op = "wrapup" /\ pc[x] = "close" /\ held \in {"wallet", "character", "heat"}
           /\ needed = "gig" /\ StillThere(x)
  <2>1. Waits(p, s, r) /\ Waits(q, r, s)
    BY <1>1, <2>0, HoldsAndNeeds
  \* What one waits for the other holds: only the trampo and the character are left.
  <2>2. \/ req[p].op = "accept" /\ owner["gig"] = p /\ StillThere(q)
        \/ req[q].op = "accept" /\ owner["gig"] = q /\ StillThere(p)
    BY <2>1
  <2>3. ASSUME NEW x \in Proc, NEW y \in Proc, x # y,
               req[x].op = "accept", owner["gig"] = x, StillThere(y)
        PROVE  FALSE
    <3>1. db["gig"] = NoRow
      BY <1>1, <2>3 DEF IInv, RequestInv, OpensNew
    <3> QED
      BY <2>3, <3>1 DEF StillThere, Sees
  <2> QED
    BY <2>2, <2>3
<1> QED
  BY <1>1, Inductive, PTL
-----------------------------------------------------------------------------
(* One request at a time: what it has read is what it commits over.           *)

Single == \A p, q \in Proc : pc[p] # "idle" /\ pc[q] # "idle" => p = q

\* The character and the trampo are as the request read them.
Reads(p) ==
  /\ pc[p] = "idle" => chr[p] = NoRow /\ seen[p] = NoRow
  /\ chr[p] # NoRow => chr[p] = db["character"] /\ ~chr[p].flat
  /\ seen[p] # NoRow => seen[p] = db["gig"] /\ MayAct(p, seen[p])

\* What the trampo becomes at the commit.
Becomes(p) ==
  IF req[p].op \in {"wrapup", "abandon"} THEN {NoRow} ELSE Patched(p, db["gig"])

Writes(p) ==
  /\ req[p].op = "accept" /\ pc[p] \in {"requirements", "spend", "commit"} =>
       owner["gig"] = p /\ pend["gig"] # NoRow /\ pend["gig"].gig = req[p].gig
  /\ req[p].op # "accept" /\ pc[p] = "commit" =>
       owner["gig"] = p /\ seen[p] # NoRow /\ pend["gig"] \in Becomes(p)
  /\ req[p].op = "accept" /\ owner["character"] = p =>
       pend["character"].moral = db["character"].moral

Lone(p) == Reads(p) /\ Writes(p)

SoloInv == alone => Single /\ GigsConserved /\ MoralAccounted /\ \A p \in Proc : Lone(p)

\* What a step may do to the loop's promises.
Promises == (GigsConserved /\ MoralAccounted)' /\ PhaseStep /\ AbandonStep /\ ApagadoStep

LEMMA LoneIdle ==
  ASSUME IInv', NEW p \in Proc, pc'[p] = "idle", chr'[p] = NoRow, seen'[p] = NoRow
  PROVE  Lone(p)'
<1>1. req'[p] = NoRequest /\ (owner'["character"] = p => req'[p].op \in {"accept", "wrapup"} /\ pc'[p] # "idle")
  BY DEF IInv, RequestInv, OpFits, LocksNamed, Paying
<1> QED
  BY <1>1 DEF Lone, Reads, Writes, NoRequest

\* What is not committed breaks no promise.
LEMMA Unpublished ==
  ASSUME IInv, GigsConserved, MoralAccounted, db' = db, hist' = hist
  PROVE  Promises
<1>1. hist.abandoned \in [Gig -> Nat] /\ db["wallet"].balance \in Int
  BY DEF IInv, TypeOK, WalletRows
<1>2. (GigsConserved /\ MoralAccounted)'
  BY DEF GigsConserved, MoralAccounted
<1>3. AbandonStep
  BY <1>1 DEF AbandonStep
<1>4. ApagadoStep /\ PhaseStep
  BY <1>1 DEF ApagadoStep, PhaseStep
<1> QED
  BY <1>2, <1>3, <1>4 DEF Promises

LEMMA RejectLone ==
  ASSUME IInv, IInv', NEW p \in Proc, Reject(p)
  PROVE  Lone(p)' /\ db' = db /\ hist' = hist
<1>1. pc'[p] = "idle" /\ chr'[p] = NoRow /\ seen'[p] = NoRow
  BY DEF Reject, Answered, Goto, IInv, TypeOK
<1>2. db' = db /\ hist' = hist
  BY DEF Reject, Rollback
<1> QED
  BY <1>1, <1>2, LoneIdle

\* The reads.
LEMMA ReadLone ==
  ASSUME IInv, NEW p \in Proc, Lone(p),
         Start(p) \/ FindCharacter(p) \/ FindActiveGig(p), ~Reject(p)
  PROVE  Lone(p)' /\ db' = db /\ hist' = hist
<1>1. db' = db /\ hist' = hist /\ owner' = owner /\ pend' = pend
  BY DEF Start, FindCharacter, FindActiveGig, rcVars
<1>2. pc[p] \in {"idle", "character", "active"}
  BY DEF Start, FindCharacter, FindActiveGig
<1>3. owner["gig"] # p /\ owner["character"] # p
  BY <1>2, ReadingHoldsNothing DEF Reading, Rows
<1>4. pc'[p] \notin {"idle", "requirements", "spend", "commit"}
  <2>1. CASE Start(p)
    BY <2>1 DEF Start, Goto, IInv, TypeOK
  <2>2. CASE FindCharacter(p)
    <3>1. req[p].op \in Ops
      BY <2>2, Asking DEF IInv, RequestInv, FindCharacter
    <3> QED
      BY <2>2, <3>1 DEF FindCharacter, Goto, IInv, TypeOK, Ops
  <2>3. CASE FindActiveGig(p)
    BY <2>3 DEF FindActiveGig, Goto, IInv, TypeOK
  <2> QED
    BY <2>1, <2>2, <2>3
<1>5. Writes(p)'
  BY <1>1, <1>3, <1>4 DEF Writes
<1>6. Reads(p)'
  <2>1. CASE Start(p)
    <3>1. chr[p] = NoRow /\ seen[p] = NoRow /\ chr' = chr /\ seen' = seen
      BY <2>1 DEF Start, Lone, Reads
    <3> QED
      BY <1>4, <3>1 DEF Reads
  <2>2. CASE FindCharacter(p)
    <3>1. chr'[p] = db["character"] /\ ~db["character"].flat /\ seen' = seen /\ req' = req
      BY <1>3, <2>2 DEF FindCharacter, Sees, IInv, TypeOK
    <3> QED
      BY <1>1, <1>4, <3>1 DEF Lone, Reads, MayAct
  <2>3. CASE FindActiveGig(p)
    <3>1. seen'[p] = db["gig"] /\ MayAct(p, db["gig"]) /\ chr' = chr /\ req' = req
      BY <1>3, <2>3 DEF FindActiveGig, Sees, IInv, TypeOK
    <3>2. MayAct(p, db["gig"])'
      BY <1>1, <3>1 DEF MayAct
    <3> QED
      BY <1>1, <1>4, <3>1, <3>2 DEF Lone, Reads
  <2> QED
    BY <2>1, <2>2, <2>3
<1> QED
  BY <1>1, <1>5, <1>6 DEF Lone

\* A step that leaves what was read keeps it read.
LEMMA ReadsKept ==
  ASSUME NEW p \in Proc, Lone(p), UNCHANGED <<db, req, seen, chr>>, pc[p] # "idle", pc'[p] # "idle"
  PROVE  Reads(p)'
  BY DEF Lone, Reads, MayAct

\* An accept: its trampo is new, and the Moral is left as it is.
LEMMA AcceptLone ==
  ASSUME IInv, IInv', NEW p \in Proc, Lone(p),
         OpenActiveGig(p) \/ CheckRequirements(p) \/ SpendNil(p), ~Reject(p)
  PROVE  Lone(p)' /\ db' = db /\ hist' = hist
<1>1. /\ pc[p] \in {"insert", "requirements", "spend"} /\ UNCHANGED <<db, hist, req, seen, chr>>
      /\ pc'[p] \in {"haul", "requirements", "spend", "commit"}
  BY DEF OpenActiveGig, CheckRequirements, SpendNil, Put, Goto, rcVars, IInv, TypeOK
<1>2. req[p] \in Requests /\ req[p].gig \in Gig /\ req[p].op = "accept" /\ req'[p] = req[p]
  BY <1>1, Asking DEF IInv, RequestInv, OpFits
<1>3. Reads(p)'
  BY <1>1, ReadsKept
<1>4. Writes(p)'
  <2>1. CASE OpenActiveGig(p) /\ pc'[p] = "haul"
    <3>1. owner'["character"] # p
      BY <2>1 DEF IInv, RequestInv, LocksNamed, Paying
    <3> QED
      BY <1>2, <2>1, <3>1 DEF Writes
  <2>2. CASE OpenActiveGig(p) /\ pc'[p] # "haul"
    <3> DEFINE v == [id |-> hist.total + 1, gig |-> req[p].gig, phase |-> "meet",
                     legwork |-> FALSE, outcome |-> "none"]
    <3>1. v \in ActiveGigs /\ v.gig = req[p].gig
      BY <1>2 DEF IInv, TypeOK, ActiveGigs, Phases
    <3> HIDE DEF v
    <3>2. Put(p, "gig", v) /\ Goto(p, "requirements")
      BY <2>2 DEF OpenActiveGig, Goto, IInv, TypeOK, v
    <3>3. pend'["gig"] = v /\ owner'["gig"] = p /\ pc'[p] = "requirements"
      BY <3>2, PutFacts DEF Rows, Goto, IInv, TypeOK
    <3>4. owner'["character"] # p
      BY <3>3 DEF IInv, RequestInv, LocksNamed, Paying
    <3> QED
      BY <1>2, <3>1, <3>3, <3>4, NoRowAssumption DEF Writes
  <2>3. CASE CheckRequirements(p)
    <3>1. owner' = owner /\ pend' = pend /\ pc[p] = "requirements"
      BY <2>3 DEF CheckRequirements, rcVars
    <3> QED
      BY <1>1, <1>2, <3>1 DEF Lone, Writes
  <2>4. CASE SpendNil(p)
    <3> DEFINE c == Sees(p, "character")
               v == [c EXCEPT !.nil = NilAfter(p, c)]
    <3>1. pc[p] = "spend" /\ Put(p, "character", v)
      BY <2>4 DEF SpendNil
    <3>2. owner["character"] # p
      BY <1>2, <3>1 DEF IInv, RequestInv, LocksNamed, Paying
    <3>3. v.moral = db["character"].moral
      BY <3>2 DEF Sees, IInv, TypeOK, Characters
    <3> HIDE DEF v
    <3>4. /\ pend'["character"] = v /\ pend'["gig"] = pend["gig"] /\ owner'["gig"] = owner["gig"]
      BY <3>1, PutFacts DEF Rows
    <3> QED
      BY <1>1, <1>2, <3>1, <3>3, <3>4 DEF Lone, Writes
  <2> QED
    BY <2>1, <2>2, <2>3, <2>4
<1> QED
  BY <1>1, <1>3, <1>4 DEF Lone

\* A phase that moves, or a trampo that closes, is the one that was read.
LEMMA GigLone ==
  ASSUME IInv, IInv', NEW p \in Proc, Lone(p), TransitionActiveGig(p) \/ CloseActiveGig(p)
  PROVE  Lone(p)' /\ db' = db /\ hist' = hist
<1>1. /\ pc[p] \in {"transition", "close"} /\ pc'[p] = "commit"
      /\ UNCHANGED <<db, hist, req, seen, chr>>
  BY DEF TransitionActiveGig, CloseActiveGig, Put, Goto, rcVars, IInv, TypeOK
<1>2. /\ pc[p] = "transition" => req[p].op \in {"legwork", "execute", "escape"}
      /\ pc[p] = "close" => req[p].op \in {"wrapup", "abandon"}
      /\ seen[p] # NoRow
  BY <1>1 DEF IInv, RequestInv, OpFits
<1>3. owner["gig"] # p
  BY <1>1, <1>2 DEF IInv, RequestInv, LocksNamed
<1>4. Sees(p, "gig") = seen[p] /\ StillThere(p) /\ Deletes(p)
  BY <1>2, <1>3 DEF Sees, StillThere, Deletes, Lone, Reads
<1>5. Reads(p)'
  BY <1>1, ReadsKept
<1>6. Becomes(p)' = Becomes(p)
  BY <1>1 DEF Becomes, Patched
<1>7. owner'["gig"] = p /\ pend'["gig"] \in Becomes(p)
  <2>1. CASE TransitionActiveGig(p)
    <3>1. PICK a \in Patched(p, Sees(p, "gig")) : Put(p, "gig", a)
      BY <1>4, <2>1 DEF TransitionActiveGig
    <3>2. pend'["gig"] = a /\ owner'["gig"] = p
      BY <3>1, PutFacts DEF Rows
    <3>3. Sees(p, "gig") = db["gig"] /\ req[p].op \notin {"wrapup", "abandon"}
      BY <1>2, <1>3, <2>1 DEF Sees, TransitionActiveGig
    <3> QED
      BY <3>1, <3>2, <3>3 DEF Becomes
  <2>2. CASE CloseActiveGig(p)
    <3>1. Put(p, "gig", NoRow) /\ pc[p] = "close"
      BY <1>4, <2>2 DEF CloseActiveGig
    <3>2. pend'["gig"] = NoRow /\ owner'["gig"] = p
      BY <3>1, PutFacts DEF Rows
    <3> QED
      BY <1>2, <3>1, <3>2 DEF Becomes
  <2> QED
    BY <2>1, <2>2
<1> QED
  BY <1>1, <1>2, <1>5, <1>6, <1>7 DEF Lone, Writes

\* The books of a wrap-up are no business of the trampo's.
LEMMA BooksLone ==
  ASSUME IInv, NEW p \in Proc, Lone(p), ~Reject(p),
         ReadWallet(p) \/ CreditWallet(p) \/ GrantMoral(p) \/ ReadHeat(p) \/ UpsertHeat(p)
  PROVE  Lone(p)' /\ db' = db /\ hist' = hist
<1>1. /\ pc[p] \in {"wallet", "credit", "moral", "heat", "upsert"}
      /\ pc'[p] \in {"credit", "moral", "heat", "upsert", "close"}
      /\ UNCHANGED <<db, hist, req, seen, chr>>
  <2> USE DEF Goto, rcVars, IInv, TypeOK
  <2>1. CASE ReadWallet(p)
    BY <2>1 DEF ReadWallet
  <2>2. CASE CreditWallet(p)
    BY <2>2 DEF CreditWallet, Put
  <2>3. CASE GrantMoral(p)
    <3>1. PICK moral : MoralWritten(p, Sees(p, "character"), moral)
      BY <2>3 DEF GrantMoral
    <3>2. db' = db
      BY <3>1 DEF MoralWritten, Put
    <3> QED
      BY <2>3, <3>2 DEF GrantMoral
  <2>4. CASE ReadHeat(p) \/ UpsertHeat(p)
    BY <2>4 DEF ReadHeat, UpsertHeat, Put
  <2> QED
    BY <2>1, <2>2, <2>3, <2>4
<1>2. req'[p].op = "wrapup"
  BY <1>1 DEF IInv, RequestInv, OpFits
<1>3. Reads(p)'
  BY <1>1, ReadsKept
<1> QED
  BY <1>1, <1>2, <1>3 DEF Lone, Writes
-----------------------------------------------------------------------------
(* The commit of a request that was alone.                                    *)

\* What a commit adds to the totals.
LEMMA CommitTotals ==
  ASSUME IInv, NEW p \in Proc, CommitRequest(p), NEW x \in Gig
  PROVE  LET op == req[p].op
             is == x = req[p].gig
         IN /\ hist'.opened[x] = hist.opened[x] + (IF op = "accept" /\ is THEN 1 ELSE 0)
            /\ hist'.completed[x] = hist.completed[x] + (IF op = "wrapup" /\ is THEN 1 ELSE 0)
            /\ hist'.abandoned[x] = hist.abandoned[x] + (IF op = "abandon" /\ is THEN 1 ELSE 0)
            /\ hist'.moral = hist.moral + (IF op = "wrapup" THEN Granted(p) ELSE 0)
<1> DEFINE g == req[p].gig
           op == req[p].op
<1>1. pc[p] = "commit"
  BY DEF CommitRequest
<1>2. g \in Gig /\ op \in Ops
  BY <1>1, Asking DEF IInv, RequestInv
<1>3. /\ hist \in Histories /\ hist.opened \in [Gig -> Nat] /\ hist.completed \in [Gig -> Nat]
      /\ hist.abandoned \in [Gig -> Nat] /\ hist.moral \in Int
  BY DEF IInv, TypeOK, Histories
<1>4. CASE op = "accept"
  <2> DEFINE n == hist.nil + Cost[g]
             t == hist.total + 1
             o == [hist.opened EXCEPT ![g] = hist.opened[g] + 1]
  <2>1. hist' = [hist EXCEPT !.total = t, !.nil = n, !.opened = o]
    BY <1>4 DEF CommitRequest
  <2>2. o[x] = hist.opened[x] + (IF x = g THEN 1 ELSE 0)
    BY <1>2, <1>3
  <2>3. /\ hist'.opened = o /\ hist'.completed = hist.completed
        /\ hist'.abandoned = hist.abandoned /\ hist'.moral = hist.moral
    <3> HIDE DEF n, t, o
    <3> QED
      BY <1>3, <2>1 DEF Histories
  <2> QED
    BY <1>3, <1>4, <2>2, <2>3
<1>5. CASE op = "wrapup"
  <2> DEFINE c == [hist.completed EXCEPT ![g] = hist.completed[g] + 1]
             b == hist.payout + PayoutOf(p)
             d == [hist.paid EXCEPT ![g] = hist.paid[g] + (IF PayoutOf(p) > 0 THEN 1 ELSE 0)]
             m == hist.moral + Granted(p)
             h == hist.heat + HeatOf(p)
  <2>1. hist' = [hist EXCEPT !.completed = c, !.payout = b, !.paid = d, !.moral = m, !.heat = h]
    BY <1>5 DEF CommitRequest
  <2>2. c[x] = hist.completed[x] + (IF x = g THEN 1 ELSE 0)
    BY <1>2, <1>3
  <2>3. /\ hist'.opened = hist.opened /\ hist'.completed = c
        /\ hist'.abandoned = hist.abandoned /\ hist'.moral = m
    <3> HIDE DEF c, b, d, m, h
    <3> QED
      BY <1>3, <2>1 DEF Histories
  <2> QED
    BY <1>3, <1>5, <2>2, <2>3
<1>6. CASE op = "abandon"
  <2> DEFINE d == [hist.abandoned EXCEPT ![g] = hist.abandoned[g] + 1]
  <2>1. hist' = [hist EXCEPT !.abandoned = d]
    BY <1>6 DEF CommitRequest
  <2>2. d[x] = hist.abandoned[x] + (IF x = g THEN 1 ELSE 0)
    BY <1>2, <1>3
  <2>3. /\ hist'.opened = hist.opened /\ hist'.completed = hist.completed
        /\ hist'.abandoned = d /\ hist'.moral = hist.moral
    <3> HIDE DEF d
    <3> QED
      BY <1>3, <2>1 DEF Histories
  <2> QED
    BY <1>3, <1>6, <2>2, <2>3
<1>7. CASE op \in {"legwork", "execute", "escape"}
  <2>1. hist' = hist
    BY <1>7 DEF CommitRequest
  <2> QED
    BY <1>3, <1>7, <2>1
<1> QED
  BY <1>2, <1>4, <1>5, <1>6, <1>7 DEF Ops

\* What a commit publishes of the rows its request holds.
LEMMA CommitRows ==
  ASSUME IInv, NEW p \in Proc, CommitRequest(p)
  PROVE  /\ \A r \in Rows : db'[r] = (IF owner[r] = p THEN pend[r] ELSE db[r])
         /\ pc[p] = "commit" /\ pc'[p] = "idle" /\ chr'[p] = NoRow /\ seen'[p] = NoRow
  BY DEF IInv, TypeOK, CommitRequest, Commit, Sees, Answered, Goto

LEMMA TransitionDomains ==
  /\ DOMAIN TRANSITIONS["meet"] = {"start_legwork", "skip_to_execute"}
  /\ DOMAIN TRANSITIONS["legwork"] = {"execute"}
  /\ DOMAIN TRANSITIONS["execute"] = {"escape"}
  /\ DOMAIN TRANSITIONS["escape"] = {"wrap_up"}
  BY DEF TRANSITIONS

\* The phase a request writes is where the machine takes the phase it read.
LEMMA PhaseOfMachine ==
  ASSUME IInv, NEW p \in Proc, req[p].op \in {"legwork", "execute", "escape"},
         NEW a \in ActiveGigs, MayAct(p, a), NEW b \in Patched(p, a)
  PROVE  /\ b.id = a.id /\ b.gig = a.gig /\ b \in ActiveGigs
         /\ \E action \in DOMAIN TRANSITIONS[a.phase] : b.phase = TRANSITIONS[a.phase][action]
<1>1. a.phase \in Phases
  BY DEF ActiveGigs
<1>2. ActionOf(req[p].op, a.phase) \in DOMAIN TRANSITIONS[a.phase]
  BY DEF MayAct, canTransition
<1>3. CASE req[p].op = "legwork"
  <2>1. b = [a EXCEPT !.phase = "legwork"]
    BY <1>3 DEF Patched
  <2>2. a.phase = "meet"
    BY <1>1, <1>2, <1>3, TransitionDomains DEF ActionOf, Phases
  <2>3. TRANSITIONS["meet"]["start_legwork"] = "legwork" /\ "start_legwork" \in DOMAIN TRANSITIONS["meet"]
    BY DEF TRANSITIONS
  <2> QED
    BY <2>1, <2>2, <2>3 DEF ActiveGigs, Phases
<1>4. CASE req[p].op = "execute"
  <2>1. PICK o \in {"success", "failure"} :
          b = [a EXCEPT !.phase = "execute", !.legwork = (seen[p].phase = "legwork"), !.outcome = o]
    BY <1>4 DEF Patched
  <2>2. a.phase \in {"meet", "legwork"}
    BY <1>1, <1>2, <1>4, TransitionDomains DEF ActionOf, Phases
  <2>3. /\ TRANSITIONS["meet"]["skip_to_execute"] = "execute" /\ "skip_to_execute" \in DOMAIN TRANSITIONS["meet"]
        /\ TRANSITIONS["legwork"]["execute"] = "execute" /\ "execute" \in DOMAIN TRANSITIONS["legwork"]
    BY DEF TRANSITIONS
  <2> QED
    BY <2>1, <2>2, <2>3 DEF ActiveGigs, Phases
<1>5. CASE req[p].op = "escape"
  <2>1. b = [a EXCEPT !.phase = "escape"]
    BY <1>5 DEF Patched
  <2>2. a.phase = "execute"
    BY <1>1, <1>2, <1>5, TransitionDomains DEF ActionOf, Phases
  <2>3. TRANSITIONS["execute"]["escape"] = "escape" /\ "escape" \in DOMAIN TRANSITIONS["execute"]
    BY DEF TRANSITIONS
  <2> QED
    BY <2>1, <2>2, <2>3 DEF ActiveGigs, Phases
<1> QED
  BY <1>3, <1>4, <1>5

LEMMA CommitLone ==
  ASSUME IInv, IInv', NEW p \in Proc, Lone(p), GigsConserved, MoralAccounted, CommitRequest(p)
  PROVE  Lone(p)' /\ Promises
<1> DEFINE op == req[p].op
           g == req[p].gig
           a == db["gig"]
           b == db'["gig"]
           Active(row, x) == IF row # NoRow /\ row.gig = x THEN 1 ELSE 0
<1>1. /\ pc[p] = "commit" /\ op \in Ops /\ g \in Gig
      /\ \A r \in Rows : db'[r] = (IF owner[r] = p THEN pend[r] ELSE db[r])
  BY CommitRows, Asking DEF IInv, RequestInv
<1>2. Lone(p)'
  BY CommitRows, LoneIdle
<1>3. /\ a \in ActiveGigs \cup {NoRow} /\ pend["gig"] \in ActiveGigs \cup {NoRow}
      /\ db["character"] \in Characters /\ pend["character"] \in Characters
      /\ db["wallet"].balance \in Int /\ db["character"].moral \in Nat /\ hist.moral \in Int
      /\ hist.opened \in [Gig -> Nat] /\ hist.completed \in [Gig -> Nat] /\ hist.abandoned \in [Gig -> Nat]
  BY DEF IInv, TypeOK, WalletRows, Characters
<1>4. ASSUME op \in {"accept", "wrapup"}
      PROVE  /\ chr[p] = db["character"] /\ ~db["character"].flat
             /\ db'["character"] = pend["character"] /\ ApagadoStep
  <2>1. chr[p] \in Characters /\ owner["character"] = p
    BY <1>1, <1>4 DEF IInv, RequestInv, OpFits, CharacterMoved, Paying
  <2>2. chr[p] = db["character"] /\ ~db["character"].flat
    BY <2>1, NoRowAssumption DEF Lone, Reads
  <2> QED
    BY <1>1, <2>1, <2>2 DEF ApagadoStep, Rows
<1>5. ASSUME op \notin {"accept", "wrapup"}
      PROVE  db'["character"] = db["character"] /\ ApagadoStep
  <2>1. owner["character"] # p /\ owner["wallet"] # p /\ owner["heat"] # p
    BY <1>5 DEF IInv, RequestInv, LocksNamed
  <2>2. db'["character"] = db["character"] /\ db'["wallet"] = db["wallet"] /\ db'["heat"] = db["heat"]
    BY <1>1, <2>1 DEF Rows
  <2> QED
    BY <1>3, <2>2 DEF ApagadoStep
<1>6. ASSUME op # "accept"
      PROVE  a # NoRow /\ a.gig = g /\ b \in Becomes(p) /\ MayAct(p, a)
  <2>1. owner["gig"] = p /\ seen[p] # NoRow /\ pend["gig"] \in Becomes(p)
    BY <1>1, <1>6 DEF Lone, Writes
  <2>2. a = seen[p] /\ MayAct(p, a)
    BY <2>1 DEF Lone, Reads
  <2> QED
    BY <1>1, <2>1, <2>2 DEF MayAct, Rows
<1>7. MoralAccounted'
  <2>1. hist'.moral = hist.moral + (IF op = "wrapup" THEN Granted(p) ELSE 0)
    BY <1>1, CommitTotals
  <2>2. CASE op = "accept"
    <3>1. owner["character"] = p
      BY <1>1, <2>2 DEF IInv, RequestInv, CharacterMoved
    <3>2. db'["character"].moral = db["character"].moral
      BY <1>4, <2>2, <3>1 DEF Lone, Writes
    <3> QED
      BY <1>3, <2>1, <2>2, <3>2 DEF MoralAccounted
  <2>3. CASE op = "wrapup"
    <3>1. /\ db'["character"].moral = db["character"].moral + Granted(p) /\ Granted(p) \in Int
      BY <1>3, <1>4, <2>3 DEF Granted, Characters
    <3> QED
      BY <1>3, <2>1, <2>3, <3>1 DEF MoralAccounted
  <2>4. CASE op \notin {"accept", "wrapup"}
    BY <1>3, <1>5, <2>1, <2>4 DEF MoralAccounted
  <2> QED
    BY <2>2, <2>3, <2>4
\* The trampo, by operation.
<1>8. CASE op = "accept"
  <2>1. owner["gig"] = p /\ pend["gig"] # NoRow /\ pend["gig"].gig = g
    BY <1>1, <1>8 DEF Lone, Writes
  <2>2. a = NoRow /\ b = pend["gig"]
    BY <1>1, <1>8, <2>1 DEF IInv, RequestInv, OpensNew, Rows
  <2>3. GigsConserved'
    <3> SUFFICES ASSUME NEW x \in Gig
                 PROVE  hist'.opened[x] = hist'.completed[x] + hist'.abandoned[x] + Active(b, x)
      BY DEF GigsConserved
    <3>1. hist.opened[x] = hist.completed[x] + hist.abandoned[x] + Active(a, x)
      BY DEF GigsConserved
    <3>2. Active(a, x) = 0 /\ Active(b, x) = IF x = g THEN 1 ELSE 0
      BY <2>1, <2>2
    <3>3. hist.opened[x] \in Nat /\ hist.completed[x] \in Nat /\ hist.abandoned[x] \in Nat
      BY <1>3
    <3> HIDE DEF Active
    <3> QED
      BY <1>8, <3>1, <3>2, <3>3, CommitTotals
  <2>4. PhaseStep
    BY <2>2 DEF PhaseStep
  <2>5. AbandonStep
    <3>1. \A x \in Gig : hist'.abandoned[x] = hist.abandoned[x] /\ hist.abandoned[x] \in Nat
      BY <1>3, <1>8, CommitTotals
    <3> QED
      BY <3>1 DEF AbandonStep
  <2> QED
    BY <1>2, <1>4, <1>7, <1>8, <2>3, <2>4, <2>5 DEF Promises
<1>9. CASE op \in {"wrapup", "abandon"}
  <2>1. a # NoRow /\ a.gig = g /\ b = NoRow
    BY <1>6, <1>9 DEF Becomes
  <2>2. GigsConserved'
    <3> SUFFICES ASSUME NEW x \in Gig
                 PROVE  hist'.opened[x] = hist'.completed[x] + hist'.abandoned[x] + Active(b, x)
      BY DEF GigsConserved
    <3>1. hist.opened[x] = hist.completed[x] + hist.abandoned[x] + Active(a, x)
      BY DEF GigsConserved
    <3>2. Active(b, x) = 0 /\ Active(a, x) = IF x = g THEN 1 ELSE 0
      BY <2>1
    <3>3. hist.opened[x] \in Nat /\ hist.completed[x] \in Nat /\ hist.abandoned[x] \in Nat
      BY <1>3
    <3> HIDE DEF Active
    <3> QED
      BY <1>9, <3>1, <3>2, <3>3, CommitTotals
  <2>3. PhaseStep
    BY <2>1 DEF PhaseStep
  <2>4. AbandonStep
    <3> SUFFICES ASSUME NEW x \in Gig, hist'.abandoned[x] > hist.abandoned[x]
                 PROVE  x = g
      BY <2>1 DEF AbandonStep
    <3> QED
      BY <1>3, CommitTotals
  <2> QED
    BY <1>2, <1>4, <1>5, <1>7, <1>9, <2>2, <2>3, <2>4 DEF Promises
<1>10. CASE op \in {"legwork", "execute", "escape"}
  <2>1. a \in ActiveGigs /\ b \in Patched(p, a) /\ MayAct(p, a)
    BY <1>3, <1>6, <1>10 DEF Becomes
  <2>2. /\ b.id = a.id /\ b.gig = a.gig /\ b \in ActiveGigs
        /\ \E action \in DOMAIN TRANSITIONS[a.phase] : b.phase = TRANSITIONS[a.phase][action]
    <3> HIDE DEF a, b
    <3> QED
      BY <1>10, <2>1, PhaseOfMachine
  <2>3. hist' = hist
    BY <1>10 DEF CommitRequest
  <2>4. GigsConserved'
    BY <2>1, <2>2, <2>3, NoRowAssumption DEF GigsConserved
  <2>5. PhaseStep
    BY <2>2 DEF PhaseStep
  <2>6. AbandonStep
    BY <1>3, <2>3 DEF AbandonStep
  <2> QED
    BY <1>2, <1>5, <1>7, <1>10, <2>4, <2>5, <2>6 DEF Promises
<1> QED
  BY <1>1, <1>8, <1>9, <1>10 DEF Ops

\* A step of a request that is alone.
LEMMA RequestLone ==
  ASSUME IInv, IInv', NEW p \in Proc, Lone(p), GigsConserved, MoralAccounted,
         Start(p) \/ Step(p) \/ Lost(p)
  PROVE  Lone(p)' /\ Promises
<1>1. CASE CommitRequest(p)
  BY <1>1, CommitLone
<1>2. CASE ~CommitRequest(p)
  <2>1. CASE Reject(p)
    BY <2>1, RejectLone, Unpublished
  <2>2. CASE ~Reject(p)
    <3>1. Lone(p)' /\ db' = db /\ hist' = hist
      <4>1. CASE Start(p) \/ FindCharacter(p) \/ FindActiveGig(p)
        BY <2>2, <4>1, ReadLone
      <4>2. CASE OpenActiveGig(p) \/ CheckRequirements(p) \/ SpendNil(p)
        BY <2>2, <4>2, AcceptLone
      <4>3. CASE TransitionActiveGig(p) \/ CloseActiveGig(p)
        BY <4>3, GigLone
      <4>4. CASE ReadWallet(p) \/ CreditWallet(p) \/ GrantMoral(p) \/ ReadHeat(p) \/ UpsertHeat(p)
        BY <2>2, <4>4, BooksLone
      <4> QED
        BY <1>2, <2>2, <4>1, <4>2, <4>3, <4>4 DEF Step, Lost, LongHaul
    <3> QED
      BY <3>1, Unpublished
  <2> QED
    BY <2>1, <2>2
<1> QED
  BY <1>1, <1>2

LEMMA OthersUnmoved ==
  ASSUME IInv, NEW p \in Proc, Start(p) \/ Step(p) \/ Lost(p), NEW q \in Proc \ {p}
  PROVE  pc'[q] = pc[q] /\ chr'[q] = chr[q] /\ seen'[q] = seen[q]
<1> USE DEF IInv, TypeOK, Goto, Reject, Answered
<1>1. CASE Reject(p)
  BY <1>1
<1>2. CASE ~Reject(p)
  <2>1. CASE Start(p) \/ FindCharacter(p) \/ FindActiveGig(p)
    BY <1>2, <2>1 DEF Start, FindCharacter, FindActiveGig
  <2>2. CASE OpenActiveGig(p) \/ CheckRequirements(p) \/ SpendNil(p)
    BY <1>2, <2>2 DEF OpenActiveGig, CheckRequirements, SpendNil
  <2>3. CASE TransitionActiveGig(p) \/ CloseActiveGig(p)
    BY <2>3 DEF TransitionActiveGig, CloseActiveGig
  <2>4. CASE ReadWallet(p) \/ CreditWallet(p) \/ GrantMoral(p) \/ ReadHeat(p) \/ UpsertHeat(p)
    BY <1>2, <2>4 DEF ReadWallet, CreditWallet, GrantMoral, ReadHeat, UpsertHeat
  <2>5. CASE CommitRequest(p)
    BY <2>5 DEF CommitRequest
  <2> QED
    BY <1>2, <2>1, <2>2, <2>3, <2>4, <2>5 DEF Step, Lost, LongHaul
<1> QED
  BY <1>1, <1>2

LEMMA LoneKept ==
  ASSUME NEW p \in Proc, Lone(p), UNCHANGED <<rcVars, local>>
  PROVE  Lone(p)'
<1> USE DEF rcVars, local
<1>1. Becomes(p)' = Becomes(p)
  BY DEF Becomes, Patched
<1>2. Reads(p)'
  BY DEF Lone, Reads, MayAct
<1> QED
  BY <1>1, <1>2 DEF Lone, Writes

LEMMA SoloNext ==
  ASSUME IInv, IInv', SoloInv, [Next]_vars, alone'
  PROVE  Promises /\ \A p \in Proc : Lone(p)'
<1>1. CASE UNCHANGED vars
  <2>1. alone /\ db' = db /\ hist' = hist
    BY <1>1 DEF vars, rcVars
  <2>2. \A p \in Proc : Lone(p)'
    BY <1>1, <2>1, LoneKept DEF SoloInv, vars
  <2> QED
    BY <2>1, <2>2, Unpublished DEF SoloInv
<1>2. CASE Next
  <2>1. alone /\ StaysAlone /\ Action
    BY <1>2 DEF Next
  <2>2. Single /\ GigsConserved /\ MoralAccounted /\ \A p \in Proc : Lone(p)
    BY <2>1 DEF SoloInv
  <2>3. ASSUME NEW p \in Proc, Start(p) \/ Step(p) \/ Lost(p)
        PROVE  Promises /\ \A q \in Proc : Lone(q)'
    <3>1. Lone(p)' /\ Promises
      BY <2>2, <2>3, RequestLone
    <3>2. ASSUME NEW q \in Proc \ {p}
          PROVE  Lone(q)'
      <4>1. pc'[q] = pc[q] /\ chr'[q] = chr[q] /\ seen'[q] = seen[q]
        BY <2>3, <3>2, OthersUnmoved
      <4>2. pc[q] = "idle"
        <5>1. CASE Start(p)
          <6>1. pc'[p] # "idle"
            BY <5>1 DEF Start, Goto, IInv, TypeOK
          <6> QED
            BY <2>1, <4>1, <6>1 DEF StaysAlone
        <5>2. CASE Step(p) \/ Lost(p)
          <6>1. pc[p] # "idle"
            BY <5>2 DEF Step, Lost, FindCharacter, FindActiveGig, OpenActiveGig, LongHaul,
                 CheckRequirements, SpendNil, TransitionActiveGig, ReadWallet, CreditWallet,
                 GrantMoral, ReadHeat, UpsertHeat, CloseActiveGig, CommitRequest
          <6> QED
            BY <2>2, <6>1 DEF Single
        <5> QED
          BY <2>3, <5>1, <5>2
      <4> QED
        BY <2>2, <4>1, <4>2, LoneIdle DEF Lone, Reads
    <3> QED
      BY <3>1, <3>2
  <2>4. ASSUME NEW g \in Gig, CooldownElapses(g)
        PROVE  Promises /\ \A q \in Proc : Lone(q)'
    <3>1. UNCHANGED <<rcVars, hist, local>>
      BY <2>4 DEF CooldownElapses
    <3>2. \A p \in Proc : Lone(p)'
      BY <2>2, <3>1, LoneKept
    <3> QED
      BY <2>2, <3>1, <3>2, Unpublished DEF rcVars
  <2>5. CASE Flatline
    <3>1. /\ ~db["character"].flat /\ hist' = hist /\ UNCHANGED local
          /\ db'["character"] = [db["character"] EXCEPT !.flat = TRUE] /\ db'["gig"] = db["gig"]
      BY <2>5 DEF Flatline, IInv, TypeOK, Rows
    <3>2. db'["character"].flat /\ db'["character"].moral = db["character"].moral
      BY <3>1 DEF IInv, TypeOK, Characters
    <3>3. \A p \in Proc : pc[p] = "idle"
      BY <2>1, <3>1, <3>2 DEF StaysAlone
    <3>4. \A p \in Proc : Lone(p)'
      BY <2>2, <3>1, <3>3, LoneIdle DEF Lone, Reads, local
    <3>5. hist.abandoned \in [Gig -> Nat]
      BY DEF IInv, TypeOK
    <3>6. (GigsConserved /\ MoralAccounted)'
      BY <2>2, <3>1, <3>2 DEF GigsConserved, MoralAccounted
    <3>7. PhaseStep /\ AbandonStep /\ ApagadoStep
      BY <3>1, <3>5 DEF PhaseStep, AbandonStep, ApagadoStep
    <3> QED
      BY <3>4, <3>6, <3>7 DEF Promises
  <2> QED
    BY <2>1, <2>3, <2>4, <2>5 DEF Action
<1> QED
  BY <1>1, <1>2

LEMMA SoloInit == Init => SoloInv
<1> SUFFICES ASSUME Init PROVE SoloInv
  OBVIOUS
<1>1. Single /\ \A p \in Proc : Lone(p)
  BY DEF Init, RcInit, Rows, Single, Lone, Reads, Writes, NoRequest
<1>2. GigsConserved /\ MoralAccounted
  BY DEF Init, RcInit, Rows, GigsConserved, MoralAccounted, Zero
<1> QED
  BY <1>1, <1>2 DEF SoloInv

\* One request at a time, lost and repeated ones included, every trampo is resolved
\* once, an abandon closes the trampo it records, the phase follows the machine, the
\* Moral reported is the Moral granted, and nothing pays a flatlined character.
THEOREM SoloLoopHolds == Spec => SoloLoop
<1>1. Init => IInv /\ SoloInv
  BY InitInv, SoloInit
<1>2. IInv /\ SoloInv /\ [Next]_vars => (IInv /\ SoloInv)'
  <2> SUFFICES ASSUME IInv, SoloInv, [Next]_vars, alone'
               PROVE  IInv' /\ (Single /\ GigsConserved /\ MoralAccounted /\ \A p \in Proc : Lone(p))'
    BY NextInv DEF SoloInv
  <2>1. IInv'
    BY NextInv
  <2>2. Single'
    <3>1. CASE UNCHANGED vars
      BY <3>1 DEF vars, local, Single, SoloInv
    <3>2. CASE Next
      BY <3>2 DEF Next, StaysAlone, Single
    <3> QED
      BY <3>1, <3>2
  <2> QED
    BY <2>1, <2>2, SoloNext DEF Promises
<1>3. IInv /\ SoloInv => SoloGigsConserved
  BY DEF SoloInv, SoloGigsConserved
<1>4. IInv /\ SoloInv /\ [Next]_vars => [alone' => PhaseStep /\ AbandonStep /\ ApagadoStep]_vars
  BY NextInv, SoloNext DEF Promises
<1> QED
  BY <1>1, <1>2, <1>3, <1>4, PTL DEF Spec, SoloLoop, SoloSteps
-----------------------------------------------------------------------------
(* The body: ChromeProofs, of the rows the character keeps for it.            *)

CP == INSTANCE ChromeProofs WITH db <- rows, pend <- pending, owner <- holder,
                                 pc <- at, req <- asks, chr <- body, wal <- purse,
                                 alone <- lone

\* The body starts as ChromeProofs' character does.
LEMMA BodyInit == Body!Init => CP!Init
  BY DEF Body!Init, CP!Init, Body!RcInit, CP!RcInit, Body!Rows, CP!Rows, Body!NoRequest, CP!NoRequest

\* The two instances are of one specification: a step of the body is a step of the
\* specification ChromeProofs is about.
LEMMA BodyNext == Body!Next => CP!Next
<1> USE DEF Body!rcVars, CP!rcVars, Body!Sees, CP!Sees, Body!CanLock, CP!CanLock, Body!Put, CP!Put,
            Body!Released, CP!Released, Body!Rollback, CP!Rollback, Body!NoRequest,
            CP!NoRequest, Body!Goto, CP!Goto, Body!Answered, CP!Answered, Body!Reject,
            CP!Reject, Body!References, CP!References, Body!LocksCharacter, CP!LocksCharacter,
            Body!NextRow, CP!NextRow, Body!HoldsBack, CP!HoldsBack, Body!MayGo, CP!MayGo
<1>1. \A p \in Proc : Body!Start(p) => CP!Start(p)
  BY DEF Body!Start, CP!Start, Body!Requests, CP!Requests
<1>2. \A p \in Proc : Body!ReadCharacter(p) => CP!ReadCharacter(p)
  BY DEF Body!ReadCharacter, CP!ReadCharacter
<1>3. \A p \in Proc : Body!ReadLoadout(p) => CP!ReadLoadout(p)
  BY DEF Body!ReadLoadout, CP!ReadLoadout, Body!MayInstall, CP!MayInstall, Body!InSlot, CP!InSlot,
         Body!CostOf, CP!CostOf, Body!Installed, CP!Installed, Body!Cardinality, CP!Cardinality
<1>4. \A p \in Proc : Body!ReadWallet(p) => CP!ReadWallet(p)
  BY DEF Body!ReadWallet, CP!ReadWallet, Body!Costs, CP!Costs, Body!PriceOf, CP!PriceOf
<1>5. \A p \in Proc : Body!DebitWallet(p) => CP!DebitWallet(p)
  BY DEF Body!DebitWallet, CP!DebitWallet, Body!VersionMatches, CP!VersionMatches
<1>6. \A p \in Proc : Body!InsertAudit(p) => CP!InsertAudit(p)
  BY DEF Body!InsertAudit, CP!InsertAudit
<1>7. \A p \in Proc : Body!InsertInstalled(p) => CP!InsertInstalled(p)
  BY DEF Body!InsertInstalled, CP!InsertInstalled
<1>8. \A p \in Proc : Body!DecrementHumanity(p) => CP!DecrementHumanity(p)
  BY DEF Body!DecrementHumanity, CP!DecrementHumanity, Body!Guarded, CP!Guarded, Body!CostOf,
         CP!CostOf, Body!HumanityLeft, CP!HumanityLeft, Body!Drains, CP!Drains
<1>9. \A p \in Proc : Body!ReadBonuses(p) => CP!ReadBonuses(p)
  BY DEF Body!ReadBonuses, CP!ReadBonuses, Body!MaxNilOf, CP!MaxNilOf, Body!Installed, CP!Installed,
         Body!MapThenSumSet, CP!MapThenSumSet, Body!MapThenFoldSet, CP!MapThenFoldSet
<1>10. \A p \in Proc : Body!UpdateMaxNil(p) => CP!UpdateMaxNil(p)
  BY DEF Body!UpdateMaxNil, CP!UpdateMaxNil
<1>11. \A p \in Proc : Body!FindInstalled(p) => CP!FindInstalled(p)
  BY DEF Body!FindInstalled, CP!FindInstalled, Body!IsOs, CP!IsOs
<1>12. \A p \in Proc : Body!DeleteInstalled(p) => CP!DeleteInstalled(p)
  BY DEF Body!DeleteInstalled, CP!DeleteInstalled
<1>13. \A p \in Proc : Body!LockCharacter(p) => CP!LockCharacter(p)
  BY DEF Body!LockCharacter, CP!LockCharacter, Body!MayTreat, CP!MayTreat, Body!OutOfUses,
         CP!OutOfUses, Body!Lock, CP!Lock, Body!ForUpdate, CP!ForUpdate
<1>14. \A p \in Proc : Body!RestoreHumanity(p) => CP!RestoreHumanity(p)
  BY DEF Body!RestoreHumanity, CP!RestoreHumanity, Body!Clamped, CP!Clamped
<1>15. \A p \in Proc : Body!Consume(p) => CP!Consume(p)
  BY DEF Body!Consume, CP!Consume
<1>16. \A p \in Proc : Body!CommitRequest(p) => CP!CommitRequest(p)
  BY DEF Body!CommitRequest, CP!CommitRequest, Body!Commit, CP!Commit, Body!PriceOf, CP!PriceOf,
         Body!CostOf, CP!CostOf
<1>17. \A p \in Proc : Body!Lost(p) => CP!Lost(p)
  BY DEF Body!Lost, CP!Lost
<1>18. \A p \in Proc : Body!DetectDeadlock(p) => CP!DetectDeadlock(p)
  BY DEF Body!DetectDeadlock, CP!DetectDeadlock, Body!Deadlocked, CP!Deadlocked
<1>19. Body!Rest \/ Body!DayPasses \/ Body!NilChanges => CP!Rest \/ CP!DayPasses \/ CP!NilChanges
  BY DEF Body!Rest, CP!Rest, Body!local, CP!local, Body!DayPasses, CP!DayPasses, Body!NilChanges,
         CP!NilChanges
<1> QED
  BY <1>1, <1>2, <1>3, <1>4, <1>5, <1>6, <1>7, <1>8, <1>9, <1>10, <1>11, <1>12, <1>13, <1>14,
     <1>15, <1>16, <1>17, <1>18, <1>19 DEF Body!Next, CP!Next, Body!Action, CP!Action,
     Body!Step, CP!Step, Body!StaysAlone, CP!StaysAlone

LEMMA BodyAssumption == Body!ChromeAssumption => CP!ChromeAssumption
  BY DEF Body!ChromeAssumption, CP!ChromeAssumption, Body!IsFiniteSet, CP!IsFiniteSet

\* The character implements the specification ChromeProofs is about.
LEMMA BodySpec == CharacterSpec => CP!Spec
<1>1. [CharacterNext]_<<vars, bodyVars>> => [CP!Next]_(CP!vars)
  BY BodyNext DEF CharacterNext, bodyVars, CP!vars, CP!rcVars, CP!local
<1>2. CharacterInit => CP!Init
  BY BodyInit DEF CharacterInit
<1> QED
  BY <1>1, <1>2, PTL DEF CharacterSpec, CP!Spec

\* However the requests of a character overlap, with each other and with its trampos, a
\* body drained of its humanity is flatlined.
THEOREM ZeroIsApagadoAlways ==
  ASSUME Body!ChromeAssumption
  PROVE  CharacterSpec => []ZeroIsApagado
<1>1. CP!Spec => []CP!ZeroIsApagado
  BY BodyAssumption, CP!ZeroIsApagadoAlways
<1>2. CP!ZeroIsApagado => ZeroIsApagado
  BY DEF ZeroIsApagado, Body!ZeroIsApagado, CP!ZeroIsApagado
<1> QED
  BY <1>1, <1>2, BodySpec, PTL

\* However they overlap, fail or deadlock, the wallet and the stock are down by what took
\* effect, and until an install is committed every point of humanity restored is there.
THEOREM AccountedAlways ==
  ASSUME Body!ChromeAssumption
  PROVE  CharacterSpec => []Accounted
<1>1. CP!Spec => []CP!Accounted
  BY BodyAssumption, CP!AccountedAlways
<1>2. CP!Accounted => Accounted
  BY DEF Accounted, Body!Accounted, Body!PaidAndUsed, Body!WalletAccounted, Body!UsesCounted,
         Body!HumanityAccounted, CP!Accounted, CP!PaidAndUsed, CP!WalletAccounted, CP!UsesCounted,
         CP!HumanityAccounted
<1> QED
  BY <1>1, <1>2, BodySpec, PTL

\* The body's values have their types, however its requests overlap; and while no two
\* of them have overlapped, installs too cost what humanity they drain, the NIL ceiling
\* follows what is installed and a flatline is permanent.
THEOREM SoloChromeHolds ==
  ASSUME Body!ChromeAssumption
  PROVE  CharacterSpec => SoloChrome
<1>1. CP!Spec => []CP!TypeOK
  BY BodyAssumption, CP!TypeOKAlways
<1>2. CP!Spec => CP!SoloBody
  BY BodyAssumption, CP!SoloBodyHolds
<1>3. CP!TypeOK => Body!TypeOK
  BY DEF CP!TypeOK, Body!TypeOK, CP!Rows, Body!Rows, CP!Characters, Body!Characters, CP!WalletRows, Body!WalletRows,
         CP!Requests, Body!Requests, CP!NoRequest, Body!NoRequest
<1>4. CP!SoloAccounts => Body!SoloAccounts
  BY DEF CP!SoloAccounts, Body!SoloAccounts, CP!HumanityAccounted, Body!HumanityAccounted, CP!MaxNilMatches,
         Body!MaxNilMatches, CP!MaxNilOf, Body!MaxNilOf, Body!MapThenSumSet, CP!MapThenSumSet,
         Body!MapThenFoldSet, CP!MapThenFoldSet
<1>5. [lone' => CP!NoWayBackStep]_(CP!vars) => [lone' => Body!NoWayBackStep]_(Body!vars)
  BY DEF CP!NoWayBackStep, Body!NoWayBackStep, CP!vars, Body!vars, CP!rcVars, Body!rcVars, CP!local, Body!local
<1> QED
  BY <1>1, <1>2, <1>3, <1>4, <1>5, BodySpec, PTL DEF SoloChrome, CP!SoloBody, Body!SoloBody

\* The loop's specification is met whatever the body does, which its steps leave alone.
LEMMA LoopSpec == CharacterSpec => Spec
<1>1. CharacterInit => Init
  BY DEF CharacterInit
<1>2. [CharacterNext]_<<vars, bodyVars>> => [Next]_vars
  BY DEF CharacterNext
<1> QED
  BY <1>1, <1>2, PTL DEF CharacterSpec, Spec

\* Of one character, with any number of requests, templates and implants: while those of
\* its trampos have come one at a time, the phases follow the machine and every trampo is
\* resolved once; while those of its body have, a flatline is permanent and what installs
\* cost is what they drain.
THEOREM SoloCharacterHolds ==
  ASSUME Body!ChromeAssumption
  PROVE  CharacterSpec => SoloCharacter
BY LoopSpec, SoloLoopHolds, SoloChromeHolds, PTL DEF SoloCharacter
=============================================================================
