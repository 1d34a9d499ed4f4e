------------------------------ MODULE GigLoop ------------------------------
(***************************************************************************)
(* The trampo loop of one character (services/gig-service over             *)
(* repositories/gig-repository): accept, legwork, execute, escape, wrap up *)
(* and abandon, as concurrent requests p \in Proc that each run one        *)
(* transaction, statement by statement, on READ COMMITTED rows.  A request *)
(* ends in "idle" again, so a process stands for one connection and any    *)
(* number of successive requests.                                          *)
(*                                                                         *)
(* Rows: the character, its wallet, its one active_gigs row (unique on     *)
(* character_id) and its heat in the trampos' district.  gig_history is    *)
(* only appended to; hist keeps the totals of its rows.  The flatline gate *)
(* and the phase gates of one read are taken at that read, since none of   *)
(* them has an effect.  Attribute requirements never change for a          *)
(* character and are left out; NIL regeneration is left to module Vitals,  *)
(* and heat decay to days that do not pass here.                           *)
(***************************************************************************)
EXTENDS ReadCommitted, Integers, FiniteSets

CONSTANTS Proc, Gig,
          Cost,           \* nil_cost
          RequiredMoral,  \* required_street_cred
          Heat,           \* heat_generated
          Payout,         \* gig -> legwork completed? -> Silver Tongue? -> Grana
          Gain,           \* Silver Tongue? -> what calculateStreetCred may return
          MaxMoral,       \* 100
          InitNil, InitMoral,
          InitPower,      \* the role abilities the character may start with
          ImplantPrice,   \* the install that drains the character
          MaxOpen         \* bound: trampos opened in a run

ASSUME GigAssumption ==
  /\ NoProc \notin Proc
  /\ Cost \in [Gig -> Nat] /\ RequiredMoral \in [Gig -> Nat]
  /\ Heat \in [Gig -> Nat \ {0}]
  /\ Payout \in [Gig -> [BOOLEAN -> [BOOLEAN -> Nat \ {0}]]]
  /\ Gain \in [BOOLEAN -> SUBSET Nat]
  /\ MaxMoral \in Nat /\ InitNil \in Nat /\ InitMoral \in 0 .. MaxMoral
  /\ InitPower \subseteq {"none", "tongue", "haul"}
  /\ ImplantPrice \in Nat /\ MaxOpen \in Nat

VARIABLES hist,    \* what was opened, and the totals of gig_history
          recent,  \* templates whose last completion is still cooling down
          pc, req, \* request -> its next statement, what it asks for
          seen,    \* request -> the active trampo it read
          chr,     \* request -> the character it read
          wal,     \* request -> the wallet it read
          hot,     \* request -> the heat it read
          alone    \* history: no two requests, nor one and an install, have overlapped

local == <<pc, req, seen, chr, wal, hot>>
vars == <<rcVars, hist, recent, local, alone>>

Rows == {"gig", "character", "wallet", "heat"}
Phases == {"meet", "legwork", "execute", "escape"}
Ops == {"accept", "legwork", "execute", "escape", "wrapup", "abandon"}
Requests == [op : Ops, gig : Gig]
NoRequest == [op |-> "none"]

ActiveGigs == [id : Nat, gig : Gig, phase : Phases, legwork : BOOLEAN,
               outcome : {"none", "success", "failure"}]
Characters == [moral : Nat, max : Nat, nil : Int, flat : BOOLEAN,
               power : {"none", "tongue", "haul"}]
WalletRows == [balance : Int, version : Nat]

ASSUME NoRowAssumption == NoRow \notin ActiveGigs \cup Characters

Zero == [g \in Gig |-> 0]

Init ==
  /\ \E power \in InitPower : RcInit([r \in Rows |->
       CASE r = "gig" -> NoRow
         [] r = "character" -> [moral |-> InitMoral, max |-> InitMoral, nil |-> InitNil,
                                flat |-> FALSE, power |-> power]
         [] r = "wallet" -> [balance |-> 0, version |-> 0]
         [] r = "heat" -> 0])
  /\ hist = [total |-> 0, nil |-> 0, opened |-> Zero, completed |-> Zero,
             abandoned |-> Zero, paid |-> Zero, payout |-> 0, moral |-> 0, heat |-> 0]
  /\ recent = {}
  /\ pc = [p \in Proc |-> "idle"]
  /\ req = [p \in Proc |-> NoRequest]
  /\ seen = [p \in Proc |-> NoRow]
  /\ chr = [p \in Proc |-> NoRow]
  /\ wal = [p \in Proc |-> NoRow]
  /\ hot = [p \in Proc |-> 0]
  /\ alone = TRUE

\* The phase machine: phase -> action -> next phase.
TRANSITIONS ==
  [meet    |-> [start_legwork |-> "legwork", skip_to_execute |-> "execute"],
   legwork |-> [execute |-> "execute"],
   execute |-> [escape |-> "escape"],
   escape  |-> [wrap_up |-> "wrap_up"]]

canTransition_Replays(phase, action) ==
  phase = "execute" \/ action \in DOMAIN TRANSITIONS[phase]
canTransition(phase, action) == action \in DOMAIN TRANSITIONS[phase]

\* The machine's name for what request op does to a trampo in the given phase.
ActionOf(op, phase) ==
  CASE op = "legwork" -> "start_legwork"
    [] op = "execute" -> IF phase = "meet" THEN "skip_to_execute" ELSE "execute"
    [] op = "wrapup"  -> "wrap_up"
    [] OTHER -> op

Goto(p, l) == pc' = [pc EXCEPT ![p] = l]

\* The request is over: its locals are gone with its transaction.
Answered(p) ==
  /\ Goto(p, "idle")
  /\ req' = [req EXCEPT ![p] = NoRequest]
  /\ seen' = [seen EXCEPT ![p] = NoRow]
  /\ chr' = [chr EXCEPT ![p] = NoRow]
  /\ wal' = [wal EXCEPT ![p] = NoRow]
  /\ hot' = [hot EXCEPT ![p] = 0]

\* The callback throws (or, for a replayed escape, returns without a write):
\* the transaction rolls back and nothing it wrote is left.
Reject(p) == Answered(p) /\ Rollback(p) /\ UNCHANGED <<hist, recent>>


\* A request arrives, reading the character or the active trampo first.
Start(p) ==
  /\ pc[p] = "idle"
  /\ \E r \in Requests :
       /\ r.op = "accept" => hist.total < MaxOpen
       /\ req' = [req EXCEPT ![p] = r]
       /\ Goto(p, IF r.op \in {"accept", "legwork", "abandon"} THEN "character" ELSE "active")
  /\ UNCHANGED <<rcVars, hist, recent, seen, chr, wal, hot>>

\* characters.findById and the flatline gate.  execute answers
\* LEGWORK_IN_PROGRESS while the timer of its legwork still runs.
FindCharacter(p) ==
  LET c == Sees(p, "character") IN
  /\ pc[p] = "character"
  /\ \/ c.flat /\ Reject(p)
     \/ req[p].op = "execute" /\ seen[p].phase = "legwork" /\ Reject(p)
     \/ /\ ~c.flat
        /\ chr' = [chr EXCEPT ![p] = c]
        /\ Goto(p, CASE req[p].op = "accept" -> "insert"
                     [] req[p].op \in {"legwork", "abandon"} -> "active"
                     [] req[p].op \in {"execute", "escape"} -> "transition"
                     [] req[p].op = "wrapup" -> "wallet")
        /\ UNCHANGED <<rcVars, hist, recent, req, seen, wal, hot>>

\* findActiveGig (findActiveGigByGig for an abandon) and the phase gate: the
\* trampo is there, is the one asked for, and may take this step.
MayAct(p, a) ==
  /\ a # NoRow
  /\ a.gig = req[p].gig
  /\ req[p].op = "abandon" \/ canTransition(a.phase, ActionOf(req[p].op, a.phase))

FindActiveGig(p) ==
  LET a == Sees(p, "gig") IN
  /\ pc[p] = "active"
  /\ \/ ~MayAct(p, a) /\ Reject(p)
     \/ /\ MayAct(p, a)
        /\ seen' = [seen EXCEPT ![p] = a]
        /\ Goto(p, CASE req[p].op = "legwork" -> "transition"
                     [] req[p].op = "abandon" -> "close"
                     [] OTHER -> "character")
        /\ UNCHANGED <<rcVars, hist, recent, req, chr, wal, hot>>

\* openActiveGig: INSERT ... ON CONFLICT (character_id) DO NOTHING waits for a
\* transaction that is inserting or deleting the character's row.
OpenActiveGig(p) ==
  /\ pc[p] = "insert"
  /\ CanLock(p, "gig")
  /\ \/ /\ Sees(p, "gig") = NoRow
        /\ Put(p, "gig", [id |-> hist.total + 1, gig |-> req[p].gig, phase |-> "meet",
                          legwork |-> FALSE, outcome |-> "none"])
        /\ Goto(p, "requirements")
        /\ UNCHANGED <<hist, recent, req, seen, chr, wal, hot>>
     \/ /\ Sees(p, "gig") # NoRow /\ chr[p].power = "haul"
        /\ Goto(p, "haul")
        /\ UNCHANGED <<rcVars, hist, recent, req, seen, chr, wal, hot>>
     \/ Sees(p, "gig") # NoRow /\ chr[p].power # "haul" /\ Reject(p)

\* Long Haul: the consumption is written and then rolled back by the 503.
LongHaul(p) ==
  /\ pc[p] = "haul"
  /\ CanLock(p, "character")
  /\ Reject(p)

\* Moral and cooldown; a failure takes the inserted row back.
CheckRequirements(p) ==
  LET g == req[p].gig IN
  /\ pc[p] = "requirements"
  /\ \/ (chr[p].moral < RequiredMoral[g] \/ g \in recent) /\ Reject(p)
     \/ /\ chr[p].moral >= RequiredMoral[g] /\ g \notin recent
        /\ Goto(p, "spend")
        /\ UNCHANGED <<rcVars, hist, recent, req, seen, chr, wal, hot>>

\* updateNilSpend: relative, guarded on the row the lock reveals.
NilAfter(p, c) == c.nil - Cost[req[p].gig]
NilCovers_Unguarded(p, c) == TRUE
NilCovers(p, c) == c.nil >= chr[p].nil /\ NilAfter(p, c) >= 0

SpendNil(p) ==
  LET c == Sees(p, "character") IN
  /\ pc[p] = "spend"
  /\ CanLock(p, "character")
  /\ \/ ~NilCovers(p, c) /\ Reject(p)
     \/ /\ NilCovers(p, c)
        /\ Put(p, "character", [c EXCEPT !.nil = NilAfter(p, c)])
        /\ Goto(p, "commit")
        /\ UNCHANGED <<hist, recent, req, seen, chr, wal, hot>>

\* UPDATE and DELETE of active_gigs WHERE id = seen.id find their row only if
\* it is still there once the lock is granted.
StillThere(p) ==
  LET a == Sees(p, "gig") IN a # NoRow /\ a.id = seen[p].id

\* What transitionActiveGig may write: no guard on the phase the row has now.
Patched(p, a) ==
  CASE req[p].op = "legwork" -> {[a EXCEPT !.phase = "legwork"]}
    [] req[p].op = "execute" ->
         {[a EXCEPT !.phase = "execute", !.legwork = (seen[p].phase = "legwork"),
                    !.outcome = o] : o \in {"success", "failure"}}
    [] req[p].op = "escape" -> {[a EXCEPT !.phase = "escape"]}

TransitionActiveGig(p) ==
  /\ pc[p] = "transition"
  /\ \/ ~StillThere(p) /\ UNCHANGED rcVars
     \/ /\ StillThere(p)
        /\ \E a \in Patched(p, Sees(p, "gig")) : Put(p, "gig", a)
  /\ Goto(p, "commit")
  /\ UNCHANGED <<hist, recent, req, seen, chr, wal, hot>>

Succeeded(p) == seen[p].outcome = "success"
Tongue(p) == chr[p].power = "tongue"
PayoutOf(p) ==
  IF Succeeded(p) THEN Payout[req[p].gig][seen[p].legwork][Tongue(p)] ELSE 0
HeatOf(p) == IF Succeeded(p) THEN Heat[req[p].gig] ELSE 2 * Heat[req[p].gig]

\* wallets.ensure, for a character whose wallet exists.
ReadWallet(p) ==
  /\ pc[p] = "wallet"
  /\ wal' = [wal EXCEPT ![p] = Sees(p, "wallet")]
  /\ Goto(p, IF PayoutOf(p) > 0 THEN "credit" ELSE "moral")
  /\ UNCHANGED <<rcVars, hist, recent, req, seen, chr, hot>>

VersionMatches_NoCas(p, w) == TRUE
VersionMatches(p, w) == w.version = wal[p].version

\* updateOptimistic and the GIG_PAYOUT entry.
CreditWallet(p) ==
  LET w == Sees(p, "wallet") IN
  /\ pc[p] = "credit"
  /\ CanLock(p, "wallet")
  /\ \/ ~VersionMatches(p, w) /\ Reject(p)
     \/ /\ VersionMatches(p, w)
        /\ Put(p, "wallet", [balance |-> wal[p].balance + PayoutOf(p),
                             version |-> wal[p].version + 1])
        /\ Goto(p, "moral")
        /\ UNCHANGED <<hist, recent, req, seen, chr, wal, hot>>

\* updateStreetCredAndActivity (an absolute score, a GREATEST for the lifetime
\* maximum), and the consumption of Silver Tongue.
NewMax(c, moral) == IF c.max > moral THEN c.max ELSE moral
Clamped(moral) == IF moral > MaxMoral THEN MaxMoral ELSE moral

\* The score is written even when the trampo granted nothing.
MoralWritten(p, c, moral) ==
  Put(p, "character", [c EXCEPT !.moral = moral, !.max = NewMax(c, moral),
                                !.power = IF Tongue(p) THEN "none" ELSE @])

GrantMoral(p) ==
  /\ pc[p] = "moral"
  /\ CanLock(p, "character")
  /\ \E gain \in IF Succeeded(p) THEN Gain[Tongue(p)] ELSE {0} :
       MoralWritten(p, Sees(p, "character"), Clamped(chr[p].moral + gain))
  /\ Goto(p, "heat")
  /\ UNCHANGED <<hist, recent, req, seen, chr, wal, hot>>

\* getForDistrict, then the upsert of an absolute amount.
ReadHeat(p) ==
  /\ pc[p] = "heat"
  /\ hot' = [hot EXCEPT ![p] = Sees(p, "heat")]
  /\ Goto(p, "upsert")
  /\ UNCHANGED <<rcVars, hist, recent, req, seen, chr, wal>>

UpsertHeat(p) ==
  /\ pc[p] = "upsert"
  /\ Put(p, "heat", hot[p] + HeatOf(p))
  /\ Goto(p, "close")
  /\ UNCHANGED <<hist, recent, req, seen, chr, wal, hot>>

\* closeActiveGig deletes by id; an abandon deletes by character, whatever
\* trampo that is by now.  Neither checks that it deleted anything.
Deletes(p) ==
  IF req[p].op = "abandon" THEN Sees(p, "gig") # NoRow ELSE StillThere(p)

CloseActiveGig_WithMoral(p) ==
  /\ pc[p] = "close"
  /\ \/ Deletes(p) /\ Put(p, "gig", NoRow)
     \/ ~Deletes(p) /\ UNCHANGED rcVars
  /\ Goto(p, IF req[p].op = "abandon" THEN "moral" ELSE "commit")
  /\ UNCHANGED <<hist, recent, req, seen, chr, wal, hot>>
CloseActiveGig(p) ==
  /\ pc[p] = "close"
  /\ \/ Deletes(p) /\ Put(p, "gig", NoRow)
     \/ ~Deletes(p) /\ UNCHANGED rcVars
  /\ Goto(p, "commit")
  /\ UNCHANGED <<hist, recent, req, seen, chr, wal, hot>>

\* The Moral a wrap-up reports: what it wrote over what it had read.
Granted(p) == pend["character"].moral - chr[p].moral

\* COMMIT, with the gig_history row of a wrap-up or an abandon.
CommitRequest(p) ==
  LET g == req[p].gig IN
  /\ pc[p] = "commit"
  /\ Commit(p)
  /\ hist' =
       CASE req[p].op = "accept" ->
              [hist EXCEPT !.total = @ + 1, !.nil = @ + Cost[g], !.opened[g] = @ + 1]
         [] req[p].op = "wrapup" ->
              [hist EXCEPT !.completed[g] = @ + 1, !.payout = @ + PayoutOf(p),
                           !.paid[g] = @ + (IF PayoutOf(p) > 0 THEN 1 ELSE 0),
                           !.moral = @ + Granted(p), !.heat = @ + HeatOf(p)]
         [] req[p].op = "abandon" -> [hist EXCEPT !.abandoned[g] = @ + 1]
         [] OTHER -> hist
  /\ recent' = IF req[p].op = "wrapup" THEN recent \cup {g} ELSE recent
  /\ Answered(p)

\* The connection or the server is lost before COMMIT.
Lost(p) == pc[p] # "idle" /\ Reject(p)

\* Time passes: the cooldown of a template is over.
CooldownElapses(g) ==
  /\ g \in recent
  /\ recent' = recent \ {g}
  /\ UNCHANGED <<rcVars, hist, local>>

\* The character pays for an implant that drains its humanity to zero: an
\* install of module Chrome, as one step.
Flatline ==
  /\ ~db["character"].flat
  /\ owner["character"] = NoProc /\ owner["wallet"] = NoProc
  /\ db' = [db EXCEPT !["character"].flat = TRUE,
                      !["wallet"].balance = @ - ImplantPrice,
                      !["wallet"].version = @ + 1]
  /\ pend' = [pend EXCEPT !["character"] = db'["character"],
                          !["wallet"] = db'["wallet"]]
  /\ UNCHANGED <<owner, hist, recent, local>>

Step(p) ==
  \/ FindCharacter(p) \/ FindActiveGig(p)
  \/ OpenActiveGig(p) \/ LongHaul(p) \/ CheckRequirements(p) \/ SpendNil(p)
  \/ TransitionActiveGig(p)
  \/ ReadWallet(p) \/ CreditWallet(p) \/ GrantMoral(p)
  \/ ReadHeat(p) \/ UpsertHeat(p) \/ CloseActiveGig(p)
  \/ CommitRequest(p)

Action ==
  \/ \E p \in Proc : Start(p) \/ Step(p) \/ Lost(p)
  \/ \E g \in Gig : CooldownElapses(g)
  \/ Flatline

\* The step overlaps no two requests, and installs nothing under one.
StaysAlone ==
  /\ \A p, q \in Proc : pc'[p] # "idle" /\ pc'[q] # "idle" => p = q
  /\ db'["character"].flat # db["character"].flat => \A p \in Proc : pc[p] = "idle"

Next == Action /\ alone' = (alone /\ StaysAlone)

Spec == Init /\ [][Next]_vars
-----------------------------------------------------------------------------
\* Every value has its type.
TypeOK ==
  /\ DOMAIN db = Rows /\ DOMAIN pend = Rows
  /\ owner \in [Rows -> Proc \cup {NoProc}]
  /\ db["gig"] \in ActiveGigs \cup {NoRow} /\ pend["gig"] \in ActiveGigs \cup {NoRow}
  /\ db["character"] \in Characters /\ pend["character"] \in Characters
  /\ db["wallet"] \in WalletRows /\ pend["wallet"] \in WalletRows
  /\ db["heat"] \in Nat /\ pend["heat"] \in Nat
  /\ hist \in [total : Nat, nil : Nat, opened : [Gig -> Nat], completed : [Gig -> Nat],
               abandoned : [Gig -> Nat], paid : [Gig -> Nat], payout : Nat, moral : Int, heat : Nat]
  /\ recent \subseteq Gig
  /\ pc \in [Proc -> {"idle", "character", "active", "insert", "haul", "requirements",
                      "spend", "transition", "wallet", "credit", "moral", "heat",
                      "upsert", "close", "commit"}]
  /\ req \in [Proc -> Requests \cup {NoRequest}]
  /\ seen \in [Proc -> ActiveGigs \cup {NoRow}]
  /\ chr \in [Proc -> Characters \cup {NoRow}]
  /\ wal \in [Proc -> WalletRows \cup {NoRow}]
  /\ hot \in [Proc -> Nat]
  /\ db["character"].moral <= MaxMoral /\ db["character"].nil >= 0

\* The wallet holds the payouts of the completed trampos, no more and no less,
\* whatever races and wherever a wrap-up is cut off.
PayoutsBanked ==
  db["wallet"].balance =
    hist.payout - (IF db["character"].flat THEN ImplantPrice ELSE 0)

\* The district's heat is what the completed trampos generated.  The upsert
\* writes an absolute amount from an earlier read, and nothing guards it but
\* the character's row lock, which every wrap-up takes before that read.
HeatAccounted == db["heat"] = hist.heat

\* NIL is spent for the trampos that were opened and for nothing else: an
\* accept that loses the race or fails a requirement costs nothing.
NilPaysForGigs == db["character"].nil = InitNil - hist.nil

\* The three accounts of the loop at once.
BooksBalance == PayoutsBanked /\ HeatAccounted /\ NilPaysForGigs

\* The row p's next statement waits for; an UPDATE or DELETE whose row is gone
\* waits for none.
NeedsRow(p) ==
  CASE pc[p] = "insert" -> {"gig"}
    [] pc[p] = "transition" -> IF StillThere(p) THEN {"gig"} ELSE {}
    [] pc[p] = "close" -> IF Deletes(p) THEN {"gig"} ELSE {}
    [] pc[p] \in {"haul", "spend", "moral"} -> {"character"}
    [] pc[p] = "credit" -> {"wallet"}
    [] pc[p] = "upsert" -> {"heat"}
    [] OTHER -> {}

\* No two requests wait for each other.  An accept holds the trampo and waits for
\* the character, a wrap-up the reverse: what keeps them apart is that the row an
\* accept holds is never the one a wrap-up looks for.
NoWaitCycle ==
  \A p, q \in Proc : \A r \in NeedsRow(p), s \in NeedsRow(q) :
    ~(WaitsFor(p, q, r) /\ WaitsFor(q, p, s))

\* Every trampo that was opened is active, or is in the history once: as
\* completed or as abandoned.
GigsConserved ==
  \A g \in Gig :
    hist.opened[g] = hist.completed[g] + hist.abandoned[g]
      + (IF db["gig"] # NoRow /\ db["gig"].gig = g THEN 1 ELSE 0)

\* The Moral the wrap-ups report is the Moral the character has.
MoralAccounted == db["character"].moral = InitMoral + hist.moral

\* The committed phase of a trampo only moves along the phase machine, and its
\* roll is not rolled again.
PhaseStep ==
  LET a == db["gig"]
      b == db'["gig"]
  IN a # NoRow /\ b # NoRow /\ a.id = b.id /\ a # b =>
       \E action \in DOMAIN TRANSITIONS[a.phase] : b.phase = TRANSITIONS[a.phase][action]

\* A flatlined character gets no payout, no Moral, no heat.
ApagadoStep ==
  db["character"].flat =>
    /\ db'["wallet"].balance <= db["wallet"].balance
    /\ db'["character"].moral = db["character"].moral
    /\ db'["heat"] = db["heat"]

\* An abandon records the trampo it closes.
AbandonStep ==
  \A g \in Gig : hist'.abandoned[g] > hist.abandoned[g] =>
    /\ db["gig"] # NoRow /\ db["gig"].gig = g
    /\ db'["gig"] = NoRow

\* While no two requests overlap, lost and repeated ones included, every trampo is
\* resolved once and the Moral its wrap-ups report is the Moral it granted.
SoloGigsConserved == alone => GigsConserved /\ MoralAccounted

\* Until then too, the phase follows the machine, an abandon closes the trampo it
\* records, and an install that drained the character stops every payout.
SoloSteps == [][alone' => PhaseStep /\ AbandonStep /\ ApagadoStep]_vars

\* One request at a time, the loop keeps all its promises.
SoloLoop == []SoloGigsConserved /\ SoloSteps

\* A trampo is paid once.
PaidOncePerGig == \A g \in Gig : hist.paid[g] <= hist.opened[g]
=============================================================================
