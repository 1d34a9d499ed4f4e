-------------------------------- MODULE Crew --------------------------------
(***************************************************************************)
(* Crews: founding, inviting, joining, leaving, kicking and dissolving     *)
(* (routes/crews over repositories/crew-repository), as concurrent         *)
(* requests over READ COMMITTED rows with the unique indexes, the member   *)
(* trigger and the cascading foreign keys of the migrations.               *)
(*                                                                         *)
(* Rows: the crew_id of each character, its wallet, its membership (unique *)
(* by character), each crew, the unique keys on the name (which stands for *)
(* name and tag) and on the district, and the invite of each crew and      *)
(* character.  A row that references a crew holds the crew FOR KEY SHARE   *)
(* until its transaction ends, which only the crew's deletion waits for.   *)
(* A request that the reads before its first statement refuse is one step  *)
(* that changes nothing (Refuse).  Moral is always enough to found and to  *)
(* be recruited.                                                           *)
(***************************************************************************)
EXTENDS ReadCommitted, Integers, FiniteSets

CONSTANTS Proc, Char,
          CrewId,       \* the ids of the crews of a run: bounds the foundings
          Name, District, Origin,   \* character -> its origin district
          Cap,          \* CREW_MAX_SIZE, 4, as the trigger counts it too
          Cost, InitBalance,
          None,         \* no crew, no district
          MaxInvites    \* bound: invites of a run

Crews == [leader : Char, name : Name, district : District \cup {None}]

ASSUME CrewAssumption ==
  /\ NoProc \notin Proc /\ IsFiniteSet(Proc)
  /\ None \notin CrewId \cup District
  /\ NoRow \notin CrewId \cup Crews \cup Nat
  /\ Origin \in [Char -> District]
  /\ Cap \in Nat \ {0} /\ Cost \in Nat
  /\ InitBalance \in [Char -> Nat]
  /\ MaxInvites \in Nat

VARIABLES hist,     \* crews founded, by whom, invites issued, expired and used, and
                    \* whether every request so far was alone
          pc, req,  \* request -> its next statement, what it asks for
          read,     \* request -> the wallet, the invite and the district it read
          todo,     \* request -> rows its UPDATE or DELETE has still to visit
          refs      \* request -> crews its new rows reference

local == <<pc, req, read, todo, refs>>
vars == <<rcVars, hist, local>>

Ch(c) == <<"character", c>>
W(c) == <<"wallet", c>>
M(c) == <<"member", c>>
K(k) == <<"crew", k>>
N(n) == <<"name", n>>
D(d) == <<"district", d>>
I(k, c) == <<"invite", k, c>>
Rows == {Ch(c) : c \in Char} \cup {W(c) : c \in Char} \cup {M(c) : c \in Char}
          \cup {K(k) : k \in CrewId} \cup {N(n) : n \in Name} \cup {D(d) : d \in District}
          \cup {I(k, c) : k \in CrewId, c \in Char}

WalletRows == [balance : Nat, version : Nat]
\* A departure and a kick run the same statements: both are "remove".
Requests ==
  [op : {"create"}, crew : CrewId, char : Char, name : Name]
    \cup [op : {"invite", "join", "remove"}, crew : CrewId, char : Char]
    \cup [op : {"dissolve"}, crew : CrewId]
NoRequest == [op |-> "none"]
NoRead == [version |-> 0, balance |-> 0, invite |-> 0, district |-> None]

Init ==
  /\ RcInit([r \in Rows |->
       CASE r[1] = "character" -> None
         [] r[1] = "wallet" -> [balance |-> InitBalance[r[2]], version |-> 0]
         [] OTHER -> NoRow])
  /\ hist = [ids |-> {}, founded |-> [c \in Char |-> 0], issued |-> 0, expired |-> {},
             unused |-> [kc \in CrewId \X Char |-> 0], alone |-> TRUE]
  /\ pc = [p \in Proc |-> "idle"]
  /\ req = [p \in Proc |-> NoRequest]
  /\ read = [p \in Proc |-> NoRead]
  /\ todo = [p \in Proc |-> {}]
  /\ refs = [p \in Proc |-> {}]
-----------------------------------------------------------------------------
Goto(p, l) == pc' = [pc EXCEPT ![p] = l]

Answered(p) ==
  /\ Goto(p, "idle")
  /\ req' = [req EXCEPT ![p] = NoRequest]
  /\ read' = [read EXCEPT ![p] = NoRead]
  /\ todo' = [todo EXCEPT ![p] = {}]
  /\ refs' = [refs EXCEPT ![p] = {}]

Reject(p) == Answered(p) /\ Rollback(p) /\ UNCHANGED hist

Members(p, k) == {c \in Char : Sees(p, M(c)) = k}

\* memberCount >= CREW_MAX_SIZE, which the trigger repeats.
Full(p, k) == Cardinality(Members(p, k)) >= Cap

Live(i) == i # NoRow /\ i \notin hist.expired
Leader(k) == IF db[K(k)] = NoRow THEN NoRow ELSE db[K(k)].leader

\* The rows p's next statement has to lock, besides the crew it references.
NextRows(p) ==
  LET r == req[p] IN
  CASE pc[p] = "debit" -> {W(r.char)}
    [] pc[p] = "name" -> {N(r.name)}
    [] pc[p] = "district" -> {D(Origin[r.char])}
    [] pc[p] = "member" -> {M(r.char)}
    [] pc[p] \in {"accept", "replace"} ->
         IF Sees(p, I(r.crew, r.char)) = read[p].invite THEN {I(r.crew, r.char)} ELSE {}
    [] pc[p] = "invite" -> {I(r.crew, r.char)}
    [] pc[p] = "remove" -> IF Sees(p, M(r.char)) = r.crew THEN {M(r.char)} ELSE {}
    [] pc[p] \in {"affiliate", "release"} -> {Ch(r.char)}
    [] pc[p] = "delete" -> {K(r.crew)}
    [] OTHER -> todo[p]

HoldsBack(q, p) ==
  /\ q # p
  /\ \/ \E r \in NextRows(p) : owner[r] = q
     \/ pc[p] \in {"reference", "invite"} /\ owner[K(req[p].crew)] = q
     \/ pc[p] = "delete" /\ req[p].crew \in refs[q]
MayGo(p) == \A q \in Proc : ~HoldsBack(q, p)
-----------------------------------------------------------------------------
\* What each route checks before its first statement.

\* The id a founding will be given is one nobody had.
MayCreate(p, r) ==
  /\ db[Ch(r.char)] = None
  /\ r.crew \notin hist.ids
  /\ \A q \in Proc : req[q].op = "create" => req[q].crew # r.crew
MayInvite(p, r) ==
  /\ db[K(r.crew)] # NoRow
  /\ ~Full(p, r.crew)
  /\ db[Ch(r.char)] = None
  /\ ~Live(db[I(r.crew, r.char)])
  /\ hist.issued + Cardinality({q \in Proc : req[q].op = "invite"}) < MaxInvites
MayJoin(p, r) == Live(db[I(r.crew, r.char)]) /\ ~Full(p, r.crew)
\* A member, who is not the leader.
MayRemove(r) ==
  /\ db[K(r.crew)] # NoRow
  /\ Leader(r.crew) # r.char
  /\ db[M(r.char)] = r.crew

FirstStatement ==
  [create |-> "wallet", dissolve |-> "clear", remove |-> "remove"]

NobodyElse(p) == \A q \in Proc \ {p} : pc[q] = "idle"

Start(p) ==
  /\ pc[p] = "idle"
  /\ \E r \in Requests :
       /\ CASE r.op = "create" -> MayCreate(p, r)
            [] r.op = "invite" -> MayInvite(p, r)
            [] r.op = "join" -> MayJoin(p, r)
            [] r.op = "dissolve" -> db[K(r.crew)] # NoRow
            [] OTHER -> MayRemove(r)
       /\ req' = [req EXCEPT ![p] = r]
       /\ IF r.op \in {"invite", "join"}
          THEN LET i == db[I(r.crew, r.char)] IN
               /\ read' = [read EXCEPT ![p].invite = i]
               /\ Goto(p, IF r.op = "join" THEN "trigger"
                          ELSE IF i = NoRow THEN "invite" ELSE "replace")
          ELSE UNCHANGED read /\ Goto(p, FirstStatement[r.op])
  /\ hist' = [hist EXCEPT !.alone = @ /\ NobodyElse(p)]
  /\ UNCHANGED <<rcVars, todo, refs>>

Refuse(p) == pc[p] = "idle" /\ UNCHANGED vars
-----------------------------------------------------------------------------
\* POST /crews, one transaction.

HasFunds_Unchecked(w) == TRUE
HasFunds(w) == w.balance >= Cost

ReadWallet(p) ==
  LET w == Sees(p, W(req[p].char)) IN
  /\ pc[p] = "wallet"
  /\ IF ~HasFunds(w) THEN Reject(p)
     ELSE /\ read' = [read EXCEPT ![p].version = w.version, ![p].balance = w.balance]
          /\ Goto(p, "names")
          /\ UNCHANGED <<rcVars, hist, req, todo, refs>>

\* findByName, findByTag and findByTerritory.
ReadNames(p) ==
  LET d == Origin[req[p].char] IN
  /\ pc[p] = "names"
  /\ IF Sees(p, N(req[p].name)) # NoRow THEN Reject(p)
     ELSE /\ read' = [read EXCEPT ![p].district = IF Sees(p, D(d)) = NoRow THEN d ELSE None]
          /\ Goto(p, "debit")
          /\ UNCHANGED <<rcVars, hist, req, todo, refs>>

VersionMatches(p) == Sees(p, W(req[p].char)).version = read[p].version

\* updateOptimistic and the audit entry.
DebitWallet(p) ==
  LET c == req[p].char IN
  /\ pc[p] = "debit"
  /\ MayGo(p)
  /\ IF ~VersionMatches(p) THEN Reject(p)
     ELSE /\ Put(p, W(c), [balance |-> read[p].balance - Cost, version |-> read[p].version + 1])
          /\ Goto(p, "name")
          /\ UNCHANGED <<hist, req, read, todo, refs>>

CrewRow(p) == [leader |-> req[p].char, name |-> req[p].name, district |-> read[p].district]

\* INSERT of the crew: the unique name (and tag), the row, and then the unique
\* district, if it claims one.
InsertName(p) ==
  LET n == N(req[p].name) IN
  /\ pc[p] = "name"
  /\ MayGo(p)
  /\ IF Sees(p, n) # NoRow THEN Reject(p)
     ELSE /\ PutAll(p, [r \in {n, K(req[p].crew)} |->
                          IF r = n THEN req[p].crew ELSE CrewRow(p)])
          /\ Goto(p, IF read[p].district = None THEN "member" ELSE "district")
          /\ UNCHANGED <<hist, req, read, todo, refs>>

\* A district claimed meanwhile: back to the savepoint and once more without it.
DistrictTaken_Ignored(p, d) == FALSE
DistrictTaken(p, d) == Sees(p, D(d)) # NoRow

ClaimDistrict(p) ==
  LET d == read[p].district IN
  /\ pc[p] = "district"
  /\ MayGo(p)
  /\ IF DistrictTaken(p, d)
     THEN /\ RollbackTo(p, {N(req[p].name), K(req[p].crew)})
          /\ read' = [read EXCEPT ![p].district = None]
          /\ Goto(p, "name")
     ELSE /\ Put(p, D(d), req[p].crew)
          /\ Goto(p, "member")
          /\ UNCHANGED read
  /\ UNCHANGED <<hist, req, todo, refs>>
-----------------------------------------------------------------------------
\* insertMember and setCrewId, of a founding and of a join.

\* trg_crew_member_limit: the count a new member's INSERT starts with.
MemberTrigger(p) ==
  /\ pc[p] = "trigger"
  /\ IF Full(p, req[p].crew) THEN Reject(p)
     ELSE Goto(p, "member") /\ UNCHANGED <<rcVars, hist, req, read, todo, refs>>

\* The unique character_id.
InsertMember(p) ==
  /\ pc[p] = "member"
  /\ MayGo(p)
  /\ IF Sees(p, M(req[p].char)) # NoRow THEN Reject(p)
     ELSE /\ Put(p, M(req[p].char), req[p].crew)
          /\ Goto(p, "reference")
          /\ UNCHANGED <<hist, req, read, todo, refs>>

\* Its foreign key: a crew deleted meanwhile refuses the member.
ReferenceCrew(p) ==
  /\ pc[p] = "reference"
  /\ MayGo(p)
  /\ IF Sees(p, K(req[p].crew)) = NoRow THEN Reject(p)
     ELSE /\ refs' = [refs EXCEPT ![p] = {req[p].crew}]
          /\ Goto(p, IF req[p].op = "join" THEN "accept" ELSE "affiliate")
          /\ UNCHANGED <<rcVars, hist, req, read, todo>>

\* deleteInvite of a join, by the id it read: nothing if it is gone.
AcceptInvite(p) ==
  LET i == I(req[p].crew, req[p].char) IN
  IF Sees(p, i) = read[p].invite THEN Put(p, i, NoRow) ELSE UNCHANGED rcVars
DeleteInvite(p) ==
  /\ pc[p] = "accept"
  /\ MayGo(p)
  /\ AcceptInvite(p)
  /\ Goto(p, "affiliate")
  /\ UNCHANGED <<hist, req, read, todo, refs>>

Affiliate_None(p) == UNCHANGED rcVars
Affiliate(p) == Put(p, Ch(req[p].char), req[p].crew)
SetCrewId(p) ==
  /\ pc[p] = "affiliate"
  /\ MayGo(p)
  /\ Affiliate(p)
  /\ Goto(p, "commit")
  /\ UNCHANGED <<hist, req, read, todo, refs>>
-----------------------------------------------------------------------------
\* POST /crews/:id/invite, outside any transaction.

DeleteExpired(p) ==
  LET i == I(req[p].crew, req[p].char) IN
  /\ pc[p] = "replace"
  /\ MayGo(p)
  /\ IF db[i] = read[p].invite THEN WriteNow(p, i, NoRow) ELSE UNCHANGED rcVars
  /\ Goto(p, "invite")
  /\ UNCHANGED <<hist, req, read, todo, refs>>

\* The unique (crew, character) and the foreign key on the crew.
CreateInvite(p) ==
  LET k == req[p].crew
      c == req[p].char
  IN
  /\ pc[p] = "invite"
  /\ MayGo(p)
  /\ IF db[I(k, c)] # NoRow \/ db[K(k)] = NoRow
     THEN UNCHANGED <<rcVars, hist>>
     ELSE /\ WriteNow(p, I(k, c), hist.issued + 1)
          /\ hist' = [hist EXCEPT !.issued = @ + 1, !.unused[<<k, c>>] = @ + 1]
  /\ Answered(p)
-----------------------------------------------------------------------------
\* POST /crews/:id/leave and DELETE /crews/:id/members/:characterId.

RemoveMember(p) ==
  /\ pc[p] = "remove"
  /\ MayGo(p)
  /\ IF Sees(p, M(req[p].char)) = req[p].crew
     THEN Put(p, M(req[p].char), NoRow) ELSE UNCHANGED rcVars
  /\ Goto(p, "release")
  /\ UNCHANGED <<hist, req, read, todo, refs>>

\* setCrewId(null), whatever the DELETE matched.
ClearCrewId(p) ==
  /\ pc[p] = "release"
  /\ MayGo(p)
  /\ Put(p, Ch(req[p].char), None)
  /\ Goto(p, "commit")
  /\ UNCHANGED <<hist, req, read, todo, refs>>
-----------------------------------------------------------------------------
\* DELETE /crews/:id: statements over many rows, each over the rows that match
\* when it starts, one row at a time, if they still match then.

Referring(p, rows) ==
  {r \in rows : CASE r[1] \in {"character", "member"} -> Sees(p, r) = req[p].crew
                  [] OTHER -> Sees(p, r) # NoRow}
Characters == {Ch(c) : c \in Char}
Memberships == {M(c) : c \in Char}
Invites(k) == {I(k, c) : c \in Char}

\* ON DELETE CASCADE of members and invites, ON DELETE SET NULL of characters.
Cascaded(k) == Characters \cup Memberships \cup Invites(k)

Stages == {"clear", "uninvite", "expel", "cascade"}
RowsOf(p) ==
  LET k == req[p].crew IN
  CASE pc[p] = "clear" -> Characters [] pc[p] = "uninvite" -> Invites(k)
    [] pc[p] = "expel" -> Memberships [] pc[p] = "cascade" -> Cascaded(k)
NextStage == [clear |-> "uninvite", uninvite |-> "expel", expel |-> "delete", cascade |-> "commit"]
Visited(p, left) ==
  /\ todo' = [todo EXCEPT ![p] = left]
  /\ IF left = {} THEN Goto(p, NextStage[pc[p]]) ELSE UNCHANGED pc
  /\ UNCHANGED <<hist, req, read, refs>>

BeginStatement(p) ==
  /\ pc[p] \in Stages /\ todo[p] = {}
  /\ Visited(p, Referring(p, RowsOf(p)))
  /\ UNCHANGED rcVars

VisitRow(p) ==
  /\ pc[p] \in Stages
  /\ \E r \in todo[p] :
       /\ CanLock(p, r)
       /\ IF r \in Referring(p, {r})
          THEN Put(p, r, IF r[1] = "character" THEN None ELSE NoRow)
          ELSE UNCHANGED rcVars
       /\ Visited(p, todo[p] \ {r})

DeleteCrew(p) ==
  LET k == req[p].crew
      row == Sees(p, K(k))
      keys == IF row.district = None THEN {N(row.name)} ELSE {N(row.name), D(row.district)}
  IN
  /\ pc[p] = "delete"
  /\ MayGo(p)
  /\ IF row = NoRow
     THEN Goto(p, "commit") /\ UNCHANGED rcVars
     ELSE PutAll(p, [r \in {K(k)} \cup keys |-> NoRow]) /\ Goto(p, "cascade")
  /\ UNCHANGED <<hist, req, read, todo, refs>>
-----------------------------------------------------------------------------
CommitRequest(p) ==
  LET k == req[p].crew
      c == req[p].char
  IN
  /\ pc[p] = "commit"
  /\ Commit(p)
  /\ hist' = CASE req[p].op = "create" ->
                    [hist EXCEPT !.ids = @ \cup {k}, !.founded[c] = @ + 1]
               [] req[p].op = "join" -> [hist EXCEPT !.unused[<<k, c>>] = @ - 1]
               [] OTHER -> hist
  /\ Answered(p)

Lost(p) == pc[p] # "idle" /\ Reject(p)

\* PostgreSQL aborts a transaction that waits in a cycle.
Deadlocked(p) ==
  \E S \in SUBSET Proc : p \in S /\ \A q \in S : \E r \in S : HoldsBack(r, q)
DetectDeadlock(p) == Deadlocked(p) /\ Reject(p)

\* 24 hours pass for one invite.
Expire ==
  /\ \E k \in CrewId, c \in Char :
       /\ Live(db[I(k, c)])
       /\ hist' = [hist EXCEPT !.expired = @ \cup {db[I(k, c)]}]
  /\ UNCHANGED <<rcVars, local>>

Step(p) ==
  \/ ReadWallet(p) \/ ReadNames(p) \/ DebitWallet(p) \/ InsertName(p) \/ ClaimDistrict(p)
  \/ MemberTrigger(p) \/ InsertMember(p) \/ ReferenceCrew(p) \/ DeleteInvite(p) \/ SetCrewId(p)
  \/ DeleteExpired(p) \/ CreateInvite(p)
  \/ RemoveMember(p) \/ ClearCrewId(p)
  \/ BeginStatement(p) \/ VisitRow(p) \/ DeleteCrew(p)
  \/ CommitRequest(p)

Next ==
  \/ \E p \in Proc : Start(p) \/ Refuse(p) \/ Step(p) \/ Lost(p) \/ DetectDeadlock(p)
  \/ Expire

Spec == Init /\ [][Next]_vars
-----------------------------------------------------------------------------
\* Every value has its type.
TypeOK ==
  /\ DOMAIN db = Rows /\ DOMAIN pend = Rows
  /\ owner \in [Rows -> Proc \cup {NoProc}]
  /\ \A row \in Rows : \A v \in {db[row], pend[row]} :
       CASE row[1] = "character" -> v \in CrewId \cup {None}
         [] row[1] = "wallet" -> v \in WalletRows
         [] row[1] = "crew" -> v \in Crews \cup {NoRow}
         [] row[1] \in {"member", "name", "district"} -> v \in CrewId \cup {NoRow}
         [] OTHER -> v = NoRow \/ v \in 1 .. MaxInvites
  /\ req \in [Proc -> Requests \cup {NoRequest}]
  /\ \A p \in Proc : todo[p] \subseteq Rows /\ refs[p] \subseteq CrewId

\* A crew that exists has its leader among its members, whichever kicks,
\* departures and dissolutions race: only a dissolution removes the leader.
LeaderIsMember ==
  \A k \in CrewId : db[K(k)] # NoRow => db[M(db[K(k)].leader)] = k

\* No member, invite or affiliation outlives its crew, and whoever is affiliated
\* to a crew is on its roster: no request leaves a character with the crew of a
\* membership that another one removed.
NoGhostMembers ==
  /\ \A k \in CrewId : db[K(k)] = NoRow =>
       \A c \in Char : db[M(c)] # k /\ db[Ch(c)] # k /\ db[I(k, c)] = NoRow
  /\ \A c \in Char : db[Ch(c)] # None => db[M(c)] = db[Ch(c)]

\* The roster and what refers to it.
RosterConsistent == LeaderIsMember /\ NoGhostMembers

\* A character has paid for each crew it founded, once.
FoundersPay ==
  \A c \in Char : db[W(c)].balance = InitBalance[c] - Cost * hist.founded[c]

\* Two crews never claim one district nor bear one name, and a dissolved crew
\* frees both.
ClaimsMatch ==
  /\ \A d \in District : \A k \in CrewId :
       db[D(d)] = k <=> db[K(k)] # NoRow /\ db[K(k)].district = d
  /\ \A n \in Name : \A k \in CrewId :
       db[N(n)] = k <=> db[K(k)] # NoRow /\ db[K(k)].name = n

\* What a founding takes: the fee, the name and the district.
FoundingConsistent == FoundersPay /\ ClaimsMatch

\* What remains true of any two overlapping requests.
CrewsConsistent == RosterConsistent /\ FoundingConsistent

\* Whoever is on a roster is affiliated to that crew.
RosterMatches == \A c \in Char : db[M(c)] # NoRow => db[Ch(c)] = db[M(c)]

\* No crew has more members than the cap.
CapHolds == \A k \in CrewId : Cardinality({c \in Char : db[M(c)] = k}) <= Cap

\* No invite admits its character twice.
InvitesUsedOnce == \A kc \in CrewId \X Char : hist.unused[kc] >= 0

\* While no two requests overlap, whatever of them fails, expires or is lost, the
\* two records of who is in which crew agree, no crew has more members than the
\* cap and no invite admits its character twice.
SoloMembership == hist.alone => RosterMatches /\ CapHolds /\ InvitesUsedOnce
=============================================================================
