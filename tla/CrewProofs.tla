---------------------------- MODULE CrewProofs ----------------------------
(* The rosters, the claims and the fees of crews, for any characters, names    *)
(* and districts, any cap and any number of concurrent requests.               *)
EXTENDS Crew, FiniteSetTheorems, TLAPS

-----------------------------------------------------------------------------
(* The inductive invariant.                                                    *)

\* The versions a row may have.
Versions(r) ==
  CASE r[1] = "character" -> CrewId \cup {None}
    [] r[1] = "wallet" -> WalletRows
    [] r[1] = "crew" -> Crews \cup {NoRow}
    [] r[1] \in {"member", "name", "district"} -> CrewId \cup {NoRow}
    [] OTHER -> 1 .. MaxInvites \cup {NoRow}

RowsTyped ==
  /\ DOMAIN db = Rows /\ DOMAIN pend = Rows
  /\ owner \in [Rows -> Proc \cup {NoProc}]
  /\ \A r \in Rows : db[r] \in Versions(r) /\ pend[r] \in Versions(r)

Founding == {"wallet", "names", "debit", "name", "district", "member", "reference", "affiliate", "commit"}
Joining == {"trigger", "member", "reference", "accept", "affiliate", "commit"}
Dissolving == {"clear", "uninvite", "expel", "delete", "cascade", "commit"}
Statements == Founding \cup Joining \cup Dissolving \cup {"idle", "replace", "invite", "remove", "release"}

Histories == [ids : SUBSET CrewId, founded : [Char -> Nat], issued : Nat,
              expired : SUBSET (1 .. MaxInvites), unused : [CrewId \X Char -> Int], alone : BOOLEAN]
Reads == [version : Nat, balance : Nat, invite : 0 .. MaxInvites \cup {NoRow},
          district : District \cup {None}]

LocalsTyped ==
  /\ pc \in [Proc -> Statements]
  /\ req \in [Proc -> Requests \cup {NoRequest}]
  /\ read \in [Proc -> Reads]
  /\ todo \in [Proc -> SUBSET Rows]
  /\ refs \in [Proc -> SUBSET CrewId]

Typed == RowsTyped /\ LocalsTyped /\ hist \in Histories

\* The statements of each kind of request, and the crew its new rows reference.
Fits(p) ==
  /\ pc[p] = "idle" <=> req[p] = NoRequest
  /\ pc[p] = "idle" => read[p].district = None
  /\ req[p].op = "create" => pc[p] \in Founding
  /\ req[p].op = "join" => pc[p] \in Joining
  /\ req[p].op = "remove" => pc[p] \in {"remove", "release", "commit"}
  /\ req[p].op = "invite" => pc[p] \in {"replace", "invite"}
  /\ req[p].op = "dissolve" => pc[p] \in Dissolving
  /\ todo[p] \subseteq IF pc[p] \in Stages THEN RowsOf(p) ELSE {}
  /\ refs[p] = IF req[p].op \in {"create", "join"} /\ pc[p] \in {"accept", "affiliate", "commit"}
               THEN {req[p].crew} ELSE {}

\* What a transaction has written over each row it holds.
Enters(p) == req[p].op \in {"create", "join"}
Wrote(p, r) ==
  LET k == req[p].crew IN
  CASE r[1] = "character" -> pend[r] = IF Enters(p) THEN k ELSE None
    [] r[1] = "wallet" -> /\ db[r].balance >= Cost
                          /\ pend[r] = [balance |-> db[r].balance - Cost, version |-> db[r].version + 1]
    [] r[1] = "crew" -> IF Enters(p) THEN db[r] = NoRow /\ pend[r] = CrewRow(p)
                                     ELSE db[r] # NoRow /\ pend[r] = NoRow
    [] r[1] \in {"member", "name", "district"} ->
         IF Enters(p) THEN db[r] = NoRow /\ pend[r] = k ELSE db[r] = k /\ pend[r] = NoRow
    [] OTHER -> pend[r] = NoRow
Written(p) == \A r \in Rows : owner[r] = p => Wrote(p, r)

\* A founding: its id is new, its read of the wallet is one that a version guards, and
\* it holds one row more after each statement.
Affords(p) ==
  LET w == db[W(req[p].char)] IN
  /\ read[p].balance >= Cost /\ read[p].version <= w.version
  /\ read[p].version = w.version => read[p].balance = w.balance
Founds(p) ==
  LET k == req[p].crew
      c == req[p].char
      d == read[p].district
  IN
  req[p].op = "create" =>
    /\ k \notin hist.ids
    /\ d \in {None, Origin[c]}
    /\ pc[p] = "district" => d # None
    /\ pc[p] \in {"names", "debit"} => Affords(p)
    /\ \A r \in Rows : owner[r] = p <=>
         \/ r = W(c) /\ pc[p] \notin {"wallet", "names", "debit"}
         \/ r \in {N(req[p].name), K(k)} /\ pc[p] \in Joining \cup {"district"}
         \/ r = D(d) /\ d # None /\ pc[p] \in Joining
         \/ r = M(c) /\ pc[p] \in Joining \ {"member"}
         \/ r = Ch(c) /\ pc[p] = "commit"

\* A join: the crew it references stays until it ends.
Joins(p) ==
  LET k == req[p].crew
      c == req[p].char
  IN
  req[p].op = "join" =>
    /\ \A r \in Rows : owner[r] = p => r \in {M(c), Ch(c), I(k, c)}
    /\ owner[M(c)] = p <=> pc[p] \notin {"trigger", "member"}
    /\ owner[Ch(c)] = p <=> pc[p] = "commit"
    /\ pc[p] \in {"accept", "affiliate", "commit"} => db[K(k)] # NoRow /\ owner[K(k)] = NoProc

\* A departure or a kick never removes a leader.
Removes(p) ==
  LET k == req[p].crew
      c == req[p].char
  IN
  req[p].op = "remove" =>
    /\ k \in hist.ids
    /\ db[K(k)] # NoRow => db[K(k)].leader # c
    /\ \A r \in Rows : owner[r] = p => r \in {M(c), Ch(c)}
    /\ owner[M(c)] = p => pc[p] # "remove"
    /\ owner[Ch(c)] = p <=> pc[p] = "commit"

\* What refers to the crew that p dissolves, as p sees it.
Refers(p, r) ==
  IF r[1] \in {"character", "member"} THEN Sees(p, r) = req[p].crew ELSE Sees(p, r) # NoRow

\* A dissolution holds the crew while it clears what refers to it; by the commit nothing
\* does, or another dissolution came first.
Dissolves(p) ==
  LET k == req[p].crew IN
  req[p].op = "dissolve" =>
    /\ k \in hist.ids
    /\ \A r \in Rows : owner[r] = p => r[1] # "wallet"
    /\ \A j \in CrewId : owner[K(j)] = p => j = k /\ pc[p] \in {"cascade", "commit"}
    /\ owner[K(k)] = p =>
         /\ owner[N(db[K(k)].name)] = p
         /\ db[K(k)].district # None => owner[D(db[K(k)].district)] = p
    /\ pc[p] = "cascade" =>
         /\ owner[K(k)] = p
         /\ todo[p] # {} => \A r \in Cascaded(k) \ todo[p] : ~Refers(p, r)
    /\ pc[p] = "commit" =>
         IF owner[K(k)] = p THEN \A r \in Cascaded(k) : ~Refers(p, r) ELSE db[K(k)] = NoRow

HoldsNothing(p) == req[p].op \in {"none", "invite"} => \A r \in Rows : owner[r] # p

RequestInv(p) ==
  Fits(p) /\ Written(p) /\ Founds(p) /\ Joins(p) /\ Removes(p) /\ Dissolves(p) /\ HoldsNothing(p)

\* An id is given once, and the invites under way may all be issued.
Known == \A k \in CrewId : db[K(k)] # NoRow => k \in hist.ids
Books == Known /\ PendingIsOwned /\ CrewsConsistent
Apart == \A p, q \in Proc :
           p # q /\ req[p].op = "create" /\ req[q].op = "create" => req[p].crew # req[q].crew
Inviting == {q \in Proc : req[q].op = "invite"}
Bounded == hist.issued + Cardinality(Inviting) <= MaxInvites

IInv ==
  /\ Typed /\ Books /\ Apart /\ Bounded
  /\ \A p \in Proc : RequestInv(p)
-----------------------------------------------------------------------------
\* Rows, their versions, and the initial state.

LEMMA Constants ==
  /\ NoProc \notin Proc /\ IsFiniteSet(Proc)
  /\ None \notin CrewId /\ None \notin District
  /\ NoRow \notin CrewId /\ NoRow \notin Crews /\ NoRow \notin Nat
  /\ Origin \in [Char -> District] /\ Cost \in Nat
  /\ InitBalance \in [Char -> Nat] /\ MaxInvites \in Nat
  BY CrewAssumption

LEMMA RowKinds ==
  /\ \A c \in Char : /\ Ch(c) \in Rows /\ Ch(c)[1] = "character" /\ Ch(c)[2] = c
                     /\ W(c) \in Rows /\ W(c)[1] = "wallet" /\ W(c)[2] = c
                     /\ M(c) \in Rows /\ M(c)[1] = "member" /\ M(c)[2] = c
  /\ \A k \in CrewId : K(k) \in Rows /\ K(k)[1] = "crew" /\ K(k)[2] = k
  /\ \A n \in Name : N(n) \in Rows /\ N(n)[1] = "name" /\ N(n)[2] = n
  /\ \A d \in District : D(d) \in Rows /\ D(d)[1] = "district" /\ D(d)[2] = d
  /\ \A k \in CrewId, c \in Char : I(k, c) \in Rows /\ I(k, c)[1] = "invite" /\ I(k, c)[2] = k /\ I(k, c)[3] = c
  BY DEF Rows, Ch, W, M, K, N, D, I

LEMMA RowsCovered ==
  ASSUME NEW r \in Rows
  PROVE  \/ \E c \in Char : r = Ch(c)
         \/ \E c \in Char : r = W(c)
         \/ \E c \in Char : r = M(c)
         \/ \E k \in CrewId : r = K(k)
         \/ \E n \in Name : r = N(n)
         \/ \E d \in District : r = D(d)
         \/ \E k \in CrewId, c \in Char : r = I(k, c)
  BY DEF Rows

\* The kind of a row tells which rows it is not.
LEMMA KindsCovered ==
  ASSUME NEW r \in Rows
  PROVE  /\ r[1] \in {"character", "wallet", "member", "crew", "name", "district", "invite"}
         /\ r[1] = "character" => \E c \in Char : r = Ch(c)
         /\ r[1] = "wallet" => \E c \in Char : r = W(c)
         /\ r[1] = "member" => \E c \in Char : r = M(c)
         /\ r[1] = "crew" => \E k \in CrewId : r = K(k)
         /\ r[1] = "name" => \E n \in Name : r = N(n)
         /\ r[1] = "district" => \E d \in District : r = D(d)
         /\ r[1] = "invite" => \E k \in CrewId, c \in Char : r = I(k, c)
  BY RowsCovered, RowKinds

LEMMA VersionsOf ==
  /\ \A c \in Char : /\ Versions(Ch(c)) = CrewId \cup {None}
                     /\ Versions(W(c)) = WalletRows
                     /\ Versions(M(c)) = CrewId \cup {NoRow}
  /\ \A k \in CrewId : Versions(K(k)) = Crews \cup {NoRow}
  /\ \A n \in Name : Versions(N(n)) = CrewId \cup {NoRow}
  /\ \A d \in District : Versions(D(d)) = CrewId \cup {NoRow}
  /\ \A k \in CrewId, c \in Char : Versions(I(k, c)) = 1 .. MaxInvites \cup {NoRow}
  BY RowKinds DEF Versions

LEMMA TypesHold == Typed => TypeOK
<1> SUFFICES ASSUME Typed PROVE TypeOK
  OBVIOUS
<1>1. \A row \in Rows : \A v \in {db[row], pend[row]} :
       CASE row[1] = "character" -> v \in CrewId \cup {None}
         [] row[1] = "wallet" -> v \in WalletRows
         [] row[1] = "crew" -> v \in Crews \cup {NoRow}
         [] row[1] \in {"member", "name", "district"} -> v \in CrewId \cup {NoRow}
         [] OTHER -> v = NoRow \/ v \in 1 .. MaxInvites
  <2> TAKE row \in Rows
  <2> TAKE v \in {db[row], pend[row]}
  <2>1. v \in Versions(row)
    BY DEF Typed, RowsTyped
  <2> QED
    BY <2>1, KindsCovered DEF Versions
<1>2. \A p \in Proc : todo[p] \subseteq Rows /\ refs[p] \subseteq CrewId
  BY DEF Typed, LocalsTyped
<1> QED
  BY <1>1, <1>2 DEF Typed, RowsTyped, LocalsTyped, TypeOK

\* The rows of a type-correct state, kind by kind.
LEMMA Typed_Rows ==
  ASSUME RowsTyped
  PROVE  /\ \A c \in Char : /\ db[Ch(c)] \in CrewId \cup {None} /\ db[W(c)] \in WalletRows
                            /\ db[M(c)] \in CrewId \cup {NoRow}
         /\ \A k \in CrewId : db[K(k)] \in Crews \cup {NoRow}
         /\ \A n \in Name : db[N(n)] \in CrewId \cup {NoRow}
         /\ \A d \in District : db[D(d)] \in CrewId \cup {NoRow}
         /\ \A k \in CrewId, c \in Char : db[I(k, c)] \in 1 .. MaxInvites \cup {NoRow}
  BY RowKinds, VersionsOf DEF RowsTyped

\* What a request asks for.
LEMMA Asking ==
  ASSUME LocalsTyped, NEW p \in Proc
  PROVE  /\ req[p].op \in {"none", "create", "invite", "join", "remove", "dissolve"}
         /\ req[p] = NoRequest <=> req[p].op = "none"
         /\ req[p].op # "none" => req[p].crew \in CrewId
         /\ req[p].op \in {"create", "invite", "join", "remove"} => req[p].char \in Char
         /\ req[p].op = "create" => req[p].name \in Name
<1>1. req[p] \in Requests \cup {NoRequest}
  BY DEF LocalsTyped
<1> QED
  BY <1>1 DEF Requests, NoRequest

LEMMA InitInv == Init => IInv
<1> SUFFICES ASSUME Init PROVE IInv
  OBVIOUS
<1> DEFINE First(r) == CASE r[1] = "character" -> None
                         [] r[1] = "wallet" -> [balance |-> InitBalance[r[2]], version |-> 0]
                         [] OTHER -> NoRow
           rows == [r \in Rows |-> First(r)]
<1>1. db = rows /\ pend = rows /\ owner = [r \in DOMAIN rows |-> NoProc]
  BY DEF Init, RcInit
<1>2. /\ DOMAIN db = Rows /\ pend = db
      /\ owner \in [Rows -> Proc \cup {NoProc}]
      /\ \A r \in Rows : owner[r] = NoProc
  BY <1>1
<1>3. \A r \in Rows : db[r] = First(r)
  BY <1>1
<1> HIDE DEF rows
<1>4. /\ \A c \in Char : /\ db[Ch(c)] = None /\ db[M(c)] = NoRow
                         /\ db[W(c)] = [balance |-> InitBalance[c], version |-> 0]
      /\ \A k \in CrewId : db[K(k)] = NoRow
      /\ \A n \in Name : db[N(n)] = NoRow
      /\ \A d \in District : db[D(d)] = NoRow
      /\ \A k \in CrewId, c \in Char : db[I(k, c)] = NoRow
  <2>1. /\ \A c \in Char : First(Ch(c)) = None /\ First(M(c)) = NoRow
        /\ \A k \in CrewId : First(K(k)) = NoRow
        /\ \A n \in Name : First(N(n)) = NoRow
        /\ \A d \in District : First(D(d)) = NoRow
        /\ \A k \in CrewId, c \in Char : First(I(k, c)) = NoRow
    BY RowKinds
  <2>2. \A c \in Char : First(W(c)) = [balance |-> InitBalance[c], version |-> 0]
    BY DEF W
  <2> HIDE DEF First
  <2> QED
    BY <1>3, <2>1, <2>2, RowKinds
<1> HIDE DEF First
<1>5. /\ hist = [ids |-> {}, founded |-> [c \in Char |-> 0], issued |-> 0, expired |-> {},
                 unused |-> [kc \in CrewId \X Char |-> 0], alone |-> TRUE]
      /\ pc = [p \in Proc |-> "idle"] /\ req = [p \in Proc |-> NoRequest]
      /\ read = [p \in Proc |-> NoRead] /\ todo = [p \in Proc |-> {}] /\ refs = [p \in Proc |-> {}]
  BY DEF Init
<1>6. \A c \in Char : db[W(c)] \in WalletRows /\ db[W(c)].balance = InitBalance[c]
  <2> TAKE c \in Char
  <2> DEFINE b == InitBalance[c]
  <2>1. b \in Nat /\ db[W(c)] = [balance |-> b, version |-> 0]
    BY <1>4, Constants
  <2> HIDE DEF b
  <2>2. db[W(c)] \in WalletRows /\ db[W(c)].balance = b
    BY <2>1 DEF WalletRows
  <2> QED
    BY <2>2 DEF b
<1>7. RowsTyped
  <2>1. \A r \in Rows : db[r] \in Versions(r)
    <3> TAKE r \in Rows
    <3>1. /\ \A c \in Char : db[Ch(c)] \in Versions(Ch(c))
          /\ \A c \in Char : db[W(c)] \in Versions(W(c))
          /\ \A c \in Char : db[M(c)] \in Versions(M(c))
          /\ \A k \in CrewId : db[K(k)] \in Versions(K(k))
          /\ \A n \in Name : db[N(n)] \in Versions(N(n))
          /\ \A d \in District : db[D(d)] \in Versions(D(d))
          /\ \A k \in CrewId, c \in Char : db[I(k, c)] \in Versions(I(k, c))
      BY <1>4, <1>6, VersionsOf
    <3> QED
      BY <3>1, RowsCovered
  <2> QED
    BY <1>2, <2>1 DEF RowsTyped
<1>8. LocalsTyped
  <2>1. NoRead \in Reads
    BY Constants DEF NoRead, Reads
  <2> QED
    BY <1>5, <2>1 DEF LocalsTyped, Statements
<1>9. hist \in Histories
  BY <1>5 DEF Histories
<1>10. Known /\ PendingIsOwned
  BY <1>2, <1>4 DEF Known, PendingIsOwned
<1>11. CrewsConsistent
  <2>1. FoundersPay
    BY <1>5, <1>6, Constants DEF FoundersPay
  <2>2. ClaimsMatch
    BY <1>4, Constants DEF ClaimsMatch
  <2>3. LeaderIsMember /\ NoGhostMembers
    BY <1>4, Constants DEF LeaderIsMember, NoGhostMembers
  <2> QED
    BY <2>1, <2>2, <2>3 DEF CrewsConsistent, RosterConsistent, FoundingConsistent
<1>12. Apart
  BY <1>5 DEF Apart, NoRequest
<1>13. Bounded
  <2>1. Inviting = {}
    BY <1>5 DEF Inviting, NoRequest
  <2> QED
    BY <1>5, <2>1, Constants, FS_EmptySet DEF Bounded
<1>14. \A p \in Proc : RequestInv(p)
  <2> TAKE p \in Proc
  <2>1. /\ pc[p] = "idle" /\ req[p] = NoRequest /\ NoRequest.op = "none" /\ todo[p] = {} /\ refs[p] = {}
        /\ read[p].district = None /\ \A r \in Rows : owner[r] # p
    BY <1>2, <1>5, Constants DEF NoRequest, NoRead
  <2> QED
    BY <2>1 DEF RequestInv, Fits, Written, Founds, Joins, Removes, Dissolves, HoldsNothing
<1> QED
  BY <1>7, <1>8, <1>9, <1>10, <1>11, <1>12, <1>13, <1>14 DEF IInv, Typed, Books
-----------------------------------------------------------------------------
\* What every step leaves alone.

Unmoved(q) ==
  pc'[q] = pc[q] /\ req'[q] = req[q] /\ read'[q] = read[q] /\ todo'[q] = todo[q] /\ refs'[q] = refs[q]

\* A step of another request leaves the rows q holds and the crews it references alone,
\* publishes later versions of wallets, gives no id again, and adds nothing that refers to
\* a crew that q holds.
LeavesAlone(q) ==
  /\ \A r \in Rows : /\ owner'[r] = q <=> owner[r] = q
                     /\ owner[r] = q => db'[r] = db[r] /\ pend'[r] = pend[r]
  /\ \A c \in Char : db'[W(c)] = db[W(c)] \/ db'[W(c)].version > db[W(c)].version
  /\ hist.ids \subseteq hist'.ids
  /\ req[q].op = "create" => req[q].crew \notin hist'.ids
  /\ \A j \in hist.ids : db'[K(j)] \in {db[K(j)], NoRow}
  /\ \A j \in refs[q] : owner'[K(j)] = owner[K(j)] /\ db'[K(j)] = db[K(j)]
  /\ \A j \in CrewId : owner[K(j)] = q =>
       \A c \in Char : /\ db'[Ch(c)] = j => db[Ch(c)] = j
                       /\ db'[M(c)] = j => db[M(c)] = j
                       /\ db'[I(j, c)] # NoRow => db[I(j, c)] # NoRow

LEMMA CascadedRows ==
  ASSUME NEW k \in CrewId, NEW r \in Cascaded(k)
  PROVE  /\ r \in Rows
         /\ \/ \E c \in Char : r = Ch(c)
            \/ \E c \in Char : r = M(c)
            \/ \E c \in Char : r = I(k, c)
  BY RowKinds DEF Cascaded, Characters, Memberships, Invites

LEMMA ClearKept ==
  ASSUME NEW q \in Proc, NEW k \in CrewId, req[q].crew = k, Unmoved(q), LeavesAlone(q),
         owner[K(k)] = q, NEW r \in Cascaded(k), ~Refers(q, r)
  PROVE  ~Refers(q, r)'
<1>1. r \in Rows /\ (owner'[r] = q <=> owner[r] = q) /\ (owner[r] = q => pend'[r] = pend[r]) /\ req'[q].crew = k
  BY CascadedRows DEF LeavesAlone, Unmoved
<1>2. CASE owner[r] = q
  BY <1>1, <1>2 DEF Refers, Sees, Unmoved
<1>3. CASE owner[r] # q
  <2>1. ASSUME r[1] \in {"character", "member"} PROVE db'[r] = k => db[r] = k
    <3>1. (\E c \in Char : r = Ch(c)) \/ \E c \in Char : r = M(c)
      BY <2>1, CascadedRows, RowKinds
    <3> QED
      BY <3>1 DEF LeavesAlone
  <2>2. ASSUME r[1] \notin {"character", "member"} PROVE db'[r] # NoRow => db[r] # NoRow
    <3>1. \E c \in Char : r = I(k, c)
      BY <2>2, CascadedRows, RowKinds
    <3> QED
      BY <3>1 DEF LeavesAlone
  <2> QED
    BY <1>1, <1>3, <2>1, <2>2 DEF Refers, Sees
<1> QED
  BY <1>2, <1>3

LEMMA OthersKeep ==
  ASSUME Typed, Typed', Known, NEW q \in Proc, RequestInv(q), Unmoved(q), LeavesAlone(q)
  PROVE  RequestInv(q)'
<1> DEFINE k == req[q].crew
           c == req[q].char
<1>1. /\ req[q].op \in {"none", "create", "invite", "join", "remove", "dissolve"}
      /\ req[q].op # "none" => k \in CrewId
      /\ req[q].op \in {"create", "invite", "join", "remove"} => c \in Char
      /\ req[q].op = "create" => req[q].name \in Name
  BY Asking DEF Typed
<1>2. /\ pc'[q] = pc[q] /\ req'[q] = req[q] /\ read'[q] = read[q]
      /\ todo'[q] = todo[q] /\ refs'[q] = refs[q]
  BY DEF Unmoved
<1>3. \A r \in Rows : /\ owner'[r] = q <=> owner[r] = q
                      /\ owner[r] = q => db'[r] = db[r] /\ pend'[r] = pend[r]
  BY DEF LeavesAlone
<1>4. Fits(q)'
  BY <1>2 DEF RequestInv, Fits, RowsOf
<1>5. Written(q)'
  <2> SUFFICES ASSUME NEW r \in Rows, owner'[r] = q
               PROVE  Wrote(q, r)'
    BY DEF Written
  <2>1. Wrote(q, r) /\ db'[r] = db[r] /\ pend'[r] = pend[r]
    BY <1>3 DEF RequestInv, Written
  <2> QED
    BY <1>2, <2>1 DEF Wrote, Enters, CrewRow
<1>6. Founds(q)'
  <2> SUFFICES ASSUME req[q].op = "create"
               PROVE  Founds(q)'
    BY <1>2 DEF Founds
  <2>1. c \in Char /\ k \notin hist'.ids /\ Founds(q)
    BY <1>1 DEF LeavesAlone, RequestInv
  <2>2. Affords(q) => Affords(q)'
    <3>1. /\ db[W(c)] \in WalletRows /\ db'[W(c)] \in WalletRows /\ read[q].version \in Nat
          /\ db'[W(c)] = db[W(c)] \/ db'[W(c)].version > db[W(c)].version
      BY <2>1, RowKinds, VersionsOf DEF Typed, RowsTyped, LocalsTyped, Reads, LeavesAlone
    <3>2. db[W(c)].version \in Nat /\ db'[W(c)].version \in Nat
      BY <3>1 DEF WalletRows
    <3> QED
      BY <1>2, <3>1, <3>2 DEF Affords
  <2>3. \A r \in Rows : owner'[r] = q <=>
         \/ r = W(c) /\ pc[q] \notin {"wallet", "names", "debit"}
         \/ r \in {N(req[q].name), K(k)} /\ pc[q] \in Joining \cup {"district"}
         \/ r = D(read[q].district) /\ read[q].district # None /\ pc[q] \in Joining
         \/ r = M(c) /\ pc[q] \in Joining \ {"member"}
         \/ r = Ch(c) /\ pc[q] = "commit"
    BY <1>3, <2>1 DEF Founds
  <2> QED
    BY <1>2, <2>1, <2>2, <2>3 DEF Founds
<1>7. Joins(q)'
  <2> SUFFICES ASSUME req[q].op = "join"
               PROVE  Joins(q)'
    BY <1>2 DEF Joins
  <2>1. c \in Char /\ k \in CrewId /\ M(c) \in Rows /\ Ch(c) \in Rows
    BY <1>1, RowKinds
  <2>2. pc[q] \in {"accept", "affiliate", "commit"} => db'[K(k)] # NoRow /\ owner'[K(k)] = NoProc
    <3> SUFFICES ASSUME pc[q] \in {"accept", "affiliate", "commit"}
                 PROVE  db'[K(k)] # NoRow /\ owner'[K(k)] = NoProc
      OBVIOUS
    <3>1. k \in refs[q] /\ db[K(k)] # NoRow /\ owner[K(k)] = NoProc
      BY DEF RequestInv, Fits, Joins
    <3> QED
      BY <3>1 DEF LeavesAlone
  <2> QED
    BY <1>2, <1>3, <2>1, <2>2 DEF RequestInv, Joins
<1>8. Removes(q)'
  <2> SUFFICES ASSUME req[q].op = "remove"
               PROVE  Removes(q)'
    BY <1>2 DEF Removes
  <2>1. c \in Char /\ k \in hist.ids /\ M(c) \in Rows /\ Ch(c) \in Rows
    BY <1>1, RowKinds DEF RequestInv, Removes
  <2>2. k \in hist'.ids /\ db'[K(k)] \in {db[K(k)], NoRow}
    BY <2>1 DEF LeavesAlone
  <2> QED
    BY <1>2, <1>3, <2>1, <2>2 DEF RequestInv, Removes
<1>9. Dissolves(q)'
  <2> SUFFICES ASSUME req[q].op = "dissolve"
               PROVE  Dissolves(q)'
    BY <1>2 DEF Dissolves
  <2>1. k \in CrewId /\ k \in hist.ids /\ k \in hist'.ids /\ Dissolves(q)
    BY <1>1 DEF LeavesAlone, RequestInv, Dissolves
  <2>2. \A r \in Rows : owner'[r] = q => r[1] # "wallet"
    BY <1>3, <2>1 DEF Dissolves
  <2>3. \A j \in CrewId : owner'[K(j)] = q => j = k /\ pc[q] \in {"cascade", "commit"}
    BY <1>3, <2>1, RowKinds DEF Dissolves
  <2>4. owner'[K(k)] = q <=> owner[K(k)] = q
    BY <1>3, <2>1, RowKinds
  <2>5. ASSUME owner[K(k)] = q
        PROVE  /\ db'[K(k)] = db[K(k)]
               /\ owner'[N(db[K(k)].name)] = q
               /\ db[K(k)].district # None => owner'[D(db[K(k)].district)] = q
    <3>1. db'[K(k)] = db[K(k)] /\ db[K(k)] # NoRow
      <4>1. K(k) \in Rows /\ K(k)[1] = "crew" /\ ~Enters(q)
        BY <2>1, RowKinds DEF Enters
      <4>2. Wrote(q, K(k))
        BY <2>5, <4>1 DEF RequestInv, Written
      <4> QED
        BY <1>3, <2>5, <4>1, <4>2 DEF Wrote
    <3>2. db[K(k)] \in Crews
      BY <2>1, <3>1, Typed_Rows DEF Typed
    <3>3. N(db[K(k)].name) \in Rows /\ (db[K(k)].district # None => D(db[K(k)].district) \in Rows)
      BY <3>2, RowKinds DEF Crews
    <3> QED
      BY <1>3, <2>1, <2>5, <3>1, <3>3 DEF Dissolves
  <2>6. owner[K(k)] = q => \A r \in Cascaded(k) : ~Refers(q, r) => ~Refers(q, r)'
    BY <2>1, ClearKept
  <2>7. owner[K(k)] # q /\ db[K(k)] = NoRow => db'[K(k)] = NoRow
    BY <2>1 DEF LeavesAlone
  <2>8. /\ pc[q] = "cascade" => owner[K(k)] = q /\ (todo[q] # {} => \A r \in Cascaded(k) \ todo[q] : ~Refers(q, r))
        /\ pc[q] = "commit" => IF owner[K(k)] = q THEN \A r \in Cascaded(k) : ~Refers(q, r) ELSE db[K(k)] = NoRow
    BY <2>1 DEF Dissolves
  <2>9. /\ pc[q] = "cascade" => owner'[K(k)] = q /\ (todo[q] # {} => \A r \in Cascaded(k) \ todo[q] : ~Refers(q, r)')
        /\ pc[q] = "commit" => IF owner'[K(k)] = q THEN \A r \in Cascaded(k) : ~Refers(q, r)' ELSE db'[K(k)] = NoRow
    BY <2>4, <2>6, <2>7, <2>8
  <2> QED
    BY <1>2, <2>1, <2>2, <2>3, <2>4, <2>5, <2>9 DEF Dissolves, Cascaded, Invites
<1>10. HoldsNothing(q)'
  BY <1>2, <1>3 DEF RequestInv, HoldsNothing
<1> QED
  BY <1>4, <1>5, <1>6, <1>7, <1>8, <1>9, <1>10 DEF RequestInv
-----------------------------------------------------------------------------
\* The shape of a step.

\* A step that begins no request: ids stay apart, and invites under way only end.
LEMMA NoNewRequest ==
  ASSUME IInv, NEW p \in Proc, req'[p] \in {req[p], NoRequest}, hist'.issued = hist.issued,
         \A q \in Proc \ {p} : Unmoved(q)
  PROVE  Apart' /\ Bounded'
<1>1. NoRequest.op = "none"
  BY DEF NoRequest
<1>2. \A q \in Proc : req'[q] = req[q] \/ req'[q].op = "none"
  BY <1>1 DEF Unmoved
<1>3. Apart'
  <2> SUFFICES ASSUME NEW q \in Proc, NEW s \in Proc, q # s, req'[q].op = "create", req'[s].op = "create"
               PROVE  req'[q].crew # req'[s].crew
    BY DEF Apart
  <2>1. req'[q] = req[q] /\ req'[s] = req[s]
    BY <1>2
  <2> QED
    BY <2>1 DEF IInv, Apart
<1>4. Inviting' \subseteq Inviting
  BY <1>2 DEF Inviting
<1>5. IsFiniteSet(Inviting)
  BY Constants, FS_Subset DEF Inviting
<1>6. /\ Cardinality(Inviting) \in Nat /\ IsFiniteSet(Inviting') /\ Cardinality(Inviting') \in Nat
      /\ Cardinality(Inviting') <= Cardinality(Inviting)
  BY <1>4, <1>5, FS_Subset, FS_CardinalityType
<1>7. hist.issued \in Nat
  BY DEF IInv, Typed, Histories
<1> QED
  BY <1>3, <1>6, <1>7, Constants DEF IInv, Bounded

LEMMA StepKeeps ==
  ASSUME IInv, NEW p \in Proc, Typed', Books', Apart', Bounded', RequestInv(p)',
         \A q \in Proc \ {p} : Unmoved(q) /\ LeavesAlone(q)
  PROVE  IInv'
<1>1. \A q \in Proc : RequestInv(q)'
  BY OthersKeep DEF IInv, Books
<1> QED
  BY <1>1 DEF IInv

LEMMA BooksSame ==
  ASSUME IInv, db' = db, hist'.ids = hist.ids, hist'.founded = hist.founded, PendingIsOwned'
  PROVE  Books'
  BY DEF IInv, Books, Known, CrewsConsistent, RosterConsistent, FoundingConsistent, LeaderIsMember,
         NoGhostMembers, FoundersPay, ClaimsMatch

\* A founding under way has an id that was never given.
LEMMA NewIds ==
  ASSUME IInv, NEW q \in Proc
  PROVE  /\ req[q].op = "create" => req[q].crew \notin hist.ids
         /\ \A j \in refs[q] : j \in CrewId /\ owner[K(j)] \in {q, NoProc}
                               /\ (owner[K(j)] # q => db[K(j)] # NoRow /\ req[q].op = "join")
<1>1. RequestInv(q) /\ LocalsTyped
  BY DEF IInv, Typed
<1>2. req[q].op = "create" => req[q].crew \notin hist.ids
  BY <1>1 DEF RequestInv, Founds
<1>3. ASSUME NEW j \in refs[q]
      PROVE  j \in CrewId /\ owner[K(j)] \in {q, NoProc} /\ (owner[K(j)] # q => db[K(j)] # NoRow /\ req[q].op = "join")
  <2>1. /\ j = req[q].crew /\ req[q].op \in {"create", "join"}
        /\ pc[q] \in {"accept", "affiliate", "commit"}
    BY <1>1 DEF RequestInv, Fits
  <2>2. j \in CrewId /\ K(j) \in Rows
    BY <1>1, <2>1, Asking, RowKinds
  <2>3. CASE req[q].op = "create"
    BY <1>1, <2>1, <2>2, <2>3 DEF RequestInv, Founds, Joining
  <2>4. CASE req[q].op = "join"
    BY <1>1, <2>1, <2>2, <2>4 DEF RequestInv, Joins
  <2> QED
    BY <2>1, <2>3, <2>4, <2>2
<1> QED
  BY <1>2, <1>3

\* A step that publishes nothing: p may take or give back rows that nobody else holds, and
\* no crew that another request references.
LEMMA QuietStep ==
  ASSUME IInv, NEW p \in Proc, db' = db, hist' = hist,
         \A r \in Rows : \/ owner'[r] = owner[r] /\ (owner[r] # p => pend'[r] = pend[r])
                         \/ owner[r] = NoProc /\ owner'[r] = p
                         \/ owner[r] = p /\ owner'[r] = NoProc /\ pend'[r] = db[r],
         \A j \in CrewId : owner[K(j)] = NoProc /\ owner'[K(j)] = p => \A q \in Proc \ {p} : j \notin refs[q],
         req'[p] \in {req[p], NoRequest},
         Typed', RequestInv(p)', \A q \in Proc \ {p} : Unmoved(q)
  PROVE  IInv'
<1>1. ASSUME NEW q \in Proc \ {p}
      PROVE  LeavesAlone(q)
  <2>1. q # NoProc /\ q # p /\ p # NoProc
    BY Constants
  <2>2. \A r \in Rows : /\ owner'[r] = q <=> owner[r] = q
                        /\ owner[r] = q => pend'[r] = pend[r]
    BY <2>1
  <2>3. \A j \in refs[q] : owner'[K(j)] = owner[K(j)]
    <3> TAKE j \in refs[q]
    <3>1. j \in CrewId /\ owner[K(j)] \in {q, NoProc} /\ K(j) \in Rows
      BY NewIds, RowKinds
    <3> QED
      BY <2>1, <2>2, <3>1
  <2>4. req[q].op = "create" => req[q].crew \notin hist.ids
    BY NewIds
  <2> QED
    BY <2>2, <2>3, <2>4 DEF LeavesAlone
<1>2. PendingIsOwned'
  <2> SUFFICES ASSUME NEW r \in Rows, owner'[r] = NoProc
               PROVE  pend'[r] = db[r]
    BY DEF PendingIsOwned, IInv, Typed, RowsTyped
  <2>1. owner[r] = NoProc => pend[r] = db[r]
    BY DEF IInv, Typed, RowsTyped, Books, PendingIsOwned
  <2> QED
    BY <2>1, Constants
<1>3. Books'
  BY <1>2, BooksSame
<1>4. Apart' /\ Bounded'
  BY NoNewRequest
<1> QED
  BY <1>1, <1>3, <1>4, StepKeeps

LEMMA LocalStep ==
  ASSUME IInv, NEW p \in Proc, UNCHANGED <<rcVars, hist>>, req'[p] \in {req[p], NoRequest},
         Typed', RequestInv(p)', \A q \in Proc \ {p} : Unmoved(q)
  PROVE  IInv'
<1>1. /\ \A r \in Rows : owner'[r] = owner[r] /\ pend'[r] = pend[r]
      /\ \A j \in CrewId : owner'[K(j)] = owner[K(j)]
      /\ db' = db /\ hist' = hist
  BY DEF rcVars
<1> QED
  BY <1>1, QuietStep, Constants

LEMMA GotoFacts ==
  ASSUME IInv, NEW p \in Proc, NEW n \in Statements, Goto(p, n)
  PROVE  pc'[p] = n /\ pc' \in [Proc -> Statements] /\ \A q \in Proc \ {p} : pc'[q] = pc[q]
  BY DEF IInv, Typed, LocalsTyped, Goto

\* The local state of a request that goes on.
LEMMA Onward ==
  ASSUME IInv, NEW p \in Proc, NEW n \in Statements, Goto(p, n), UNCHANGED <<req, read, todo, refs>>
  PROVE  /\ LocalsTyped' /\ \A q \in Proc \ {p} : Unmoved(q)
         /\ pc'[p] = n
<1>1. pc'[p] = n /\ pc' \in [Proc -> Statements] /\ \A q \in Proc \ {p} : pc'[q] = pc[q]
  BY GotoFacts
<1> QED
  BY <1>1 DEF IInv, Typed, LocalsTyped, Unmoved

\* A request that is over asks for nothing.
LEMMA AnsweredFacts ==
  ASSUME IInv, NEW p \in Proc, Answered(p)
  PROVE  /\ pc'[p] = "idle" /\ req'[p] = NoRequest /\ read'[p].district = None /\ todo'[p] = {} /\ refs'[p] = {}
         /\ LocalsTyped'
         /\ \A q \in Proc \ {p} : Unmoved(q)
<1>1. Goto(p, "idle") /\ "idle" \in Statements
  BY DEF Answered, Statements
<1>2. pc'[p] = "idle" /\ pc' \in [Proc -> Statements] /\ \A q \in Proc \ {p} : pc'[q] = pc[q]
  BY <1>1, GotoFacts
<1>3. NoRead \in Reads
  BY Constants DEF NoRead, Reads
<1>4. /\ req' = [req EXCEPT ![p] = NoRequest] /\ read' = [read EXCEPT ![p] = NoRead]
      /\ todo' = [todo EXCEPT ![p] = {}] /\ refs' = [refs EXCEPT ![p] = {}]
  BY DEF Answered
<1>5. LocalsTyped
  BY DEF IInv, Typed
<1> HIDE DEF Answered
<1>6. /\ req' \in [Proc -> Requests \cup {NoRequest}] /\ read' \in [Proc -> Reads]
      /\ todo' \in [Proc -> SUBSET Rows] /\ refs' \in [Proc -> SUBSET CrewId]
  BY <1>3, <1>4, <1>5 DEF LocalsTyped
<1>7. \A q \in Proc \ {p} : /\ req'[q] = req[q] /\ read'[q] = read[q]
                            /\ todo'[q] = todo[q] /\ refs'[q] = refs[q]
  BY <1>4, <1>5 DEF LocalsTyped
<1>8. req'[p] = NoRequest /\ read'[p].district = None /\ todo'[p] = {} /\ refs'[p] = {}
  BY <1>4, <1>5 DEF LocalsTyped, NoRead
<1> QED
  BY <1>2, <1>6, <1>7, <1>8 DEF LocalsTyped, Unmoved

LEMMA IdleInv ==
  ASSUME NEW p \in Proc, pc'[p] = "idle", req'[p] = NoRequest, read'[p].district = None,
         todo'[p] = {}, refs'[p] = {},
         \A r \in Rows : owner'[r] # p
  PROVE  RequestInv(p)'
<1>1. NoRequest.op = "none"
  BY DEF NoRequest
<1> QED
  BY <1>1 DEF RequestInv, Fits, Written, Founds, Joins, Removes, Dissolves, HoldsNothing

LEMMA RejectInv ==
  ASSUME IInv, NEW p \in Proc, Reject(p)
  PROVE  IInv'
<1>1. /\ pc'[p] = "idle" /\ req'[p] = NoRequest /\ read'[p].district = None /\ todo'[p] = {} /\ refs'[p] = {}
      /\ LocalsTyped' /\ \A q \in Proc \ {p} : Unmoved(q)
  BY AnsweredFacts DEF Reject
<1>2. /\ db' = db /\ hist' = hist /\ DOMAIN pend' = Rows
      /\ \A r \in Rows : /\ pend'[r] = (IF owner[r] = p THEN db[r] ELSE pend[r])
                         /\ owner'[r] = IF owner[r] = p THEN NoProc ELSE owner[r]
      /\ owner' \in [Rows -> Proc \cup {NoProc}]
  <2>1. RowsTyped
    BY DEF IInv, Typed
  <2> QED
    BY <2>1 DEF Reject, Rollback, Released, RowsTyped
<1>3. Typed'
  BY <1>1, <1>2 DEF IInv, Typed, RowsTyped
<1>4. \A r \in Rows : owner'[r] # p
  BY <1>2, Constants
<1>5. RequestInv(p)'
  BY <1>1, <1>4, IdleInv
<1>6. \A j \in CrewId : ~(owner[K(j)] = NoProc /\ owner'[K(j)] = p)
  BY <1>4, RowKinds
<1>7. \A r \in Rows : \/ owner'[r] = owner[r] /\ (owner[r] # p => pend'[r] = pend[r])
                      \/ owner[r] = NoProc /\ owner'[r] = p
                      \/ owner[r] = p /\ owner'[r] = NoProc /\ pend'[r] = db[r]
  BY <1>2
<1> QED
  BY <1>1, <1>2, <1>3, <1>5, <1>6, <1>7, QuietStep
-----------------------------------------------------------------------------
\* Writing rows.

LEMMA PutFacts ==
  ASSUME IInv, NEW p \in Proc, NEW r \in Rows, NEW v, Put(p, r, v)
  PROVE  /\ pend'[r] = v /\ owner'[r] = p /\ owner[r] \in {p, NoProc}
         /\ \A s \in Rows \ {r} : pend'[s] = pend[s] /\ owner'[s] = owner[s]
         /\ db' = db /\ DOMAIN db' = Rows /\ DOMAIN pend' = Rows /\ owner' \in [Rows -> Proc \cup {NoProc}]
  BY DEF IInv, Typed, RowsTyped, Put, CanLock

\* p writes one row, of its type, that is not a crew.
LEMMA PutStep ==
  ASSUME IInv, NEW p \in Proc, NEW r \in Rows, NEW v \in Versions(r), Put(p, r, v), r[1] # "crew",
         hist' = hist, LocalsTyped', req'[p] = req[p], RequestInv(p)', \A q \in Proc \ {p} : Unmoved(q)
  PROVE  IInv'
<1>1. /\ pend'[r] = v /\ owner'[r] = p /\ owner[r] \in {p, NoProc}
      /\ \A s \in Rows \ {r} : pend'[s] = pend[s] /\ owner'[s] = owner[s]
      /\ db' = db /\ DOMAIN db' = Rows /\ DOMAIN pend' = Rows /\ owner' \in [Rows -> Proc \cup {NoProc}]
  BY PutFacts
<1>2. \A s \in Rows : \/ owner'[s] = owner[s] /\ (owner[s] # p => pend'[s] = pend[s])
                      \/ owner[s] = NoProc /\ owner'[s] = p
                      \/ owner[s] = p /\ owner'[s] = NoProc /\ pend'[s] = db[s]
  BY <1>1
<1>3. \A j \in CrewId : owner'[K(j)] = owner[K(j)]
  BY <1>1, RowKinds
<1>4. Typed'
  BY <1>1 DEF IInv, Typed, RowsTyped
<1> QED
  BY <1>1, <1>2, <1>3, <1>4, QuietStep, Constants

LEMMA WrittenKept ==
  ASSUME IInv, NEW p \in Proc, NEW r \in Rows, db' = db, req'[p] = req[p], read'[p].district = read[p].district,
         \A s \in Rows \ {r} : pend'[s] = pend[s] /\ owner'[s] = owner[s], Wrote(p, r)'
  PROVE  Written(p)'
<1> SUFFICES ASSUME NEW s \in Rows, owner'[s] = p, s # r
             PROVE  Wrote(p, s)'
  BY DEF Written
<1>1. Wrote(p, s) /\ pend'[s] = pend[s]
  BY DEF IInv, RequestInv, Written
<1> QED
  BY <1>1 DEF Wrote, Enters, CrewRow

LEMMA WrittenSame ==
  ASSUME IInv, NEW p \in Proc, UNCHANGED rcVars, req'[p] = req[p], read'[p].district = read[p].district
  PROVE  Written(p)'
  BY DEF IInv, RequestInv, Written, Wrote, Enters, CrewRow, rcVars

\* Clauses about the other kinds of request.
LEMMA OnlyFounds ==
  ASSUME NEW p \in Proc, req'[p].op = "create", Fits(p)', Written(p)', Founds(p)'
  PROVE  RequestInv(p)'
  BY DEF RequestInv, Joins, Removes, Dissolves, HoldsNothing

LEMMA OnlyJoins ==
  ASSUME NEW p \in Proc, req'[p].op = "join", Fits(p)', Written(p)', Joins(p)'
  PROVE  RequestInv(p)'
  BY DEF RequestInv, Founds, Removes, Dissolves, HoldsNothing

LEMMA OnlyRemoves ==
  ASSUME NEW p \in Proc, req'[p].op = "remove", Fits(p)', Written(p)', Removes(p)'
  PROVE  RequestInv(p)'
  BY DEF RequestInv, Founds, Joins, Dissolves, HoldsNothing

LEMMA OnlyDissolves ==
  ASSUME NEW p \in Proc, req'[p].op = "dissolve", Fits(p)', Written(p)', Dissolves(p)'
  PROVE  RequestInv(p)'
  BY DEF RequestInv, Founds, Joins, Removes, HoldsNothing
-----------------------------------------------------------------------------
\* A request begins.

LEMMA IdleHoldsNothing ==
  ASSUME IInv, NEW p \in Proc, pc[p] = "idle"
  PROVE  /\ \A r \in Rows : owner[r] # p
         /\ req[p] = NoRequest /\ req[p].op = "none" /\ read[p].district = None /\ todo[p] = {} /\ refs[p] = {}
<1>1. req[p] = NoRequest /\ NoRequest.op = "none"
  BY DEF IInv, RequestInv, Fits, NoRequest
<1> QED
  BY <1>1 DEF IInv, RequestInv, HoldsNothing, Fits, Stages

LEMMA FreshInv ==
  ASSUME IInv, NEW p \in Proc, pc[p] = "idle", NEW r \in Requests, req'[p] = r,
         UNCHANGED <<rcVars, todo, refs>>, hist'.ids = hist.ids, read'[p].district = read[p].district,
         r.op = "create" => pc'[p] = "wallet" /\ r.crew \notin hist.ids,
         r.op = "join" => pc'[p] = "trigger",
         r.op = "remove" => /\ pc'[p] = "remove" /\ r.crew \in hist.ids
                            /\ db[K(r.crew)] # NoRow /\ db[K(r.crew)].leader # r.char,
         r.op = "invite" => pc'[p] \in {"invite", "replace"},
         r.op = "dissolve" => pc'[p] = "clear" /\ r.crew \in hist.ids
  PROVE  RequestInv(p)'
<1>1. /\ r.op \in {"create", "join", "remove", "invite", "dissolve"} /\ r # NoRequest
      /\ r.op # "dissolve" => r.char \in Char
      /\ r.crew \in CrewId
  BY DEF Requests, NoRequest
<1>2. /\ db' = db /\ hist'.ids = hist.ids /\ read'[p].district = None /\ todo'[p] = {} /\ refs'[p] = {}
      /\ \A s \in Rows : owner'[s] # p
  BY IdleHoldsNothing DEF rcVars
<1>3. Fits(p)'
  BY <1>1, <1>2 DEF Fits, Stages, RowsOf, Founding, Joining, Dissolving
<1>4. Written(p)' /\ HoldsNothing(p)'
  BY <1>2 DEF Written, HoldsNothing
<1>5. Founds(p)'
  BY <1>2, Constants DEF Founds, Joining
<1>6. Joins(p)'
  <2>1. r.op = "join" => M(r.char) \in Rows /\ Ch(r.char) \in Rows
    BY <1>1, RowKinds
  <2> QED
    BY <1>2, <2>1 DEF Joins
<1>7. Removes(p)'
  <2>1. r.op = "remove" => M(r.char) \in Rows /\ Ch(r.char) \in Rows
    BY <1>1, RowKinds
  <2> QED
    BY <1>2, <2>1 DEF Removes
<1>8. Dissolves(p)'
  <2>1. \A j \in CrewId : owner'[K(j)] # p
    BY <1>2, RowKinds
  <2> QED
    BY <1>1, <1>2, <2>1 DEF Dissolves
<1> QED
  BY <1>3, <1>4, <1>5, <1>6, <1>7, <1>8 DEF RequestInv

LEMMA StartInv ==
  ASSUME IInv, NEW p \in Proc, Start(p)
  PROVE  IInv'
<1>1. PICK r \in Requests :
       /\ CASE r.op = "create" -> MayCreate(p, r)
            [] r.op = "invite" -> MayInvite(p, r)
            [] r.op = "join" -> MayJoin(p, r)
            [] r.op = "dissolve" -> db[K(r.crew)] # NoRow
            [] OTHER -> MayRemove(r)
       /\ req' = [req EXCEPT ![p] = r]
       /\ IF r.op \in {"invite", "join"}
          THEN LET i == db[I(r.crew, r.char)] IN
               /\ read' = [read EXCEPT ![p].invite = i]
               /\ Goto(p, IF r.op = "join" THEN "trigger"
                          ELSE IF i = NoRow THEN "invite" ELSE "replace")
          ELSE UNCHANGED read /\ Goto(p, FirstStatement[r.op])
  BY DEF Start
<1>2. pc[p] = "idle" /\ UNCHANGED <<rcVars, todo, refs>>
  BY DEF Start
<1>h. /\ hist \in Histories /\ hist' \in Histories
      /\ hist'.ids = hist.ids /\ hist'.founded = hist.founded /\ hist'.issued = hist.issued
  <2>1. hist' = [hist EXCEPT !.alone = @ /\ NobodyElse(p)] /\ hist \in Histories
    BY DEF Start, IInv, Typed
  <2>2. (hist.alone /\ NobodyElse(p)) \in BOOLEAN
    BY DEF NobodyElse
  <2> QED
    BY <2>1, <2>2 DEF Histories
<1>3. /\ r.op \in {"create", "join", "remove", "invite", "dissolve"} /\ r # NoRequest
      /\ r.crew \in CrewId /\ (r.op # "dissolve" => r.char \in Char)
  BY DEF Requests, NoRequest
<1>4. /\ req'[p] = r /\ req' \in [Proc -> Requests \cup {NoRequest}]
      /\ \A q \in Proc \ {p} : req'[q] = req[q]
  BY <1>1 DEF IInv, Typed, LocalsTyped
<1>5. PICK n \in Statements :
        /\ Goto(p, n)
        /\ r.op = "create" => n = "wallet"
        /\ r.op = "join" => n = "trigger"
        /\ r.op = "remove" => n = "remove"
        /\ r.op = "invite" => n \in {"invite", "replace"}
        /\ r.op = "dissolve" => n = "clear"
  <2>1. {"wallet", "trigger", "remove", "invite", "replace", "clear"} \subseteq Statements
    BY DEF Statements, Founding, Joining, Dissolving
  <2>2. CASE r.op = "join"
    BY <1>1, <2>1, <2>2
  <2>3. CASE r.op = "invite"
    <3>1. CASE db[I(r.crew, r.char)] = NoRow
      BY <1>1, <2>1, <2>3, <3>1
    <3>2. CASE db[I(r.crew, r.char)] # NoRow
      BY <1>1, <2>1, <2>3, <3>2
    <3> QED
      BY <3>1, <3>2
  <2>4. CASE r.op \in {"create", "remove", "dissolve"}
    <3>1. Goto(p, FirstStatement[r.op])
      BY <1>1, <2>4
    <3>2. /\ r.op = "create" => FirstStatement[r.op] = "wallet"
          /\ r.op = "remove" => FirstStatement[r.op] = "remove"
          /\ r.op = "dissolve" => FirstStatement[r.op] = "clear"
      BY DEF FirstStatement
    <3> QED
      BY <2>1, <2>4, <3>1, <3>2
  <2> QED
    BY <1>3, <2>2, <2>3, <2>4
<1>6. pc'[p] = n /\ pc' \in [Proc -> Statements] /\ \A q \in Proc \ {p} : pc'[q] = pc[q]
  BY <1>5, GotoFacts
<1>7. /\ read' \in [Proc -> Reads] /\ read'[p].district = read[p].district
      /\ \A q \in Proc \ {p} : read'[q] = read[q]
  <2>1. read \in [Proc -> Reads]
    BY DEF IInv, Typed, LocalsTyped
  <2>2. CASE r.op \in {"invite", "join"}
    <3> DEFINE i == db[I(r.crew, r.char)]
    <3>1. i \in 1 .. MaxInvites \cup {NoRow} /\ read' = [read EXCEPT ![p].invite = i]
      BY <1>1, <1>3, <2>2, Typed_Rows DEF IInv, Typed
    <3> HIDE DEF i
    <3>2. i \in 0 .. MaxInvites \cup {NoRow}
      BY <3>1, Constants
    <3>3. [read[p] EXCEPT !.invite = i] \in Reads
      BY <2>1, <3>2 DEF Reads
    <3>4. read' = [read EXCEPT ![p] = [read[p] EXCEPT !.invite = i]]
      BY <3>1
    <3>5. [read[p] EXCEPT !.invite = i].district = read[p].district
      BY <2>1 DEF Reads
    <3> QED
      BY <2>1, <3>3, <3>4, <3>5
  <2>3. CASE r.op \notin {"invite", "join"}
    BY <1>1, <2>1, <2>3
  <2> QED
    BY <2>2, <2>3
<1>8. Typed'
  BY <1>2, <1>h, <1>4, <1>6, <1>7 DEF IInv, Typed, RowsTyped, LocalsTyped, rcVars
<1>9. \A q \in Proc \ {p} : Unmoved(q)
  BY <1>2, <1>4, <1>6, <1>7 DEF Unmoved
<1>10. /\ r.op = "create" => r.crew \notin hist.ids /\ \A q \in Proc : req[q].op = "create" => req[q].crew # r.crew
       /\ r.op = "remove" => db[K(r.crew)] # NoRow /\ db[K(r.crew)].leader # r.char
       /\ r.op = "dissolve" => db[K(r.crew)] # NoRow
       /\ r.op = "invite" => hist.issued + Cardinality(Inviting) < MaxInvites
  <2>1. r.op = "create" => MayCreate(p, r)
    BY <1>1
  <2>2. r.op = "invite" => MayInvite(p, r)
    BY <1>1
  <2>3. r.op = "dissolve" => db[K(r.crew)] # NoRow
    BY <1>1
  <2>4. r.op = "remove" => MayRemove(r)
    BY <1>1
  <2> QED
    BY <2>1, <2>2, <2>3, <2>4 DEF MayCreate, MayInvite, MayRemove, Leader, Inviting
<1>11. r.op \in {"remove", "dissolve"} => r.crew \in hist.ids
  BY <1>3, <1>10 DEF IInv, Books, Known
<1>12. RequestInv(p)'
  BY <1>2, <1>h, <1>4, <1>5, <1>6, <1>7, <1>10, <1>11, FreshInv
<1>13. req[p].op = "none"
  BY <1>2, IdleHoldsNothing
<1>14. Apart'
  <2> SUFFICES ASSUME NEW q \in Proc, NEW s \in Proc, q # s, req'[q].op = "create", req'[s].op = "create"
               PROVE  req'[q].crew # req'[s].crew
    BY DEF Apart
  <2>1. CASE q = p
    BY <1>4, <1>10, <2>1
  <2>2. CASE s = p
    BY <1>4, <1>10, <2>2
  <2>3. CASE q # p /\ s # p
    BY <1>4, <2>3 DEF IInv, Apart
  <2> QED
    BY <2>1, <2>2, <2>3
<1>15. Bounded'
  <2>1. IsFiniteSet(Inviting)
    BY Constants, FS_Subset DEF Inviting
  <2>2. hist.issued \in Nat /\ hist'.issued = hist.issued /\ Cardinality(Inviting) \in Nat
    BY <1>h, <2>1, FS_CardinalityType DEF IInv, Typed, Histories
  <2>3. CASE r.op = "invite"
    <3>1. Inviting' = Inviting \cup {p} /\ p \notin Inviting
      BY <1>4, <1>13, <2>3 DEF Inviting
    <3>2. Cardinality(Inviting') = Cardinality(Inviting) + 1
      BY <2>1, <3>1, FS_AddElement
    <3> QED
      BY <1>10, <2>2, <2>3, <3>2, Constants DEF Bounded
  <2>4. CASE r.op # "invite"
    <3>1. Inviting' = Inviting
      BY <1>4, <1>13, <2>4 DEF Inviting
    <3> QED
      BY <2>2, <3>1 DEF IInv, Bounded
  <2> QED
    BY <2>3, <2>4
<1>16. Books'
  BY <1>2, <1>h, BooksSame DEF IInv, Books, PendingIsOwned, rcVars
<1>17. \A q \in Proc \ {p} : LeavesAlone(q)
  BY <1>2, <1>h, NewIds DEF LeavesAlone, rcVars
<1> QED
  BY <1>8, <1>9, <1>12, <1>14, <1>15, <1>16, <1>17, StepKeeps
-----------------------------------------------------------------------------
\* A founding.

LEMMA FoundingFacts ==
  ASSUME IInv, NEW p \in Proc, req[p].op = "create"
  PROVE  /\ req[p].char \in Char /\ req[p].name \in Name /\ req[p].crew \in CrewId
         /\ req[p].crew \notin hist.ids /\ db[K(req[p].crew)] = NoRow
         /\ Founds(p) /\ Fits(p) /\ Written(p) /\ todo[p] = {} /\ req[p] # NoRequest
<1>1. /\ req[p].char \in Char /\ req[p].name \in Name /\ req[p].crew \in CrewId
      /\ req[p] # NoRequest
  BY Asking DEF IInv, Typed
<1>2. Founds(p) /\ Fits(p) /\ Written(p)
  BY DEF IInv, RequestInv
<1>3. todo[p] = {}
  BY <1>2 DEF Fits, Stages, Founding
<1>4. req[p].crew \notin hist.ids
  BY <1>2 DEF Founds
<1> QED
  BY <1>1, <1>2, <1>3, <1>4 DEF IInv, Books, Known

\* The local state of a request that goes on with another read.
LEMMA OnwardRead ==
  ASSUME IInv, NEW p \in Proc, NEW n \in Statements, Goto(p, n), UNCHANGED <<req, todo, refs>>,
         NEW x \in Reads, read' = [read EXCEPT ![p] = x]
  PROVE  /\ LocalsTyped' /\ \A q \in Proc \ {p} : Unmoved(q)
         /\ pc'[p] = n /\ read'[p] = x
<1>1. pc'[p] = n /\ pc' \in [Proc -> Statements] /\ \A q \in Proc \ {p} : pc'[q] = pc[q]
  BY GotoFacts
<1>2. read \in [Proc -> Reads]
  BY DEF IInv, Typed, LocalsTyped
<1>3. read' \in [Proc -> Reads] /\ read'[p] = x /\ \A q \in Proc \ {p} : read'[q] = read[q]
  BY <1>2
<1> QED
  BY <1>1, <1>3 DEF IInv, Typed, LocalsTyped, Unmoved

LEMMA ReadWalletInv ==
  ASSUME IInv, NEW p \in Proc, ReadWallet(p)
  PROVE  IInv'
<1> DEFINE c == req[p].char
           w == Sees(p, W(c))
<1>1. CASE Reject(p)
  BY <1>1, RejectInv
<1>2. CASE ~Reject(p)
  <2>1. /\ pc[p] = "wallet" /\ HasFunds(w) /\ Goto(p, "names")
        /\ read' = [read EXCEPT ![p].version = w.version, ![p].balance = w.balance]
        /\ UNCHANGED <<rcVars, hist, req, todo, refs>> /\ "names" \in Statements
    BY <1>2 DEF ReadWallet, Statements, Founding
  <2>2. req[p].op = "create"
    BY <2>1, Asking DEF IInv, Typed, RequestInv, Fits, Joining, Dissolving
  <2>3. /\ c \in Char /\ Founds(p) /\ Fits(p) /\ todo[p] = {} /\ req[p] # NoRequest
        /\ req[p].crew \notin hist.ids
    BY <2>2, FoundingFacts
  <2>4. \A r \in Rows : owner[r] # p
    BY <2>1, <2>2, <2>3 DEF Founds, Joining
  <2>5. w = db[W(c)] /\ w \in WalletRows
    BY <2>3, <2>4, RowKinds, Typed_Rows DEF Sees, IInv, Typed
  <2> HIDE DEF w
  <2>6. w.version \in Nat /\ w.balance \in Nat /\ w.balance >= Cost
    BY <2>1, <2>5 DEF WalletRows, HasFunds
  <2> DEFINE x == [[read[p] EXCEPT !.version = w.version] EXCEPT !.balance = w.balance]
  <2>7. /\ x \in Reads /\ x.version = w.version /\ x.balance = w.balance /\ x.district = read[p].district
        /\ read' = [read EXCEPT ![p] = x]
    <3>1. read[p] \in Reads /\ read \in [Proc -> Reads]
      BY DEF IInv, Typed, LocalsTyped
    <3> QED
      BY <2>1, <2>6, <3>1 DEF Reads
  <2> HIDE DEF x
  <2>8. /\ LocalsTyped' /\ \A q \in Proc \ {p} : Unmoved(q)
        /\ pc'[p] = "names" /\ read'[p] = x
    BY <2>1, <2>7, OnwardRead
  <2>9. Typed'
    BY <2>1, <2>8 DEF IInv, Typed, RowsTyped, rcVars
  <2>10. Fits(p)'
    BY <2>1, <2>2, <2>3, <2>8 DEF Fits, Founding, Stages
  <2>11. Written(p)'
    BY <2>1, <2>4 DEF Written, rcVars
  <2>12. Founds(p)'
    <3>1. Affords(p)'
      <4>1. c' = c /\ db' = db
        BY <2>1 DEF rcVars
      <4> HIDE DEF c
      <4> QED
        BY <2>5, <2>6, <2>7, <2>8, <4>1 DEF Affords, c
    <3>2. \A r \in Rows : owner'[r] # p
      BY <2>1, <2>4 DEF rcVars
    <3> QED
      BY <2>1, <2>3, <2>7, <2>8, <2>2, <3>1, <3>2 DEF Founds, Joining
  <2>13. RequestInv(p)'
    BY <2>1, <2>2, <2>10, <2>11, <2>12, OnlyFounds
  <2> QED
    BY <2>1, <2>8, <2>9, <2>13, LocalStep
<1> QED
  BY <1>1, <1>2

LEMMA ReadNamesInv ==
  ASSUME IInv, NEW p \in Proc, ReadNames(p)
  PROVE  IInv'
<1> DEFINE c == req[p].char
           d == IF Sees(p, D(Origin[c])) = NoRow THEN Origin[c] ELSE None
<1>1. CASE Reject(p)
  BY <1>1, RejectInv
<1>2. CASE ~Reject(p)
  <2>1. /\ pc[p] = "names" /\ Goto(p, "debit") /\ read' = [read EXCEPT ![p].district = d]
        /\ UNCHANGED <<rcVars, hist, req, todo, refs>> /\ "debit" \in Statements
    BY <1>2 DEF ReadNames, Statements, Founding
  <2>2. req[p].op = "create"
    BY <2>1, Asking DEF IInv, Typed, RequestInv, Fits, Joining, Dissolving
  <2>3. /\ c \in Char /\ Founds(p) /\ Fits(p) /\ todo[p] = {} /\ req[p] # NoRequest
        /\ req[p].crew \notin hist.ids
    BY <2>2, FoundingFacts
  <2>4. \A r \in Rows : owner[r] # p
    BY <2>1, <2>2, <2>3 DEF Founds, Joining
  <2>5. d \in {None, Origin[c]} /\ d \in District \cup {None}
    BY <2>3, Constants
  <2> HIDE DEF d
  <2> DEFINE x == [read[p] EXCEPT !.district = d]
  <2>6. /\ x \in Reads /\ x.version = read[p].version /\ x.balance = read[p].balance /\ x.district = d
        /\ read' = [read EXCEPT ![p] = x]
    <3>1. read[p] \in Reads /\ read \in [Proc -> Reads]
      BY DEF IInv, Typed, LocalsTyped
    <3> QED
      BY <2>1, <2>5, <3>1 DEF Reads
  <2> HIDE DEF x
  <2>7. /\ LocalsTyped' /\ \A q \in Proc \ {p} : Unmoved(q)
        /\ pc'[p] = "debit" /\ read'[p] = x
    BY <2>1, <2>6, OnwardRead
  <2>8. Typed'
    BY <2>1, <2>7 DEF IInv, Typed, RowsTyped, rcVars
  <2>9. Fits(p)'
    BY <2>1, <2>2, <2>3, <2>7 DEF Fits, Founding, Stages
  <2>10. Written(p)'
    BY <2>1, <2>4 DEF Written, rcVars
  <2>11. Founds(p)'
    <3>1. Affords(p)'
      BY <2>1, <2>2, <2>3, <2>6, <2>7 DEF Affords, Founds, rcVars
    <3>2. \A r \in Rows : owner'[r] # p
      BY <2>1, <2>4 DEF rcVars
    <3> QED
      BY <2>1, <2>3, <2>5, <2>6, <2>7, <2>2, <3>1, <3>2 DEF Founds, Joining
  <2>12. RequestInv(p)'
    BY <2>1, <2>2, <2>9, <2>10, <2>11, OnlyFounds
  <2> QED
    BY <2>1, <2>7, <2>8, <2>12, LocalStep
<1> QED
  BY <1>1, <1>2

LEMMA DebitWalletInv ==
  ASSUME IInv, NEW p \in Proc, DebitWallet(p)
  PROVE  IInv'
<1> DEFINE c == req[p].char
           v == [balance |-> read[p].balance - Cost, version |-> read[p].version + 1]
<1>1. CASE Reject(p)
  BY <1>1, RejectInv
<1>2. CASE ~Reject(p)
  <2>1. /\ pc[p] = "debit" /\ VersionMatches(p) /\ Put(p, W(c), v) /\ Goto(p, "name")
        /\ UNCHANGED <<hist, req, read, todo, refs>> /\ "name" \in Statements
    BY <1>2 DEF DebitWallet, Statements, Founding
  <2>2. req[p].op = "create"
    BY <2>1, Asking DEF IInv, Typed, RequestInv, Fits, Joining, Dissolving
  <2>3. /\ c \in Char /\ Founds(p) /\ Fits(p) /\ todo[p] = {} /\ req[p] # NoRequest
        /\ req[p].crew \notin hist.ids /\ W(c) \in Rows /\ W(c)[1] = "wallet"
    BY <2>2, FoundingFacts, RowKinds
  <2>4. \A r \in Rows : owner[r] # p
    BY <2>1, <2>2, <2>3 DEF Founds, Joining
  <2>5. db[W(c)] \in WalletRows
    BY <2>3, Typed_Rows DEF IInv, Typed
  <2>6. read[p].version = db[W(c)].version /\ read[p].balance = db[W(c)].balance /\ read[p].balance >= Cost
    <3>1. Sees(p, W(c)).version = read[p].version /\ Sees(p, W(c)) = db[W(c)]
      BY <2>1, <2>3, <2>4 DEF VersionMatches, Sees
    <3> QED
      BY <2>1, <2>2, <2>3, <3>1 DEF Founds, Affords
  <2>7. v \in WalletRows
    BY <2>5, <2>6, Constants DEF WalletRows
  <2>8. v = [balance |-> db[W(c)].balance - Cost, version |-> db[W(c)].version + 1] /\ db[W(c)].balance >= Cost
    BY <2>6
  <2> HIDE DEF v
  <2>9. /\ pend'[W(c)] = v /\ owner'[W(c)] = p
        /\ \A s \in Rows \ {W(c)} : pend'[s] = pend[s] /\ owner'[s] = owner[s]
        /\ db' = db
    BY <2>1, <2>3, PutFacts
  <2>10. /\ LocalsTyped' /\ \A q \in Proc \ {p} : Unmoved(q)
         /\ pc'[p] = "name"
    BY <2>1, Onward
  <2>11. Fits(p)'
    BY <2>1, <2>2, <2>3, <2>10 DEF Fits, Founding, Stages
  <2>12. Written(p)'
    <3>1. Wrote(p, W(c))'
      <4>1. c' = c
        BY <2>1
      <4> HIDE DEF c
      <4> QED
        BY <2>3, <2>8, <2>9, <4>1 DEF Wrote
    <3>2. req'[p] = req[p] /\ read'[p].district = read[p].district
      BY <2>1
    <3> QED
      BY <2>3, <2>9, <3>1, <3>2, WrittenKept
  <2>13. Founds(p)'
    <3>1. \A r \in Rows : owner'[r] = p <=> r = W(c)
      BY <2>3, <2>4, <2>9
    <3> QED
      BY <2>1, <2>2, <2>3, <2>10, <3>1 DEF Founds, Joining
  <2>14. RequestInv(p)'
    BY <2>1, <2>2, <2>11, <2>12, <2>13, OnlyFounds
  <2>15. v \in Versions(W(c)) /\ W(c)[1] # "crew"
    BY <2>3, <2>7, VersionsOf
  <2> QED
    BY <2>1, <2>3, <2>10, <2>14, <2>15, PutStep
<1> QED
  BY <1>1, <1>2

LEMMA PutAllFacts ==
  ASSUME IInv, NEW p \in Proc, NEW new, DOMAIN new \subseteq Rows, PutAll(p, new)
  PROVE  /\ \A r \in DOMAIN new : pend'[r] = new[r] /\ owner'[r] = p /\ owner[r] \in {p, NoProc}
         /\ \A r \in Rows \ DOMAIN new : pend'[r] = pend[r] /\ owner'[r] = owner[r]
         /\ db' = db /\ DOMAIN db' = Rows /\ DOMAIN pend' = Rows /\ owner' \in [Rows -> Proc \cup {NoProc}]
  BY DEF IInv, Typed, RowsTyped, PutAll, CanLock

LEMMA InsertNameInv ==
  ASSUME IInv, NEW p \in Proc, InsertName(p)
  PROVE  IInv'
<1> DEFINE n == req[p].name
           k == req[p].crew
           new == [r \in {N(n), K(k)} |-> IF r = N(n) THEN k ELSE CrewRow(p)]
           next == IF read[p].district = None THEN "member" ELSE "district"
<1>1. CASE Reject(p)
  BY <1>1, RejectInv
<1>2. CASE ~Reject(p)
  <2>1. /\ pc[p] = "name" /\ Sees(p, N(n)) = NoRow /\ PutAll(p, new) /\ Goto(p, next)
        /\ UNCHANGED <<hist, req, read, todo, refs>> /\ next \in Statements
    BY <1>2 DEF InsertName, Statements, Founding
  <2>2. req[p].op = "create"
    BY <2>1, Asking DEF IInv, Typed, RequestInv, Fits, Joining, Dissolving
  <2>3. /\ req[p].char \in Char /\ n \in Name /\ k \in CrewId
        /\ Founds(p) /\ Fits(p) /\ Written(p) /\ todo[p] = {} /\ req[p] # NoRequest
        /\ k \notin hist.ids /\ db[K(k)] = NoRow
        /\ N(n) \in Rows /\ K(k) \in Rows /\ N(n)[1] = "name" /\ K(k)[1] = "crew"
    BY <2>2, FoundingFacts, RowKinds
  <2>4. \A r \in Rows : owner[r] = p <=> r = W(req[p].char)
    BY <2>1, <2>2, <2>3 DEF Founds, Joining
  <2>5. N(n) # K(k) /\ N(n) # W(req[p].char) /\ K(k) # W(req[p].char)
    BY <2>3, RowKinds
  <2>6. db[N(n)] = NoRow
    BY <2>1, <2>3, <2>4, <2>5 DEF Sees
  <2>7. CrewRow(p) \in Crews
    <3>1. read[p].district \in District \cup {None}
      BY DEF IInv, Typed, LocalsTyped, Reads
    <3> QED
      BY <2>3, <3>1 DEF CrewRow, Crews
  <2>8. DOMAIN new = {N(n), K(k)} /\ new[N(n)] = k /\ new[K(k)] = CrewRow(p)
    BY <2>5
  <2> HIDE DEF new
  <2>9. /\ pend'[N(n)] = k /\ pend'[K(k)] = CrewRow(p) /\ owner'[N(n)] = p /\ owner'[K(k)] = p
        /\ owner[N(n)] \in {p, NoProc} /\ owner[K(k)] \in {p, NoProc}
        /\ \A s \in Rows \ {N(n), K(k)} : pend'[s] = pend[s] /\ owner'[s] = owner[s]
        /\ db' = db /\ DOMAIN db' = Rows /\ DOMAIN pend' = Rows /\ owner' \in [Rows -> Proc \cup {NoProc}]
    BY <2>1, <2>3, <2>8, PutAllFacts
  <2>10. /\ LocalsTyped' /\ \A q \in Proc \ {p} : Unmoved(q)
         /\ pc'[p] = next
    BY <2>1, Onward
  <2>11. Typed'
    <3>1. k \in Versions(N(n)) /\ CrewRow(p) \in Versions(K(k))
      BY <2>3, <2>7, VersionsOf
    <3>2. hist' \in Histories /\ \A r \in Rows : db[r] \in Versions(r) /\ pend[r] \in Versions(r)
      BY <2>1 DEF IInv, Typed, RowsTyped
    <3>3. \A r \in Rows : pend'[r] \in Versions(r)
      BY <2>9, <3>1, <3>2
    <3> QED
      BY <2>9, <2>10, <3>2, <3>3 DEF Typed, RowsTyped
  <2>12. Fits(p)'
    BY <2>1, <2>2, <2>3, <2>10 DEF Fits, Founding, Stages
  <2>13. Enters(p)' /\ CrewRow(p)' = CrewRow(p) /\ req'[p] = req[p]
    BY <2>1, <2>2 DEF Enters, CrewRow
  <2>14. Written(p)'
    <3> SUFFICES ASSUME NEW s \in Rows, owner'[s] = p
                 PROVE  Wrote(p, s)'
      BY DEF Written
    <3>1. CASE s = N(n)
      BY <2>3, <2>6, <2>9, <2>13, <3>1 DEF Wrote
    <3>2. CASE s = K(k)
      BY <2>3, <2>9, <2>13, <3>2 DEF Wrote
    <3>3. CASE s \notin {N(n), K(k)}
      <4>1. Wrote(p, s) /\ pend'[s] = pend[s] /\ s[1] = "wallet"
        BY <2>3, <2>4, <2>9, <3>3, RowKinds DEF Written
      <4> QED
        BY <2>9, <4>1 DEF Wrote
    <3> QED
      BY <3>1, <3>2, <3>3
  <2>15. Founds(p)'
    <3>1. \A r \in Rows : owner'[r] = p <=> r = W(req[p].char) \/ r \in {N(n), K(k)}
      BY <2>3, <2>4, <2>9
    <3> QED
      BY <2>1, <2>2, <2>3, <2>10, <3>1 DEF Founds, Joining
  <2>16. RequestInv(p)'
    BY <2>2, <2>12, <2>13, <2>14, <2>15, OnlyFounds
  <2>17. \A j \in CrewId : owner[K(j)] = NoProc /\ owner'[K(j)] = p => \A q \in Proc \ {p} : j \notin refs[q]
    <3> SUFFICES ASSUME NEW j \in CrewId, owner[K(j)] = NoProc, owner'[K(j)] = p, NEW q \in Proc \ {p}, j \in refs[q]
                 PROVE  FALSE
      OBVIOUS
    <3>1. db[K(j)] # NoRow
      BY NewIds, Constants
    <3>2. K(j) \in {N(n), K(k)}
      BY <2>9, RowKinds, Constants
    <3>3. K(j)[1] = "crew" /\ K(j)[2] = j /\ K(k)[2] = k
      BY <2>3, RowKinds
    <3>4. j = k
      BY <2>3, <3>2, <3>3
    <3> QED
      BY <2>3, <3>1, <3>4
  <2>18. \A r \in Rows : \/ owner'[r] = owner[r] /\ (owner[r] # p => pend'[r] = pend[r])
                         \/ owner[r] = NoProc /\ owner'[r] = p
                         \/ owner[r] = p /\ owner'[r] = NoProc /\ pend'[r] = db[r]
    BY <2>9
  <2> QED
    BY <2>1, <2>9, <2>10, <2>11, <2>13, <2>16, <2>17, <2>18, QuietStep
<1> QED
  BY <1>1, <1>2

LEMMA ClaimDistrictInv ==
  ASSUME IInv, NEW p \in Proc, ClaimDistrict(p)
  PROVE  IInv'
<1> DEFINE n == req[p].name
           k == req[p].crew
           c == req[p].char
           d == read[p].district
<1>1. pc[p] = "district" /\ UNCHANGED <<hist, req, todo, refs>>
  BY DEF ClaimDistrict
<1>2. req[p].op = "create"
  BY <1>1, Asking DEF IInv, Typed, RequestInv, Fits, Joining, Dissolving
<1>3. /\ c \in Char /\ n \in Name /\ k \in CrewId
      /\ Founds(p) /\ Fits(p) /\ Written(p) /\ todo[p] = {} /\ req[p] # NoRequest
      /\ k \notin hist.ids /\ db[K(k)] = NoRow
      /\ N(n) \in Rows /\ K(k) \in Rows /\ N(n)[1] = "name" /\ K(k)[1] = "crew"
      /\ W(c) \in Rows /\ W(c)[1] = "wallet"
  BY <1>2, FoundingFacts, RowKinds
<1>4. \A r \in Rows : owner[r] = p <=> r = W(c) \/ r \in {N(n), K(k)}
  BY <1>1, <1>2, <1>3 DEF Founds, Joining
<1>5. d # None /\ d \in District /\ D(d) \in Rows /\ D(d)[1] = "district"
  <2>1. d # None /\ d \in District \cup {None}
    BY <1>1, <1>2, <1>3 DEF Founds, IInv, Typed, LocalsTyped, Reads
  <2> QED
    BY <2>1, RowKinds
<1>6. CASE DistrictTaken(p, d)
  <2>1. /\ RollbackTo(p, {N(n), K(k)}) /\ read' = [read EXCEPT ![p].district = None] /\ Goto(p, "name")
        /\ "name" \in Statements
    BY <1>6 DEF ClaimDistrict, Statements, Founding
  <2>2. /\ \A r \in {N(n), K(k)} : pend'[r] = db[r] /\ owner'[r] = NoProc /\ owner[r] = p
        /\ \A r \in Rows \ {N(n), K(k)} : pend'[r] = pend[r] /\ owner'[r] = owner[r]
        /\ db' = db /\ DOMAIN db' = Rows /\ DOMAIN pend' = Rows /\ owner' \in [Rows -> Proc \cup {NoProc}]
    BY <1>3, <1>4, <2>1 DEF RollbackTo, IInv, Typed, RowsTyped
  <2> DEFINE x == [read[p] EXCEPT !.district = None]
  <2>3. x \in Reads /\ x.district = None /\ read' = [read EXCEPT ![p] = x]
    <3>1. read[p] \in Reads /\ read \in [Proc -> Reads]
      BY DEF IInv, Typed, LocalsTyped
    <3> QED
      BY <2>1, <3>1 DEF Reads
  <2> HIDE DEF x
  <2>4. /\ LocalsTyped' /\ \A q \in Proc \ {p} : Unmoved(q)
        /\ pc'[p] = "name" /\ read'[p] = x
    BY <1>1, <2>1, <2>3, OnwardRead
  <2>5. Typed'
    <3>1. hist' \in Histories /\ \A r \in Rows : db[r] \in Versions(r) /\ pend[r] \in Versions(r)
      BY <1>1 DEF IInv, Typed, RowsTyped
    <3>2. \A r \in Rows : pend'[r] \in Versions(r)
      BY <2>2, <3>1
    <3> QED
      BY <2>2, <2>4, <3>1, <3>2 DEF Typed, RowsTyped
  <2>6. Fits(p)'
    BY <1>1, <1>2, <1>3, <2>4 DEF Fits, Founding, Stages
  <2>7. \A r \in Rows : owner'[r] = p <=> r = W(c)
    BY <1>3, <1>4, <2>2, Constants
  <2>8. Written(p)'
    <3>1. Wrote(p, W(c)) /\ owner'[W(c)] = p /\ pend'[W(c)] = pend[W(c)]
      BY <1>3, <1>4, <2>2 DEF Written
    <3>2. Wrote(p, W(c))'
      <4>1. c' = c
        BY <1>1
      <4> HIDE DEF c
      <4> QED
        BY <1>3, <2>2, <3>1, <4>1 DEF Wrote
    <3>3. c' = c
      BY <1>1
    <3> HIDE DEF c
    <3> QED
      BY <2>7, <3>2, <3>3 DEF Written
  <2>9. Founds(p)'
    BY <1>1, <1>2, <1>3, <2>3, <2>4, <2>7 DEF Founds, Joining
  <2>10. RequestInv(p)'
    BY <1>1, <1>2, <2>6, <2>8, <2>9, OnlyFounds
  <2>11. \A j \in CrewId : ~(owner[K(j)] = NoProc /\ owner'[K(j)] = p)
    BY <1>3, <2>7, RowKinds
  <2>12. \A r \in Rows : \/ owner'[r] = owner[r] /\ (owner[r] # p => pend'[r] = pend[r])
                         \/ owner[r] = NoProc /\ owner'[r] = p
                         \/ owner[r] = p /\ owner'[r] = NoProc /\ pend'[r] = db[r]
    BY <2>2
  <2> QED
    BY <1>1, <2>2, <2>4, <2>5, <2>10, <2>11, <2>12, QuietStep
<1>7. CASE ~DistrictTaken(p, d)
  <2>1. Put(p, D(d), k) /\ Goto(p, "member") /\ UNCHANGED <<hist, req, read, todo, refs>> /\ "member" \in Statements
    BY <1>1, <1>7 DEF ClaimDistrict, Statements, Founding
  <2>2. db[D(d)] = NoRow
    <3>1. owner[D(d)] # p
      BY <1>3, <1>4, <1>5
    <3> QED
      BY <1>7, <3>1 DEF DistrictTaken, Sees
  <2>3. /\ pend'[D(d)] = k /\ owner'[D(d)] = p
        /\ \A s \in Rows \ {D(d)} : pend'[s] = pend[s] /\ owner'[s] = owner[s]
        /\ db' = db
    BY <1>5, <2>1, PutFacts
  <2>4. /\ LocalsTyped' /\ \A q \in Proc \ {p} : Unmoved(q)
        /\ pc'[p] = "member"
    BY <2>1, Onward
  <2>5. Fits(p)'
    BY <2>1, <1>1, <1>2, <1>3, <2>4 DEF Fits, Founding, Stages
  <2>6. Written(p)'
    <3>1. Wrote(p, D(d))'
      <4>1. k' = k /\ d' = d /\ Enters(p)'
        BY <1>2, <2>1 DEF Enters
      <4>2. req'[p].crew = k
        BY <2>1
      <4> HIDE DEF k, d
      <4> QED
        BY <1>5, <2>2, <2>3, <4>1, <4>2 DEF Wrote
    <3>2. req'[p] = req[p] /\ read'[p].district = read[p].district
      BY <2>1
    <3> QED
      BY <1>5, <2>3, <3>1, <3>2, WrittenKept
  <2>7. Founds(p)'
    <3>1. \A r \in Rows : owner'[r] = p <=> r = W(c) \/ r \in {N(n), K(k)} \/ r = D(d)
      BY <1>4, <1>5, <2>3
    <3> QED
      BY <1>2, <1>3, <1>5, <2>1, <2>4, <3>1 DEF Founds, Joining
  <2>8. RequestInv(p)'
    BY <1>2, <2>1, <2>5, <2>6, <2>7, OnlyFounds
  <2>9. k \in Versions(D(d)) /\ D(d)[1] # "crew"
    BY <1>3, <1>5, VersionsOf
  <2> QED
    BY <1>5, <2>1, <2>4, <2>8, <2>9, PutStep
<1> QED
  BY <1>6, <1>7
-----------------------------------------------------------------------------
\* What a founding and a join share.

LEMMA EnteringFacts ==
  ASSUME IInv, NEW p \in Proc, pc[p] \in {"trigger", "member", "reference", "accept", "affiliate"}
  PROVE  /\ req[p].op \in {"create", "join"} /\ Enters(p) /\ req[p] # NoRequest
         /\ req[p].char \in Char /\ req[p].crew \in CrewId
         /\ req[p].op = "create" => req[p].crew \notin hist.ids /\ req[p].name \in Name
         /\ Founds(p) /\ Joins(p) /\ Fits(p) /\ Written(p) /\ todo[p] = {}
         /\ LET c == req[p].char IN
              /\ M(c) \in Rows /\ M(c)[1] = "member" /\ Ch(c) \in Rows /\ Ch(c)[1] = "character"
              /\ W(c) \in Rows /\ W(c)[1] = "wallet"
<1>1. Founds(p) /\ Joins(p) /\ Fits(p) /\ Written(p)
  BY DEF IInv, RequestInv
<1>2. req[p].op \in {"create", "join"}
  BY <1>1, Asking DEF IInv, Typed, Fits, Dissolving
<1>3. /\ req[p] # NoRequest /\ req[p].char \in Char /\ req[p].crew \in CrewId
      /\ req[p].op = "create" => req[p].name \in Name
  BY <1>2, Asking DEF IInv, Typed
<1>4. todo[p] = {}
  BY <1>1 DEF Fits, Stages
<1>5. req[p].op = "create" => req[p].crew \notin hist.ids
  BY <1>1 DEF Founds
<1> QED
  BY <1>1, <1>2, <1>3, <1>4, <1>5, RowKinds DEF Enters

LEMMA MemberTriggerInv ==
  ASSUME IInv, NEW p \in Proc, MemberTrigger(p)
  PROVE  IInv'
<1> DEFINE k == req[p].crew
           c == req[p].char
<1>1. CASE Reject(p)
  BY <1>1, RejectInv
<1>2. CASE ~Reject(p)
  <2>1. /\ pc[p] = "trigger" /\ Goto(p, "member") /\ "member" \in Statements
        /\ UNCHANGED <<rcVars, hist, req, read, todo, refs>>
    BY <1>2 DEF MemberTrigger, Statements, Founding
  <2>2. /\ req[p].op \in {"create", "join"} /\ req[p] # NoRequest /\ Joins(p) /\ Fits(p) /\ todo[p] = {}
    BY <2>1, EnteringFacts
  <2>3. req[p].op = "join"
    BY <2>1, <2>2 DEF Fits, Founding
  <2>4. /\ LocalsTyped' /\ \A q \in Proc \ {p} : Unmoved(q)
        /\ pc'[p] = "member"
    BY <2>1, Onward
  <2>5. Typed'
    BY <2>1, <2>4 DEF IInv, Typed, RowsTyped, rcVars
  <2>6. Fits(p)'
    BY <2>1, <2>2, <2>3, <2>4 DEF Fits, Joining, Stages
  <2>7. Joins(p)'
    BY <2>1, <2>2, <2>3, <2>4 DEF Joins, rcVars
  <2>8. Written(p)'
    BY <2>1, WrittenSame
  <2>9. RequestInv(p)'
    BY <2>1, <2>3, <2>6, <2>7, <2>8, OnlyJoins
  <2> QED
    BY <2>1, <2>4, <2>5, <2>9, LocalStep
<1> QED
  BY <1>1, <1>2

LEMMA InsertMemberInv ==
  ASSUME IInv, NEW p \in Proc, InsertMember(p)
  PROVE  IInv'
<1> DEFINE k == req[p].crew
           c == req[p].char
<1>1. CASE Reject(p)
  BY <1>1, RejectInv
<1>2. CASE ~Reject(p)
  <2>1. /\ pc[p] = "member" /\ Sees(p, M(c)) = NoRow /\ Put(p, M(c), k) /\ Goto(p, "reference")
        /\ UNCHANGED <<hist, req, read, todo, refs>> /\ "reference" \in Statements
    BY <1>2 DEF InsertMember, Statements, Founding
  <2>2. /\ req[p].op \in {"create", "join"} /\ Enters(p) /\ req[p] # NoRequest /\ c \in Char /\ k \in CrewId
        /\ req[p].op = "create" => k \notin hist.ids /\ req[p].name \in Name
        /\ Founds(p) /\ Joins(p) /\ Fits(p) /\ todo[p] = {}
        /\ M(c) \in Rows /\ M(c)[1] = "member"
    BY <2>1, EnteringFacts
  <2>3. owner[M(c)] # p
    <3>1. CASE req[p].op = "join"
      BY <2>1, <2>2, <3>1 DEF Joins
    <3>2. CASE req[p].op = "create"
      <4>1. /\ M(c) # W(c) /\ M(c) # Ch(c) /\ M(c) # N(req[p].name) /\ M(c) # K(k)
            /\ (read[p].district # None => M(c) # D(read[p].district))
        <5>1. read[p].district \in District \cup {None}
          BY DEF IInv, Typed, LocalsTyped, Reads
        <5> QED
          BY <2>2, <3>2, <5>1, RowKinds
      <4> QED
        BY <2>1, <2>2, <3>2, <4>1 DEF Founds
    <3> QED
      BY <2>2, <3>1, <3>2
  <2>4. db[M(c)] = NoRow
    BY <2>1, <2>3 DEF Sees
  <2>5. /\ pend'[M(c)] = k /\ owner'[M(c)] = p
        /\ \A s \in Rows \ {M(c)} : pend'[s] = pend[s] /\ owner'[s] = owner[s]
        /\ db' = db
    BY <2>1, <2>2, PutFacts
  <2>6. /\ LocalsTyped' /\ \A q \in Proc \ {p} : Unmoved(q)
        /\ pc'[p] = "reference"
    BY <2>1, Onward
  <2>7. Fits(p)'
    BY <2>1, <2>2, <2>6 DEF Fits, Founding, Joining, Stages
  <2>8. Written(p)'
    <3>1. Wrote(p, M(c))'
      <4>1. c' = c /\ req'[p].crew = k /\ Enters(p)'
        BY <2>1, <2>2 DEF Enters
      <4> HIDE DEF k, c
      <4> QED
        BY <2>2, <2>4, <2>5, <4>1 DEF Wrote
    <3>2. req'[p] = req[p] /\ read'[p].district = read[p].district
      BY <2>1
    <3> QED
      BY <2>2, <2>5, <3>1, <3>2, WrittenKept
  <2>9. CASE req[p].op = "join"
    <3>1. Joins(p)'
      <4>1. /\ \A r \in Rows : owner'[r] = p => r \in {M(c), Ch(c), I(k, c)}
            /\ owner'[M(c)] = p
        BY <2>2, <2>5, <2>9 DEF Joins
      <4>2. owner'[Ch(c)] # p
        <5>1. Ch(c) \in Rows /\ Ch(c) # M(c)
          BY <2>2, RowKinds
        <5> QED
          BY <2>1, <2>2, <2>5, <2>9, <5>1 DEF Joins
      <4> QED
        BY <2>1, <2>6, <4>1, <4>2 DEF Joins
    <3>2. RequestInv(p)'
      BY <2>1, <2>7, <2>8, <2>9, <3>1, OnlyJoins
    <3>3. k \in Versions(M(c)) /\ M(c)[1] # "crew"
      BY <2>2, VersionsOf
    <3> QED
      BY <2>1, <2>2, <2>6, <3>2, <3>3, PutStep
  <2>10. CASE req[p].op = "create"
    <3>1. Founds(p)'
      <4>1. \A r \in Rows : owner'[r] = p <=> r = M(c) \/ owner[r] = p
        BY <2>2, <2>5
      <4>2. \A r \in Rows : owner'[r] = p <=>
              \/ r = W(c)
              \/ r \in {N(req[p].name), K(k)}
              \/ r = D(read[p].district) /\ read[p].district # None
              \/ r = M(c)
        BY <2>1, <2>2, <2>10, <4>1 DEF Founds, Joining
      <4> QED
        BY <2>1, <2>2, <2>6, <2>10, <4>2 DEF Founds, Joining
    <3>2. RequestInv(p)'
      BY <2>1, <2>7, <2>8, <2>10, <3>1, OnlyFounds
    <3>3. k \in Versions(M(c)) /\ M(c)[1] # "crew"
      BY <2>2, VersionsOf
    <3> QED
      BY <2>1, <2>2, <2>6, <3>2, <3>3, PutStep
  <2> QED
    BY <2>2, <2>9, <2>10
<1> QED
  BY <1>1, <1>2

LEMMA ReferenceCrewInv ==
  ASSUME IInv, NEW p \in Proc, ReferenceCrew(p)
  PROVE  IInv'
<1> DEFINE k == req[p].crew
           c == req[p].char
           next == IF req[p].op = "join" THEN "accept" ELSE "affiliate"
<1>1. CASE Reject(p)
  BY <1>1, RejectInv
<1>2. CASE ~Reject(p)
  <2>1. /\ pc[p] = "reference" /\ MayGo(p) /\ Sees(p, K(k)) # NoRow
        /\ refs' = [refs EXCEPT ![p] = {k}] /\ Goto(p, next)
        /\ UNCHANGED <<rcVars, hist, req, read, todo>> /\ next \in Statements
    BY <1>2 DEF ReferenceCrew, Statements, Founding, Joining
  <2>2. /\ req[p].op \in {"create", "join"} /\ req[p] # NoRequest /\ c \in Char /\ k \in CrewId
        /\ Founds(p) /\ Joins(p) /\ Fits(p) /\ todo[p] = {} /\ K(k) \in Rows
        /\ req[p].op = "create" => k \notin hist.ids
    BY <2>1, EnteringFacts, RowKinds
  <2>3. pc'[p] = next /\ pc' \in [Proc -> Statements] /\ \A q \in Proc \ {p} : pc'[q] = pc[q]
    <3> HIDE DEF next
    <3> QED
      BY <2>1, GotoFacts
  <2>4. refs' \in [Proc -> SUBSET CrewId] /\ refs'[p] = {k} /\ \A q \in Proc \ {p} : refs'[q] = refs[q]
    <3>1. refs \in [Proc -> SUBSET CrewId]
      BY DEF IInv, Typed, LocalsTyped
    <3> QED
      BY <2>1, <2>2, <3>1
  <2>5. Typed'
    BY <2>1, <2>3, <2>4 DEF IInv, Typed, RowsTyped, LocalsTyped, rcVars
  <2>6. \A q \in Proc \ {p} : Unmoved(q)
    BY <2>1, <2>3, <2>4 DEF Unmoved
  <2>7. Fits(p)'
    BY <2>1, <2>2, <2>3, <2>4 DEF Fits, Founding, Joining, Stages
  <2>8. Written(p)'
    BY <2>1, WrittenSame
  <2>9. CASE req[p].op = "join"
    <3>1. owner[K(k)] # p
      <4>1. K(k) \notin {M(c), Ch(c), I(k, c)}
        BY <2>2, RowKinds
      <4> QED
        BY <2>2, <2>9, <4>1 DEF Joins
    <3>2. \A q \in Proc : q # p => owner[K(k)] # q
      BY <2>1 DEF MayGo, HoldsBack
    <3>3. owner[K(k)] = NoProc /\ db[K(k)] # NoRow
      BY <2>1, <2>2, <3>1, <3>2 DEF Sees, IInv, Typed, RowsTyped
    <3>4. Joins(p)'
      BY <2>1, <2>2, <2>3, <2>9, <3>3 DEF Joins, rcVars
    <3>5. RequestInv(p)'
      BY <2>1, <2>7, <2>8, <2>9, <3>4, OnlyJoins
    <3> QED
      BY <2>1, <2>5, <2>6, <3>5, LocalStep
  <2>10. CASE req[p].op = "create"
    <3>1. Founds(p)'
      BY <2>1, <2>2, <2>3, <2>10 DEF Founds, Joining, rcVars
    <3>2. RequestInv(p)'
      BY <2>1, <2>7, <2>8, <2>10, <3>1, OnlyFounds
    <3> QED
      BY <2>1, <2>5, <2>6, <3>2, LocalStep
  <2> QED
    BY <2>2, <2>9, <2>10
<1> QED
  BY <1>1, <1>2

LEMMA DeleteInviteInv ==
  ASSUME IInv, NEW p \in Proc, DeleteInvite(p)
  PROVE  IInv'
<1> DEFINE k == req[p].crew
           c == req[p].char
<1>1. /\ pc[p] = "accept" /\ AcceptInvite(p) /\ Goto(p, "affiliate")
      /\ UNCHANGED <<hist, req, read, todo, refs>> /\ "affiliate" \in Statements
  BY DEF DeleteInvite, Statements, Founding
<1>2. /\ req[p].op = "join" /\ req[p] # NoRequest /\ c \in Char /\ k \in CrewId
      /\ Joins(p) /\ Fits(p) /\ todo[p] = {}
      /\ M(c) \in Rows /\ Ch(c) \in Rows
  <2>1. req[p].op \in {"create", "join"} /\ Fits(p)
    BY <1>1, EnteringFacts
  <2>2. req[p].op = "join"
    BY <1>1, <2>1 DEF Fits, Founding
  <2> QED
    BY <1>1, <2>2, EnteringFacts
<1>3. /\ LocalsTyped' /\ \A q \in Proc \ {p} : Unmoved(q)
      /\ pc'[p] = "affiliate"
  BY <1>1, Onward
<1>4. Fits(p)'
  BY <1>1, <1>2, <1>3 DEF Fits, Joining, Stages
<1>5. I(k, c) \in Rows /\ I(k, c)[1] = "invite" /\ I(k, c) # M(c) /\ I(k, c) # Ch(c) /\ K(k) \in Rows /\ K(k) # I(k, c)
  BY <1>2, RowKinds
<1>6. CASE UNCHANGED rcVars
  <2>1. Joins(p)'
    BY <1>1, <1>2, <1>3, <1>6 DEF Joins, rcVars
  <2>2. RequestInv(p)'
    BY <1>1, <1>2, <1>4, <1>6, <2>1, WrittenSame, OnlyJoins
  <2>3. Typed'
    BY <1>1, <1>3, <1>6 DEF IInv, Typed, RowsTyped, rcVars
  <2> QED
    BY <1>1, <1>3, <1>6, <2>2, <2>3, LocalStep
<1>7. CASE Put(p, I(k, c), NoRow)
  <2>1. /\ pend'[I(k, c)] = NoRow /\ owner'[I(k, c)] = p
        /\ \A s \in Rows \ {I(k, c)} : pend'[s] = pend[s] /\ owner'[s] = owner[s]
        /\ db' = db
    BY <1>5, <1>7, PutFacts
  <2>2. Written(p)'
    <3>1. Wrote(p, I(k, c))'
      <4>1. k' = k /\ c' = c
        BY <1>1
      <4> HIDE DEF k, c
      <4> QED
        BY <1>5, <2>1, <4>1 DEF Wrote
    <3>2. req'[p] = req[p] /\ read'[p].district = read[p].district
      BY <1>1
    <3> QED
      BY <1>5, <2>1, <3>1, <3>2, WrittenKept
  <2>3. Joins(p)'
    <3>1. /\ \A r \in Rows : owner'[r] = p => r \in {M(c), Ch(c), I(k, c)}
          /\ owner'[M(c)] = p /\ owner'[Ch(c)] # p
          /\ db'[K(k)] # NoRow /\ owner'[K(k)] = NoProc
      BY <1>1, <1>2, <1>5, <2>1 DEF Joins
    <3> QED
      BY <1>1, <1>2, <1>3, <3>1 DEF Joins
  <2>4. RequestInv(p)'
    BY <1>1, <1>2, <1>4, <2>2, <2>3, OnlyJoins
  <2>5. NoRow \in Versions(I(k, c)) /\ I(k, c)[1] # "crew"
    BY <1>2, <1>5, VersionsOf
  <2> QED
    BY <1>1, <1>3, <1>5, <1>7, <2>4, <2>5, PutStep
<1> QED
  BY <1>1, <1>6, <1>7 DEF AcceptInvite

LEMMA SetCrewIdInv ==
  ASSUME IInv, NEW p \in Proc, SetCrewId(p)
  PROVE  IInv'
<1> DEFINE k == req[p].crew
           c == req[p].char
<1>1. /\ pc[p] = "affiliate" /\ Put(p, Ch(c), k) /\ Goto(p, "commit")
      /\ UNCHANGED <<hist, req, read, todo, refs>> /\ "commit" \in Statements
  BY DEF SetCrewId, Affiliate, Statements, Founding
<1>2. /\ req[p].op \in {"create", "join"} /\ Enters(p) /\ req[p] # NoRequest /\ c \in Char /\ k \in CrewId
      /\ req[p].op = "create" => k \notin hist.ids /\ req[p].name \in Name
      /\ Founds(p) /\ Joins(p) /\ Fits(p) /\ todo[p] = {}
      /\ M(c) \in Rows /\ Ch(c) \in Rows /\ Ch(c)[1] = "character"
  BY <1>1, EnteringFacts
<1>3. /\ pend'[Ch(c)] = k /\ owner'[Ch(c)] = p
      /\ \A s \in Rows \ {Ch(c)} : pend'[s] = pend[s] /\ owner'[s] = owner[s]
      /\ db' = db
  BY <1>1, <1>2, PutFacts
<1>4. /\ LocalsTyped' /\ \A q \in Proc \ {p} : Unmoved(q)
      /\ pc'[p] = "commit"
  BY <1>1, Onward
<1>5. Fits(p)'
  BY <1>1, <1>2, <1>4 DEF Fits, Founding, Joining, Stages
<1>6. Written(p)'
  <2>1. Wrote(p, Ch(c))'
    <3>1. c' = c /\ req'[p].crew = k /\ Enters(p)'
      BY <1>1, <1>2 DEF Enters
    <3> HIDE DEF k, c
    <3> QED
      BY <1>2, <1>3, <3>1 DEF Wrote
  <2>2. req'[p] = req[p] /\ read'[p].district = read[p].district
    BY <1>1
  <2> QED
    BY <1>2, <1>3, <2>1, <2>2, WrittenKept
<1>7. k \in Versions(Ch(c)) /\ Ch(c)[1] # "crew"
  BY <1>2, VersionsOf
<1>8. CASE req[p].op = "join"
  <2>1. K(k) \in Rows /\ K(k) # Ch(c) /\ M(c) # Ch(c)
    BY <1>2, RowKinds
  <2>2. Joins(p)'
    <3>1. /\ \A r \in Rows : owner'[r] = p => r \in {M(c), Ch(c), I(k, c)}
          /\ owner'[M(c)] = p /\ owner'[Ch(c)] = p
          /\ db'[K(k)] # NoRow /\ owner'[K(k)] = NoProc
      BY <1>1, <1>2, <1>3, <1>8, <2>1 DEF Joins
    <3> QED
      BY <1>1, <1>2, <1>4, <3>1 DEF Joins
  <2>3. RequestInv(p)'
    BY <1>1, <1>5, <1>6, <1>8, <2>2, OnlyJoins
  <2> QED
    BY <1>1, <1>2, <1>4, <1>7, <2>3, PutStep
<1>9. CASE req[p].op = "create"
  <2>1. Founds(p)'
    <3>1. \A r \in Rows : owner'[r] = p <=> r = Ch(c) \/ owner[r] = p
      BY <1>2, <1>3
    <3>2. \A r \in Rows : owner'[r] = p <=>
            \/ r = W(c)
            \/ r \in {N(req[p].name), K(k)}
            \/ r = D(read[p].district) /\ read[p].district # None
            \/ r = M(c)
            \/ r = Ch(c)
      BY <1>1, <1>2, <1>9, <3>1 DEF Founds, Joining
    <3> QED
      BY <1>1, <1>2, <1>4, <1>9, <3>2 DEF Founds, Joining
  <2>2. RequestInv(p)'
    BY <1>1, <1>5, <1>6, <1>9, <2>1, OnlyFounds
  <2> QED
    BY <1>1, <1>2, <1>4, <1>7, <2>2, PutStep
<1> QED
  BY <1>2, <1>8, <1>9
-----------------------------------------------------------------------------
\* Invites, outside any transaction.

LEMMA InviteStep ==
  ASSUME IInv, NEW p \in Proc, NEW k \in CrewId, NEW c \in Char, NEW v \in 1 .. MaxInvites \cup {NoRow},
         WriteNow(p, I(k, c), v), req[p].op = "invite",
         v # NoRow => db[K(k)] # NoRow /\ owner[K(k)] = NoProc,
         hist' \in Histories, hist'.ids = hist.ids, hist'.founded = hist.founded,
         LocalsTyped', Apart', Bounded', RequestInv(p)', \A q \in Proc \ {p} : Unmoved(q)
  PROVE  IInv'
<1>1. \A r \in Rows : owner[r] # p
  BY DEF IInv, RequestInv, HoldsNothing
<1>2. I(k, c) \in Rows /\ v \in Versions(I(k, c))
  BY RowKinds, VersionsOf
<1>3. /\ owner[I(k, c)] = NoProc /\ owner' = owner
      /\ db'[I(k, c)] = v /\ pend'[I(k, c)] = v /\ DOMAIN db' = Rows /\ DOMAIN pend' = Rows
      /\ \A s \in Rows \ {I(k, c)} : db'[s] = db[s] /\ pend'[s] = pend[s]
  BY <1>1, <1>2 DEF WriteNow, CanLock, IInv, Typed, RowsTyped
<1>4. Typed'
  <2>1. \A r \in Rows : db[r] \in Versions(r) /\ pend[r] \in Versions(r)
    BY DEF IInv, Typed, RowsTyped
  <2>2. \A r \in Rows : db'[r] \in Versions(r) /\ pend'[r] \in Versions(r)
    BY <1>2, <1>3, <2>1
  <2> QED
    BY <1>3, <2>2 DEF IInv, Typed, RowsTyped
<1>5. /\ \A x \in Char : db'[Ch(x)] = db[Ch(x)] /\ db'[W(x)] = db[W(x)] /\ db'[M(x)] = db[M(x)]
      /\ \A j \in CrewId : db'[K(j)] = db[K(j)]
      /\ \A n \in Name : db'[N(n)] = db[N(n)]
      /\ \A d \in District : db'[D(d)] = db[D(d)]
      /\ \A j \in CrewId, x \in Char : db'[I(j, x)] = db[I(j, x)] \/ (j = k /\ db'[I(j, x)] = v)
  <2>1. /\ \A x \in Char : Ch(x) # I(k, c) /\ W(x) # I(k, c) /\ M(x) # I(k, c)
        /\ \A j \in CrewId : K(j) # I(k, c)
        /\ \A n \in Name : N(n) # I(k, c)
        /\ \A d \in District : D(d) # I(k, c)
    BY RowKinds
  <2>2. \A j \in CrewId, x \in Char : I(j, x) = I(k, c) => j = k
    BY RowKinds
  <2> QED
    BY <1>3, <2>1, <2>2, RowKinds
<1>6. Books'
  <2>1. Known' /\ PendingIsOwned'
    <3>1. \A r \in Rows : owner[r] = NoProc => pend[r] = db[r]
      BY DEF IInv, Books, PendingIsOwned, Typed, RowsTyped
    <3>2. \A r \in Rows : owner[r] = NoProc => pend'[r] = db'[r]
      BY <1>3, <3>1
    <3> QED
      BY <1>3, <1>5, <3>2 DEF IInv, Books, Known, PendingIsOwned
  <2>2. LeaderIsMember'
    <3> SUFFICES ASSUME NEW j \in CrewId, db'[K(j)] # NoRow
                 PROVE  db'[M(db'[K(j)].leader)] = j
      BY DEF LeaderIsMember
    <3>1. db'[K(j)] = db[K(j)] /\ db[K(j)] \in Crews
      BY <1>5, Typed_Rows DEF IInv, Typed
    <3>2. db[K(j)].leader \in Char /\ db[M(db[K(j)].leader)] = j
      BY <3>1 DEF Crews, IInv, Books, CrewsConsistent, RosterConsistent, LeaderIsMember
    <3> QED
      BY <1>5, <3>1, <3>2
  <2>3. NoGhostMembers'
    BY <1>5 DEF IInv, Books, CrewsConsistent, RosterConsistent, NoGhostMembers
  <2>4. FoundersPay' /\ ClaimsMatch'
    BY <1>5 DEF IInv, Books, CrewsConsistent, FoundingConsistent, FoundersPay, ClaimsMatch
  <2> QED
    BY <2>1, <2>2, <2>3, <2>4 DEF Books, CrewsConsistent, RosterConsistent, FoundingConsistent
<1>7. ASSUME NEW q \in Proc \ {p}
      PROVE  LeavesAlone(q)
  <2>1. q # NoProc
    BY Constants
  <2>2. \A r \in Rows : owner[r] = q => r # I(k, c)
    BY <1>3, <2>1
  <2>3. \A j \in refs[q] : db'[K(j)] = db[K(j)]
    BY <1>5, NewIds
  <2>4. \A j \in CrewId : owner[K(j)] = q => \A x \in Char : db'[I(j, x)] # NoRow => db[I(j, x)] # NoRow
    BY <1>5, <2>1
  <2>5. req[q].op = "create" => req[q].crew \notin hist'.ids
    BY NewIds
  <2>6. \A j \in hist.ids : j \in CrewId
    BY DEF IInv, Typed, Histories
  <2> QED
    BY <1>3, <1>5, <2>2, <2>3, <2>4, <2>5, <2>6 DEF LeavesAlone
<1> QED
  BY <1>4, <1>6, <1>7, StepKeeps

LEMMA InvitingFacts ==
  ASSUME IInv, NEW p \in Proc, pc[p] \in {"replace", "invite"}
  PROVE  /\ req[p].op = "invite" /\ req[p] # NoRequest /\ req[p].char \in Char /\ req[p].crew \in CrewId
         /\ Fits(p) /\ todo[p] = {} /\ refs[p] = {} /\ \A r \in Rows : owner[r] # p
<1>1. Fits(p) /\ HoldsNothing(p)
  BY DEF IInv, RequestInv
<1>2. req[p].op = "invite"
  BY <1>1, Asking DEF IInv, Typed, Fits, Founding, Joining, Dissolving
<1>3. todo[p] = {} /\ refs[p] = {}
  BY <1>1, <1>2 DEF Fits, Stages
<1> QED
  BY <1>1, <1>2, <1>3, Asking DEF IInv, Typed, HoldsNothing

LEMMA StillInviting ==
  ASSUME NEW p \in Proc, req'[p].op = "invite", Fits(p)', \A r \in Rows : owner'[r] # p
  PROVE  RequestInv(p)'
  BY DEF RequestInv, Written, Founds, Joins, Removes, Dissolves, HoldsNothing

LEMMA DeleteExpiredInv ==
  ASSUME IInv, NEW p \in Proc, DeleteExpired(p)
  PROVE  IInv'
<1> DEFINE k == req[p].crew
           c == req[p].char
<1>1. /\ pc[p] = "replace" /\ Goto(p, "invite") /\ "invite" \in Statements
      /\ IF db[I(k, c)] = read[p].invite THEN WriteNow(p, I(k, c), NoRow) ELSE UNCHANGED rcVars
      /\ UNCHANGED <<hist, req, read, todo, refs>>
  BY DEF DeleteExpired, Statements
<1>2. /\ req[p].op = "invite" /\ req[p] # NoRequest /\ c \in Char /\ k \in CrewId
      /\ Fits(p) /\ todo[p] = {} /\ refs[p] = {} /\ \A r \in Rows : owner[r] # p
  BY <1>1, InvitingFacts
<1>3. /\ LocalsTyped' /\ \A q \in Proc \ {p} : Unmoved(q)
      /\ pc'[p] = "invite"
  BY <1>1, Onward
<1>4. Fits(p)'
  BY <1>1, <1>2, <1>3 DEF Fits, Stages
<1>5. RequestInv(p)'
  <2>1. owner' = owner
    BY <1>1 DEF WriteNow, rcVars
  <2> QED
    BY <1>1, <1>2, <1>4, <2>1, StillInviting
<1>6. CASE UNCHANGED rcVars
  <2>1. Typed'
    BY <1>1, <1>3, <1>6 DEF IInv, Typed, RowsTyped, rcVars
  <2> QED
    BY <1>1, <1>3, <1>5, <1>6, <2>1, LocalStep
<1>7. CASE WriteNow(p, I(k, c), NoRow)
  <2>1. req'[p] \in {req[p], NoRequest} /\ hist'.issued = hist.issued /\ hist' = hist
    BY <1>1
  <2>2. Apart' /\ Bounded'
    BY <1>3, <2>1, NoNewRequest
  <2>3. hist' \in Histories /\ hist'.ids = hist.ids /\ hist'.founded = hist.founded
    BY <2>1 DEF IInv, Typed
  <2> HIDE DEF k, c
  <2> QED
    BY <1>2, <1>3, <1>5, <1>7, <2>2, <2>3, InviteStep
<1> QED
  BY <1>1, <1>6, <1>7

LEMMA CreateInviteInv ==
  ASSUME IInv, NEW p \in Proc, CreateInvite(p)
  PROVE  IInv'
<1> DEFINE k == req[p].crew
           c == req[p].char
           v == hist.issued + 1
<1>1. /\ pc[p] = "invite" /\ MayGo(p) /\ Answered(p)
      /\ IF db[I(k, c)] # NoRow \/ db[K(k)] = NoRow
         THEN UNCHANGED <<rcVars, hist>>
         ELSE /\ WriteNow(p, I(k, c), v)
              /\ hist' = [hist EXCEPT !.issued = @ + 1, !.unused[<<k, c>>] = @ + 1]
  BY DEF CreateInvite
<1>2. /\ req[p].op = "invite" /\ req[p] # NoRequest /\ c \in Char /\ k \in CrewId
      /\ \A r \in Rows : owner[r] # p
  BY <1>1, InvitingFacts
<1>3. /\ pc'[p] = "idle" /\ req'[p] = NoRequest /\ read'[p].district = None /\ todo'[p] = {} /\ refs'[p] = {}
      /\ LocalsTyped' /\ \A q \in Proc \ {p} : Unmoved(q)
  BY <1>1, AnsweredFacts
<1>4. RequestInv(p)'
  <2>1. owner' = owner
    BY <1>1 DEF WriteNow, rcVars
  <2> QED
    BY <1>2, <1>3, <2>1, IdleInv
<1>5. CASE UNCHANGED <<rcVars, hist>>
  <2>1. Typed'
    BY <1>3, <1>5 DEF IInv, Typed, RowsTyped, rcVars
  <2> QED
    BY <1>3, <1>4, <1>5, <2>1, LocalStep
<1>6. CASE ~UNCHANGED <<rcVars, hist>>
  <2>1. /\ db[K(k)] # NoRow /\ WriteNow(p, I(k, c), v)
        /\ hist' = [hist EXCEPT !.issued = @ + 1, !.unused[<<k, c>>] = @ + 1]
    BY <1>1, <1>6
  <2>2. /\ hist \in Histories /\ hist.issued \in Nat /\ hist.unused \in [CrewId \X Char -> Int]
    BY DEF IInv, Typed, Histories
  <2> DEFINE h == [hist EXCEPT !.issued = v]
             u == [hist.unused EXCEPT ![<<k, c>>] = @ + 1]
  <2>3. hist' = [h EXCEPT !.unused = u]
    BY <2>1, <2>2 DEF Histories
  <2>4. u \in [CrewId \X Char -> Int]
    BY <1>2, <2>2
  <2>5. /\ h \in Histories /\ h.ids = hist.ids /\ h.founded = hist.founded /\ h.issued = v
    BY <2>2 DEF Histories
  <2> HIDE DEF h, u
  <2>6. /\ hist' \in Histories /\ hist'.ids = hist.ids /\ hist'.founded = hist.founded /\ hist'.issued = v
    BY <2>3, <2>4, <2>5 DEF Histories
  <2>7. IsFiniteSet(Inviting) /\ p \in Inviting
    BY <1>2, Constants, FS_Subset DEF Inviting
  <2>8. Cardinality(Inviting) \in Nat /\ Cardinality(Inviting) # 0
    BY <2>7, FS_CardinalityType, FS_EmptySet
  <2>9. v \in 1 .. MaxInvites
    BY <2>2, <2>8, Constants DEF IInv, Bounded
  <2>10. Inviting' = Inviting \ {p}
    BY <1>2, <1>3 DEF Inviting, Unmoved, NoRequest
  <2>11. Bounded'
    <3>1. Cardinality(Inviting') = Cardinality(Inviting) - 1
      BY <2>7, <2>10, FS_RemoveElement
    <3> QED
      BY <2>2, <2>6, <2>8, <3>1, Constants DEF IInv, Bounded
  <2>12. Apart'
    <3> SUFFICES ASSUME NEW q \in Proc, NEW s \in Proc, q # s, req'[q].op = "create", req'[s].op = "create"
                 PROVE  req'[q].crew # req'[s].crew
      BY DEF Apart
    <3>1. req'[q] = req[q] /\ req'[s] = req[s]
      BY <1>3 DEF Unmoved, NoRequest
    <3> QED
      BY <3>1 DEF IInv, Apart
  <2>13. owner[K(k)] = NoProc
    <3>1. K(k) \in Rows
      BY <1>2, RowKinds
    <3>2. \A q \in Proc : q # p => owner[K(k)] # q
      BY <1>1 DEF MayGo, HoldsBack
    <3> QED
      BY <1>2, <3>1, <3>2 DEF IInv, Typed, RowsTyped
  <2> HIDE DEF k, c, v
  <2> QED
    BY <1>2, <1>3, <1>4, <2>1, <2>6, <2>9, <2>11, <2>12, <2>13, InviteStep
<1> QED
  BY <1>5, <1>6
-----------------------------------------------------------------------------
\* A departure and a kick.

LEMMA RemovingFacts ==
  ASSUME IInv, NEW p \in Proc, pc[p] \in {"remove", "release"}
  PROVE  /\ req[p].op = "remove" /\ ~Enters(p) /\ req[p] # NoRequest
         /\ req[p].char \in Char /\ req[p].crew \in CrewId
         /\ Removes(p) /\ Fits(p) /\ todo[p] = {} /\ refs[p] = {}
         /\ LET c == req[p].char IN
              /\ M(c) \in Rows /\ M(c)[1] = "member" /\ Ch(c) \in Rows /\ Ch(c)[1] = "character"
              /\ M(c) # Ch(c)
<1>1. Removes(p) /\ Fits(p)
  BY DEF IInv, RequestInv
<1>2. req[p].op = "remove"
  BY <1>1, Asking DEF IInv, Typed, Fits, Founding, Joining, Dissolving
<1>3. req[p] # NoRequest /\ req[p].char \in Char /\ req[p].crew \in CrewId
  BY <1>2, Asking DEF IInv, Typed
<1>4. todo[p] = {} /\ refs[p] = {}
  BY <1>1, <1>2 DEF Fits, Stages
<1> QED
  BY <1>1, <1>2, <1>3, <1>4, RowKinds DEF Enters

LEMMA RemoveMemberInv ==
  ASSUME IInv, NEW p \in Proc, RemoveMember(p)
  PROVE  IInv'
<1> DEFINE k == req[p].crew
           c == req[p].char
<1>1. /\ pc[p] = "remove" /\ Goto(p, "release") /\ "release" \in Statements
      /\ IF Sees(p, M(c)) = k THEN Put(p, M(c), NoRow) ELSE UNCHANGED rcVars
      /\ UNCHANGED <<hist, req, read, todo, refs>>
  BY DEF RemoveMember, Statements
<1>2. /\ req[p].op = "remove" /\ ~Enters(p) /\ req[p] # NoRequest /\ c \in Char /\ k \in CrewId
      /\ Removes(p) /\ Fits(p) /\ todo[p] = {} /\ refs[p] = {}
      /\ M(c) \in Rows /\ M(c)[1] = "member" /\ Ch(c) \in Rows /\ M(c) # Ch(c)
  BY <1>1, RemovingFacts
<1>3. /\ LocalsTyped' /\ \A q \in Proc \ {p} : Unmoved(q)
      /\ pc'[p] = "release"
  BY <1>1, Onward
<1>4. Fits(p)'
  BY <1>1, <1>2, <1>3 DEF Fits, Stages
<1>5. CASE UNCHANGED rcVars
  <2>1. Removes(p)'
    BY <1>1, <1>2, <1>3, <1>5 DEF Removes, rcVars
  <2>2. RequestInv(p)'
    BY <1>1, <1>2, <1>4, <1>5, <2>1, WrittenSame, OnlyRemoves
  <2>3. Typed'
    BY <1>1, <1>3, <1>5 DEF IInv, Typed, RowsTyped, rcVars
  <2> QED
    BY <1>1, <1>3, <1>5, <2>2, <2>3, LocalStep
<1>6. CASE Sees(p, M(c)) = k /\ Put(p, M(c), NoRow)
  <2>1. /\ pend'[M(c)] = NoRow /\ owner'[M(c)] = p
        /\ \A s \in Rows \ {M(c)} : pend'[s] = pend[s] /\ owner'[s] = owner[s]
        /\ db' = db
    BY <1>2, <1>6, PutFacts
  <2>2. db[M(c)] = k
    BY <1>1, <1>2, <1>6 DEF Sees, Removes
  <2>3. Written(p)'
    <3>1. Wrote(p, M(c))'
      <4>1. c' = c /\ req'[p].crew = k /\ ~Enters(p)'
        BY <1>1, <1>2 DEF Enters
      <4> HIDE DEF k, c
      <4> QED
        BY <1>2, <2>1, <2>2, <4>1 DEF Wrote
    <3>2. req'[p] = req[p] /\ read'[p].district = read[p].district
      BY <1>1
    <3> QED
      BY <1>2, <2>1, <3>1, <3>2, WrittenKept
  <2>4. Removes(p)'
    <3>1. /\ \A r \in Rows : owner'[r] = p => r \in {M(c), Ch(c)}
          /\ owner'[Ch(c)] # p
      BY <1>1, <1>2, <2>1 DEF Removes
    <3> QED
      BY <1>1, <1>2, <1>3, <2>1, <3>1 DEF Removes
  <2>5. RequestInv(p)'
    BY <1>1, <1>2, <1>4, <2>3, <2>4, OnlyRemoves
  <2>6. NoRow \in Versions(M(c)) /\ M(c)[1] # "crew"
    BY <1>2, VersionsOf
  <2> QED
    BY <1>1, <1>2, <1>3, <1>6, <2>5, <2>6, PutStep
<1> QED
  BY <1>1, <1>5, <1>6

LEMMA ClearCrewIdInv ==
  ASSUME IInv, NEW p \in Proc, ClearCrewId(p)
  PROVE  IInv'
<1> DEFINE k == req[p].crew
           c == req[p].char
<1>1. /\ pc[p] = "release" /\ Goto(p, "commit") /\ "commit" \in Statements /\ Put(p, Ch(c), None)
      /\ UNCHANGED <<hist, req, read, todo, refs>>
  BY DEF ClearCrewId, Statements, Founding
<1>2. /\ req[p].op = "remove" /\ ~Enters(p) /\ req[p] # NoRequest /\ c \in Char /\ k \in CrewId
      /\ Removes(p) /\ Fits(p) /\ todo[p] = {} /\ refs[p] = {}
      /\ M(c) \in Rows /\ Ch(c) \in Rows /\ Ch(c)[1] = "character"
  BY <1>1, RemovingFacts
<1>3. /\ LocalsTyped' /\ \A q \in Proc \ {p} : Unmoved(q)
      /\ pc'[p] = "commit"
  BY <1>1, Onward
<1>4. Fits(p)'
  BY <1>1, <1>2, <1>3 DEF Fits, Stages
<1>5. /\ pend'[Ch(c)] = None /\ owner'[Ch(c)] = p
      /\ \A s \in Rows \ {Ch(c)} : pend'[s] = pend[s] /\ owner'[s] = owner[s]
      /\ db' = db
  BY <1>1, <1>2, PutFacts
<1>6. Written(p)'
  <2>1. Wrote(p, Ch(c))'
    <3>1. c' = c /\ req'[p].crew = k /\ ~Enters(p)'
      BY <1>1, <1>2 DEF Enters
    <3> HIDE DEF k, c
    <3> QED
      BY <1>2, <1>5, <3>1 DEF Wrote
  <2>2. req'[p] = req[p] /\ read'[p].district = read[p].district
    BY <1>1
  <2> QED
    BY <1>2, <1>5, <2>1, <2>2, WrittenKept
<1>7. Removes(p)'
  <2>1. \A r \in Rows : owner'[r] = p => r \in {M(c), Ch(c)}
    BY <1>2, <1>5 DEF Removes
  <2> QED
    BY <1>1, <1>2, <1>3, <1>5, <2>1 DEF Removes
<1>8. RequestInv(p)'
  BY <1>1, <1>2, <1>6, <1>4, <1>7, OnlyRemoves
<1>9. None \in Versions(Ch(c)) /\ Ch(c)[1] # "crew"
  BY <1>2, VersionsOf
<1> QED
  BY <1>1, <1>2, <1>3, <1>8, <1>9, PutStep
-----------------------------------------------------------------------------
\* A dissolution.

LEMMA DissolvingFacts ==
  ASSUME IInv, NEW p \in Proc, pc[p] \in Stages \cup {"delete"}
  PROVE  /\ req[p].op = "dissolve" /\ ~Enters(p) /\ req[p] # NoRequest /\ req[p].crew \in CrewId
         /\ req[p].crew \in hist.ids
         /\ Dissolves(p) /\ Fits(p) /\ Written(p) /\ refs[p] = {}
         /\ K(req[p].crew) \in Rows
         /\ pc[p] = "delete" => todo[p] = {}
<1>1. Dissolves(p) /\ Fits(p) /\ Written(p)
  BY DEF IInv, RequestInv
<1>2. req[p].op = "dissolve"
  BY <1>1, Asking DEF IInv, Typed, Fits, Founding, Joining, Stages
<1>3. req[p] # NoRequest /\ req[p].crew \in CrewId
  BY <1>2, Asking DEF IInv, Typed
<1>4. (pc[p] = "delete" => todo[p] = {}) /\ refs[p] = {}
  BY <1>1, <1>2 DEF Fits, Stages
<1>5. req[p].crew \in hist.ids
  BY <1>1, <1>2 DEF Dissolves
<1> QED
  BY <1>1, <1>2, <1>3, <1>4, <1>5, RowKinds DEF Enters

LEMMA ReferringIs ==
  ASSUME NEW p \in Proc, NEW rows
  PROVE  Referring(p, rows) = {r \in rows : Refers(p, r)}
  BY DEF Referring, Refers

\* The rows of a statement are among those the crew's deletion would change.
LEMMA StatementRows ==
  ASSUME NEW p \in Proc, pc[p] \in Stages
  PROVE  RowsOf(p) \subseteq Cascaded(req[p].crew)
  BY DEF Stages, RowsOf, Cascaded

LEMMA VisitedFacts ==
  ASSUME IInv, NEW p \in Proc, pc[p] \in Stages, NEW left \in SUBSET RowsOf(p), Visited(p, left)
  PROVE  /\ LocalsTyped' /\ \A q \in Proc \ {p} : Unmoved(q)
         /\ todo'[p] = left /\ hist' = hist /\ req'[p] = req[p] /\ read'[p] = read[p]
         /\ pc'[p] = IF left = {} THEN NextStage[pc[p]] ELSE pc[p]
         /\ Fits(p)'
<1>1. /\ req[p].op = "dissolve" /\ req[p] # NoRequest /\ req[p].crew \in CrewId /\ Fits(p) /\ refs[p] = {}
  BY DissolvingFacts
<1>2. todo' = [todo EXCEPT ![p] = left] /\ UNCHANGED <<hist, req, read, refs>>
  BY DEF Visited
<1>3. left \subseteq Rows
  BY <1>1, StatementRows, CascadedRows
<1>4. NextStage[pc[p]] \in Statements /\ NextStage[pc[p]] \in Dissolving
  BY DEF Stages, NextStage, Statements, Dissolving
<1>5. /\ pc'[p] = (IF left = {} THEN NextStage[pc[p]] ELSE pc[p])
      /\ pc' \in [Proc -> Statements] /\ \A q \in Proc \ {p} : pc'[q] = pc[q]
  <2>1. CASE left = {}
    <3>1. Goto(p, NextStage[pc[p]])
      BY <2>1 DEF Visited
    <3> QED
      BY <1>4, <2>1, <3>1, GotoFacts
  <2>2. CASE left # {}
    <3>1. pc' = pc
      BY <2>2 DEF Visited
    <3> QED
      BY <2>2, <3>1 DEF IInv, Typed, LocalsTyped
  <2> QED
    BY <2>1, <2>2
<1>6. todo \in [Proc -> SUBSET Rows]
  BY DEF IInv, Typed, LocalsTyped
<1>7. todo' \in [Proc -> SUBSET Rows] /\ todo'[p] = left /\ \A q \in Proc \ {p} : todo'[q] = todo[q]
  BY <1>2, <1>3, <1>6
<1>8. LocalsTyped' /\ \A q \in Proc \ {p} : Unmoved(q)
  BY <1>2, <1>5, <1>7 DEF IInv, Typed, LocalsTyped, Unmoved
<1>9. Fits(p)'
  <2>1. left = {} \/ (pc'[p] = pc[p] /\ RowsOf(p)' = RowsOf(p))
    BY <1>2, <1>5 DEF RowsOf
  <2>2. pc'[p] \in Dissolving /\ pc'[p] # "idle"
    BY <1>4, <1>5 DEF Stages, Dissolving
  <2>3. todo'[p] \subseteq IF pc'[p] \in Stages THEN RowsOf(p)' ELSE {}
    BY <1>7, <2>1
  <2> QED
    BY <1>1, <1>2, <2>2, <2>3 DEF Fits
<1> QED
  BY <1>2, <1>5, <1>7, <1>8, <1>9

LEMMA BeginStatementInv ==
  ASSUME IInv, NEW p \in Proc, BeginStatement(p)
  PROVE  IInv'
<1> DEFINE k == req[p].crew
           left == Referring(p, RowsOf(p))
<1>1. pc[p] \in Stages /\ todo[p] = {} /\ Visited(p, left) /\ UNCHANGED rcVars
  BY DEF BeginStatement
<1>2. left = {r \in RowsOf(p) : Refers(p, r)}
  BY ReferringIs
<1>3. req[p].op = "dissolve" /\ k \in CrewId /\ k \in hist.ids /\ Dissolves(p) /\ Fits(p) /\ refs[p] = {}
  BY <1>1, DissolvingFacts
<1>4. PICK S \in SUBSET RowsOf(p) : S = left
  BY <1>2
<1> HIDE DEF left
<1>5. /\ LocalsTyped' /\ \A q \in Proc \ {p} : Unmoved(q)
      /\ todo'[p] = S /\ hist' = hist /\ req'[p] = req[p] /\ read'[p] = read[p]
      /\ pc'[p] = IF S = {} THEN NextStage[pc[p]] ELSE pc[p]
      /\ Fits(p)'
  BY <1>1, <1>4, VisitedFacts
<1>6. Typed'
  BY <1>1, <1>5 DEF IInv, Typed, RowsTyped, rcVars
<1>7. Written(p)'
  BY <1>1, <1>5, WrittenSame
<1>8. Dissolves(p)'
  <2>1. \A r : Refers(p, r)' <=> Refers(p, r)
    BY <1>1, <1>5 DEF Refers, Sees, rcVars
  <2>2. pc'[p] = "cascade" => pc[p] = "cascade" /\ owner[K(k)] = p
    BY <1>1, <1>3, <1>5 DEF Stages, NextStage, Dissolves
  <2>3. pc'[p] = "commit" => pc[p] = "cascade" /\ S = {} /\ owner[K(k)] = p
    BY <1>1, <1>3, <1>5 DEF Stages, NextStage, Dissolves
  <2>4. pc[p] = "cascade" => \A r \in Cascaded(k) \ S : ~Refers(p, r)
    BY <1>2, <1>4 DEF RowsOf
  <2>5. pc[p] \in {"cascade", "commit"} => pc'[p] \in {"cascade", "commit"}
    BY <1>1, <1>5 DEF Stages, NextStage
  <2>6. /\ \A r \in Rows : owner'[r] = p => r[1] # "wallet"
        /\ \A j \in CrewId : owner'[K(j)] = p => j = k /\ pc'[p] \in {"cascade", "commit"}
        /\ owner'[K(k)] = p => /\ owner'[N(db'[K(k)].name)] = p
                               /\ db'[K(k)].district # None => owner'[D(db'[K(k)].district)] = p
    BY <1>1, <1>3, <2>5 DEF Dissolves, rcVars
  <2>7. pc'[p] = "cascade" => owner'[K(k)] = p /\ (S # {} => \A r \in Cascaded(k) \ S : ~Refers(p, r)')
    BY <1>1, <2>1, <2>2, <2>4 DEF rcVars
  <2>8. pc'[p] = "commit" => owner'[K(k)] = p /\ \A r \in Cascaded(k) : ~Refers(p, r)'
    BY <1>1, <2>1, <2>3, <2>4 DEF rcVars
  <2>9. req'[p].crew = k /\ hist'.ids = hist.ids
    BY <1>5
  <2> HIDE DEF k
  <2> QED
    BY <1>3, <1>5, <2>6, <2>7, <2>8, <2>9 DEF Dissolves, Cascaded, Invites
<1>9. RequestInv(p)'
  BY <1>3, <1>5, <1>7, <1>8, OnlyDissolves
<1> QED
  BY <1>1, <1>5, <1>6, <1>9, LocalStep

LEMMA VisitRowInv ==
  ASSUME IInv, NEW p \in Proc, VisitRow(p)
  PROVE  IInv'
<1> DEFINE k == req[p].crew
<1>1. pc[p] \in Stages
  BY DEF VisitRow
<1>2. PICK r \in todo[p] :
       /\ CanLock(p, r)
       /\ IF r \in Referring(p, {r})
          THEN Put(p, r, IF r[1] = "character" THEN None ELSE NoRow)
          ELSE UNCHANGED rcVars
       /\ Visited(p, todo[p] \ {r})
  BY DEF VisitRow
<1>3. /\ req[p].op = "dissolve" /\ ~Enters(p) /\ k \in CrewId /\ k \in hist.ids
      /\ Dissolves(p) /\ Fits(p) /\ Written(p) /\ refs[p] = {} /\ K(k) \in Rows
  BY <1>1, DissolvingFacts
<1>4. todo[p] \subseteq RowsOf(p)
  BY <1>1, <1>3 DEF Fits
<1>5. PICK S \in SUBSET RowsOf(p) : S = todo[p] \ {r}
  BY <1>4
<1>6. /\ LocalsTyped' /\ \A q \in Proc \ {p} : Unmoved(q)
      /\ todo'[p] = S /\ hist' = hist /\ req'[p] = req[p] /\ read'[p] = read[p]
      /\ pc'[p] = IF S = {} THEN NextStage[pc[p]] ELSE pc[p]
      /\ Fits(p)'
  BY <1>1, <1>2, <1>5, VisitedFacts
<1>7. r \in Cascaded(k) /\ r \in Rows
      /\ \/ \E c \in Char : r = Ch(c)
         \/ \E c \in Char : r = M(c)
         \/ \E c \in Char : r = I(k, c)
  BY <1>1, <1>3, <1>4, StatementRows, CascadedRows
<1>8. r[1] \in {"character", "member", "invite"}
  BY <1>3, <1>7, RowKinds
<1> DEFINE v == IF r[1] = "character" THEN None ELSE NoRow
<1>9. /\ db' = db
      /\ \A s \in Rows \ {r} : pend'[s] = pend[s] /\ owner'[s] = owner[s]
      /\ \/ Refers(p, r) /\ Put(p, r, v) /\ pend'[r] = v /\ owner'[r] = p
         \/ ~Refers(p, r) /\ UNCHANGED rcVars
  <2>1. r \in Referring(p, {r}) <=> Refers(p, r)
    BY ReferringIs
  <2>2. CASE Refers(p, r)
    <3>1. Put(p, r, v)
      BY <1>2, <2>1, <2>2
    <3> HIDE DEF v
    <3> QED
      BY <1>7, <2>2, <3>1, PutFacts
  <2>3. CASE ~Refers(p, r)
    BY <1>2, <2>1, <2>3 DEF rcVars
  <2> QED
    BY <2>2, <2>3
<1>10. k # None /\ k # NoRow
  BY <1>3, Constants
<1>11. ~Refers(p, r)'
  <2>1. CASE Refers(p, r) /\ pend'[r] = v /\ owner'[r] = p
    <3>1. Sees(p, r)' = v /\ req'[p].crew = k
      BY <1>6, <2>1 DEF Sees
    <3> QED
      BY <1>10, <3>1 DEF Refers
  <2>2. CASE ~Refers(p, r) /\ UNCHANGED rcVars
    BY <1>6, <2>2 DEF Refers, Sees, rcVars
  <2> QED
    BY <1>9, <2>1, <2>2
<1>12. \A s \in Cascaded(k) : s # r /\ ~Refers(p, s) => ~Refers(p, s)'
  <2> TAKE s \in Cascaded(k)
  <2>1. s \in Rows
    BY <1>3, CascadedRows
  <2> QED
    BY <1>6, <1>9, <2>1 DEF Refers, Sees
<1>13. ASSUME Refers(p, r), Put(p, r, v), pend'[r] = v, owner'[r] = p
       PROVE  Wrote(p, r)'
  <2>1. ~Enters(p)' /\ req'[p].crew = k
    BY <1>3, <1>6 DEF Enters
  <2>2. r[1] = "member" => db[r] = k
    <3> SUFFICES ASSUME r[1] = "member" PROVE db[r] = k
      OBVIOUS
    <3>1. Sees(p, r) = k
      BY <1>13 DEF Refers
    <3>2. owner[r] # p
      <4>1. SUFFICES ASSUME owner[r] = p PROVE FALSE
        OBVIOUS
      <4>2. Wrote(p, r)
        BY <1>3, <1>7, <4>1 DEF Written
      <4>3. pend[r] = NoRow
        BY <1>3, <4>2 DEF Wrote
      <4> QED
        BY <1>10, <3>1, <4>1, <4>3 DEF Sees
    <3> QED
      BY <3>1, <3>2 DEF Sees
  <2> QED
    BY <1>8, <1>9, <1>13, <2>1, <2>2 DEF Wrote
<1>14. Written(p)'
  <2>1. CASE Refers(p, r) /\ Put(p, r, v) /\ pend'[r] = v /\ owner'[r] = p
    <3>1. Wrote(p, r)'
      BY <1>13, <2>1
    <3>2. read'[p].district = read[p].district
      BY <1>6
    <3> QED
      BY <1>6, <1>7, <1>9, <3>1, <3>2, WrittenKept
  <2>2. CASE UNCHANGED rcVars
    BY <1>6, <2>2, WrittenSame
  <2> QED
    BY <1>9, <2>1, <2>2
<1>15. \A s \in Rows : s[1] \notin {"character", "member", "invite"} => owner'[s] = owner[s]
  BY <1>8, <1>9
<1>16. Dissolves(p)'
  <2>1. pc'[p] = "cascade" => pc[p] = "cascade" /\ owner[K(k)] = p
    BY <1>1, <1>3, <1>6 DEF Stages, NextStage, Dissolves
  <2>2. pc'[p] = "commit" => pc[p] = "cascade" /\ S = {} /\ owner[K(k)] = p
    BY <1>1, <1>3, <1>6 DEF Stages, NextStage, Dissolves
  <2>3. pc[p] = "cascade" => \A s \in Cascaded(k) \ S : ~Refers(p, s)'
    <3> SUFFICES ASSUME pc[p] = "cascade", NEW s \in Cascaded(k) \ S PROVE ~Refers(p, s)'
      OBVIOUS
    <3>1. CASE s = r
      BY <1>11, <3>1
    <3>2. CASE s # r
      <4>1. ~Refers(p, s)
        BY <1>2, <1>3, <1>5, <3>2 DEF Dissolves
      <4> QED
        BY <1>12, <3>2, <4>1
    <3> QED
      BY <3>1, <3>2
  <2>4. pc[p] \in {"cascade", "commit"} => pc'[p] \in {"cascade", "commit"}
    BY <1>1, <1>6 DEF Stages, NextStage
  <2>5. \A s \in Rows : owner'[s] = p => s[1] # "wallet"
    BY <1>3, <1>15 DEF Dissolves
  <2>6. \A j \in CrewId : owner'[K(j)] = owner[K(j)]
    BY <1>15, RowKinds
  <2>7. \A j \in CrewId : owner'[K(j)] = p => j = k /\ pc'[p] \in {"cascade", "commit"}
    BY <1>3, <2>4, <2>6 DEF Dissolves
  <2>8. owner'[K(k)] = p => /\ owner'[N(db'[K(k)].name)] = p
                            /\ db'[K(k)].district # None => owner'[D(db'[K(k)].district)] = p
    <3> SUFFICES ASSUME owner[K(k)] = p
                 PROVE  /\ owner'[N(db[K(k)].name)] = p
                        /\ db[K(k)].district # None => owner'[D(db[K(k)].district)] = p
      BY <1>3, <1>9, <2>6
    <3>1. Wrote(p, K(k)) /\ K(k)[1] = "crew"
      BY <1>3, RowKinds DEF Written
    <3>2. db[K(k)] # NoRow /\ db[K(k)] \in Crews \cup {NoRow}
      BY <1>3, <3>1, Typed_Rows DEF Wrote, IInv, Typed
    <3>3. db[K(k)].name \in Name /\ db[K(k)].district \in District \cup {None}
      BY <3>2 DEF Crews
    <3>4. /\ N(db[K(k)].name) \in Rows /\ N(db[K(k)].name)[1] = "name"
          /\ db[K(k)].district # None =>
               D(db[K(k)].district) \in Rows /\ D(db[K(k)].district)[1] = "district"
      BY <3>3, RowKinds
    <3> QED
      BY <1>3, <1>15, <3>4 DEF Dissolves
  <2>9. pc'[p] = "cascade" => owner'[K(k)] = p /\ (S # {} => \A s \in Cascaded(k) \ S : ~Refers(p, s)')
    BY <1>3, <2>1, <2>3, <2>6
  <2>10. pc'[p] = "commit" => owner'[K(k)] = p /\ \A s \in Cascaded(k) : ~Refers(p, s)'
    BY <1>3, <2>2, <2>3, <2>6
  <2>11. req'[p].crew = k /\ hist'.ids = hist.ids
    BY <1>6
  <2> HIDE DEF k
  <2> QED
    BY <1>3, <1>6, <2>5, <2>7, <2>8, <2>9, <2>10, <2>11 DEF Dissolves, Cascaded, Invites
<1>17. RequestInv(p)'
  BY <1>3, <1>6, <1>14, <1>16, OnlyDissolves
<1>18. CASE UNCHANGED rcVars
  <2>1. Typed'
    BY <1>6, <1>18 DEF IInv, Typed, RowsTyped, rcVars
  <2> QED
    BY <1>6, <1>17, <1>18, <2>1, LocalStep
<1>19. CASE Put(p, r, v)
  <2>1. v \in Versions(r) /\ r[1] # "crew"
    BY <1>8 DEF Versions
  <2> HIDE DEF v
  <2> QED
    BY <1>6, <1>7, <1>17, <1>19, <2>1, PutStep
<1> QED
  BY <1>9, <1>18, <1>19

LEMMA DeleteCrewInv ==
  ASSUME IInv, NEW p \in Proc, DeleteCrew(p)
  PROVE  IInv'
<1> DEFINE k == req[p].crew
           row == Sees(p, K(k))
           keys == IF row.district = None THEN {N(row.name)} ELSE {N(row.name), D(row.district)}
           new == [r \in {K(k)} \cup keys |-> NoRow]
<1>1. /\ pc[p] = "delete" /\ MayGo(p)
      /\ IF row = NoRow THEN Goto(p, "commit") /\ UNCHANGED rcVars
         ELSE PutAll(p, new) /\ Goto(p, "cascade")
      /\ UNCHANGED <<hist, req, read, todo, refs>> /\ "commit" \in Statements /\ "cascade" \in Statements
  BY DEF DeleteCrew, Statements, Founding, Dissolving
<1>2. /\ req[p].op = "dissolve" /\ ~Enters(p) /\ req[p] # NoRequest /\ k \in CrewId /\ k \in hist.ids
      /\ Dissolves(p) /\ Fits(p) /\ Written(p) /\ refs[p] = {} /\ K(k) \in Rows /\ todo[p] = {}
  BY <1>1, DissolvingFacts
<1>3. \A j \in CrewId : owner[K(j)] # p
  BY <1>1, <1>2 DEF Dissolves
<1>4. row = db[K(k)]
  BY <1>2, <1>3 DEF Sees
<1>5. CASE row = NoRow
  <2>1. Goto(p, "commit") /\ UNCHANGED <<rcVars, hist, req, read, todo, refs>>
    BY <1>1, <1>5
  <2>2. /\ LocalsTyped' /\ \A q \in Proc \ {p} : Unmoved(q)
        /\ pc'[p] = "commit"
    BY <1>1, <2>1, Onward
  <2>3. Typed'
    BY <2>1, <2>2 DEF IInv, Typed, RowsTyped, rcVars
  <2>4. Fits(p)'
    BY <1>2, <2>1, <2>2 DEF Fits, Stages, Dissolving
  <2>5. Dissolves(p)'
    <3>1. db'[K(k)] = NoRow /\ \A j \in CrewId : owner'[K(j)] # p
      BY <1>3, <1>4, <1>5, <2>1 DEF rcVars
    <3> QED
      BY <1>2, <2>1, <2>2, <3>1 DEF Dissolves, rcVars
  <2>6. RequestInv(p)'
    BY <1>2, <2>1, <2>4, <2>5, WrittenSame, OnlyDissolves
  <2> QED
    BY <2>1, <2>2, <2>3, <2>6, LocalStep
<1>6. CASE row # NoRow
  <2>1. PutAll(p, new) /\ Goto(p, "cascade")
    BY <1>1, <1>6
  <2>2. row \in Crews
    BY <1>2, <1>4, <1>6, Typed_Rows DEF IInv, Typed
  <2>3. row.name \in Name /\ row.district \in District \cup {None}
    BY <2>2 DEF Crews
  <2> DEFINE n == N(row.name)
             d == D(row.district)
  <2>4. n \in Rows /\ n[1] = "name" /\ db[n] = k
    BY <1>2, <1>4, <1>6, <2>3, RowKinds DEF IInv, Books, CrewsConsistent, FoundingConsistent, ClaimsMatch
  <2>5. row.district # None => d \in Rows /\ d[1] = "district" /\ db[d] = k
    BY <1>2, <1>4, <1>6, <2>3, RowKinds DEF IInv, Books, CrewsConsistent, FoundingConsistent, ClaimsMatch
  <2>6. K(k)[1] = "crew" /\ db[K(k)] # NoRow
    BY <1>2, <1>4, <1>6, RowKinds
  <2>7. PICK T \in SUBSET Rows :
          /\ T = {K(k)} \cup keys /\ K(k) \in T /\ n \in T /\ (row.district # None => d \in T)
          /\ \A s \in T : s = K(k) \/ s = n \/ (row.district # None /\ s = d)
    <3>1. keys = IF row.district = None THEN {n} ELSE {n, d}
      OBVIOUS
    <3> HIDE DEF row, n, d, keys
    <3> DEFINE T == {K(k)} \cup keys
    <3>2. CASE row.district = None
      <4>1. keys = {n}
        BY <3>1, <3>2
      <4>2. T \in SUBSET Rows /\ K(k) \in T /\ n \in T /\ \A s \in T : s = K(k) \/ s = n
        BY <1>2, <2>4, <4>1
      <4> QED
        BY <3>2, <4>2
    <3>3. CASE row.district # None
      <4>1. keys = {n, d}
        BY <3>1, <3>3
      <4>2. T \in SUBSET Rows /\ K(k) \in T /\ n \in T /\ d \in T /\ \A s \in T : s = K(k) \/ s = n \/ s = d
        BY <1>2, <2>4, <2>5, <3>3, <4>1
      <4> QED
        BY <3>3, <4>2
    <3> QED
      BY <3>2, <3>3
  <2>8. \A s \in T : /\ s[1] \in {"crew", "name", "district"}
                     /\ s[1] = "crew" => s = K(k) /\ db[s] # NoRow
                     /\ s[1] # "crew" => db[s] = k
    BY <2>4, <2>5, <2>6, <2>7
  <2>9. /\ \A s \in T : pend'[s] = NoRow /\ owner'[s] = p /\ owner[s] \in {p, NoProc}
        /\ \A s \in Rows \ T : pend'[s] = pend[s] /\ owner'[s] = owner[s]
        /\ db' = db /\ DOMAIN db' = Rows /\ DOMAIN pend' = Rows /\ owner' \in [Rows -> Proc \cup {NoProc}]
    <3>1. new = [r \in T |-> NoRow]
      BY <2>7
    <3>2. DOMAIN new = T /\ \A s \in T : new[s] = NoRow
      BY <3>1
    <3> HIDE DEF new
    <3> QED
      BY <2>1, <3>2, PutAllFacts
  <2> HIDE DEF new, keys
  <2>10. /\ LocalsTyped' /\ \A q \in Proc \ {p} : Unmoved(q)
         /\ pc'[p] = "cascade"
    BY <1>1, <2>1, Onward
  <2>11. Typed'
    <3>1. hist' \in Histories /\ \A s \in Rows : db[s] \in Versions(s) /\ pend[s] \in Versions(s)
      BY <1>1 DEF IInv, Typed, RowsTyped
    <3>2. \A s \in T : NoRow \in Versions(s)
      BY <2>8 DEF Versions
    <3>3. \A s \in Rows : pend'[s] \in Versions(s)
      BY <2>9, <3>1, <3>2
    <3> QED
      BY <2>9, <2>10, <3>1, <3>3 DEF Typed, RowsTyped
  <2>12. Fits(p)'
    BY <1>1, <1>2, <2>10 DEF Fits, Stages, Dissolving
  <2>13. Written(p)'
    <3> SUFFICES ASSUME NEW s \in Rows, owner'[s] = p
                 PROVE  Wrote(p, s)'
      BY DEF Written
    <3>1. req'[p].crew = k /\ ~Enters(p)' /\ CrewRow(p)' = CrewRow(p)
      BY <1>1, <1>2 DEF Enters, CrewRow
    <3>2. CASE s \in T
      <4> HIDE DEF k
      <4> QED
        BY <2>8, <2>9, <3>1, <3>2 DEF Wrote
    <3>3. CASE s \notin T
      <4>1. Wrote(p, s) /\ pend'[s] = pend[s]
        BY <1>2, <2>9, <3>3 DEF Written
      <4> HIDE DEF k
      <4>2. req[p].crew = k
        BY DEF k
      <4> QED
        BY <1>2, <2>9, <3>1, <4>1, <4>2 DEF Wrote
    <3> QED
      BY <3>2, <3>3
  <2>14. \A j \in CrewId : owner'[K(j)] = p => j = k
    <3> TAKE j \in CrewId
    <3>1. K(j) \in T => j = k
      BY <1>2, <2>8, RowKinds
    <3> QED
      BY <1>3, <2>9, <3>1, RowKinds
  <2>15. Dissolves(p)'
    <3>1. \A s \in Rows : owner'[s] = p => s[1] # "wallet"
      BY <1>2, <2>8, <2>9 DEF Dissolves
    <3>2. /\ owner'[K(k)] = p /\ owner'[N(db'[K(k)].name)] = p
          /\ db'[K(k)].district # None => owner'[D(db'[K(k)].district)] = p
      BY <1>4, <2>7, <2>9
    <3> QED
      BY <1>1, <1>2, <2>10, <2>14, <3>1, <3>2 DEF Dissolves
  <2>16. RequestInv(p)'
    BY <1>1, <1>2, <2>12, <2>13, <2>15, OnlyDissolves
  <2>17. \A j \in CrewId : owner[K(j)] = NoProc /\ owner'[K(j)] = p => \A q \in Proc \ {p} : j \notin refs[q]
    BY <1>1, <2>14 DEF MayGo, HoldsBack
  <2>18. \A r \in Rows : \/ owner'[r] = owner[r] /\ (owner[r] # p => pend'[r] = pend[r])
                         \/ owner[r] = NoProc /\ owner'[r] = p
                         \/ owner[r] = p /\ owner'[r] = NoProc /\ pend'[r] = db[r]
    BY <2>9
  <2>19. req'[p] \in {req[p], NoRequest} /\ hist' = hist
    BY <1>1
  <2> QED
    BY <2>9, <2>10, <2>11, <2>16, <2>17, <2>18, <2>19, QuietStep
<1> QED
  BY <1>5, <1>6
-----------------------------------------------------------------------------
\* The end of a transaction.

LEMMA CommitFacts ==
  ASSUME IInv, NEW p \in Proc, CommitRequest(p)
  PROVE  /\ pc[p] = "commit" /\ req[p].op \in {"create", "join", "remove", "dissolve"}
         /\ req[p].crew \in CrewId /\ (req[p].op # "dissolve" => req[p].char \in Char)
         /\ Founds(p) /\ Joins(p) /\ Removes(p) /\ Dissolves(p) /\ Written(p)
         /\ \A r \in Rows : /\ db'[r] = IF owner[r] = p THEN pend[r] ELSE db[r]
                            /\ owner'[r] = IF owner[r] = p THEN NoProc ELSE owner[r]
         /\ pend' = pend /\ DOMAIN db' = Rows /\ owner' \in [Rows -> Proc \cup {NoProc}]
         /\ pc'[p] = "idle" /\ req'[p] = NoRequest /\ read'[p].district = None /\ todo'[p] = {} /\ refs'[p] = {}
         /\ LocalsTyped' /\ \A q \in Proc \ {p} : Unmoved(q)
<1>1. pc[p] = "commit" /\ Commit(p) /\ Answered(p)
  BY DEF CommitRequest
<1>2. Fits(p) /\ Founds(p) /\ Joins(p) /\ Removes(p) /\ Dissolves(p) /\ Written(p)
  BY DEF IInv, RequestInv
<1>3. req[p].op \in {"create", "join", "remove", "dissolve"}
  BY <1>1, <1>2, Asking DEF IInv, Typed, Fits
<1>4. req[p].crew \in CrewId /\ (req[p].op # "dissolve" => req[p].char \in Char)
  BY <1>3, Asking DEF IInv, Typed
<1>5. /\ \A r \in Rows : /\ db'[r] = IF owner[r] = p THEN pend[r] ELSE db[r]
                         /\ owner'[r] = IF owner[r] = p THEN NoProc ELSE owner[r]
      /\ pend' = pend /\ DOMAIN db' = Rows /\ owner' \in [Rows -> Proc \cup {NoProc}]
  <2>1. RowsTyped
    BY DEF IInv, Typed
  <2> QED
    BY <1>1, <2>1 DEF Commit, Released, Sees, RowsTyped
<1> QED
  BY <1>1, <1>2, <1>3, <1>4, <1>5, AnsweredFacts

\* A commit leaves the others alone, whatever it publishes.
LEMMA CommitStep ==
  ASSUME IInv, NEW p \in Proc, CommitRequest(p), hist' \in Histories, hist'.issued = hist.issued,
         hist'.ids = IF req[p].op = "create" THEN hist.ids \cup {req[p].crew} ELSE hist.ids,
         Known', CrewsConsistent'
  PROVE  IInv'
<1> DEFINE k == req[p].crew
           c == req[p].char
<1>1. /\ pc[p] = "commit" /\ req[p].op \in {"create", "join", "remove", "dissolve"}
      /\ k \in CrewId /\ (req[p].op # "dissolve" => c \in Char)
      /\ Founds(p) /\ Joins(p) /\ Removes(p) /\ Dissolves(p) /\ Written(p)
      /\ \A r \in Rows : /\ db'[r] = IF owner[r] = p THEN pend[r] ELSE db[r]
                         /\ owner'[r] = IF owner[r] = p THEN NoProc ELSE owner[r]
      /\ pend' = pend /\ DOMAIN db' = Rows /\ owner' \in [Rows -> Proc \cup {NoProc}]
      /\ pc'[p] = "idle" /\ req'[p] = NoRequest /\ read'[p].district = None /\ todo'[p] = {} /\ refs'[p] = {}
      /\ LocalsTyped' /\ \A q \in Proc \ {p} : Unmoved(q)
  BY CommitFacts
<1>2. Typed'
  <2>1. \A r \in Rows : db[r] \in Versions(r) /\ pend[r] \in Versions(r) /\ DOMAIN pend = Rows
    BY DEF IInv, Typed, RowsTyped
  <2>2. \A r \in Rows : db'[r] \in Versions(r) /\ pend'[r] \in Versions(r)
    BY <1>1, <2>1
  <2>3. DOMAIN pend' = Rows
    BY <1>1 DEF IInv, Typed, RowsTyped
  <2> QED
    BY <1>1, <2>2, <2>3 DEF Typed, RowsTyped
<1>3. PendingIsOwned'
  <2>1. \A r \in Rows : owner[r] = NoProc => pend[r] = db[r]
    BY DEF IInv, Books, PendingIsOwned, Typed, RowsTyped
  <2>2. \A r \in Rows : owner'[r] = NoProc => pend'[r] = db'[r]
    BY <1>1, <2>1
  <2> QED
    BY <1>1, <2>2 DEF PendingIsOwned
<1>4. RequestInv(p)'
  <2>1. \A r \in Rows : owner'[r] # p
    BY <1>1, Constants
  <2> QED
    BY <1>1, <2>1, IdleInv
<1>5. Apart' /\ Bounded'
  BY <1>1, NoNewRequest
<1>6. \A r \in Rows : owner[r] = p => Wrote(p, r)
  BY <1>1 DEF Written
<1>7. \A x \in Char : db'[W(x)] = db[W(x)] \/ db'[W(x)].version > db[W(x)].version
  <2> TAKE x \in Char
  <2>1. W(x) \in Rows /\ W(x)[1] = "wallet" /\ db[W(x)] \in WalletRows
    BY RowKinds, Typed_Rows DEF IInv, Typed
  <2>2. db[W(x)].version \in Nat
    BY <2>1 DEF WalletRows
  <2> DEFINE b == db[W(x)].balance - Cost
             v == db[W(x)].version + 1
  <2>3. owner[W(x)] = p => pend[W(x)] = [balance |-> b, version |-> v]
    BY <1>6, <2>1 DEF Wrote
  <2>4. v > db[W(x)].version
    BY <2>2
  <2> HIDE DEF b, v
  <2>5. owner[W(x)] = p => pend[W(x)].version = v
    BY <2>3
  <2> QED
    BY <1>1, <2>1, <2>4, <2>5
<1>8. \A j \in hist.ids : j \in CrewId /\ db'[K(j)] \in {db[K(j)], NoRow}
  <2> TAKE j \in hist.ids
  <2>1. j \in CrewId /\ K(j) \in Rows /\ K(j)[1] = "crew"
    BY RowKinds DEF IInv, Typed, Histories
  <2>2. owner[K(j)] = p => pend[K(j)] = NoRow
    <3> SUFFICES ASSUME owner[K(j)] = p PROVE pend[K(j)] = NoRow
      OBVIOUS
    <3>1. Wrote(p, K(j))
      BY <1>6, <2>1
    <3>2. CASE Enters(p)
      <4>1. db[K(j)] = NoRow
        BY <2>1, <3>1, <3>2 DEF Wrote
      <4>2. CASE req[p].op = "create"
        <5>1. k \notin hist.ids /\ k # j
          BY <1>1, <4>2 DEF Founds
        <5>2. req[p].name \in Name /\ read[p].district \in District \cup {None}
          BY <4>2, Asking DEF IInv, Typed, LocalsTyped, Reads
        <5>3. /\ K(j) # W(c) /\ K(j) # N(req[p].name) /\ K(j) # K(k) /\ K(j) # M(c) /\ K(j) # Ch(c)
              /\ (read[p].district # None => K(j) # D(read[p].district))
          BY <1>1, <2>1, <4>2, <5>1, <5>2, RowKinds
        <5> QED
          BY <1>1, <2>1, <4>2, <5>3 DEF Founds
      <4>3. CASE req[p].op = "join"
        <5>1. K(j) \notin {M(c), Ch(c), I(k, c)}
          BY <1>1, <2>1, <4>3, RowKinds
        <5> QED
          BY <1>1, <2>1, <4>3, <5>1 DEF Joins
      <4> QED
        BY <3>2, <4>2, <4>3 DEF Enters
    <3>3. CASE ~Enters(p)
      BY <2>1, <3>1, <3>3 DEF Wrote
    <3> QED
      BY <3>2, <3>3
  <2> QED
    BY <1>1, <2>1, <2>2
<1>9. Enters(p) => owner[K(k)] \in {p, NoProc}
  <2>1. K(k) \in Rows
    BY <1>1, RowKinds
  <2>2. CASE req[p].op = "create"
    BY <1>1, <2>1, <2>2 DEF Founds, Joining
  <2>3. CASE req[p].op = "join"
    BY <1>1, <2>3 DEF Joins
  <2> QED
    BY <2>2, <2>3 DEF Enters
<1>10. ASSUME NEW q \in Proc \ {p}
       PROVE  LeavesAlone(q)
  <2>1. q # NoProc /\ q # p
    BY Constants
  <2>2. \A r \in Rows : /\ owner'[r] = q <=> owner[r] = q
                        /\ owner[r] = q => db'[r] = db[r] /\ pend'[r] = pend[r]
    BY <1>1, <2>1
  <2>3. \A j \in refs[q] : owner'[K(j)] = owner[K(j)] /\ db'[K(j)] = db[K(j)]
    <3> TAKE j \in refs[q]
    <3>1. j \in CrewId /\ owner[K(j)] \in {q, NoProc} /\ K(j) \in Rows
      BY NewIds, RowKinds
    <3> QED
      BY <1>1, <2>1, <3>1, Constants
  <2>4. hist.ids \subseteq hist'.ids
    OBVIOUS
  <2>5. req[q].op = "create" => req[q].crew \notin hist'.ids
    <3>1. req[q].op = "create" => req[q].crew \notin hist.ids
      BY NewIds
    <3>2. req[p].op = "create" /\ req[q].op = "create" => req[q].crew # k
      BY DEF IInv, Apart
    <3> QED
      BY <3>1, <3>2
  <2>6. ASSUME NEW j \in CrewId, owner[K(j)] = q, NEW x \in Char
        PROVE  /\ db'[Ch(x)] = j => db[Ch(x)] = j
               /\ db'[M(x)] = j => db[M(x)] = j
               /\ db'[I(j, x)] # NoRow => db[I(j, x)] # NoRow
    <3>1. /\ Ch(x) \in Rows /\ Ch(x)[1] = "character" /\ M(x) \in Rows /\ M(x)[1] = "member"
          /\ I(j, x) \in Rows /\ I(j, x)[1] = "invite"
      BY RowKinds
    <3>2. j # None /\ j # NoRow /\ (Enters(p) => j # k)
      BY <1>9, <2>1, <2>6, Constants
    <3>3. /\ owner[Ch(x)] = p => pend[Ch(x)] # j
          /\ owner[M(x)] = p => pend[M(x)] # j
          /\ owner[I(j, x)] = p => pend[I(j, x)] = NoRow
      BY <1>6, <3>1, <3>2 DEF Wrote
    <3> QED
      BY <1>1, <3>1, <3>3
  <2> QED
    BY <1>7, <1>8, <2>2, <2>3, <2>4, <2>5, <2>6 DEF LeavesAlone
<1> QED
  BY <1>1, <1>2, <1>3, <1>4, <1>5, <1>10, StepKeeps DEF Books
\* What a founding, a join, a departure and a dissolution leave behind.
LEMMA FoundingCommitted ==
  ASSUME IInv, NEW p \in Proc, CommitRequest(p), req[p].op = "create",
         NEW k, k = req[p].crew, NEW c, c = req[p].char, NEW n, n = req[p].name, NEW d, d = read[p].district
  PROVE  /\ k \in CrewId /\ c \in Char /\ n \in Name /\ d \in District \cup {None}
         /\ \A x \in Char : db'[W(x)].balance = IF x = c THEN db[W(x)].balance - Cost ELSE db[W(x)].balance
         /\ db[K(k)] = NoRow /\ db'[K(k)] = [leader |-> c, name |-> n, district |-> d]
         /\ \A j \in CrewId : j # k => db'[K(j)] = db[K(j)]
         /\ db[M(c)] = NoRow /\ db'[M(c)] = k /\ db'[Ch(c)] = k
         /\ \A x \in Char : x # c => db'[M(x)] = db[M(x)] /\ db'[Ch(x)] = db[Ch(x)]
         /\ db[N(n)] = NoRow /\ db'[N(n)] = k
         /\ \A e \in Name : e # n => db'[N(e)] = db[N(e)]
         /\ d # None => db[D(d)] = NoRow /\ db'[D(d)] = k
         /\ \A e \in District : e # d => db'[D(e)] = db[D(e)]
         /\ \A j \in CrewId, x \in Char : db'[I(j, x)] = db[I(j, x)]
<1>1. /\ pc[p] = "commit" /\ k \in CrewId /\ c \in Char /\ Founds(p) /\ Written(p)
      /\ \A r \in Rows : db'[r] = IF owner[r] = p THEN pend[r] ELSE db[r]
  BY CommitFacts
<1>2. n \in Name /\ d \in District \cup {None}
  BY Asking DEF IInv, Typed, LocalsTyped, Reads
<1>3. \A r \in Rows : owner[r] = p <=> \/ r = W(c) \/ r = N(n) \/ r = K(k) \/ r = M(c) \/ r = Ch(c)
                                       \/ r = D(d) /\ d # None
  BY <1>1 DEF Founds, Joining
<1>4. \A r \in Rows : owner[r] = p /\ r[1] = "wallet" =>
        pend[r] = [balance |-> db[r].balance - Cost, version |-> db[r].version + 1]
  BY <1>1 DEF Written, Wrote
<1>5. \A r \in Rows : owner[r] = p =>
         /\ r[1] = "crew" => db[r] = NoRow /\ pend[r] = CrewRow(p)
         /\ r[1] = "character" => pend[r] = k
         /\ r[1] \in {"member", "name", "district"} => db[r] = NoRow /\ pend[r] = k
  <2>1. Enters(p)
    BY DEF Enters
  <2>2. \A r \in Rows : owner[r] = p => Wrote(p, r)
    BY <1>1 DEF Written
  <2>3. \A r \in Rows : owner[r] = p /\ r[1] = "crew" => db[r] = NoRow /\ pend[r] = CrewRow(p)
    BY <2>1, <2>2 DEF Wrote
  <2>4. \A r \in Rows : owner[r] = p /\ r[1] = "character" => pend[r] = k
    BY <2>1, <2>2 DEF Wrote
  <2>5. \A r \in Rows : owner[r] = p /\ r[1] \in {"member", "name", "district"} => db[r] = NoRow /\ pend[r] = k
    BY <2>1, <2>2 DEF Wrote
  <2> QED
    BY <2>3, <2>4, <2>5
<1>6. \A x \in Char : db'[W(x)].balance = IF x = c THEN db[W(x)].balance - Cost ELSE db[W(x)].balance
  <2> TAKE x \in Char
  <2> DEFINE b == db[W(x)].balance - Cost
             v == db[W(x)].version + 1
  <2>1. W(x) \in Rows /\ W(x)[1] = "wallet" /\ (owner[W(x)] = p <=> x = c)
    BY <1>1, <1>2, <1>3, RowKinds
  <2>2. x = c => pend[W(x)] = [balance |-> b, version |-> v]
    BY <1>4, <2>1
  <2> HIDE DEF b, v
  <2>3. x = c => pend[W(x)].balance = b
    BY <2>2
  <2> QED
    BY <1>1, <2>1, <2>3 DEF b
<1>7. \A j \in CrewId : owner[K(j)] = p <=> j = k
  BY <1>1, <1>2, <1>3, RowKinds
<1>8. \A x \in Char : (owner[M(x)] = p <=> x = c) /\ (owner[Ch(x)] = p <=> x = c)
  BY <1>1, <1>2, <1>3, RowKinds
<1>9. \A e \in Name : owner[N(e)] = p <=> e = n
  BY <1>1, <1>2, <1>3, RowKinds
<1>10. \A e \in District : owner[D(e)] = p <=> e = d
  BY <1>1, <1>2, <1>3, RowKinds, Constants
<1>11. \A j \in CrewId, x \in Char : owner[I(j, x)] # p
  BY <1>1, <1>2, <1>3, RowKinds
<1>12. /\ db[K(k)] = NoRow /\ db'[K(k)] = [leader |-> c, name |-> n, district |-> d]
       /\ \A j \in CrewId : j # k => db'[K(j)] = db[K(j)]
  BY <1>1, <1>5, <1>7, RowKinds DEF CrewRow
<1>13. /\ db[M(c)] = NoRow /\ db'[M(c)] = k /\ db'[Ch(c)] = k
       /\ \A x \in Char : x # c => db'[M(x)] = db[M(x)] /\ db'[Ch(x)] = db[Ch(x)]
  BY <1>1, <1>5, <1>8, RowKinds
<1>14. /\ db[N(n)] = NoRow /\ db'[N(n)] = k
       /\ \A e \in Name : e # n => db'[N(e)] = db[N(e)]
  BY <1>1, <1>2, <1>5, <1>9, RowKinds
<1>15. /\ d # None => db[D(d)] = NoRow /\ db'[D(d)] = k
       /\ \A e \in District : e # d => db'[D(e)] = db[D(e)]
  BY <1>1, <1>2, <1>5, <1>10, RowKinds
<1>16. \A j \in CrewId, x \in Char : db'[I(j, x)] = db[I(j, x)]
  BY <1>1, <1>11, RowKinds
<1> QED
  BY <1>1, <1>2, <1>6, <1>12, <1>13, <1>14, <1>15, <1>16

LEMMA CreateCommitInv == ASSUME IInv, NEW p \in Proc, CommitRequest(p), req[p].op = "create" PROVE IInv'
<1> DEFINE k == req[p].crew
           c == req[p].char
           n == req[p].name
           d == read[p].district
<1>1. /\ k \in CrewId /\ c \in Char /\ n \in Name /\ d \in District \cup {None}
      /\ \A x \in Char : db'[W(x)].balance = IF x = c THEN db[W(x)].balance - Cost ELSE db[W(x)].balance
      /\ db[K(k)] = NoRow /\ db'[K(k)] = [leader |-> c, name |-> n, district |-> d]
      /\ \A j \in CrewId : j # k => db'[K(j)] = db[K(j)]
      /\ db[M(c)] = NoRow /\ db'[M(c)] = k /\ db'[Ch(c)] = k
      /\ \A x \in Char : x # c => db'[M(x)] = db[M(x)] /\ db'[Ch(x)] = db[Ch(x)]
      /\ db[N(n)] = NoRow /\ db'[N(n)] = k
      /\ \A e \in Name : e # n => db'[N(e)] = db[N(e)]
      /\ d # None => db[D(d)] = NoRow /\ db'[D(d)] = k
      /\ \A e \in District : e # d => db'[D(e)] = db[D(e)]
      /\ \A j \in CrewId, x \in Char : db'[I(j, x)] = db[I(j, x)]
  BY FoundingCommitted
<1>2. hist' = [hist EXCEPT !.ids = @ \cup {k}, !.founded[c] = @ + 1]
  BY DEF CommitRequest
<1>3. /\ hist' \in Histories /\ hist'.issued = hist.issued /\ hist'.ids = hist.ids \cup {k}
      /\ hist'.founded = [hist.founded EXCEPT ![c] = hist.founded[c] + 1]
  <2> DEFINE h == [hist EXCEPT !.ids = @ \cup {k}]
             g == hist.founded[c] + 1
  <2>1. hist \in Histories
    BY DEF IInv, Typed
  <2>2. h \in Histories /\ h.ids = hist.ids \cup {k} /\ h.founded = hist.founded /\ h.issued = hist.issued
    BY <1>1, <2>1 DEF Histories
  <2>3. g \in Nat
    BY <1>1, <2>1 DEF Histories
  <2>4. hist' = [h EXCEPT !.founded[c] = g]
    BY <1>2, <2>1, <2>2 DEF Histories
  <2> HIDE DEF h, g
  <2>5. /\ hist' \in Histories /\ hist'.issued = h.issued /\ hist'.ids = h.ids
        /\ hist'.founded = [h.founded EXCEPT ![c] = g]
    BY <1>1, <2>2, <2>3, <2>4 DEF Histories
  <2> QED
    BY <2>2, <2>5 DEF g
<1>4. /\ Known /\ LeaderIsMember /\ NoGhostMembers /\ FoundersPay /\ ClaimsMatch
      /\ RowsTyped /\ hist \in Histories
  BY DEF IInv, Books, CrewsConsistent, RosterConsistent, FoundingConsistent, Typed
<1> HIDE DEF k, c, n, d
<1>5. Known'
  BY <1>1, <1>3, <1>4 DEF Known
<1>6. LeaderIsMember'
  <2> SUFFICES ASSUME NEW j \in CrewId, db'[K(j)] # NoRow PROVE db'[M(db'[K(j)].leader)] = j
    BY DEF LeaderIsMember
  <2>1. CASE j = k
    BY <1>1, <2>1
  <2>2. CASE j # k
    <3>1. db[K(j)] # NoRow /\ db[K(j)].leader \in Char /\ db[M(db[K(j)].leader)] = j
      BY <1>1, <1>4, <2>2, Typed_Rows DEF LeaderIsMember, Crews
    <3>2. db[K(j)].leader # c
      BY <1>1, <3>1, Constants
    <3> QED
      BY <1>1, <2>2, <3>1, <3>2
  <2> QED
    BY <2>1, <2>2
<1>7. NoGhostMembers'
  <2>1. ASSUME NEW j \in CrewId, db'[K(j)] = NoRow, NEW x \in Char
        PROVE  db'[M(x)] # j /\ db'[Ch(x)] # j /\ db'[I(j, x)] = NoRow
    <3>1. j # k
      <4>1. db'[K(k)] \in Crews
        BY <1>1 DEF Crews
      <4> QED
        BY <2>1, <4>1, Constants
    <3>2. db[M(x)] # j /\ db[Ch(x)] # j /\ db[I(j, x)] = NoRow
      BY <1>1, <1>4, <2>1, <3>1 DEF NoGhostMembers
    <3> QED
      BY <1>1, <3>1, <3>2
  <2>2. \A x \in Char : db'[Ch(x)] # None => db'[M(x)] = db'[Ch(x)]
    BY <1>1, <1>4 DEF NoGhostMembers
  <2> QED
    BY <2>1, <2>2 DEF NoGhostMembers
<1>8. FoundersPay'
  <2> SUFFICES ASSUME NEW x \in Char
               PROVE  db'[W(x)].balance = InitBalance[x] - Cost * hist'.founded[x]
    BY DEF FoundersPay
  <2>1. /\ db[W(x)].balance = InitBalance[x] - Cost * hist.founded[x]
        /\ hist.founded \in [Char -> Nat] /\ hist.founded[x] \in Nat /\ Cost \in Nat /\ InitBalance[x] \in Nat
    BY <1>4, Constants DEF FoundersPay, Histories
  <2>2. CASE x = c
    <3>1. hist'.founded[x] = hist.founded[x] + 1 /\ db'[W(x)].balance = db[W(x)].balance - Cost
      BY <1>1, <1>3, <2>1, <2>2
    <3>2. Cost * (hist.founded[x] + 1) = Cost * hist.founded[x] + Cost /\ Cost * hist.founded[x] \in Int
      BY <2>1
    <3> QED
      BY <2>1, <3>1, <3>2
  <2>3. CASE x # c
    BY <1>1, <1>3, <2>1, <2>3
  <2> QED
    BY <2>2, <2>3
<1>9. ClaimsMatch'
  <2>1. ASSUME NEW e \in District, NEW j \in CrewId
        PROVE  db'[D(e)] = j <=> db'[K(j)] # NoRow /\ db'[K(j)].district = e
    <3>1. db[D(e)] = j <=> db[K(j)] # NoRow /\ db[K(j)].district = e
      BY <1>4 DEF ClaimsMatch
    <3>2. CASE j = k
      <4>1. db'[K(j)] # NoRow /\ db'[K(j)].district = d
        <5>1. db'[K(k)] \in Crews
          BY <1>1 DEF Crews
        <5> QED
          BY <1>1, <3>2, <5>1, Constants
      <4>2. CASE e = d
        BY <1>1, <3>2, <4>1, <4>2, Constants
      <4>3. CASE e # d
        BY <1>1, <3>1, <3>2, <4>1, <4>3
      <4> QED
        BY <4>2, <4>3
    <3>3. CASE j # k
      <4>1. CASE e = d
        BY <1>1, <3>1, <3>3, <4>1, Constants
      <4>2. CASE e # d
        BY <1>1, <3>1, <3>3, <4>2
      <4> QED
        BY <4>1, <4>2
    <3> QED
      BY <3>2, <3>3
  <2>2. ASSUME NEW e \in Name, NEW j \in CrewId
        PROVE  db'[N(e)] = j <=> db'[K(j)] # NoRow /\ db'[K(j)].name = e
    <3>1. db[N(e)] = j <=> db[K(j)] # NoRow /\ db[K(j)].name = e
      BY <1>4 DEF ClaimsMatch
    <3>2. CASE j = k
      <4>1. db'[K(j)] # NoRow /\ db'[K(j)].name = n
        <5>1. db'[K(k)] \in Crews
          BY <1>1 DEF Crews
        <5> QED
          BY <1>1, <3>2, <5>1, Constants
      <4>2. CASE e = n
        BY <1>1, <3>2, <4>1, <4>2
      <4>3. CASE e # n
        BY <1>1, <3>1, <3>2, <4>1, <4>3
      <4> QED
        BY <4>2, <4>3
    <3>3. CASE j # k
      <4>1. CASE e = n
        BY <1>1, <3>1, <3>3, <4>1, Constants
      <4>2. CASE e # n
        BY <1>1, <3>1, <3>3, <4>2
      <4> QED
        BY <4>1, <4>2
    <3> QED
      BY <3>2, <3>3
  <2> QED
    BY <2>1, <2>2 DEF ClaimsMatch
<1>10. CrewsConsistent'
  BY <1>6, <1>7, <1>8, <1>9 DEF CrewsConsistent, RosterConsistent, FoundingConsistent
<1>11. hist'.ids = IF req[p].op = "create" THEN hist.ids \cup {req[p].crew} ELSE hist.ids
  BY <1>3 DEF k
<1> QED
  BY <1>3, <1>5, <1>10, <1>11, CommitStep
LEMMA JoinCommitInv == ASSUME IInv, NEW p \in Proc, CommitRequest(p), req[p].op = "join" PROVE IInv'
<1> DEFINE k == req[p].crew
           c == req[p].char
<1>1. /\ pc[p] = "commit" /\ k \in CrewId /\ c \in Char /\ Joins(p) /\ Written(p)
      /\ \A r \in Rows : db'[r] = IF owner[r] = p THEN pend[r] ELSE db[r]
  BY CommitFacts
<1>2. /\ \A r \in Rows : owner[r] = p => r \in {M(c), Ch(c), I(k, c)} /\ Wrote(p, r)
      /\ owner[M(c)] = p /\ owner[Ch(c)] = p /\ db[K(k)] # NoRow
  BY <1>1 DEF Joins, Written
<1>3. Enters(p) /\ hist' = [hist EXCEPT !.unused[<<k, c>>] = @ - 1]
  BY DEF Enters, CommitRequest
<1>4. /\ hist' \in Histories /\ hist'.issued = hist.issued /\ hist'.ids = hist.ids
      /\ hist'.founded = hist.founded
  <2> DEFINE u == hist.unused[<<k, c>>] - 1
  <2>1. hist \in Histories /\ <<k, c>> \in CrewId \X Char
    BY <1>1 DEF IInv, Typed
  <2>2. u \in Int /\ hist' = [hist EXCEPT !.unused[<<k, c>>] = u]
    BY <1>3, <2>1 DEF Histories
  <2> HIDE DEF u
  <2> QED
    BY <2>1, <2>2 DEF Histories
<1>5. /\ \A x \in Char : db'[W(x)] = db[W(x)]
      /\ \A j \in CrewId : db'[K(j)] = db[K(j)]
      /\ \A e \in Name : db'[N(e)] = db[N(e)]
      /\ \A e \in District : db'[D(e)] = db[D(e)]
      /\ \A x \in Char : x # c => db'[M(x)] = db[M(x)] /\ db'[Ch(x)] = db[Ch(x)]
  BY <1>1, <1>2, RowKinds
<1>6. /\ db[M(c)] = NoRow /\ db'[M(c)] = k /\ db'[Ch(c)] = k
      /\ \A j \in CrewId, x \in Char : db'[I(j, x)] \in {db[I(j, x)], NoRow}
  <2>1. \A r \in Rows : owner[r] = p =>
          /\ r[1] = "character" => pend[r] = k
          /\ r[1] = "member" => db[r] = NoRow /\ pend[r] = k
          /\ r[1] = "invite" => pend[r] = NoRow
    BY <1>2, <1>3 DEF Wrote
  <2> QED
    BY <1>1, <1>2, <2>1, RowKinds
<1>7. /\ Known /\ LeaderIsMember /\ NoGhostMembers /\ FoundersPay /\ ClaimsMatch /\ RowsTyped
  BY DEF IInv, Books, CrewsConsistent, RosterConsistent, FoundingConsistent, Typed
<1>8. hist'.ids = IF req[p].op = "create" THEN hist.ids \cup {req[p].crew} ELSE hist.ids
  BY <1>4
<1> HIDE DEF k, c
<1>9. Known' /\ FoundersPay' /\ ClaimsMatch'
  BY <1>4, <1>5, <1>7 DEF Known, FoundersPay, ClaimsMatch
<1>10. LeaderIsMember'
  <2> SUFFICES ASSUME NEW j \in CrewId, db[K(j)] # NoRow PROVE db'[M(db[K(j)].leader)] = j
    BY <1>5 DEF LeaderIsMember
  <2>1. db[K(j)].leader \in Char /\ db[M(db[K(j)].leader)] = j
    BY <1>7, Typed_Rows DEF LeaderIsMember, Crews
  <2> QED
    BY <1>5, <1>6, <2>1, Constants
<1>11. NoGhostMembers'
  <2>1. ASSUME NEW j \in CrewId, db'[K(j)] = NoRow, NEW x \in Char
        PROVE  db'[M(x)] # j /\ db'[Ch(x)] # j /\ db'[I(j, x)] = NoRow
    <3>1. db[K(j)] = NoRow /\ j # k
      BY <1>2, <1>5, <2>1 DEF k
    <3>2. db[M(x)] # j /\ db[Ch(x)] # j /\ db[I(j, x)] = NoRow
      BY <1>7, <3>1 DEF NoGhostMembers
    <3> QED
      BY <1>5, <1>6, <3>1, <3>2
  <2>2. \A x \in Char : db'[Ch(x)] # None => db'[M(x)] = db'[Ch(x)]
    BY <1>5, <1>6, <1>7 DEF NoGhostMembers
  <2> QED
    BY <2>1, <2>2 DEF NoGhostMembers
<1> QED
  BY <1>4, <1>8, <1>9, <1>10, <1>11, CommitStep DEF CrewsConsistent, RosterConsistent, FoundingConsistent

LEMMA RemoveCommitInv == ASSUME IInv, NEW p \in Proc, CommitRequest(p), req[p].op = "remove" PROVE IInv'
<1> DEFINE k == req[p].crew
           c == req[p].char
<1>1. /\ pc[p] = "commit" /\ k \in CrewId /\ c \in Char /\ Removes(p) /\ Written(p)
      /\ \A r \in Rows : db'[r] = IF owner[r] = p THEN pend[r] ELSE db[r]
  BY CommitFacts
<1>2. /\ \A r \in Rows : owner[r] = p => r \in {M(c), Ch(c)} /\ Wrote(p, r)
      /\ owner[Ch(c)] = p /\ (db[K(k)] # NoRow => db[K(k)].leader # c)
  BY <1>1 DEF Removes, Written
<1>3. ~Enters(p) /\ hist' = hist
  BY DEF Enters, CommitRequest
<1>4. hist' \in Histories
  BY <1>3 DEF IInv, Typed
<1>5. /\ \A x \in Char : db'[W(x)] = db[W(x)]
      /\ \A j \in CrewId : db'[K(j)] = db[K(j)]
      /\ \A e \in Name : db'[N(e)] = db[N(e)]
      /\ \A e \in District : db'[D(e)] = db[D(e)]
      /\ \A x \in Char : x # c => db'[M(x)] = db[M(x)] /\ db'[Ch(x)] = db[Ch(x)]
      /\ \A j \in CrewId, x \in Char : db'[I(j, x)] = db[I(j, x)]
  BY <1>1, <1>2, RowKinds
<1>6. /\ db'[M(c)] = db[M(c)] \/ (db[M(c)] = k /\ db'[M(c)] = NoRow)
      /\ db'[Ch(c)] = None
  <2>1. \A r \in Rows : owner[r] = p =>
          /\ r[1] = "character" => pend[r] = None
          /\ r[1] = "member" => db[r] = k /\ pend[r] = NoRow
    BY <1>2, <1>3 DEF Wrote
  <2> QED
    BY <1>1, <1>2, <2>1, RowKinds
<1>7. /\ Known /\ LeaderIsMember /\ NoGhostMembers /\ FoundersPay /\ ClaimsMatch /\ RowsTyped
  BY DEF IInv, Books, CrewsConsistent, RosterConsistent, FoundingConsistent, Typed
<1> HIDE DEF k, c
<1>8. Known' /\ FoundersPay' /\ ClaimsMatch'
  BY <1>3, <1>5, <1>7 DEF Known, FoundersPay, ClaimsMatch
<1>9. LeaderIsMember'
  <2> SUFFICES ASSUME NEW j \in CrewId, db[K(j)] # NoRow PROVE db'[M(db[K(j)].leader)] = j
    BY <1>5 DEF LeaderIsMember
  <2>1. db[K(j)].leader \in Char /\ db[M(db[K(j)].leader)] = j
    BY <1>7, Typed_Rows DEF LeaderIsMember, Crews
  <2>2. CASE db[K(j)].leader = c
    <3>1. j # k
      BY <1>2, <2>2 DEF k, c
    <3> QED
      BY <1>6, <2>1, <2>2, <3>1
  <2> QED
    BY <1>5, <2>1, <2>2
<1>10. NoGhostMembers'
  <2>1. ASSUME NEW j \in CrewId, db'[K(j)] = NoRow, NEW x \in Char
        PROVE  db'[M(x)] # j /\ db'[Ch(x)] # j /\ db'[I(j, x)] = NoRow
    <3>1. db[M(x)] # j /\ db[Ch(x)] # j /\ db[I(j, x)] = NoRow
      BY <1>5, <1>7, <2>1 DEF NoGhostMembers
    <3> QED
      BY <1>5, <1>6, <3>1, Constants
  <2>2. \A x \in Char : db'[Ch(x)] # None => db'[M(x)] = db'[Ch(x)]
    BY <1>5, <1>6, <1>7 DEF NoGhostMembers
  <2> QED
    BY <2>1, <2>2 DEF NoGhostMembers
<1> QED
  BY <1>3, <1>4, <1>8, <1>9, <1>10, CommitStep DEF CrewsConsistent, RosterConsistent, FoundingConsistent

LEMMA DissolveCommitInv == ASSUME IInv, NEW p \in Proc, CommitRequest(p), req[p].op = "dissolve" PROVE IInv'
<1> DEFINE k == req[p].crew
<1>1. /\ pc[p] = "commit" /\ k \in CrewId /\ Dissolves(p) /\ Written(p)
      /\ \A r \in Rows : db'[r] = IF owner[r] = p THEN pend[r] ELSE db[r]
  BY CommitFacts
<1>2. ~Enters(p) /\ hist' = hist
  BY DEF Enters, CommitRequest
<1>3. hist' \in Histories
  BY <1>2 DEF IInv, Typed
<1>4. /\ Known /\ LeaderIsMember /\ NoGhostMembers /\ FoundersPay /\ ClaimsMatch /\ RowsTyped
  BY DEF IInv, Books, CrewsConsistent, RosterConsistent, FoundingConsistent, Typed
<1>5. /\ \A r \in Rows : owner[r] = p => r[1] # "wallet" /\ Wrote(p, r)
      /\ \A j \in CrewId : owner[K(j)] = p => j = k
  BY <1>1 DEF Dissolves, Written
<1>6. \A r \in Rows : owner[r] = p =>
        /\ r[1] = "character" => db'[r] = None
        /\ r[1] = "crew" => db[r] # NoRow /\ db'[r] = NoRow
        /\ r[1] \in {"member", "name", "district"} => db[r] = k /\ db'[r] = NoRow
        /\ r[1] = "invite" => db'[r] = NoRow
  BY <1>1, <1>2, <1>5 DEF Wrote
<1>7. /\ \A x \in Char : /\ db'[W(x)] = db[W(x)]
                         /\ db'[Ch(x)] = db[Ch(x)] \/ db'[Ch(x)] = None
                         /\ db'[M(x)] = db[M(x)] \/ (db[M(x)] = k /\ db'[M(x)] = NoRow)
      /\ \A j \in CrewId : j # k => db'[K(j)] = db[K(j)]
      /\ \A e \in Name : db'[N(e)] = db[N(e)] \/ (db[N(e)] = k /\ db'[N(e)] = NoRow)
      /\ \A e \in District : db'[D(e)] = db[D(e)] \/ (db[D(e)] = k /\ db'[D(e)] = NoRow)
      /\ \A j \in CrewId, x \in Char : db'[I(j, x)] = db[I(j, x)] \/ db'[I(j, x)] = NoRow
  BY <1>1, <1>5, <1>6, RowKinds
\* Nothing refers to the crew any more.
<1>8. /\ db'[K(k)] = NoRow
      /\ \A x \in Char : db'[M(x)] # k /\ db'[Ch(x)] # k /\ db'[I(k, x)] = NoRow
      /\ \A e \in Name : db'[N(e)] # k
      /\ \A e \in District : db'[D(e)] # k
  <2>1. CASE owner[K(k)] = p
    <3>1. /\ \A r \in Cascaded(k) : ~Refers(p, r)
          /\ owner[N(db[K(k)].name)] = p
          /\ db[K(k)].district # None => owner[D(db[K(k)].district)] = p
      BY <1>1, <2>1 DEF Dissolves
    <3>2. db'[K(k)] = NoRow /\ db[K(k)] # NoRow
      BY <1>1, <1>6, <2>1, RowKinds
    <3>3. \A x \in Char : db'[M(x)] # k /\ db'[Ch(x)] # k /\ db'[I(k, x)] = NoRow
      <4> TAKE x \in Char
      <4>1. M(x) \in Cascaded(k) /\ Ch(x) \in Cascaded(k) /\ I(k, x) \in Cascaded(k)
        BY DEF Cascaded, Memberships, Characters, Invites
      <4> QED
        BY <1>1, <3>1, <4>1, RowKinds DEF Refers, Sees
    <3>4. \A e \in Name : db'[N(e)] # k
      <4> TAKE e \in Name
      <4>1. CASE db[N(e)] = k
        <5>1. db[K(k)].name = e
          BY <1>1, <1>4, <4>1 DEF ClaimsMatch
        <5> QED
          BY <1>1, <1>6, <3>1, <5>1, RowKinds, Constants
      <4> QED
        BY <1>1, <1>7, <4>1, Constants
    <3>5. \A e \in District : db'[D(e)] # k
      <4> TAKE e \in District
      <4>1. CASE db[D(e)] = k
        <5>1. db[K(k)].district = e
          BY <1>1, <1>4, <4>1 DEF ClaimsMatch
        <5> QED
          BY <1>1, <1>6, <3>1, <5>1, RowKinds, Constants
      <4> QED
        BY <1>1, <1>7, <4>1, Constants
    <3> QED
      BY <3>2, <3>3, <3>4, <3>5
  <2>2. CASE owner[K(k)] # p
    <3>1. db[K(k)] = NoRow /\ db'[K(k)] = NoRow
      BY <1>1, <2>2, RowKinds DEF Dissolves
    <3>2. /\ \A x \in Char : db[M(x)] # k /\ db[Ch(x)] # k /\ db[I(k, x)] = NoRow
          /\ \A e \in Name : db[N(e)] # k
          /\ \A e \in District : db[D(e)] # k
      BY <1>1, <1>4, <3>1 DEF NoGhostMembers, ClaimsMatch
    <3> QED
      BY <1>1, <1>7, <3>1, <3>2, Constants
  <2> QED
    BY <2>1, <2>2
<1>9. k \in CrewId
  BY <1>1
<1> HIDE DEF k
<1>10. Known'
  <2> SUFFICES ASSUME NEW j \in CrewId, db'[K(j)] # NoRow PROVE j \in hist.ids
    BY <1>2 DEF Known
  <2> QED
    BY <1>4, <1>7, <1>8 DEF Known
<1>11. FoundersPay'
  BY <1>2, <1>4, <1>7 DEF FoundersPay
<1>12. LeaderIsMember'
  <2> SUFFICES ASSUME NEW j \in CrewId, db'[K(j)] # NoRow PROVE db'[M(db'[K(j)].leader)] = j
    BY DEF LeaderIsMember
  <2>1. j # k /\ db'[K(j)] = db[K(j)] /\ db[K(j)] # NoRow
    BY <1>7, <1>8
  <2>2. db[K(j)].leader \in Char /\ db[M(db[K(j)].leader)] = j
    BY <1>4, <2>1, Typed_Rows DEF LeaderIsMember, Crews
  <2> QED
    BY <1>7, <2>1, <2>2
<1>13. NoGhostMembers'
  <2>1. ASSUME NEW j \in CrewId, db'[K(j)] = NoRow, NEW x \in Char
        PROVE  db'[M(x)] # j /\ db'[Ch(x)] # j /\ db'[I(j, x)] = NoRow
    <3>1. CASE j = k
      BY <1>8, <3>1
    <3>2. CASE j # k
      <4>1. db[M(x)] # j /\ db[Ch(x)] # j /\ db[I(j, x)] = NoRow
        BY <1>4, <1>7, <2>1, <3>2 DEF NoGhostMembers
      <4> QED
        BY <1>7, <4>1, Constants
    <3> QED
      BY <3>1, <3>2
  <2>2. \A x \in Char : db'[Ch(x)] # None => db'[M(x)] = db'[Ch(x)]
    <3> TAKE x \in Char
    <3> HAVE db'[Ch(x)] # None
    <3>1. db'[Ch(x)] = db[Ch(x)] /\ db[M(x)] = db[Ch(x)]
      BY <1>4, <1>7 DEF NoGhostMembers
    <3> QED
      BY <1>7, <1>8, <3>1
  <2> QED
    BY <2>1, <2>2 DEF NoGhostMembers
<1>14. ClaimsMatch'
  <2>1. ASSUME NEW e \in District, NEW j \in CrewId
        PROVE  db'[D(e)] = j <=> db'[K(j)] # NoRow /\ db'[K(j)].district = e
    <3>1. db[D(e)] = j <=> db[K(j)] # NoRow /\ db[K(j)].district = e
      BY <1>4 DEF ClaimsMatch
    <3> QED
      BY <1>7, <1>8, <3>1, Constants
  <2>2. ASSUME NEW e \in Name, NEW j \in CrewId
        PROVE  db'[N(e)] = j <=> db'[K(j)] # NoRow /\ db'[K(j)].name = e
    <3>1. db[N(e)] = j <=> db[K(j)] # NoRow /\ db[K(j)].name = e
      BY <1>4 DEF ClaimsMatch
    <3> QED
      BY <1>7, <1>8, <3>1, Constants
  <2> QED
    BY <2>1, <2>2 DEF ClaimsMatch
<1> QED
  BY <1>2, <1>3, <1>10, <1>11, <1>12, <1>13, <1>14, CommitStep
    DEF CrewsConsistent, RosterConsistent, FoundingConsistent

LEMMA CommitInv == ASSUME IInv, NEW p \in Proc, CommitRequest(p) PROVE IInv'
<1>1. req[p].op \in {"create", "join", "remove", "dissolve"}
  BY CommitFacts
<1> QED
  BY <1>1, CreateCommitInv, JoinCommitInv, RemoveCommitInv, DissolveCommitInv
-----------------------------------------------------------------------------
\* Every step, and the theorems.

\* A step that moves no request and no row keeps what each request has in its hands.
LEMMA AloneWhenStill ==
  ASSUME IInv, db' = db, pend' = pend, owner' = owner, pc' = pc, req' = req, read' = read,
         todo' = todo, refs' = refs, hist'.ids = hist.ids, Typed', NEW q \in Proc
  PROVE  RequestInv(q)'
<1>1. req[q].op = "create" => req[q].crew \notin hist'.ids
  BY NewIds
<1>2. LeavesAlone(q)
  <2>1. /\ \A r \in Rows : /\ owner'[r] = q <=> owner[r] = q
                           /\ owner[r] = q => db'[r] = db[r] /\ pend'[r] = pend[r]
        /\ \A c \in Char : db'[W(c)] = db[W(c)]
        /\ hist.ids \subseteq hist'.ids
        /\ \A j \in hist.ids : db'[K(j)] \in {db[K(j)], NoRow}
        /\ \A j \in refs[q] : owner'[K(j)] = owner[K(j)] /\ db'[K(j)] = db[K(j)]
    OBVIOUS
  <2>2. \A j \in CrewId : owner[K(j)] = q =>
          \A c \in Char : /\ db'[Ch(c)] = j => db[Ch(c)] = j
                          /\ db'[M(c)] = j => db[M(c)] = j
                          /\ db'[I(j, c)] # NoRow => db[I(j, c)] # NoRow
    OBVIOUS
  <2> QED
    BY <1>1, <2>1, <2>2 DEF LeavesAlone
<1>3. Unmoved(q)
  BY DEF Unmoved
<1> QED
  BY <1>2, <1>3, OthersKeep DEF IInv, Books

LEMMA ExpireInv == ASSUME IInv, Expire PROVE IInv'
<1>1. PICK k \in CrewId, c \in Char : Live(db[I(k, c)]) /\ hist' = [hist EXCEPT !.expired = @ \cup {db[I(k, c)]}]
  BY DEF Expire
<1>2. db' = db /\ pend' = pend /\ owner' = owner /\ pc' = pc /\ req' = req /\ read' = read
      /\ todo' = todo /\ refs' = refs
  BY DEF Expire, rcVars, local
<1>3. db[I(k, c)] \in 1 .. MaxInvites
  <2>1. db[I(k, c)] \in 1 .. MaxInvites \cup {NoRow}
    BY Typed_Rows DEF IInv, Typed
  <2> QED
    BY <1>1, <2>1 DEF Live
<1>4. /\ hist' \in Histories /\ hist'.ids = hist.ids /\ hist'.issued = hist.issued
      /\ hist'.founded = hist.founded
  BY <1>1, <1>3 DEF IInv, Typed, Histories
<1>5. Typed'
  <2>1. RowsTyped'
    BY <1>2 DEF IInv, Typed, RowsTyped
  <2>2. LocalsTyped'
    BY <1>2 DEF IInv, Typed, LocalsTyped
  <2> QED
    BY <1>4, <2>1, <2>2 DEF Typed
<1>6. Books'
  <2>1. Known' /\ PendingIsOwned' /\ FoundersPay'
    BY <1>2, <1>4 DEF IInv, Books, Known, PendingIsOwned, CrewsConsistent, FoundingConsistent, FoundersPay
  <2>2. LeaderIsMember' /\ NoGhostMembers' /\ ClaimsMatch'
    BY <1>2 DEF IInv, Books, CrewsConsistent, RosterConsistent, FoundingConsistent, LeaderIsMember,
                NoGhostMembers, ClaimsMatch
  <2> QED
    BY <2>1, <2>2 DEF Books, CrewsConsistent, RosterConsistent, FoundingConsistent
<1>7. Apart' /\ Bounded'
  BY <1>2, <1>4 DEF IInv, Apart, Bounded, Inviting
<1>8. ASSUME NEW q \in Proc
      PROVE  RequestInv(q)'
  BY <1>2, <1>4, <1>5, AloneWhenStill
<1> QED
  BY <1>5, <1>6, <1>7, <1>8 DEF IInv

LEMMA StutterInv == ASSUME IInv, UNCHANGED vars PROVE IInv'
<1>1. db' = db /\ pend' = pend /\ owner' = owner /\ pc' = pc /\ req' = req /\ read' = read
      /\ todo' = todo /\ refs' = refs /\ hist' = hist
  BY DEF vars, rcVars, local
<1>2. Typed'
  BY <1>1 DEF IInv, Typed, RowsTyped, LocalsTyped
<1>3. Books'
  BY <1>1, BooksSame DEF IInv, Books, PendingIsOwned
<1>4. Apart' /\ Bounded'
  BY <1>1 DEF IInv, Apart, Bounded, Inviting
<1>5. ASSUME NEW q \in Proc
      PROVE  RequestInv(q)'
  BY <1>1, <1>2, AloneWhenStill
<1> QED
  BY <1>2, <1>3, <1>4, <1>5 DEF IInv

LEMMA StepInv == ASSUME IInv, NEW p \in Proc, Step(p) PROVE IInv'
<1>1. CASE ReadWallet(p) \/ ReadNames(p) \/ DebitWallet(p) \/ InsertName(p) \/ ClaimDistrict(p)
  BY <1>1, ReadWalletInv, ReadNamesInv, DebitWalletInv, InsertNameInv, ClaimDistrictInv
<1>2. CASE MemberTrigger(p) \/ InsertMember(p) \/ ReferenceCrew(p) \/ DeleteInvite(p) \/ SetCrewId(p)
  BY <1>2, MemberTriggerInv, InsertMemberInv, ReferenceCrewInv, DeleteInviteInv, SetCrewIdInv
<1>3. CASE DeleteExpired(p) \/ CreateInvite(p) \/ RemoveMember(p) \/ ClearCrewId(p)
  BY <1>3, DeleteExpiredInv, CreateInviteInv, RemoveMemberInv, ClearCrewIdInv
<1>4. CASE BeginStatement(p) \/ VisitRow(p) \/ DeleteCrew(p) \/ CommitRequest(p)
  BY <1>4, BeginStatementInv, VisitRowInv, DeleteCrewInv, CommitInv
<1> QED
  BY <1>1, <1>2, <1>3, <1>4 DEF Step

LEMMA NextInv == ASSUME IInv, [Next]_vars PROVE IInv'
<1>1. ASSUME NEW p \in Proc, Start(p) PROVE IInv'
  BY <1>1, StartInv
<1>2. ASSUME NEW p \in Proc, Refuse(p) PROVE IInv'
  BY <1>2, StutterInv DEF Refuse
<1>3. ASSUME NEW p \in Proc, Step(p) PROVE IInv'
  BY <1>3, StepInv
<1>4. ASSUME NEW p \in Proc, Lost(p) \/ DetectDeadlock(p) PROVE IInv'
  BY <1>4, RejectInv DEF Lost, DetectDeadlock
<1>5. CASE Expire
  BY <1>5, ExpireInv
<1>6. CASE UNCHANGED vars
  BY <1>6, StutterInv
<1> QED
  BY <1>1, <1>2, <1>3, <1>4, <1>5, <1>6 DEF Next

\* Crews keep the inductive invariant, whichever requests overlap, fail or deadlock.
THEOREM Inductive == Spec => []IInv
<1> QED
  BY InitInv, NextInv, PTL DEF Spec

\* Every row, request and read keeps its type: TypeOK.
THEOREM TypeCorrect == Spec => []TypeOK
<1>1. IInv => TypeOK
  BY TypesHold DEF IInv
<1> QED
  BY <1>1, Inductive, PTL

\* Whichever foundings, joins, departures, kicks and dissolutions overlap (routes/crews),
\* a crew that exists has its leader on its roster, nothing refers to a crew that was
\* deleted, every founder paid once for each crew it founded, and a name or a district
\* belongs to the one crew that bears or claims it: CrewsConsistent.
THEOREM CrewsConsistentHolds == Spec => []CrewsConsistent
<1>1. IInv => CrewsConsistent
  BY DEF IInv, Books
<1> QED
  BY <1>1, Inductive, PTL
-----------------------------------------------------------------------------
(***************************************************************************)
(* While no two requests overlap: what a request read before it began is   *)
(* still so when it commits.                                               *)
(***************************************************************************)

MembersOf(k) == {c \in Char : db[M(c)] = k}
Capped == \A k \in CrewId : IsFiniteSet(MembersOf(k)) /\ Cardinality(MembersOf(k)) <= Cap

\* An invite that stands was issued and has not been used.
Backed == \A k \in CrewId, c \in Char : hist.unused[<<k, c>>] >= IF db[I(k, c)] = NoRow THEN 0 ELSE 1

LoneFounds(p) == req[p].op = "create" => db[Ch(req[p].char)] = None
LoneJoins(p) ==
  LET i == I(req[p].crew, req[p].char) IN
  req[p].op = "join" =>
    /\ db[i] # NoRow /\ db[i] = read[p].invite
    /\ pc[p] # "trigger" => Cardinality(MembersOf(req[p].crew)) < Cap
    /\ pc[p] \in {"affiliate", "commit"} => owner[i] = p
LoneRemoves(p) ==
  LET m == M(req[p].char) IN
  req[p].op = "remove" => db[m] = req[p].crew /\ (pc[p] # "remove" => owner[m] = p)
LoneDissolves(p) ==
  LET k == req[p].crew IN
  req[p].op = "dissolve" => db[K(k)] # NoRow /\ \A c \in Char : owner[Ch(c)] = p => db[Ch(c)] = k
LoneRequest(p) == LoneFounds(p) /\ LoneJoins(p) /\ LoneRemoves(p) /\ LoneDissolves(p)

Single == \A p, q \in Proc : pc[p] # "idle" /\ pc[q] # "idle" => p = q
Lone == Single /\ RosterMatches /\ Capped /\ Backed /\ \A p \in Proc : LoneRequest(p)
LoneInv == hist.alone => Lone

LEMMA LoneInitInv == Init => LoneInv
<1> SUFFICES ASSUME Init PROVE Lone
  BY DEF LoneInv
<1>1. /\ \A c \in Char : db[M(c)] = NoRow
      /\ \A k \in CrewId, c \in Char : db[I(k, c)] = NoRow
  <2> DEFINE First(r) == CASE r[1] = "character" -> None
                           [] r[1] = "wallet" -> [balance |-> InitBalance[r[2]], version |-> 0]
                           [] OTHER -> NoRow
  <2>1. db = [r \in Rows |-> First(r)]
    BY DEF Init, RcInit
  <2>2. \A r \in Rows : r[1] \in {"member", "invite"} => db[r] = NoRow
    BY <2>1
  <2> QED
    BY <2>2, RowKinds
<1>2. /\ \A p \in Proc : pc[p] = "idle" /\ req[p].op = "none"
      /\ \A kc \in CrewId \X Char : hist.unused[kc] = 0
  BY DEF Init, NoRequest
<1>3. Capped
  <2> SUFFICES ASSUME NEW k \in CrewId
               PROVE  IsFiniteSet(MembersOf(k)) /\ Cardinality(MembersOf(k)) <= Cap
    BY DEF Capped
  <2>1. MembersOf(k) = {}
    BY <1>1, Constants DEF MembersOf
  <2> QED
    BY <2>1, FS_EmptySet, CrewAssumption
<1>4. Single /\ RosterMatches /\ Backed
  BY <1>1, <1>2 DEF Single, RosterMatches, Backed
<1>5. \A p \in Proc : LoneRequest(p)
  BY <1>2 DEF LoneRequest, LoneFounds, LoneJoins, LoneRemoves, LoneDissolves
<1> QED
  BY <1>3, <1>4, <1>5 DEF Lone

LEMMA NothingAsked ==
  ASSUME NEW q \in Proc, req'[q].op \in {"none", "invite"}
  PROVE  LoneRequest(q)'
  BY DEF LoneRequest, LoneFounds, LoneJoins, LoneRemoves, LoneDissolves

\* Requests that did not move stay as they are, and the one that moved is alone.
LEMMA StillSingle ==
  ASSUME IInv, Single, NEW p \in Proc, pc[p] # "idle", \A q \in Proc \ {p} : Unmoved(q)
  PROVE  Single' /\ \A q \in Proc \ {p} : LoneRequest(q)'
<1>1. \A q \in Proc \ {p} : pc[q] = "idle" /\ pc'[q] = "idle" /\ req'[q] = req[q]
  BY DEF Single, Unmoved
<1>2. \A q \in Proc \ {p} : req'[q].op = "none"
  BY <1>1, IdleHoldsNothing
<1> QED
  BY <1>1, <1>2, NothingAsked DEF Single

\* A step that publishes nothing.
LEMMA LoneQuiet ==
  ASSUME IInv, Lone, NEW p \in Proc, pc[p] # "idle", db' = db, hist' = hist,
         \A q \in Proc \ {p} : Unmoved(q), LoneRequest(p)'
  PROVE  Lone'
<1>1. Single' /\ \A q \in Proc \ {p} : LoneRequest(q)'
  BY StillSingle DEF Lone
<1>2. RosterMatches' /\ Capped' /\ Backed'
  BY DEF Lone, RosterMatches, Capped, MembersOf, Backed
<1> QED
  BY <1>1, <1>2 DEF Lone

\* A request that goes on, but for what it must newly hold.
LEMMA LoneKeeps ==
  ASSUME IInv, NEW p \in Proc, LoneRequest(p), db' = db, req'[p] = req[p], read'[p].invite = read[p].invite,
         req[p].op = "join" =>
           /\ pc[p] = "trigger" /\ pc'[p] # "trigger" => Cardinality(MembersOf(req[p].crew)) < Cap
           /\ pc'[p] \in {"affiliate", "commit"} => owner'[I(req[p].crew, req[p].char)] = p,
         req[p].op = "remove" => (pc'[p] # "remove" => owner'[M(req[p].char)] = p),
         req[p].op = "dissolve" => \A c \in Char : owner'[Ch(c)] = p => db[Ch(c)] = req[p].crew
  PROVE  LoneRequest(p)'
<1>1. LoneFounds(p)' /\ LoneRemoves(p)' /\ LoneDissolves(p)'
  BY DEF LoneRequest, LoneFounds, LoneRemoves, LoneDissolves
<1>2. \A k : MembersOf(k)' = MembersOf(k)
  BY DEF MembersOf
<1>3. LoneJoins(p)'
  BY <1>2 DEF LoneRequest, LoneJoins
<1> QED
  BY <1>1, <1>3 DEF LoneRequest

\* The statements of each kind of request, alone.
LEMMA FoundingAlone ==
  ASSUME IInv, Lone, NEW p \in Proc,
         ReadWallet(p) \/ ReadNames(p) \/ DebitWallet(p) \/ InsertName(p) \/ ClaimDistrict(p), ~Reject(p)
  PROVE  LoneRequest(p)'
<1>1. /\ pc[p] \in {"wallet", "names", "debit", "name", "district"}
      /\ req' = req /\ db' = db
  BY DEF ReadWallet, ReadNames, DebitWallet, InsertName, ClaimDistrict, Put, PutAll, RollbackTo, rcVars
<1>2. req[p].op = "create"
  BY <1>1, Asking DEF IInv, Typed, RequestInv, Fits, Joining, Dissolving, NoRequest
<1> QED
  BY <1>1, <1>2 DEF Lone, LoneRequest, LoneFounds, LoneJoins, LoneRemoves, LoneDissolves

\* The rows a request has not written are as it found them.
LEMMA MembersSeen ==
  ASSUME NEW p \in Proc, NEW k, \A c \in Char : owner[M(c)] # p
  PROVE  Members(p, k) = MembersOf(k)
  BY DEF Members, MembersOf, Sees

LEMMA EnteringAlone ==
  ASSUME IInv, Lone, NEW p \in Proc,
         MemberTrigger(p) \/ InsertMember(p) \/ ReferenceCrew(p) \/ DeleteInvite(p) \/ SetCrewId(p), ~Reject(p)
  PROVE  LoneRequest(p)'
<1> DEFINE k == req[p].crew
           c == req[p].char
<1>1. /\ pc[p] \in {"trigger", "member", "reference", "accept", "affiliate"}
      /\ req' = req /\ read' = read /\ db' = db
  BY DEF MemberTrigger, InsertMember, ReferenceCrew, DeleteInvite, AcceptInvite, SetCrewId, Affiliate, Put, rcVars
<1>2. /\ req[p].op \in {"create", "join"} /\ c \in Char /\ k \in CrewId /\ Joins(p) /\ Written(p)
      /\ M(c) \in Rows /\ Ch(c) \in Rows /\ I(k, c) \in Rows
      /\ I(k, c) # Ch(c) /\ I(k, c) # M(c) /\ I(k, c)[1] = "invite"
  BY <1>1, EnteringFacts, RowKinds
<1>3. LoneRequest(p) /\ pc \in [Proc -> Statements] /\ (req[p].op = "join" => LoneJoins(p))
  BY DEF Lone, LoneRequest, IInv, Typed, LocalsTyped
<1>4. ASSUME req[p].op = "join"
      PROVE  /\ pc[p] = "trigger" /\ pc'[p] # "trigger" => Cardinality(MembersOf(k)) < Cap
             /\ pc'[p] \in {"affiliate", "commit"} => owner'[I(k, c)] = p
  <2>1. ASSUME MemberTrigger(p) PROVE Cardinality(MembersOf(k)) < Cap /\ pc'[p] = "member"
    <3>1. pc[p] = "trigger" /\ ~Full(p, k) /\ pc'[p] = "member"
      BY <1>3, <2>1 DEF MemberTrigger, Goto
    <3>2. \A x \in Char : owner[M(x)] # p
      BY <1>2, <1>4, <3>1, RowKinds DEF Joins
    <3>3. Cardinality(MembersOf(k)) \in Nat
      BY <1>2, FS_CardinalityType DEF Lone, Capped
    <3> HIDE DEF k
    <3>4. Members(p, k) = MembersOf(k)
      BY <3>2, MembersSeen
    <3> QED
      BY <3>1, <3>3, <3>4, CrewAssumption DEF Full
  <2>2. ASSUME InsertMember(p) \/ ReferenceCrew(p) PROVE pc[p] # "trigger" /\ pc'[p] \in {"reference", "accept"}
    BY <1>3, <1>4, <2>2 DEF InsertMember, ReferenceCrew, Goto
  <2>3. ASSUME DeleteInvite(p) PROVE pc[p] # "trigger" /\ owner'[I(k, c)] = p
    <3>1. pc[p] = "accept" /\ AcceptInvite(p)
      BY <2>3 DEF DeleteInvite
    <3>2. db[I(k, c)] = read[p].invite /\ db[I(k, c)] # NoRow
      BY <1>3, <1>4 DEF LoneJoins
    <3>3. CASE owner[I(k, c)] = p
      <4>1. Wrote(p, I(k, c))
        BY <1>2, <3>3 DEF Written
      <4>2. pend[I(k, c)] = NoRow
        BY <1>2, <4>1 DEF Wrote
      <4>3. Sees(p, I(k, c)) = NoRow
        BY <3>3, <4>2 DEF Sees
      <4>4. UNCHANGED rcVars
        BY <3>1, <3>2, <4>3 DEF AcceptInvite
      <4> QED
        BY <3>1, <3>3, <4>4 DEF rcVars
    <3>4. CASE owner[I(k, c)] # p
      <4>1. Put(p, I(k, c), NoRow)
        BY <3>1, <3>2, <3>4 DEF AcceptInvite, Sees
      <4> HIDE DEF k, c
      <4>2. owner'[I(k, c)] = p
        BY <1>2, <4>1, PutFacts
      <4> QED
        BY <3>1, <4>2
    <3> QED
      BY <3>3, <3>4
  <2>4. ASSUME SetCrewId(p) PROVE pc[p] # "trigger" /\ owner'[I(k, c)] = p
    <3>1. pc[p] = "affiliate" /\ Put(p, Ch(c), k)
      BY <2>4 DEF SetCrewId, Affiliate
    <3>2. owner[I(k, c)] = p
      BY <1>3, <1>4, <3>1 DEF LoneJoins
    <3> HIDE DEF k, c
    <3>3. owner'[I(k, c)] = owner[I(k, c)]
      BY <1>2, <3>1, PutFacts
    <3> QED
      BY <3>1, <3>2, <3>3
  <2> QED
    BY <2>1, <2>2, <2>3, <2>4
<1> QED
  BY <1>1, <1>2, <1>3, <1>4, LoneKeeps

LEMMA RemovingAlone ==
  ASSUME IInv, Lone, NEW p \in Proc, RemoveMember(p) \/ ClearCrewId(p)
  PROVE  LoneRequest(p)'
<1> DEFINE k == req[p].crew
           c == req[p].char
<1>1. pc[p] \in {"remove", "release"} /\ req' = req /\ read' = read /\ db' = db
  BY DEF RemoveMember, ClearCrewId, Put, rcVars
<1>2. /\ req[p].op = "remove" /\ Removes(p)
      /\ M(c) \in Rows /\ Ch(c) \in Rows /\ M(c) # Ch(c)
  BY <1>1, RemovingFacts
<1>3. LoneRequest(p) /\ db[M(c)] = k
  BY <1>2 DEF Lone, LoneRequest, LoneRemoves
<1>4. owner'[M(c)] = p
  <2>1. CASE RemoveMember(p)
    <3>1. owner[M(c)] # p
      BY <1>2, <2>1 DEF Removes, RemoveMember
    <3>2. Put(p, M(c), NoRow)
      BY <1>3, <2>1, <3>1 DEF RemoveMember, Sees
    <3> HIDE DEF k, c
    <3> QED
      BY <1>2, <3>2, PutFacts
  <2>2. CASE ClearCrewId(p)
    <3>1. owner[M(c)] = p
      BY <1>2, <2>2 DEF Lone, LoneRequest, LoneRemoves, ClearCrewId
    <3>2. Put(p, Ch(c), None)
      BY <2>2 DEF ClearCrewId
    <3> HIDE DEF k, c
    <3>3. owner'[M(c)] = owner[M(c)]
      BY <1>2, <3>2, PutFacts
    <3> QED
      BY <3>1, <3>3
  <2> QED
    BY <2>1, <2>2
<1> QED
  BY <1>1, <1>2, <1>3, <1>4, LoneKeeps

LEMMA DissolvingAlone ==
  ASSUME IInv, Lone, NEW p \in Proc, BeginStatement(p) \/ VisitRow(p) \/ DeleteCrew(p)
  PROVE  LoneRequest(p)'
<1> DEFINE k == req[p].crew
<1>1. /\ pc[p] \in Stages \cup {"delete"} /\ req' = req /\ read' = read /\ db' = db
  BY DEF BeginStatement, VisitRow, DeleteCrew, Visited, Put, PutAll, rcVars
<1>2. /\ req[p].op = "dissolve" /\ ~Enters(p) /\ k \in CrewId /\ Written(p) /\ Fits(p)
  BY <1>1, DissolvingFacts
<1>3. LoneRequest(p) /\ \A c \in Char : owner[Ch(c)] = p => db[Ch(c)] = k
  BY <1>2 DEF Lone, LoneRequest, LoneDissolves
<1>4. ASSUME NEW c \in Char, owner'[Ch(c)] = p
      PROVE  db[Ch(c)] = k
  <2>1. Ch(c) \in Rows /\ Ch(c)[1] = "character"
    BY RowKinds
  <2>2. CASE BeginStatement(p)
    BY <1>3, <1>4, <2>2 DEF BeginStatement, rcVars
  <2>3. CASE VisitRow(p)
    <3>1. PICK r \in todo[p] :
            IF r \in Referring(p, {r}) THEN Put(p, r, IF r[1] = "character" THEN None ELSE NoRow)
                                       ELSE UNCHANGED rcVars
      BY <2>3 DEF VisitRow
    <3>2. r \in Rows
      BY DEF IInv, Typed, LocalsTyped
    <3>3. CASE owner[Ch(c)] = p
      BY <1>3, <3>3
    <3>4. CASE owner[Ch(c)] # p
      <4>1. r \in Referring(p, {r}) /\ \E v : Put(p, r, v)
        BY <1>4, <3>1, <3>4 DEF rcVars
      <4>2. r = Ch(c)
        BY <1>4, <2>1, <3>2, <3>4, <4>1, PutFacts
      <4> QED
        BY <2>1, <3>4, <4>1, <4>2 DEF Referring, Sees
    <3> QED
      BY <3>3, <3>4
  <2>4. CASE DeleteCrew(p)
    <3>1. CASE UNCHANGED rcVars
      BY <1>3, <1>4, <3>1 DEF rcVars
    <3>2. CASE ~UNCHANGED rcVars
      <4> DEFINE row == Sees(p, K(k))
                 keys == IF row.district = None THEN {N(row.name)} ELSE {N(row.name), D(row.district)}
                 new == [r \in {K(k)} \cup keys |-> NoRow]
      <4>1. row # NoRow /\ PutAll(p, new)
        BY <2>4, <3>2 DEF DeleteCrew
      <4>2. K(k) \in Rows /\ row \in Crews
        <5>1. db[K(k)] \in Versions(K(k)) /\ pend[K(k)] \in Versions(K(k)) /\ K(k) \in Rows
          BY <1>2, RowKinds DEF IInv, Typed, RowsTyped
        <5> QED
          BY <1>2, <4>1, <5>1, VersionsOf DEF Sees
      <4>3. row.name \in Name /\ (row.district = None \/ row.district \in District)
        BY <4>2 DEF Crews
      <4>4. DOMAIN new \subseteq Rows /\ Ch(c) \notin DOMAIN new
        <5> HIDE DEF row
        <5> QED
          BY <1>2, <2>1, <4>2, <4>3, RowKinds
      <4> HIDE DEF new
      <4>5. owner'[Ch(c)] = owner[Ch(c)]
        BY <2>1, <4>1, <4>4, PutAllFacts
      <4> QED
        BY <1>3, <1>4, <4>5
    <3> QED
      BY <3>1, <3>2
  <2> QED
    BY <2>2, <2>3, <2>4
<1> QED
  BY <1>1, <1>2, <1>3, <1>4, LoneKeeps

\* The statements of an invite publish at once.
LEMMA InvitingAlone ==
  ASSUME IInv, Lone, NEW p \in Proc, DeleteExpired(p) \/ CreateInvite(p), \A q \in Proc \ {p} : Unmoved(q),
         LoneRequest(p)'
  PROVE  Lone'
<1> DEFINE k == req[p].crew
           c == req[p].char
<1>1. pc[p] \in {"replace", "invite"} /\ pc[p] # "idle" /\ c \in Char /\ k \in CrewId
  BY InvitingFacts DEF DeleteExpired, CreateInvite
<1>2. Single' /\ \A q \in Proc \ {p} : LoneRequest(q)'
  BY <1>1, StillSingle DEF Lone
<1>3. CASE db' = db /\ hist' = hist
  BY <1>1, <1>3, LoneQuiet
<1>4. CASE ~(db' = db /\ hist' = hist)
  <2>1. \/ WriteNow(p, I(k, c), NoRow) /\ hist'.unused = hist.unused
        \/ db[I(k, c)] = NoRow /\ WriteNow(p, I(k, c), hist.issued + 1)
           /\ hist' = [hist EXCEPT !.issued = @ + 1, !.unused[<<k, c>>] = @ + 1]
    BY <1>4 DEF DeleteExpired, CreateInvite, rcVars
  <2>2. PICK v : WriteNow(p, I(k, c), v)
    BY <2>1
  <2>3. /\ \A x \in Char : M(x) \in Rows /\ Ch(x) \in Rows /\ M(x) # I(k, c) /\ Ch(x) # I(k, c)
        /\ \A j \in CrewId, x \in Char : I(j, x) \in Rows /\ (I(j, x) = I(k, c) => j = k /\ x = c)
        /\ DOMAIN db = Rows
    BY <1>1, RowKinds DEF IInv, Typed, RowsTyped
  <2>4. db' = [db EXCEPT ![I(k, c)] = v]
    BY <2>2 DEF WriteNow
  <2> HIDE DEF k, c
  <2>5. \A x \in Char : db'[M(x)] = db[M(x)] /\ db'[Ch(x)] = db[Ch(x)]
    BY <2>3, <2>4
  <2>6. RosterMatches' /\ Capped'
    <3>1. \A j : MembersOf(j)' = MembersOf(j)
      BY <2>5 DEF MembersOf
    <3> QED
      BY <2>5, <3>1 DEF Lone, RosterMatches, Capped
  <2>7. Backed'
    <3>1. \A j \in CrewId, x \in Char : ~(j = k /\ x = c) => db'[I(j, x)] = db[I(j, x)]
      BY <2>3, <2>4
    <3>2. hist \in Histories /\ hist.unused \in [CrewId \X Char -> Int]
      BY DEF IInv, Typed, Histories
    <3>3. CASE WriteNow(p, I(k, c), NoRow) /\ hist'.unused = hist.unused
      <4>1. db'[I(k, c)] = NoRow
        BY <1>1, <2>3, <3>3 DEF WriteNow
      <4>2. hist.unused[<<k, c>>] >= 0
        <5>1. hist.unused[<<k, c>>] \in Int
          BY <1>1, <3>2
        <5>2. hist.unused[<<k, c>>] >= IF db[I(k, c)] = NoRow THEN 0 ELSE 1
          BY <1>1 DEF Lone, Backed
        <5> QED
          BY <5>1, <5>2
      <4> QED
        BY <1>1, <3>1, <3>3, <4>1, <4>2 DEF Lone, Backed
    <3>4. CASE /\ db[I(k, c)] = NoRow
               /\ hist' = [hist EXCEPT !.issued = @ + 1, !.unused[<<k, c>>] = @ + 1]
      <4>1. hist'.unused = [hist.unused EXCEPT ![<<k, c>>] = @ + 1]
        BY <3>2, <3>4 DEF Histories
      <4>2. /\ hist'.unused[<<k, c>>] = hist.unused[<<k, c>>] + 1 /\ hist.unused[<<k, c>>] \in Int
            /\ \A j \in CrewId, x \in Char : ~(j = k /\ x = c) => hist'.unused[<<j, x>>] = hist.unused[<<j, x>>]
        BY <1>1, <3>2, <4>1
      <4>3. hist.unused[<<k, c>>] >= 0
        BY <1>1, <3>4 DEF Lone, Backed
      <4>4. hist'.unused[<<k, c>>] >= 1
        BY <4>2, <4>3
      <4>5. hist'.unused[<<k, c>>] >= IF db'[I(k, c)] = NoRow THEN 0 ELSE 1
        BY <4>2, <4>3
      <4> QED
        BY <3>1, <4>2, <4>5 DEF Lone, Backed
    <3> QED
      BY <2>1, <3>3, <3>4
  <2> QED
    BY <1>2, <2>6, <2>7 DEF Lone
<1> QED
  BY <1>3, <1>4

\* What a commit publishes over what only it has touched.
LEMMA CreateCommitAlone ==
  ASSUME IInv, Lone, NEW p \in Proc, CommitRequest(p), req[p].op = "create"
  PROVE  RosterMatches' /\ Capped' /\ Backed'
<1> DEFINE k == req[p].crew
           c == req[p].char
           n == req[p].name
           d == read[p].district
<1>2. /\ k \in CrewId /\ c \in Char /\ n \in Name /\ d \in District \cup {None}
      /\ \A x \in Char : db'[W(x)].balance = IF x = c THEN db[W(x)].balance - Cost ELSE db[W(x)].balance
      /\ db[K(k)] = NoRow /\ db'[K(k)] = [leader |-> c, name |-> n, district |-> d]
      /\ \A j \in CrewId : j # k => db'[K(j)] = db[K(j)]
      /\ db[M(c)] = NoRow /\ db'[M(c)] = k /\ db'[Ch(c)] = k
      /\ \A x \in Char : x # c => db'[M(x)] = db[M(x)] /\ db'[Ch(x)] = db[Ch(x)]
      /\ db[N(n)] = NoRow /\ db'[N(n)] = k
      /\ \A e \in Name : e # n => db'[N(e)] = db[N(e)]
      /\ d # None => db[D(d)] = NoRow /\ db'[D(d)] = k
      /\ \A e \in District : e # d => db'[D(e)] = db[D(e)]
      /\ \A j \in CrewId, x \in Char : db'[I(j, x)] = db[I(j, x)]
  BY FoundingCommitted
<1>3. hist'.unused = hist.unused
  <2>1. hist' = [hist EXCEPT !.ids = @ \cup {k}, !.founded[c] = @ + 1] /\ hist \in Histories
    BY DEF CommitRequest, IInv, Typed
  <2> QED
    BY <2>1 DEF Histories
<1> HIDE DEF k, c, n, d
<1>4. Capped'
  <2> SUFFICES ASSUME NEW j \in CrewId
               PROVE  IsFiniteSet(MembersOf(j)') /\ Cardinality(MembersOf(j)') <= Cap
    BY DEF Capped
  <2>1. CASE j = k
    <3>1. \A x \in Char : db[M(x)] # k
      BY <1>2 DEF IInv, Books, CrewsConsistent, RosterConsistent, NoGhostMembers
    <3>2. MembersOf(j)' = {c}
      BY <1>2, <2>1, <3>1 DEF MembersOf
    <3>3. IsFiniteSet({c}) /\ Cardinality({c}) = 1
      BY FS_Singleton
    <3>4. IsFiniteSet(MembersOf(j)') /\ Cardinality(MembersOf(j)') = 1
      BY <3>2, <3>3, Zenon
    <3> QED
      BY <3>4, CrewAssumption
  <2>2. CASE j # k
    <3>1. MembersOf(j)' = MembersOf(j)
      BY <1>2, <2>2, Constants DEF MembersOf
    <3> QED
      BY <3>1 DEF Lone, Capped
  <2> QED
    BY <2>1, <2>2
<1> QED
  BY <1>2, <1>3, <1>4 DEF Lone, RosterMatches, Backed

LEMMA JoinCommitAlone ==
  ASSUME IInv, Lone, NEW p \in Proc, CommitRequest(p), req[p].op = "join"
  PROVE  RosterMatches' /\ Capped' /\ Backed'
<1> DEFINE k == req[p].crew
           c == req[p].char
<1>1. /\ pc[p] = "commit" /\ k \in CrewId /\ c \in Char /\ Joins(p) /\ Written(p)
      /\ \A r \in Rows : db'[r] = IF owner[r] = p THEN pend[r] ELSE db[r]
  BY CommitFacts
<1>2. LoneJoins(p)
  BY DEF Lone, LoneRequest
<1>3. /\ db[I(k, c)] # NoRow /\ owner[I(k, c)] = p /\ Cardinality(MembersOf(k)) < Cap
  BY <1>1, <1>2 DEF LoneJoins
<1>4. /\ \A r \in Rows : owner[r] = p => r \in {M(c), Ch(c), I(k, c)}
      /\ owner[M(c)] = p /\ owner[Ch(c)] = p
  BY <1>1 DEF Joins
<1>5. \A r \in Rows : owner[r] = p =>
        /\ r[1] = "character" => pend[r] = k
        /\ r[1] = "member" => db[r] = NoRow /\ pend[r] = k
        /\ r[1] = "invite" => pend[r] = NoRow
  <2>1. Enters(p)
    BY DEF Enters
  <2> QED
    BY <1>1, <2>1 DEF Written, Wrote
<1>6. hist'.unused = [hist.unused EXCEPT ![<<k, c>>] = @ - 1] /\ hist.unused \in [CrewId \X Char -> Int]
  <2>1. hist' = [hist EXCEPT !.unused[<<k, c>>] = @ - 1] /\ hist \in Histories
    BY DEF CommitRequest, IInv, Typed
  <2> QED
    BY <2>1 DEF Histories
<1> HIDE DEF k, c
<1>7. /\ db[M(c)] = NoRow /\ db'[M(c)] = k /\ db'[Ch(c)] = k /\ db'[I(k, c)] = NoRow
      /\ \A x \in Char : x # c => db'[M(x)] = db[M(x)] /\ db'[Ch(x)] = db[Ch(x)]
      /\ \A j \in CrewId, x \in Char : ~(j = k /\ x = c) => db'[I(j, x)] = db[I(j, x)]
  BY <1>1, <1>3, <1>4, <1>5, RowKinds
<1>8. RosterMatches'
  BY <1>7 DEF Lone, RosterMatches
<1>9. Capped'
  <2> SUFFICES ASSUME NEW j \in CrewId
               PROVE  IsFiniteSet(MembersOf(j)') /\ Cardinality(MembersOf(j)') <= Cap
    BY DEF Capped
  <2>1. CASE j = k
    <3>1. MembersOf(j)' = MembersOf(k) \cup {c} /\ c \notin MembersOf(k)
      BY <1>1, <1>7, <2>1, Constants DEF MembersOf
    <3>2. IsFiniteSet(MembersOf(k)) /\ Cardinality(MembersOf(k)) \in Nat
      BY <1>1, FS_CardinalityType DEF Lone, Capped
    <3>3. IsFiniteSet(MembersOf(j)') /\ Cardinality(MembersOf(j)') = Cardinality(MembersOf(k)) + 1
      BY <3>1, <3>2, FS_AddElement
    <3> QED
      BY <1>3, <3>2, <3>3, CrewAssumption
  <2>2. CASE j # k
    <3>1. MembersOf(j)' = MembersOf(j)
      BY <1>7, <2>2, Constants DEF MembersOf
    <3> QED
      BY <3>1 DEF Lone, Capped
  <2> QED
    BY <2>1, <2>2
<1>10. Backed'
  <2>1. /\ hist'.unused[<<k, c>>] = hist.unused[<<k, c>>] - 1 /\ hist.unused[<<k, c>>] \in Int
        /\ \A j \in CrewId, x \in Char : ~(j = k /\ x = c) => hist'.unused[<<j, x>>] = hist.unused[<<j, x>>]
    BY <1>1, <1>6
  <2>2. hist.unused[<<k, c>>] >= 1
    BY <1>1, <1>3 DEF Lone, Backed
  <2>3. hist'.unused[<<k, c>>] >= 0
    BY <2>1, <2>2
  <2> QED
    BY <1>7, <2>1, <2>3 DEF Lone, Backed
<1> QED
  BY <1>8, <1>9, <1>10

LEMMA LeavingCommitAlone ==
  ASSUME IInv, Lone, NEW p \in Proc, CommitRequest(p), req[p].op \in {"remove", "dissolve"}
  PROVE  RosterMatches' /\ Capped' /\ Backed'
<1> DEFINE k == req[p].crew
<1>1. /\ pc[p] = "commit" /\ k \in CrewId /\ (req[p].op = "remove" => req[p].char \in Char)
      /\ Removes(p) /\ Dissolves(p) /\ Written(p)
      /\ \A r \in Rows : db'[r] = IF owner[r] = p THEN pend[r] ELSE db[r]
  BY CommitFacts
<1>2. hist' = hist
  BY DEF CommitRequest
<1>3. \A r \in Rows : owner[r] = p =>
        /\ r[1] = "character" => pend[r] = None
        /\ r[1] = "member" => pend[r] = NoRow
        /\ r[1] = "invite" => pend[r] = NoRow
  <2>1. ~Enters(p)
    BY DEF Enters
  <2> QED
    BY <1>1, <2>1 DEF Written, Wrote
<1>4. ASSUME NEW x \in Char
      PROVE  /\ db'[M(x)] \in {db[M(x)], NoRow} /\ db'[Ch(x)] \in {db[Ch(x)], None}
             /\ \A j \in CrewId : db'[I(j, x)] \in {db[I(j, x)], NoRow}
  BY <1>1, <1>3, RowKinds
\* A membership that stays is of a character whose affiliation stays.
<1>5. ASSUME NEW x \in Char, db'[M(x)] # NoRow
      PROVE  owner[Ch(x)] # p
  <2>1. /\ M(x) \in Rows /\ M(x)[1] = "member" /\ Ch(x) \in Rows /\ Ch(x)[1] = "character"
        /\ owner[M(x)] # p /\ db[M(x)] # NoRow
    BY <1>1, <1>3, <1>5, RowKinds
  <2>2. db[Ch(x)] = db[M(x)]
    BY <2>1 DEF Lone, RosterMatches
  <2>3. CASE req[p].op = "remove"
    <3>1. owner[M(req[p].char)] = p
      BY <1>1, <2>3 DEF Lone, LoneRequest, LoneRemoves
    <3>2. Ch(x) # Ch(req[p].char) /\ Ch(x) # M(req[p].char)
      BY <1>1, <2>1, <2>3, <3>1, RowKinds
    <3> QED
      BY <1>1, <2>1, <2>3, <3>2 DEF Removes
  <2>4. CASE req[p].op = "dissolve"
    <3>1. LoneDissolves(p)
      BY DEF Lone, LoneRequest
    <3>2. db[K(k)] # NoRow /\ (owner[Ch(x)] = p => db[Ch(x)] = k)
      BY <2>4, <3>1 DEF LoneDissolves
    <3>3. \A r \in Cascaded(k) : ~Refers(p, r)
      BY <1>1, <2>4, <3>2 DEF Dissolves
    <3>4. M(x) \in Cascaded(k)
      BY DEF Cascaded, Memberships
    <3>5. db[M(x)] # k
      BY <2>1, <3>3, <3>4 DEF Refers, Sees
    <3> QED
      BY <2>2, <3>2, <3>5
  <2> QED
    BY <2>3, <2>4
<1>6. RosterMatches'
  <2> SUFFICES ASSUME NEW x \in Char, db'[M(x)] # NoRow
               PROVE  db'[Ch(x)] = db'[M(x)]
    BY DEF RosterMatches
  <2>1. owner[Ch(x)] # p /\ Ch(x) \in Rows /\ db'[M(x)] = db[M(x)]
    BY <1>4, <1>5, RowKinds
  <2> QED
    BY <1>1, <2>1 DEF Lone, RosterMatches
<1>7. Capped'
  <2> SUFFICES ASSUME NEW j \in CrewId
               PROVE  IsFiniteSet(MembersOf(j)') /\ Cardinality(MembersOf(j)') <= Cap
    BY DEF Capped
  <2>1. MembersOf(j)' \subseteq MembersOf(j)
    BY <1>4, Constants DEF MembersOf
  <2>2. IsFiniteSet(MembersOf(j)) /\ Cardinality(MembersOf(j)) <= Cap
    BY DEF Lone, Capped
  <2>3. /\ IsFiniteSet(MembersOf(j)') /\ Cardinality(MembersOf(j)') <= Cardinality(MembersOf(j))
        /\ Cardinality(MembersOf(j)) \in Nat /\ Cardinality(MembersOf(j)') \in Nat
    BY <2>1, <2>2, FS_Subset, FS_CardinalityType
  <2> QED
    BY <2>2, <2>3, CrewAssumption
<1>8. Backed'
  <2>1. hist.unused \in [CrewId \X Char -> Int]
    BY DEF IInv, Typed, Histories
  <2> SUFFICES ASSUME NEW j \in CrewId, NEW x \in Char
               PROVE  hist.unused[<<j, x>>] >= IF db'[I(j, x)] = NoRow THEN 0 ELSE 1
    BY <1>2 DEF Backed
  <2>2. hist.unused[<<j, x>>] >= (IF db[I(j, x)] = NoRow THEN 0 ELSE 1) /\ hist.unused[<<j, x>>] \in Int
    BY <2>1 DEF Lone, Backed
  <2> QED
    BY <1>4, <2>2
<1> QED
  BY <1>6, <1>7, <1>8

LEMMA CommitAlone ==
  ASSUME IInv, Lone, NEW p \in Proc, CommitRequest(p)
  PROVE  Lone'
<1>1. /\ req[p].op \in {"create", "join", "remove", "dissolve"} /\ pc[p] = "commit"
      /\ req'[p] = NoRequest /\ \A q \in Proc \ {p} : Unmoved(q)
  BY CommitFacts
<1>2. RosterMatches' /\ Capped' /\ Backed'
  BY <1>1, CreateCommitAlone, JoinCommitAlone, LeavingCommitAlone
<1>3. Single' /\ \A q \in Proc \ {p} : LoneRequest(q)'
  BY <1>1, StillSingle DEF Lone
<1>4. LoneRequest(p)'
  BY <1>1, NothingAsked DEF NoRequest
<1> QED
  BY <1>2, <1>3, <1>4 DEF Lone

\* A request that begins finds what it asks for as it is.
LEMMA StartAlone ==
  ASSUME IInv, Lone, NEW p \in Proc, Start(p), NobodyElse(p)
  PROVE  Lone'
<1>1. PICK r \in Requests :
       /\ CASE r.op = "create" -> MayCreate(p, r)
            [] r.op = "invite" -> MayInvite(p, r)
            [] r.op = "join" -> MayJoin(p, r)
            [] r.op = "dissolve" -> db[K(r.crew)] # NoRow
            [] OTHER -> MayRemove(r)
       /\ req' = [req EXCEPT ![p] = r]
       /\ IF r.op \in {"invite", "join"}
          THEN LET i == db[I(r.crew, r.char)] IN
               /\ read' = [read EXCEPT ![p].invite = i]
               /\ Goto(p, IF r.op = "join" THEN "trigger"
                          ELSE IF i = NoRow THEN "invite" ELSE "replace")
          ELSE UNCHANGED read /\ Goto(p, FirstStatement[r.op])
  BY DEF Start
<1>2. /\ pc[p] = "idle" /\ db' = db /\ owner' = owner /\ \A c \in Char : Ch(c) \in Rows /\ owner[Ch(c)] # p
  BY IdleHoldsNothing, RowKinds DEF Start, rcVars
<1>3. /\ hist \in Histories /\ pc \in [Proc -> Statements] /\ req \in [Proc -> Requests \cup {NoRequest}]
      /\ read \in [Proc -> Reads]
  BY DEF IInv, Typed, LocalsTyped
<1>4. hist'.unused = hist.unused
  BY <1>3 DEF Start, Histories
<1>5. \A q \in Proc \ {p} : pc'[q] = "idle" /\ req'[q].op = "none"
  <2>1. \A q \in Proc \ {p} : pc[q] = "idle" /\ pc'[q] = pc[q] /\ req'[q] = req[q]
    <3>1. \A q \in Proc \ {p} : pc'[q] = pc[q]
      BY <1>1, <1>3 DEF Goto
    <3> QED
      BY <1>1, <1>3, <3>1 DEF NobodyElse
  <2> QED
    BY <2>1, IdleHoldsNothing
<1>6. Single'
  BY <1>5 DEF Single
<1>7. RosterMatches' /\ Capped' /\ Backed'
  BY <1>2, <1>4 DEF Lone, RosterMatches, Capped, MembersOf, Backed
<1>8. req'[p] = r /\ r.op \in {"create", "join", "remove", "invite", "dissolve"}
  BY <1>1, <1>3 DEF Requests
<1>9. LoneRequest(p)'
  <2>1. CASE r.op = "create"
    BY <1>1, <1>2, <1>8, <2>1 DEF MayCreate, LoneRequest, LoneFounds, LoneJoins, LoneRemoves, LoneDissolves
  <2>2. CASE r.op = "join"
    <3>1. Live(db[I(r.crew, r.char)]) /\ pc'[p] = "trigger"
      BY <1>1, <1>3, <2>2 DEF MayJoin, Goto
    <3>2. read'[p].invite = db[I(r.crew, r.char)]
      <4> DEFINE i == db[I(r.crew, r.char)]
      <4>1. read' = [read EXCEPT ![p].invite = i]
        BY <1>1, <2>2
      <4> HIDE DEF i
      <4>2. read'[p].invite = i
        BY <1>3, <4>1 DEF Reads
      <4> QED
        BY <4>2 DEF i
    <3>3. LoneJoins(p)'
      BY <1>2, <1>8, <3>1, <3>2 DEF LoneJoins, Live
    <3> QED
      BY <1>8, <2>2, <3>3 DEF LoneRequest, LoneFounds, LoneRemoves, LoneDissolves
  <2>3. CASE r.op = "invite"
    BY <1>8, <2>3, NothingAsked
  <2>4. CASE r.op = "dissolve"
    <3>1. db[K(r.crew)] # NoRow
      BY <1>1, <2>4
    <3>2. LoneDissolves(p)'
      BY <1>2, <1>8, <3>1 DEF LoneDissolves
    <3> QED
      BY <1>8, <2>4, <3>2 DEF LoneRequest, LoneFounds, LoneJoins, LoneRemoves
  <2>5. CASE r.op = "remove"
    <3>1. MayRemove(r) /\ Goto(p, FirstStatement[r.op])
      BY <1>1, <2>5
    <3>2. pc'[p] = "remove"
      BY <1>3, <2>5, <3>1 DEF FirstStatement, Goto
    <3>3. LoneRemoves(p)'
      BY <1>2, <1>8, <3>1, <3>2 DEF MayRemove, LoneRemoves
    <3> QED
      BY <1>8, <2>5, <3>3 DEF LoneRequest, LoneFounds, LoneJoins, LoneDissolves
  <2> QED
    BY <1>8, <2>1, <2>2, <2>3, <2>4, <2>5
<1>10. \A q \in Proc : LoneRequest(q)'
  BY <1>5, <1>9, NothingAsked
<1> QED
  BY <1>6, <1>7, <1>10 DEF Lone

LEMMA RejectAlone ==
  ASSUME IInv, Lone, NEW p \in Proc, pc[p] # "idle", Reject(p)
  PROVE  Lone'
<1>1. req'[p] = NoRequest /\ \A q \in Proc \ {p} : Unmoved(q)
  BY AnsweredFacts DEF Reject
<1>2. LoneRequest(p)'
  BY <1>1, NothingAsked DEF NoRequest
<1>3. db' = db /\ hist' = hist
  BY DEF Reject, Rollback
<1> QED
  BY <1>1, <1>2, <1>3, LoneQuiet

LEMMA StepAlone ==
  ASSUME IInv, Lone, NEW p \in Proc, Step(p)
  PROVE  Lone'
<1>1. pc[p] # "idle"
  BY DEF Step, ReadWallet, ReadNames, DebitWallet, InsertName, ClaimDistrict, MemberTrigger, InsertMember,
         ReferenceCrew, DeleteInvite, SetCrewId, DeleteExpired, CreateInvite, RemoveMember, ClearCrewId,
         BeginStatement, VisitRow, DeleteCrew, CommitRequest, Stages
<1>2. CASE Reject(p)
  BY <1>1, <1>2, RejectAlone
<1>3. CASE CommitRequest(p)
  BY <1>3, CommitAlone
<1>4. CASE ~Reject(p) /\ ~CommitRequest(p)
  <2>1. CASE DeleteExpired(p)
    <3>1. \A q \in Proc \ {p} : Unmoved(q)
      BY <2>1 DEF DeleteExpired, Goto, Unmoved, IInv, Typed, LocalsTyped
    <3>2. req'[p].op = "invite"
      BY <2>1, InvitingFacts DEF DeleteExpired
    <3> QED
      BY <2>1, <3>1, <3>2, NothingAsked, InvitingAlone
  <2>2. CASE CreateInvite(p)
    <3>1. req'[p] = NoRequest /\ \A q \in Proc \ {p} : Unmoved(q)
      BY <2>2, AnsweredFacts DEF CreateInvite
    <3>2. LoneRequest(p)'
      BY <3>1, NothingAsked DEF NoRequest
    <3> QED
      BY <2>2, <3>1, <3>2, InvitingAlone
  <2>3. CASE ~DeleteExpired(p) /\ ~CreateInvite(p)
    <3>1. LoneRequest(p)'
      BY <1>4, <2>3, FoundingAlone, EnteringAlone, RemovingAlone, DissolvingAlone DEF Step
    <3>2. db' = db /\ hist' = hist
      BY <1>4, <2>3 DEF Step, ReadWallet, ReadNames, DebitWallet, InsertName, ClaimDistrict, MemberTrigger,
         InsertMember, ReferenceCrew, DeleteInvite, AcceptInvite, SetCrewId, Affiliate, RemoveMember, ClearCrewId,
         BeginStatement, VisitRow, Visited, DeleteCrew, Put, PutAll, RollbackTo, rcVars
    <3>3. ASSUME NEW q \in Proc \ {p} PROVE Unmoved(q)
      <4>1. CASE BeginStatement(p) \/ VisitRow(p)
        BY <4>1 DEF BeginStatement, VisitRow, Visited, Goto, Unmoved, IInv, Typed, LocalsTyped
      <4>2. CASE ~(BeginStatement(p) \/ VisitRow(p))
        BY <1>4, <2>3, <4>2 DEF Step, ReadWallet, ReadNames, DebitWallet, InsertName, ClaimDistrict, MemberTrigger,
           InsertMember, ReferenceCrew, DeleteInvite, SetCrewId, RemoveMember, ClearCrewId, DeleteCrew,
           Goto, Unmoved, IInv, Typed, LocalsTyped
      <4> QED
        BY <4>1, <4>2
    <3> QED
      BY <1>1, <3>1, <3>2, <3>3, LoneQuiet
  <2> QED
    BY <2>1, <2>2, <2>3
<1> QED
  BY <1>2, <1>3, <1>4

LEMMA LoneNextInv ==
  ASSUME IInv, LoneInv, [Next]_vars
  PROVE  LoneInv'
<1> SUFFICES ASSUME hist'.alone PROVE Lone'
  BY DEF LoneInv
<1>h. hist \in Histories
  BY DEF IInv, Typed
<1>1. ASSUME NEW p \in Proc, Start(p) PROVE Lone'
  <2>1. hist' = [hist EXCEPT !.alone = @ /\ NobodyElse(p)]
    BY <1>1 DEF Start
  <2>2. hist.alone /\ NobodyElse(p)
    BY <1>h, <2>1 DEF Histories
  <2> QED
    BY <1>1, <2>2, StartAlone DEF LoneInv
<1>2. ASSUME NEW p \in Proc, Step(p) PROVE Lone'
  <2>1. hist'.alone = hist.alone
    <3>1. CASE hist' = hist
      BY <3>1
    <3>2. CASE CreateInvite(p) \/ CommitRequest(p)
      <4>1. \/ hist' = hist
            \/ \E k, c : hist' = [hist EXCEPT !.issued = @ + 1, !.unused[<<k, c>>] = @ + 1]
            \/ \E k, c : hist' = [hist EXCEPT !.ids = @ \cup {k}, !.founded[c] = @ + 1]
            \/ \E k, c : hist' = [hist EXCEPT !.unused[<<k, c>>] = @ - 1]
        BY <3>2 DEF CreateInvite, CommitRequest
      <4> QED
        BY <1>h, <4>1 DEF Histories
    <3>3. CASE ~CreateInvite(p) /\ ~CommitRequest(p)
      BY <1>2, <3>3 DEF Step, ReadWallet, ReadNames, DebitWallet, InsertName, ClaimDistrict, MemberTrigger,
         InsertMember, ReferenceCrew, DeleteInvite, SetCrewId, DeleteExpired, RemoveMember, ClearCrewId,
         BeginStatement, VisitRow, Visited, DeleteCrew, Reject
    <3> QED
      BY <3>2, <3>3
  <2> QED
    BY <1>2, <2>1, StepAlone DEF LoneInv
<1>3. ASSUME NEW p \in Proc, Lost(p) \/ DetectDeadlock(p) PROVE Lone'
  <2>1. Reject(p) /\ hist' = hist
    BY <1>3 DEF Lost, DetectDeadlock, Reject
  <2>2. CASE pc[p] # "idle"
    BY <2>1, <2>2, RejectAlone DEF LoneInv
  <2>3. CASE pc[p] = "idle"
    <3>1. NextRows(p) = {}
      BY <2>3, IdleHoldsNothing DEF NextRows
    <3>2. \A q \in Proc : ~HoldsBack(q, p)
      BY <2>3, <3>1 DEF HoldsBack
    <3>3. ~Deadlocked(p)
      BY <3>2 DEF Deadlocked
    <3> QED
      BY <1>3, <2>3, <3>3 DEF Lost, DetectDeadlock
  <2> QED
    BY <2>2, <2>3
<1>4. CASE Expire \/ UNCHANGED vars \/ \E p \in Proc : Refuse(p)
  <2>1. /\ db' = db /\ pc' = pc /\ req' = req /\ read' = read /\ owner' = owner
        /\ hist'.unused = hist.unused /\ hist'.alone = hist.alone
    <3>1. CASE Expire
      <4>1. \E k, c : hist' = [hist EXCEPT !.expired = @ \cup {db[I(k, c)]}]
        BY <3>1 DEF Expire
      <4> QED
        BY <1>h, <3>1, <4>1 DEF Expire, rcVars, local, Histories
    <3>2. CASE UNCHANGED vars \/ \E p \in Proc : Refuse(p)
      BY <3>2 DEF Refuse, vars, rcVars, local
    <3> QED
      BY <1>4, <3>1, <3>2
  <2>2. Lone
    BY <2>1 DEF LoneInv
  <2>3. Single' /\ RosterMatches' /\ Capped' /\ Backed'
    BY <2>1, <2>2 DEF Lone, Single, RosterMatches, Capped, MembersOf, Backed
  <2>4. \A p \in Proc : LoneRequest(p)'
    BY <2>1, <2>2 DEF Lone, LoneRequest, LoneFounds, LoneJoins, LoneRemoves, LoneDissolves, MembersOf
  <2> QED
    BY <2>3, <2>4 DEF Lone
<1> QED
  BY <1>1, <1>2, <1>3, <1>4 DEF Next

\* While no two requests overlap (routes/crews), whatever of them is refused, expires or is
\* lost, whoever is on a roster is affiliated to that crew, no crew passes CREW_MAX_SIZE,
\* though only the trigger counts, and no invite admits its character twice: SoloMembership.
THEOREM SoloMembershipHolds == Spec => []SoloMembership
<1>1. Init => IInv /\ LoneInv
  BY InitInv, LoneInitInv
<1>2. IInv /\ LoneInv /\ [Next]_vars => (IInv /\ LoneInv)'
  BY NextInv, LoneNextInv
<1>3. IInv /\ LoneInv => SoloMembership
  <2> SUFFICES ASSUME IInv, Lone PROVE RosterMatches /\ CapHolds /\ InvitesUsedOnce
    BY DEF LoneInv, SoloMembership
  <2>1. CapHolds
    BY DEF Lone, Capped, MembersOf, CapHolds
  <2>2. ASSUME NEW kc \in CrewId \X Char PROVE hist.unused[kc] >= 0
    <3>1. PICK k \in CrewId, c \in Char : kc = <<k, c>>
      OBVIOUS
    <3>2. hist.unused[<<k, c>>] \in Int
      BY DEF IInv, Typed, Histories
    <3>3. hist.unused[<<k, c>>] >= IF db[I(k, c)] = NoRow THEN 0 ELSE 1
      BY DEF Lone, Backed
    <3> QED
      BY <3>1, <3>2, <3>3
  <2> QED
    BY <2>1, <2>2 DEF Lone, InvitesUsedOnce
<1> QED
  BY <1>1, <1>2, <1>3, PTL DEF Spec
=============================================================================
