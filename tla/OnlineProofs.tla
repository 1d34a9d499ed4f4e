---------------------------- MODULE OnlineProofs ----------------------------
(***************************************************************************)
(* Proofs about the two services in Redis.                                 *)
(*                                                                         *)
(* Sessions: for any tabs, calls and number of pairs, a refresh token is   *)
(* exchanged for at most one pair and never comes back to life, and a      *)
(* browser with one tab holds no token after a logout and sits on none its *)
(* own refresh has spent (TokensHold).  The argument: GETDEL hands a live  *)
(* token to one request, which is the only one that may still issue a pair *)
(* for it (Rotation); a pair that was issued and not yet received is known *)
(* to nobody else (Secret); and what a lone tab holds nobody but its own   *)
(* refresh presents (Alone).                                               *)
(*                                                                         *)
(* Gate: for any number of overlapping posts of a player and any limits,   *)
(* nobody barred gets past a guard, the windows hold, the chat lists lose  *)
(* no message but the oldest, and until two of them overlap the messages   *)
(* keep their distance (GateHolds).                                        *)
(***************************************************************************)
EXTENDS Online, Sequences, FiniteSetTheorems, TLAPS

Slots == Call \cup Tab
Tokens == Pairs \cup {NoPair}
Jobs == [op : {"none", "api", "login", "logout", "refresh"}, token : Tokens,
         at : {"none", "start", "getdel", "blacklist", "issue", "ok", "401"}, pair : Tokens]
Calls == [kind : {"none", "api", "login", "logout"}, step : {"idle", "sent", "awaiting"}, retry : BOOLEAN]

\* Every value has its type, and pairs are issued in order.
Typed ==
  /\ TypeOK
  /\ job \in [Slots -> Jobs] /\ parent \in [Pairs -> Tokens]
  /\ live \subseteq Issued /\ revoked \subseteq Issued
  /\ \E k \in 0 .. MaxPairs : Issued = 1 .. k

\* A request is in a state its route has, is answered only to someone who
\* waits, and carries a pair exactly when it was answered with one.
JobOk(x) ==
  /\ job[x].op = "none" => job[x] = NoJob
  /\ job[x].op # "none" => (job[x].op = "refresh" <=> x \in Tab)
  /\ job[x].op = "api" => job[x].at \in {"start", "ok", "401"}
  /\ job[x].op = "logout" => job[x].at \in {"start", "ok"} /\ job[x].token # NoPair
  /\ job[x].op = "login" => job[x].at \in {"issue", "ok"} /\ job[x].token = NoPair
  /\ job[x].op = "refresh" => job[x].at # "none" /\ job[x].token # NoPair
  /\ job[x].at \in Answered => Awaited(x)
  /\ job[x].pair # NoPair <=> job[x].at = "ok" /\ job[x].op \in {"login", "refresh"}

\* A call that is under way belongs to a loaded tab and has its own request.
CallOk(c) ==
  /\ call[c].step = "idle" => call[c] = Idle
  /\ call[c].step = "sent" => job[c].op = call[c].kind /\ call[c].kind # "none"
  /\ call[c].step = "awaiting" => call[c].kind = "api" /\ job[c] = NoJob
  /\ call[c].step # "idle" => TabOf[c] \in open

\* x has taken its token out of Redis and has not issued the next pair yet.
Consumed(x) == job[x].op = "refresh" /\ job[x].at \in {"blacklist", "issue"}
Childless(n) == \A m \in Issued : parent[m] # n

\* A consumed token is dead, has no child, and one request has consumed it.
Rotation ==
  /\ RotatedOnce
  /\ \A x \in Slots : Consumed(x) =>
       /\ job[x].token \notin live /\ Childless(job[x].token)
       /\ \A y \in Slots : Consumed(y) /\ y # x => job[y].token # job[x].token

Presents(n) == \E x \in Slots : job[x].token = n
Known(n) == n = NoPair \/ n = stored \/ (\E t \in Tab : tok[t] = n) \/ Presents(n)

\* A pair whose answer is on its way is known to nobody and was never spent.
SecretOf(x) ==
  job[x].pair # NoPair =>
    /\ ~Known(job[x].pair) /\ Childless(job[x].pair)
    /\ \A y \in Slots : y # x => job[y].pair # job[x].pair
Secret == \A x \in Slots : SecretOf(x)

Unspent(n) == Childless(n) /\ \A x \in Slots : job[x].op = "refresh" => job[x].token # n

\* The only tab that was ever opened, t.
Alone(t) ==
  /\ stored = tok[t]
  /\ left[t] = "out" => tok[t] = NoPair /\ refreshing[t] = "none"
  /\ left[t] = "in" /\ refreshing[t] = "none" => tok[t] = NoPair \/ Unspent(tok[t])

Opened ==
  /\ \A t \in Tab : refreshing[t] # "none" => t \in open
  /\ open = {} => stored = NoPair
  /\ \A t \in Tab : open = {t} => Alone(t)

IInv ==
  /\ Typed
  /\ \A x \in Slots : JobOk(x)
  /\ \A c \in Call : CallOk(c)
  /\ Rotation /\ Secret /\ Opened
-----------------------------------------------------------------------------
LEMMA Constants == /\ TabOf \in [Call -> Tab] /\ Call \cap Tab = {} /\ MaxPairs \in Nat
                   /\ Pairs = 1 .. MaxPairs /\ NoPair = 0 /\ NoPair \notin Pairs
BY SessionsAssumption DEF Pairs, NoPair

LEMMA NoJobTyped == NoJob \in Jobs /\ NoJob.op = "none" /\ NoJob.at = "none" /\ NoJob.token = NoPair /\ NoJob.pair = NoPair
BY DEF NoJob, Jobs, Tokens

\* What the invariant says of one request.
LEMMA SlotFacts ==
  IInv => \A x \in Slots :
    /\ job[x] \in Jobs /\ JobOk(x)
    /\ job[x].token \in Issued \cup {NoPair} /\ job[x].pair \in Issued \cup {NoPair}
    /\ job[x].op \in {"none", "api", "login", "logout", "refresh"}
    /\ job[x].at \in {"none", "start", "getdel", "blacklist", "issue", "ok", "401"}
BY DEF IInv, Typed, TypeOK, Slots, Jobs

\* Answer keeps the request of whoever waits and forgets the others.
LEMMA AnswerFacts ==
  ASSUME IInv, NEW x \in Slots, NEW status \in {"ok", "401"}, NEW n \in Tokens, Answer(x, status, n)
  PROVE  /\ job' \in [Slots -> Jobs]
         /\ \A y \in Slots \ {x} : job'[y] = job[y]
         /\ ~Awaited(x) => job'[x] = NoJob
         /\ Awaited(x) => /\ job'[x].op = job[x].op /\ job'[x].token = job[x].token
                          /\ job'[x].at = status /\ job'[x].pair = n
<1> DEFINE new == IF Awaited(x) THEN [op |-> job[x].op, token |-> job[x].token, at |-> status, pair |-> n] ELSE NoJob
<1>1. job \in [Slots -> Jobs] /\ job[x] \in Jobs
  BY DEF IInv, Typed
<1>2. [job[x] EXCEPT !.at = status, !.pair = n] = [op |-> job[x].op, token |-> job[x].token, at |-> status, pair |-> n]
  <2> DEFINE r == [job[x] EXCEPT !.at = status]
  <2>1. r \in Jobs /\ r = [op |-> job[x].op, token |-> job[x].token, at |-> status, pair |-> job[x].pair]
    BY <1>1 DEF Jobs
  <2>2. [job[x] EXCEPT !.at = status, !.pair = n] = [r EXCEPT !.pair = n]
    BY <1>1 DEF Jobs
  <2>3. r.op = job[x].op /\ r.token = job[x].token /\ r.at = status
    BY <2>1
  <2> HIDE DEF r
  <2>4. [r EXCEPT !.pair = n] = [op |-> r.op, token |-> r.token, at |-> r.at, pair |-> n]
    BY <2>1 DEF Jobs
  <2> QED
    BY <2>2, <2>3, <2>4
<1>3. job' = [job EXCEPT ![x] = new]
  BY <1>1, <1>2 DEF Answer
<1>4. new \in Jobs
  BY <1>1, NoJobTyped DEF Jobs
<1>5. /\ ~Awaited(x) => new = NoJob
      /\ Awaited(x) => new.op = job[x].op /\ new.token = job[x].token /\ new.at = status /\ new.pair = n
  OBVIOUS
<1> HIDE DEF new
<1> QED
  BY <1>1, <1>3, <1>4, <1>5

LEMMA ProceedFacts ==
  ASSUME IInv, NEW x \in Slots, NEW at \in {"getdel", "blacklist", "issue"}, Proceed(x, at)
  PROVE  /\ job' \in [Slots -> Jobs]
         /\ \A y \in Slots \ {x} : job'[y] = job[y]
         /\ job'[x].op = job[x].op /\ job'[x].token = job[x].token /\ job'[x].at = at /\ job'[x].pair = job[x].pair
<1> DEFINE new == [op |-> job[x].op, token |-> job[x].token, at |-> at, pair |-> job[x].pair]
<1>1. job \in [Slots -> Jobs] /\ job[x] \in Jobs
  BY DEF IInv, Typed
<1>2. [job[x] EXCEPT !.at = at] = new
  BY <1>1 DEF Jobs
<1>3. job' = [job EXCEPT ![x] = new]
  BY <1>2 DEF Proceed
<1>4. new \in Jobs /\ new.op = job[x].op /\ new.token = job[x].token /\ new.at = at /\ new.pair = job[x].pair
  BY <1>1 DEF Jobs
<1> HIDE DEF new
<1> QED
  BY <1>1, <1>3, <1>4
-----------------------------------------------------------------------------
\* Rotation survives every step that consumes and issues nothing.
LEMMA RotationKeeps ==
  ASSUME IInv, parent' = parent, live' \subseteq live, live' \cap revoked' = {},
         \A x \in Slots : Consumed(x)' => Consumed(x) /\ job'[x].token = job[x].token
  PROVE  Rotation'
<1>1. Issued' = Issued
  BY DEF Issued
<1>2. RotatedOnce'
  BY <1>1 DEF IInv, Rotation, RotatedOnce
<1>3. ASSUME NEW x \in Slots, Consumed(x)'
      PROVE  /\ job'[x].token \notin live' /\ Childless(job[x].token)'
             /\ job'[x].token = job[x].token
             /\ \A y \in Slots : Consumed(y)' /\ y # x => job'[y].token # job'[x].token
  BY <1>1, <1>3 DEF IInv, Rotation, Childless
<1> QED
  BY <1>1, <1>2, <1>3 DEF Rotation, Childless

\* Secret survives every step that issues nothing, if nobody learns a pair but
\* n, which nobody will receive any more.
LEMMA SecretKeeps ==
  ASSUME IInv, parent' = parent, NEW n,
         \A m \in Pairs : (\E t \in Tab : tok'[t] = m) \/ m = stored' \/ (\E y \in Slots : job'[y].token = m) => Known(m) \/ m = n,
         \A x \in Slots : job'[x].pair # NoPair => job'[x].pair = job[x].pair /\ job[x].pair # n
  PROVE  Secret'
<1>1. Issued' = Issued
  BY DEF Issued
<1>2. ASSUME NEW x \in Slots, NEW m, job'[x].pair = m, m # NoPair
      PROVE  /\ m # stored' /\ (\A t \in Tab : tok'[t] # m) /\ (\A y \in Slots : job'[y].token # m)
             /\ \A k \in Issued : parent[k] # m
             /\ \A y \in Slots : y # x => job'[y].pair # m
  <2>1. job[x].pair = m /\ m # n /\ m \in Pairs
    BY <1>2, SlotFacts DEF Issued
  <2>2. ~Known(m) /\ Childless(m) /\ \A y \in Slots : y # x => job[y].pair # m
    BY <1>2, <2>1 DEF IInv, Secret, SecretOf
  <2>3. \A y \in Slots : y # x => job'[y].pair # m
    BY <1>2, <2>2
  <2> QED
    BY <2>1, <2>2, <2>3 DEF Childless
<1> QED
  BY <1>1, <1>2 DEF Secret, SecretOf, Known, Childless, Presents

LEMMA SecretStays ==
  ASSUME IInv, parent' = parent,
         \A m \in Pairs : (\E t \in Tab : tok'[t] = m) \/ m = stored' \/ (\E y \in Slots : job'[y].token = m) => Known(m),
         \A x \in Slots : job'[x].pair # NoPair => job'[x].pair = job[x].pair
  PROVE  Secret'
<1> DEFINE n == NoPair
<1>1. \A m \in Pairs : (\E t \in Tab : tok'[t] = m) \/ m = stored' \/ (\E y \in Slots : job'[y].token = m)
        => Known(m) \/ m = n
  OBVIOUS
<1>2. \A x \in Slots : job'[x].pair # NoPair => job'[x].pair = job[x].pair /\ job[x].pair # n
  OBVIOUS
<1> HIDE DEF n
<1> QED
  BY <1>1, <1>2, SecretKeeps

\* The types, when no pair is issued.
LEMMA TypedKeeps ==
  ASSUME IInv, parent' = parent, live' \subseteq Issued, revoked' \subseteq Issued, stale' \subseteq Issued,
         job' \in [Slots -> Jobs],
         \A x \in Slots : job'[x].token \in Issued \cup {NoPair} /\ job'[x].pair \in Issued \cup {NoPair},
         stored' \in Issued \cup {NoPair}, open' \subseteq Tab, tok' \in [Tab -> Issued \cup {NoPair}],
         refreshing' \in [Tab -> {"none", "sent", "itself"}], call' \in [Call -> Calls],
         left' \in [Tab -> {"in", "out", "raced"}]
  PROVE  Typed'
<1>1. Issued' = Issued /\ Issued \subseteq Pairs
  BY DEF Issued
<1>2. TypeOK'
  BY <1>1 DEF IInv, Typed, TypeOK, Slots, Jobs, Calls, Answered
<1> QED
  BY <1>1, <1>2 DEF IInv, Typed
-----------------------------------------------------------------------------
\* A step of the server on request x, which issues nothing: the browser sees
\* only that x is answered.
LEMMA ServerStep ==
  ASSUME IInv, NEW x \in Slots, UNCHANGED browser, parent' = parent,
         live' \subseteq live, revoked' \subseteq Issued, stale' \subseteq Issued, Rotation',
         job' \in [Slots -> Jobs], \A y \in Slots \ {x} : job'[y] = job[y],
         \/ job'[x] = NoJob /\ ~Awaited(x)
         \/ /\ job'[x].op = job[x].op /\ job'[x].token = job[x].token /\ job[x].op # "none"
            /\ job'[x].pair = NoPair \/ job'[x].pair = job[x].pair,
         JobOk(x)'
  PROVE  IInv'
<1>1. Issued' = Issued
  BY DEF Issued
<1>2. job'[x].op \in {job[x].op, "none"} /\ job'[x].token \in {job[x].token, NoPair} /\ job'[x].pair \in {job[x].pair, NoPair}
  BY NoJobTyped
<1>3. \A y \in Slots : /\ job'[y].token \in {job[y].token, NoPair} /\ job'[y].pair \in {job[y].pair, NoPair}
                       /\ job'[y].op = "refresh" => job[y].op = "refresh" /\ job'[y].token = job[y].token
  BY <1>2, NoJobTyped
<1>4. Typed'
  <2>1. \A y \in Slots : job'[y].token \in Issued \cup {NoPair} /\ job'[y].pair \in Issued \cup {NoPair}
    BY <1>3, SlotFacts
  <2> QED
    BY <2>1, TypedKeeps DEF browser, IInv, Typed, TypeOK, Calls
<1>5. \A y \in Slots : JobOk(y)'
  BY DEF IInv, JobOk, Awaited, browser
<1>6. \A c \in Call : CallOk(c)'
  <2> TAKE c \in Call
  <2>1. c \in Slots /\ CallOk(c) /\ call' = call /\ open' = open
    BY DEF IInv, Slots, browser
  <2>2. call[c].step = "sent" => job'[c].op = job[c].op
    BY <2>1, SessionsAssumption DEF Awaited
  <2>3. job[c] = NoJob => job'[c] = NoJob
    BY <2>1, NoJobTyped
  <2> QED
    BY <2>1, <2>2, <2>3 DEF CallOk
<1>7. Secret'
  <2>1. \A m \in Pairs : (\E t \in Tab : tok'[t] = m) \/ m = stored' \/ (\E y \in Slots : job'[y].token = m) => Known(m)
    <3>1. ASSUME NEW m \in Pairs, NEW y \in Slots, job'[y].token = m
          PROVE  job[y].token = m
      BY <1>3, <3>1, Constants
    <3> QED
      BY <3>1 DEF Known, Presents, browser
  <2> QED
    BY <1>3, <2>1, SecretStays
<1>8. Opened'
  <2>1. \A n : Unspent(n) => Unspent(n)'
    <3>1. ASSUME NEW n, Unspent(n) PROVE Unspent(n)'
      BY <1>1, <1>3, <3>1 DEF Unspent, Childless
    <3> QED
      BY <3>1
  <2> QED
    BY <2>1 DEF IInv, Opened, Alone, browser
<1> QED
  BY <1>4, <1>5, <1>6, <1>7, <1>8 DEF IInv

\* x is answered without a pair.
LEMMA AnswerInv ==
  ASSUME IInv, NEW x \in Slots, NEW status \in {"ok", "401"}, Answer(x, status, NoPair),
         UNCHANGED browser, parent' = parent, live' \subseteq live, live' \cap revoked' = {},
         revoked' \subseteq Issued, stale' \subseteq Issued,
         \/ job[x].op = "api"
         \/ job[x].op = "refresh" /\ status = "401"
         \/ job[x].op = "logout" /\ status = "ok"
  PROVE  IInv'
<1>1. /\ job' \in [Slots -> Jobs]
      /\ \A y \in Slots \ {x} : job'[y] = job[y]
      /\ ~Awaited(x) => job'[x] = NoJob
      /\ Awaited(x) => /\ job'[x].op = job[x].op /\ job'[x].token = job[x].token
                       /\ job'[x].at = status /\ job'[x].pair = NoPair
  BY AnswerFacts DEF Tokens
<1>2. Awaited(x)' <=> Awaited(x)
  BY DEF Awaited, browser
<1>3. JobOk(x)'
  <2>1. CASE ~Awaited(x)
    BY <1>1, <2>1, NoJobTyped DEF JobOk, Answered
  <2>2. CASE Awaited(x)
    <3>1. /\ job'[x].op = job[x].op /\ job'[x].token = job[x].token
          /\ job'[x].at = status /\ job'[x].pair = NoPair /\ Awaited(x)' /\ JobOk(x)
      BY <1>1, <1>2, <2>2, SlotFacts
    <3> QED
      BY <3>1 DEF JobOk, Answered
  <2> QED
    BY <2>1, <2>2
<1>4. ~Consumed(x)'
  BY <1>1, NoJobTyped DEF Consumed
<1>5. \A y \in Slots : Consumed(y)' => Consumed(y) /\ job'[y].token = job[y].token
  <2> TAKE y \in Slots
  <2>1. CASE y = x
    BY <1>4, <2>1
  <2>2. CASE y # x
    BY <1>1, <2>2 DEF Consumed
  <2> QED
    BY <2>1, <2>2
<1>6. Rotation'
  BY <1>5, RotationKeeps
<1> QED
  BY <1>1, <1>3, <1>6, ServerStep

\* A refresh of x goes on to its next Redis command.
LEMMA ProceedInv ==
  ASSUME IInv, NEW x \in Slots, NEW at \in {"getdel", "blacklist", "issue"}, Proceed(x, at), job[x].op = "refresh",
         job[x].at \in {"start", "getdel", "blacklist"},
         UNCHANGED browser, parent' = parent, live' \subseteq live,
         revoked' \subseteq Issued, stale' \subseteq Issued, Rotation'
  PROVE  IInv'
<1>1. /\ job' \in [Slots -> Jobs]
      /\ \A y \in Slots \ {x} : job'[y] = job[y]
      /\ job'[x].op = job[x].op /\ job'[x].token = job[x].token /\ job'[x].at = at /\ job'[x].pair = job[x].pair
  BY ProceedFacts
<1>2. JobOk(x)'
  BY <1>1, SlotFacts DEF JobOk, Answered
<1> QED
  BY <1>1, <1>2, ServerStep

LEMMA ProceedRotates ==
  ASSUME IInv, NEW x \in Slots, NEW at \in {"getdel", "blacklist", "issue"}, Proceed(x, at),
         at # "getdel" => Consumed(x),
         parent' = parent, live' \subseteq live, live' \cap revoked' = {}
  PROVE  Rotation'
<1>1. /\ \A y \in Slots \ {x} : job'[y] = job[y]
      /\ job'[x].op = job[x].op /\ job'[x].token = job[x].token /\ job'[x].at = at
  BY ProceedFacts
<1>2. \A y \in Slots : Consumed(y)' => Consumed(y) /\ job'[y].token = job[y].token
  <2> TAKE y \in Slots
  <2>1. CASE y = x
    BY <1>1, <2>1 DEF Consumed
  <2>2. CASE y # x
    BY <1>1, <2>2 DEF Consumed
  <2> QED
    BY <2>1, <2>2
<1> QED
  BY <1>2, RotationKeeps

LEMMA LiveFacts == IInv => /\ live \subseteq Issued /\ revoked \subseteq Issued /\ stale \subseteq Issued
                           /\ live \cap revoked = {} /\ Issued \subseteq Pairs
BY DEF IInv, Typed, TypeOK, Rotation, RotatedOnce, Issued

LEMMA AuthenticateInv == ASSUME IInv, NEW x \in Slots, Authenticate(x) PROVE IInv'
<1> DEFINE status == IF job[x].token = NoPair \/ job[x].token \in stale THEN "401" ELSE "ok"
<1>1. status \in {"ok", "401"} /\ Answer(x, status, NoPair) /\ job[x].op = "api" /\ UNCHANGED <<server, browser>>
  BY DEF Authenticate, Handles
<1> HIDE DEF status
<1> QED
  BY <1>1, LiveFacts, AnswerInv DEF server

LEMMA IsRevokedInv == ASSUME IInv, NEW x \in Slots, IsRefreshTokenRevoked(x) PROVE IInv'
<1>1. job[x].op = "refresh" /\ job[x].at = "start" /\ UNCHANGED <<server, browser>>
  BY DEF IsRefreshTokenRevoked, Handles
<1>2. CASE job[x].token \in revoked
  <2>1. Answer(x, "401", NoPair)
    BY <1>2 DEF IsRefreshTokenRevoked
  <2> QED
    BY <1>1, <2>1, LiveFacts, AnswerInv DEF server
<1>3. CASE job[x].token \notin revoked
  <2>1. Proceed(x, "getdel")
    BY <1>3 DEF IsRefreshTokenRevoked
  <2>2. Rotation'
    BY <1>1, <2>1, LiveFacts, ProceedRotates DEF server
  <2> QED
    BY <1>1, <2>1, <2>2, LiveFacts, ProceedInv DEF server
<1> QED
  BY <1>2, <1>3

\* GETDEL gives a live token to one request: nobody had consumed it.
LEMMA GetDelInv == ASSUME IInv, NEW x \in Slots, GetDel(x) PROVE IInv'
<1> DEFINE token == job[x].token
<1>1. /\ job[x].op = "refresh" /\ job[x].at = "getdel" /\ live' = live \ {token}
      /\ UNCHANGED <<revoked, parent, stale, browser>>
  BY DEF GetDel, Handles, LiveAfterGet
<1>2. CASE token \notin live
  <2>1. Answer(x, "401", NoPair)
    BY <1>2 DEF GetDel
  <2> QED
    BY <1>1, <2>1, LiveFacts, AnswerInv
<1>3. CASE token \in live
  <2>1. Proceed(x, "blacklist")
    BY <1>3 DEF GetDel
  <2>2. /\ \A y \in Slots \ {x} : job'[y] = job[y]
        /\ job'[x].op = "refresh" /\ job'[x].token = token /\ job'[x].at = "blacklist"
    BY <1>1, <2>1, ProceedFacts
  <2>3. Issued' = Issued
    BY <1>1 DEF Issued
  <2>4. Childless(token) /\ token \notin live' /\ \A y \in Slots : Consumed(y) => job[y].token # token
    BY <1>1, <1>3 DEF IInv, Rotation, RotatedOnce, Childless
  <2>5. RotatedOnce'
    BY <1>1, <2>3 DEF IInv, Rotation, RotatedOnce
  <2> HIDE DEF token
  <2>6. \A y \in Slots \ {x} : Consumed(y)' => Consumed(y) /\ job'[y].token = job[y].token
    BY <2>2 DEF Consumed
  <2>7. \A n : Childless(n) => \A m \in Issued' : parent'[m] # n
    BY <1>1, <2>3 DEF Childless
  <2>8. ASSUME NEW y \in Slots, Consumed(y)'
        PROVE  /\ job'[y].token \notin live' /\ Childless(job[y].token) /\ job'[y].token = job[y].token
               /\ \A z \in Slots : Consumed(z)' /\ z # y => job'[z].token # job'[y].token
    <3>1. CASE y = x
      BY <2>2, <2>4, <2>6, <3>1 DEF token
    <3>2. CASE y # x
      <4>1. Consumed(y) /\ job'[y].token = job[y].token
        BY <2>6, <2>8, <3>2
      <4>2. /\ job[y].token \notin live /\ Childless(job[y].token)
            /\ \A z \in Slots : Consumed(z) /\ z # y => job[z].token # job[y].token
        BY <4>1 DEF IInv, Rotation
      <4>3. ASSUME NEW z \in Slots, Consumed(z)', z # y
            PROVE  job'[z].token # job'[y].token
        <5>1. CASE z = x
          BY <2>2, <2>4, <4>1, <5>1
        <5>2. CASE z # x
          BY <2>6, <4>1, <4>2, <4>3, <5>2
        <5> QED
          BY <5>1, <5>2
      <4> QED
        BY <1>1, <4>1, <4>2, <4>3
    <3> QED
      BY <3>1, <3>2
  <2>9. Rotation'
    <3>1. ASSUME NEW y \in Slots, Consumed(y)'
          PROVE  Childless(job[y].token)'
      <4>1. Childless(job[y].token) /\ job'[y].token = job[y].token
        BY <2>8, <3>1
      <4> QED
        BY <2>7, <4>1 DEF Childless
    <3> QED
      BY <2>5, <2>8, <3>1 DEF Rotation
  <2> QED
    BY <1>1, <2>1, <2>9, LiveFacts, ProceedInv
<1> QED
  BY <1>2, <1>3

LEMMA BlacklistInv == ASSUME IInv, NEW x \in Slots, Blacklist(x) PROVE IInv'
<1>1. /\ job[x].op = "refresh" /\ job[x].at = "blacklist" /\ revoked' = revoked \cup {job[x].token}
      /\ Proceed(x, "issue") /\ UNCHANGED <<live, parent, stale, browser>>
  BY DEF Blacklist, Handles
<1>2. Consumed(x) /\ job[x].token \notin live
  BY <1>1 DEF Consumed, IInv, Rotation
<1>3. job[x].token \in Issued
  BY <1>1, SlotFacts DEF JobOk
<1>4. live' \cap revoked' = {} /\ revoked' \subseteq Issued
  BY <1>1, <1>2, <1>3, LiveFacts
<1>5. Rotation'
  BY <1>1, <1>2, <1>4, ProceedRotates
<1> QED
  BY <1>1, <1>4, <1>5, LiveFacts, ProceedInv

LEMMA RevokeInv == ASSUME IInv, NEW x \in Slots, Revoke(x) PROVE IInv'
<1>1. /\ job[x].op = "logout" /\ job[x].at = "start" /\ revoked' = revoked \cup {job[x].token}
      /\ live' = live \ {job[x].token} /\ Answer(x, "ok", NoPair) /\ UNCHANGED <<parent, stale, browser>>
  BY DEF Revoke, Handles, LiveAfterLogout
<1>2. live' \cap revoked' = {} /\ live' \subseteq live
  BY <1>1, LiveFacts
<1>3. job[x].token \in Issued
  BY <1>1, SlotFacts DEF JobOk
<1> QED
  BY <1>1, <1>2, <1>3, LiveFacts, AnswerInv

LEMMA CutOffInv == ASSUME IInv, NEW x \in Slots, CutOff(x) PROVE IInv'
<1>1. ~Awaited(x) /\ job' = [job EXCEPT ![x] = NoJob] /\ UNCHANGED <<server, browser>>
  BY DEF CutOff
<1>2. job \in [Slots -> Jobs]
  BY DEF IInv, Typed
<1>3. job' \in [Slots -> Jobs] /\ job'[x] = NoJob /\ \A y \in Slots \ {x} : job'[y] = job[y]
  BY <1>1, <1>2, NoJobTyped
<1>4. JobOk(x)'
  BY <1>3, NoJobTyped DEF JobOk, Answered
<1>5. \A y \in Slots : Consumed(y)' => Consumed(y) /\ job'[y].token = job[y].token
  BY <1>3, NoJobTyped DEF Consumed
<1>6. Rotation'
  BY <1>1, <1>5, LiveFacts, RotationKeeps DEF server
<1> QED
  BY <1>1, <1>3, <1>4, <1>6, LiveFacts, ServerStep DEF server

\* Redis and the clock let tokens go and keys expire.
LEMMA ExpireInv == ASSUME IInv, NEW n \in Pairs, ExpireAccess(n) \/ ExpireRefresh(n) \/ ExpireRevoked(n) PROVE IInv'
<1>1. /\ UNCHANGED <<parent, browser, job>> /\ live' \subseteq live /\ revoked' \subseteq revoked /\ stale' \subseteq Issued
  BY LiveFacts DEF ExpireAccess, ExpireRefresh, ExpireRevoked
<1>2. Issued' = Issued
  BY <1>1 DEF Issued
<1>3. live' \cap revoked' = {}
  BY <1>1, LiveFacts
<1>4. \A y \in Slots : Consumed(y)' => Consumed(y) /\ job'[y].token = job[y].token
  BY <1>1 DEF Consumed
<1>5. Rotation'
  BY <1>1, <1>3, <1>4, RotationKeeps
<1>6. Typed'
  <2>1. \A y \in Slots : job'[y].token \in Issued \cup {NoPair} /\ job'[y].pair \in Issued \cup {NoPair}
    BY <1>1, SlotFacts
  <2> QED
    BY <1>1, <2>1, LiveFacts, TypedKeeps DEF browser, IInv, Typed, TypeOK, Calls
<1>7. \A y \in Slots : JobOk(y)'
  BY <1>1 DEF IInv, JobOk, Awaited, browser
<1>8. \A c \in Call : CallOk(c)'
  BY <1>1 DEF IInv, CallOk, browser
<1>9. Secret'
  BY <1>1, <1>2 DEF IInv, Secret, SecretOf, Known, Presents, Childless, browser
<1>10. Opened'
  BY <1>1, <1>2 DEF IInv, Opened, Alone, Unspent, Childless, browser
<1> QED
  BY <1>5, <1>6, <1>7, <1>8, <1>9, <1>10 DEF IInv

\* A pair is issued: the next number, whose parent is the token of the request,
\* consumed by it alone.
LEMMA IssueInv == ASSUME IInv, NEW x \in Slots, Issue(x) PROVE IInv'
<1> DEFINE n == Cardinality(Issued) + 1
           token == job[x].token
<1>1. /\ job[x].at = "issue" /\ n \in Pairs /\ live' = live \cup {n} /\ parent' = [parent EXCEPT ![n] = token]
      /\ Answer(x, "ok", n) /\ UNCHANGED <<revoked, stale, browser>>
  BY DEF Issue
<1>2. PICK k \in 0 .. MaxPairs : Issued = 1 .. k
  BY DEF IInv, Typed
<1>3. n = k + 1 /\ Issued = 1 .. k /\ k \in Nat
  <2>1. k \in Nat /\ 1 \in Int /\ k \in Int
    BY Constants
  <2>2. Cardinality(1 .. k) = IF 1 > k THEN 0 ELSE k - 1 + 1
    BY <2>1, FS_Interval
  <2> QED
    BY <1>2, <2>1, <2>2
<1> HIDE DEF n
<1>4. job[x].op \in {"login", "refresh"} /\ (job[x].op = "login" => token = NoPair) /\ (job[x].op = "refresh" => token # NoPair)
  BY <1>1, SlotFacts, NoJobTyped DEF JobOk
<1>5. token \in Issued \cup {NoPair}
  BY SlotFacts
<1> HIDE DEF token
<1>6. parent \in [Pairs -> Tokens]
  BY DEF IInv, Typed
<1>7. n \notin Issued /\ parent'[n] = token /\ parent' \in [Pairs -> Tokens] /\ token < n /\ \A m \in Pairs \ {n} : parent'[m] = parent[m]
  BY <1>1, <1>3, <1>5, <1>6, Constants DEF Tokens
<1>8. Issued' = Issued \cup {n} /\ Issued' = 1 .. n
  <2>1. \A m \in Pairs : m # n => (m \in Issued' <=> m \in Issued)
    BY <1>7 DEF Issued
  <2>2. n \in Issued'
    BY <1>1, <1>3, <1>5, <1>7, Constants DEF Issued
  <2>3. Issued' = Issued \cup {n}
    BY <1>1, <2>1, <2>2 DEF Issued
  <2> QED
    BY <1>3, <2>3
<1>9. /\ job' \in [Slots -> Jobs]
      /\ \A y \in Slots \ {x} : job'[y] = job[y]
      /\ ~Awaited(x) => job'[x] = NoJob
      /\ Awaited(x) => /\ job'[x].op = job[x].op /\ job'[x].token = token
                       /\ job'[x].at = "ok" /\ job'[x].pair = n
  BY <1>1, AnswerFacts DEF Tokens, token
<1>10. Awaited(x)' <=> Awaited(x)
  BY <1>1 DEF Awaited, browser
<1>11. /\ n # NoPair /\ n \notin live /\ n \notin revoked /\ n # token
       /\ \A m \in Issued : parent'[m] = parent[m] /\ parent[m] < m /\ parent[m] # n
       /\ \A y \in Slots : job[y].token # n /\ job[y].pair # n
       /\ stored # n /\ \A t \in Tab : tok[t] # n
  <2>1. \A m \in Issued : parent'[m] = parent[m] /\ parent[m] < m /\ parent[m] \in Nat
    BY <1>3, <1>6, <1>7, Constants, LiveFacts DEF Tokens, IInv, Typed, TypeOK
  <2>2. \A m \in Issued : parent[m] # n
    BY <1>3, <2>1
  <2>3. n # NoPair /\ n # token /\ \A y \in Slots : job[y].token # n /\ job[y].pair # n
    BY <1>5, <1>7, Constants, SlotFacts, <1>1
  <2>4. stored # n /\ \A t \in Tab : tok[t] # n
    BY <1>1, <1>7, Constants DEF IInv, Typed, TypeOK
  <2> QED
    BY <1>7, <2>1, <2>2, <2>3, <2>4, LiveFacts
<1>12. \/ token = NoPair /\ ~Consumed(x)
       \/ /\ token # NoPair /\ Consumed(x) /\ token \notin live /\ Childless(token)
          /\ \A y \in Slots : Consumed(y) /\ y # x => job[y].token # token
  BY <1>1, <1>4 DEF Consumed, IInv, Rotation, token
<1>13. \A y \in Slots : Consumed(y)' => y # x /\ Consumed(y) /\ job'[y].token = job[y].token
  BY <1>9, NoJobTyped DEF Consumed
<1>14. \A c : Childless(c) /\ c # token => \A m \in Issued' : parent'[m] # c
  BY <1>7, <1>8, <1>11 DEF Childless
<1>15. Typed'
  <2>1. \A y \in Slots : job'[y].token \in Issued \cup {NoPair} /\ job'[y].pair \in Issued \cup {NoPair, n}
    BY <1>5, <1>9, NoJobTyped, SlotFacts
  <2>2. \A y \in Slots : /\ job'[y].op \in {"none", "api", "login", "logout", "refresh"}
                         /\ job'[y].at \in {"none", "start", "getdel", "blacklist", "issue"} \cup Answered
    BY <1>9 DEF Jobs, Answered
  <2>3. \A m \in Issued' : parent'[m] < m /\ 1 .. m \subseteq Issued'
    BY <1>3, <1>7, <1>8, <1>11
  <2>4. /\ live' \subseteq Pairs /\ revoked' \subseteq Pairs /\ stale' \subseteq Issued'
        /\ live' \subseteq Issued' /\ revoked' \subseteq Issued'
    BY <1>1, <1>8, LiveFacts
  <2>5. /\ stored' \in Issued' \cup {NoPair} /\ open' \subseteq Tab /\ tok' \in [Tab -> Issued' \cup {NoPair}]
        /\ refreshing' \in [Tab -> {"none", "sent", "itself"}]
        /\ call' \in [Call -> Calls] /\ left' \in [Tab -> {"in", "out", "raced"}]
    BY <1>1, <1>8 DEF browser, IInv, Typed, TypeOK, Calls
  <2>6. TypeOK'
    BY <1>7, <1>8, <2>1, <2>2, <2>3, <2>4, <2>5 DEF TypeOK, Slots, Tokens, Calls
  <2>7. n \in 0 .. MaxPairs
    BY <1>1, Constants
  <2> QED
    BY <1>7, <1>8, <1>9, <2>4, <2>6, <2>7 DEF Typed
<1>16. \A y \in Slots : JobOk(y)'
  <2> TAKE y \in Slots
  <2>1. CASE y # x
    <3>1. job'[y] = job[y] /\ JobOk(y) /\ (Awaited(y)' <=> Awaited(y))
      BY <1>1, <1>9, <2>1, SlotFacts DEF Awaited, browser
    <3> QED
      BY <3>1 DEF JobOk
  <2>2. CASE y = x /\ ~Awaited(x)
    BY <1>9, <2>2, NoJobTyped DEF JobOk, Answered
  <2>3. CASE y = x /\ Awaited(x)
    <3>1. /\ job'[x].op = job[x].op /\ job'[x].token = token /\ job'[x].at = "ok" /\ job'[x].pair = n
          /\ Awaited(x)' /\ JobOk(x)
      BY <1>9, <1>10, <2>3, SlotFacts
    <3> QED
      BY <1>4, <1>11, <2>3, <3>1 DEF JobOk, Answered
  <2> QED
    BY <2>1, <2>2, <2>3
<1>17. \A c \in Call : CallOk(c)'
  <2> TAKE c \in Call
  <2>1. c \in Slots /\ CallOk(c) /\ call' = call /\ open' = open
    BY <1>1 DEF IInv, Slots, browser
  <2>2. call[c].step = "sent" => job'[c].op = job[c].op
    BY <1>9, <2>1, Constants DEF Awaited
  <2>3. job[c] = NoJob => job'[c] = NoJob
    BY <1>1, <1>9, <2>1, NoJobTyped
  <2> QED
    BY <2>1, <2>2, <2>3 DEF CallOk
<1>18. Rotation'
  <2>1. ASSUME NEW m \in Issued', NEW o \in Issued', parent'[m] = parent'[o], m # o
        PROVE  parent'[m] = NoPair
    <3>1. CASE m \in Issued /\ o \in Issued
      BY <1>11, <2>1, <3>1 DEF IInv, Rotation, RotatedOnce
    <3>2. CASE m = n \/ o = n
      BY <1>7, <1>8, <1>11, <1>12, <2>1, <3>2 DEF Childless
    <3> QED
      BY <1>8, <3>1, <3>2
  <2>2. \A m \in Issued' : parent'[m] \notin live'
    <3>1. \A m \in Issued : parent'[m] \notin live'
      BY <1>1, <1>11 DEF IInv, Rotation, RotatedOnce
    <3>2. token \notin live'
      BY <1>1, <1>11, <1>12, LiveFacts, Constants
    <3> QED
      BY <1>7, <1>8, <3>1, <3>2
  <2>3. live' \cap revoked' = {}
    BY <1>1, <1>11, LiveFacts
  <2>4. ASSUME NEW y \in Slots, Consumed(y)'
        PROVE  /\ job'[y].token \notin live' /\ Childless(job[y].token)' /\ job'[y].token = job[y].token
               /\ \A z \in Slots : Consumed(z)' /\ z # y => job'[z].token # job'[y].token
    <3>1. y # x /\ Consumed(y) /\ job'[y] = job[y] /\ job[y].token # NoPair
      BY <1>9, <1>13, <2>4, SlotFacts DEF JobOk, Consumed
    <3>2. /\ job[y].token \notin live /\ Childless(job[y].token)
          /\ \A z \in Slots : Consumed(z) /\ z # y => job[z].token # job[y].token
      BY <3>1 DEF IInv, Rotation
    <3>3. job[y].token # token
      BY <1>12, <3>1
    <3>4. \A m \in Issued' : parent'[m] # job[y].token
      BY <1>14, <3>2, <3>3
    <3> QED
      BY <1>1, <1>11, <1>13, <3>1, <3>2, <3>4 DEF Childless
  <2> QED
    BY <2>1, <2>2, <2>3, <2>4 DEF Rotation, RotatedOnce, Childless
<1>19. Secret'
  <2>1. ASSUME NEW y \in Slots, NEW m, job'[y].pair = m, m # NoPair
        PROVE  /\ m # stored' /\ (\A t \in Tab : tok'[t] # m) /\ (\A z \in Slots : job'[z].token # m)
               /\ \A k1 \in Issued' : parent'[k1] # m
               /\ \A z \in Slots : z # y => job'[z].pair # m
    <3>1. \A z \in Slots : job'[z].token = m => job[z].token = m
      BY <1>9, <2>1, NoJobTyped DEF token
    <3>2. CASE y # x
      <4>1. job[y].pair = m /\ m # n
        BY <1>9, <1>11, <2>1, <3>2
      <4>2. ~Known(m) /\ Childless(m) /\ \A z \in Slots : z # y => job[z].pair # m
        BY <2>1, <4>1 DEF IInv, Secret, SecretOf
      <4>3. token # m
        BY <4>2 DEF Known, Presents, token
      <4>4. \A z \in Slots : z # y => job'[z].pair # m
        BY <1>9, <2>1, <4>1, <4>2, NoJobTyped
      <4> QED
        BY <1>1, <1>14, <3>1, <4>2, <4>3, <4>4 DEF Known, Presents, browser
    <3>3. CASE y = x
      <4>1. m = n
        BY <1>9, <2>1, <3>3, NoJobTyped
      <4> QED
        BY <1>1, <1>7, <1>8, <1>9, <1>11, <3>1, <3>3, <4>1 DEF browser
    <3> QED
      BY <3>2, <3>3
  <2> QED
    BY <2>1 DEF Secret, SecretOf, Known, Presents, Childless
<1>20. Opened'
  <2>1. ASSUME NEW m, m # NoPair, Unspent(m)
        PROVE  Unspent(m)'
    <3>1. token # m
      BY <1>4, <2>1 DEF Unspent, token
    <3>2. \A y \in Slots : job'[y].op = "refresh" => job[y].op = "refresh" /\ job'[y].token = job[y].token
      BY <1>9, NoJobTyped DEF token
    <3> QED
      BY <1>14, <2>1, <3>1, <3>2 DEF Unspent, Childless
  <2> QED
    BY <1>1, <2>1 DEF IInv, Opened, Alone, browser
<1> QED
  BY <1>15, <1>16, <1>17, <1>18, <1>19, <1>20 DEF IInv
-----------------------------------------------------------------------------
(* The browser's steps leave the server's tokens alone. *)

LEMMA JobFacts ==
  ASSUME NEW route \in {"api", "login", "logout", "refresh"}, NEW token \in Tokens
  PROVE  LET j == Job(route, token) IN
         /\ j \in Jobs /\ j.op = route /\ j.token = token /\ j.pair = NoPair
         /\ j.at = IF route = "login" THEN "issue" ELSE "start"
BY DEF Job, Jobs, Tokens

LEMMA BrowserFacts == IInv => /\ job \in [Slots -> Jobs] /\ Call \subseteq Slots /\ Tab \subseteq Slots
                              /\ tok \in [Tab -> Issued \cup {NoPair}] /\ stored \in Issued \cup {NoPair}
                              /\ Issued \cup {NoPair} \subseteq Tokens /\ open \subseteq Tab
                              /\ refreshing \in [Tab -> {"none", "sent", "itself"}]
                              /\ call \in [Call -> Calls] /\ left \in [Tab -> {"in", "out", "raced"}]
                              /\ Idle \in Calls
BY DEF IInv, Typed, TypeOK, Slots, Tokens, Calls, Idle, Issued

\* A step of the browser that leaves each request alone, forgets it, or starts
\* another.
LEMMA BrowserRotates ==
  ASSUME IInv, UNCHANGED server, \A y \in Slots : job'[y] = job[y] \/ ~Consumed(y)'
  PROVE  Rotation' /\ Issued' = Issued
<1>1. \A y \in Slots : Consumed(y)' => Consumed(y) /\ job'[y].token = job[y].token
  BY DEF Consumed
<1>2. parent' = parent /\ live' \subseteq live /\ live' \cap revoked' = {}
  BY LiveFacts DEF server
<1> QED
  BY <1>1, <1>2, RotationKeeps DEF Issued

LEMMA BrowserTyped ==
  ASSUME IInv, UNCHANGED server, job' \in [Slots -> Jobs],
         \A x \in Slots : job'[x].token \in Issued \cup {NoPair} /\ job'[x].pair \in Issued \cup {NoPair},
         stored' \in Issued \cup {NoPair}, open' \subseteq Tab, tok' \in [Tab -> Issued \cup {NoPair}],
         refreshing' \in [Tab -> {"none", "sent", "itself"}], call' \in [Call -> Calls],
         left' \in [Tab -> {"in", "out", "raced"}]
  PROVE  Typed'
BY LiveFacts, TypedKeeps DEF server

LEMMA SendInv == ASSUME IInv, NEW c \in Call, NEW kind \in {"api", "login", "logout"}, Send(c, kind) PROVE IInv'
<1> DEFINE t == TabOf[c]
           route == IF kind \in {"login", "logout"} THEN kind ELSE "api"
           j == Job(route, tok[t])
           k == [kind |-> kind, step |-> "sent", retry |-> FALSE]
<1>1. /\ t \in open /\ call[c] = Idle /\ job[c] = NoJob /\ (kind = "login" <=> tok[t] = NoPair)
      /\ call' = [call EXCEPT ![c] = k] /\ job' = [job EXCEPT ![c] = j]
      /\ stored' = tok[t] /\ UNCHANGED <<server, open, refreshing, left, tok>>
  BY DEF Send, Touch
<1>2. t \in Tab /\ c \in Slots /\ c \notin Tab /\ tok[t] \in Issued \cup {NoPair}
  BY Constants, BrowserFacts
<1>3. route \in {"api", "login", "logout"} /\ route = kind
  OBVIOUS
<1>4. j \in Jobs /\ j.op = route /\ j.token = tok[t] /\ j.pair = NoPair /\ j.at = IF route = "login" THEN "issue" ELSE "start"
  BY <1>2, <1>3, JobFacts, BrowserFacts
<1>5. k \in Calls /\ k.kind = kind /\ k.step = "sent"
  BY DEF Calls
<1> HIDE DEF j, k, route
<1>6. job' \in [Slots -> Jobs] /\ job'[c] = j /\ \A y \in Slots \ {c} : job'[y] = job[y]
  BY <1>1, <1>2, <1>4, BrowserFacts
<1>7. call' \in [Call -> Calls] /\ call'[c] = k /\ \A d \in Call \ {c} : call'[d] = call[d]
  BY <1>1, <1>5, BrowserFacts
<1>8. Rotation' /\ Issued' = Issued
  <2>1. ~Consumed(c)'
    BY <1>3, <1>4, <1>6 DEF Consumed
  <2> QED
    BY <1>1, <1>6, <2>1, BrowserRotates
<1>9. Typed'
  <2>1. \A y \in Slots : job'[y].token \in Issued \cup {NoPair} /\ job'[y].pair \in Issued \cup {NoPair}
    BY <1>2, <1>4, <1>6, SlotFacts
  <2> QED
    BY <1>1, <1>2, <1>6, <1>7, <2>1, BrowserFacts, BrowserTyped
<1>10. \A y \in Slots : JobOk(y)'
  <2> TAKE y \in Slots
  <2>1. CASE y # c
    <3>1. job'[y] = job[y] /\ JobOk(y) /\ (Awaited(y)' <=> Awaited(y))
      BY <1>1, <1>6, <1>7, <2>1, SlotFacts DEF Awaited, Slots
    <3> QED
      BY <3>1 DEF JobOk
  <2>2. CASE y = c
    BY <1>1, <1>2, <1>3, <1>4, <1>6, <2>2 DEF JobOk, Answered
  <2> QED
    BY <2>1, <2>2
<1>11. \A d \in Call : CallOk(d)'
  <2> TAKE d \in Call
  <2>1. CASE d # c
    <3>1. job'[d] = job[d] /\ CallOk(d) /\ call'[d] = call[d] /\ open' = open
      BY <1>1, <1>6, <1>7, <2>1, BrowserFacts DEF IInv
    <3> QED
      BY <3>1 DEF CallOk
  <2>2. CASE d = c
    BY <1>1, <1>3, <1>4, <1>5, <1>6, <1>7, <2>2 DEF CallOk
  <2> QED
    BY <2>1, <2>2
<1>12. Secret'
  <2>1. ASSUME NEW m \in Pairs, (\E s \in Tab : tok'[s] = m) \/ m = stored' \/ (\E y \in Slots : job'[y].token = m)
        PROVE  Known(m)
    BY <1>1, <1>2, <1>4, <1>6, <2>1 DEF Known, Presents
  <2> QED
    BY <1>1, <1>4, <1>6, <2>1, SecretStays DEF server
<1>13. Opened'
  <2>1. \A m : Unspent(m) => Unspent(m)'
    BY <1>1, <1>3, <1>4, <1>6, <1>8 DEF Unspent, Childless, server
  <2> QED
    BY <1>1, <2>1 DEF IInv, Opened, Alone
<1> QED
  BY <1>8, <1>9, <1>10, <1>11, <1>12, <1>13 DEF IInv

\* The request of c is over, or goes on with nobody waiting for it, and so is c.
LEMMA CallEnds ==
  ASSUME IInv, NEW c \in Call, call[c].step = "sent", Settle(c),
         \/ job' = [job EXCEPT ![c] = NoJob]
         \/ job[c].at \notin Answered /\ job' = job,
         UNCHANGED <<server, open, refreshing>>
  PROVE  /\ job' \in [Slots -> Jobs] /\ call' \in [Call -> Calls]
         /\ \A y \in Slots : job'[y] = job[y] \/ job'[y] = NoJob
         /\ \A y \in Slots : /\ job'[y].token = job[y].token \/ job'[y].token = NoPair
                             /\ job'[y].pair = job[y].pair \/ job'[y].pair = NoPair
                             /\ job'[y].op = "refresh" => job'[y] = job[y]
         /\ job'[c].pair = NoPair
         /\ Rotation' /\ Issued' = Issued
         /\ \A y \in Slots : JobOk(y)'
         /\ \A d \in Call : CallOk(d)'
<1>1. c \in Slots /\ call' = [call EXCEPT ![c] = Idle]
  BY BrowserFacts DEF Settle
<1>2. call' \in [Call -> Calls] /\ call'[c] = Idle /\ \A d \in Call \ {c} : call'[d] = call[d]
  BY <1>1, BrowserFacts
<1>3. /\ job' \in [Slots -> Jobs] /\ \A y \in Slots \ {c} : job'[y] = job[y]
      /\ job'[c] = NoJob \/ (job'[c] = job[c] /\ job[c].at \notin Answered)
  <2>1. CASE job' = [job EXCEPT ![c] = NoJob]
    BY <1>1, <2>1, BrowserFacts, NoJobTyped
  <2>2. CASE job[c].at \notin Answered /\ job' = job
    BY <2>2, BrowserFacts
  <2> QED
    BY <2>1, <2>2
<1>4. \A y \in Slots : /\ job'[y] = job[y] \/ job'[y] = NoJob
                       /\ job'[y].token = job[y].token \/ job'[y].token = NoPair
                       /\ job'[y].pair = job[y].pair \/ job'[y].pair = NoPair
                       /\ job'[y].op = "refresh" => job'[y] = job[y]
  BY <1>3, NoJobTyped
<1>5. job'[c].pair = NoPair
  BY <1>1, <1>3, NoJobTyped, SlotFacts DEF JobOk, Answered
<1>6. Rotation' /\ Issued' = Issued
  <2>1. \A y \in Slots : job'[y] = job[y] \/ ~Consumed(y)'
    BY <1>4, NoJobTyped DEF Consumed
  <2> QED
    BY <2>1, BrowserRotates
<1>7. \A y \in Slots : JobOk(y)'
  <2> TAKE y \in Slots
  <2>1. CASE y # c
    <3>1. job'[y] = job[y] /\ JobOk(y) /\ (Awaited(y)' <=> Awaited(y))
      BY <1>2, <1>3, <2>1, SlotFacts DEF Awaited, Slots
    <3> QED
      BY <3>1 DEF JobOk
  <2>2. CASE y = c /\ job'[c] = NoJob
    BY <2>2, NoJobTyped DEF JobOk, Answered
  <2>3. CASE y = c /\ job'[c] = job[c] /\ job[c].at \notin Answered
    <3>1. JobOk(c)
      BY <1>1, SlotFacts
    <3> QED
      BY <2>3, <3>1 DEF JobOk
  <2> QED
    BY <1>3, <2>1, <2>2, <2>3
<1>8. \A d \in Call : CallOk(d)'
  <2> TAKE d \in Call
  <2>1. CASE d # c
    <3>1. job'[d] = job[d] /\ CallOk(d) /\ call'[d] = call[d] /\ open' = open
      BY <1>2, <1>3, <2>1, BrowserFacts DEF IInv
    <3> QED
      BY <3>1 DEF CallOk
  <2>2. CASE d = c
    BY <1>2, <2>2 DEF CallOk, Idle
  <2> QED
    BY <2>1, <2>2
<1> QED
  BY <1>2, <1>3, <1>4, <1>5, <1>6, <1>7, <1>8

\* After CallEnds, when the tab's tokens do not change or are dropped.
LEMMA NothingLearnt ==
  ASSUME IInv, NEW t \in Tab, UNCHANGED <<server, open, refreshing>>, t \in open,
         \A y \in Slots : /\ job'[y].token = job[y].token \/ job'[y].token = NoPair
                          /\ job'[y].pair = job[y].pair \/ job'[y].pair = NoPair
                          /\ job'[y].op = "refresh" => job'[y] = job[y],
         \/ Touch(t) /\ left' = left
         \/ clearAuth(t) /\ \E l \in {"out", "raced"} : /\ left' = [left EXCEPT ![t] = l]
                                                        /\ l = "out" => refreshing[t] = "none"
         \/ UNCHANGED <<stored, tok, left>>
  PROVE  /\ Secret' /\ Opened'
         /\ stored' \in Issued \cup {NoPair} /\ tok' \in [Tab -> Issued \cup {NoPair}]
         /\ left' \in [Tab -> {"in", "out", "raced"}]
<1>1. Issued' = Issued
  BY DEF server, Issued
<1>2. \/ tok' = tok /\ left' = left /\ (stored' = tok[t] \/ stored' = stored)
      \/ /\ tok' = [tok EXCEPT ![t] = NoPair] /\ stored' = NoPair
         /\ \E l \in {"out", "raced"} : left' = [left EXCEPT ![t] = l] /\ (l = "out" => refreshing[t] = "none")
  BY DEF Touch, clearAuth
<1>3. /\ stored' \in Issued \cup {NoPair} /\ tok' \in [Tab -> Issued \cup {NoPair}]
      /\ left' \in [Tab -> {"in", "out", "raced"}]
  BY <1>2, BrowserFacts
<1>4. Secret'
  <2>1. ASSUME NEW m \in Pairs, (\E s \in Tab : tok'[s] = m) \/ m = stored' \/ (\E y \in Slots : job'[y].token = m)
        PROVE  Known(m)
    <3>1. (\E s \in Tab : tok[s] = m) \/ m = stored \/ (\E y \in Slots : job[y].token = m)
      BY <1>2, <2>1, Constants, BrowserFacts
    <3> QED
      BY <3>1 DEF Known, Presents
  <2>2. \A y \in Slots : job'[y].pair # NoPair => job'[y].pair = job[y].pair
    OBVIOUS
  <2> QED
    BY <2>1, <2>2, SecretStays DEF server
<1>5. Opened'
  <2>1. \A m : Unspent(m) => Unspent(m)'
    BY <1>1 DEF Unspent, Childless, server
  <2>2. ASSUME NEW s \in Tab, open' = {s}
        PROVE  Alone(s)'
    <3>1. s = t /\ Alone(t)
      BY <2>2 DEF IInv, Opened
    <3>2. CASE tok' = tok /\ left' = left /\ (stored' = tok[t] \/ stored' = stored)
      BY <2>1, <3>1, <3>2 DEF Alone
    <3>3. CASE /\ tok' = [tok EXCEPT ![t] = NoPair] /\ stored' = NoPair
               /\ \E l \in {"out", "raced"} : left' = [left EXCEPT ![t] = l] /\ (l = "out" => refreshing[t] = "none")
      BY <3>1, <3>3, BrowserFacts DEF Alone
    <3> QED
      BY <1>2, <3>2, <3>3
  <2> QED
    BY <2>2 DEF IInv, Opened
<1> QED
  BY <1>3, <1>4, <1>5

LEMMA CallTokens ==
  ASSUME IInv,
         \A y \in Slots : /\ job'[y].token = job[y].token \/ job'[y].token = NoPair
                          /\ job'[y].pair = job[y].pair \/ job'[y].pair = NoPair
  PROVE  \A y \in Slots : job'[y].token \in Issued \cup {NoPair} /\ job'[y].pair \in Issued \cup {NoPair}
BY SlotFacts

\* A pair that was issued and is adopted by t: the one request that carried it
\* is over, so nobody else ever presents it.
LEMMA Adopted ==
  ASSUME IInv, NEW t \in Tab, NEW x \in Slots, NEW n, n # NoPair, job[x].pair = n, job'[x].pair = NoPair,
         t \in open, applyAuth(t, n), UNCHANGED <<server, open>>,
         \A s \in Tab : refreshing'[s] # "none" => s \in open,
         \A y \in Slots : /\ job'[y].token = job[y].token \/ job'[y].token = NoPair \/ job'[y].token = n
                          /\ job'[y].pair = job[y].pair \/ job'[y].pair = NoPair
                          /\ job'[y].op = "refresh" => job'[y] = job[y],
         open = {t} => left'[t] # "out"
  PROVE  /\ Secret' /\ Opened'
         /\ stored' \in Issued \cup {NoPair} /\ tok' \in [Tab -> Issued \cup {NoPair}]
<1>1. Issued' = Issued
  BY DEF server, Issued
<1>2. n \in Issued /\ ~Known(n) /\ Childless(n) /\ \A y \in Slots : y # x => job[y].pair # n
  BY SlotFacts DEF IInv, Secret, SecretOf
<1>3. tok' = [tok EXCEPT ![t] = n] /\ stored' = n
  BY DEF applyAuth
<1>4. \A y \in Slots : /\ job'[y].token = job[y].token \/ job'[y].token = NoPair \/ job'[y].token = n
                       /\ job'[y].pair # NoPair => y # x /\ job'[y].pair = job[y].pair
                       /\ job'[y].op = "refresh" => job'[y] = job[y]
  OBVIOUS
<1>5. stored' \in Issued \cup {NoPair} /\ tok' \in [Tab -> Issued \cup {NoPair}]
  BY <1>2, <1>3, BrowserFacts
<1>6. Secret'
  <2>1. ASSUME NEW m \in Pairs, (\E s \in Tab : tok'[s] = m) \/ m = stored' \/ (\E y \in Slots : job'[y].token = m)
        PROVE  Known(m) \/ m = n
    <3>1. m = n \/ (\E s \in Tab : tok[s] = m) \/ m = stored \/ (\E y \in Slots : job[y].token = m)
      BY <1>3, <1>4, <2>1, Constants, BrowserFacts
    <3> QED
      BY <3>1 DEF Known, Presents
  <2>2. \A y \in Slots : job'[y].pair # NoPair => job'[y].pair = job[y].pair /\ job[y].pair # n
    BY <1>2, <1>4
  <2>3. parent' = parent
    BY DEF server
  <2> QED
    BY <2>1, <2>2, <2>3, SecretKeeps
<1>7. Unspent(n)'
  <2>1. \A y \in Slots : job[y].token # n
    BY <1>2 DEF Known, Presents
  <2>2. \A y \in Slots : job'[y].op = "refresh" => job'[y].token # n
    BY <1>4, <2>1
  <2>3. \A m \in Issued' : parent'[m] # n
    BY <1>1, <1>2 DEF Childless, server
  <2> QED
    BY <2>2, <2>3 DEF Unspent, Childless
<1>8. tok'[t] = n /\ stored' = n
  BY <1>3, BrowserFacts
<1>9. open = {t} => Alone(t)'
  BY <1>7, <1>8 DEF Alone
<1>10. Opened'
  <2>1. \A s \in Tab : open' = {s} => s = t /\ open = {t}
    OBVIOUS
  <2> QED
    BY <1>9, <2>1 DEF Opened
<1> QED
  BY <1>5, <1>6, <1>10

LEMMA ReceiveInv == ASSUME IInv, NEW c \in Call, Receive(c) PROVE IInv'
<1> DEFINE t == TabOf[c]
<1>1. /\ call[c].step = "sent" /\ job[c].at = "ok" /\ job' = [job EXCEPT ![c] = NoJob] /\ Settle(c)
      /\ UNCHANGED <<server, open, refreshing>>
  BY DEF Receive
<1>2. t \in Tab /\ c \in Slots /\ t \in open /\ job[c].op = call[c].kind /\ c \notin Tab /\ JobOk(c)
  BY <1>1, Constants, BrowserFacts, SlotFacts DEF IInv, CallOk
<1>3. /\ job' \in [Slots -> Jobs] /\ call' \in [Call -> Calls]
      /\ \A y \in Slots : /\ job'[y].token = job[y].token \/ job'[y].token = NoPair
                          /\ job'[y].pair = job[y].pair \/ job'[y].pair = NoPair
                          /\ job'[y].op = "refresh" => job'[y] = job[y]
      /\ job'[c].pair = NoPair
      /\ Rotation' /\ Issued' = Issued
      /\ \A y \in Slots : JobOk(y)'
      /\ \A d \in Call : CallOk(d)'
  BY <1>1, CallEnds
<1>4. \A y \in Slots : job'[y].token \in Issued \cup {NoPair} /\ job'[y].pair \in Issued \cup {NoPair}
  BY <1>3, CallTokens
<1>5. /\ Secret' /\ Opened'
      /\ stored' \in Issued \cup {NoPair} /\ tok' \in [Tab -> Issued \cup {NoPair}]
      /\ left' \in [Tab -> {"in", "out", "raced"}]
  <2>1. CASE call[c].kind = "login" /\ applyAuth(t, job[c].pair) /\ left' = [left EXCEPT ![t] = "in"]
    <3>1. job[c].pair # NoPair
      BY <1>1, <1>2, <2>1 DEF JobOk
    <3>2. left'[t] # "out" /\ left' \in [Tab -> {"in", "out", "raced"}]
      BY <1>2, <2>1, BrowserFacts
    <3>3. \A s \in Tab : refreshing'[s] # "none" => s \in open
      BY <1>1 DEF IInv, Opened
    <3>4. PICK n : n = job[c].pair
      OBVIOUS
    <3>5. \A y \in Slots : /\ job'[y].token = job[y].token \/ job'[y].token = NoPair \/ job'[y].token = n
                           /\ job'[y].pair = job[y].pair \/ job'[y].pair = NoPair
                           /\ job'[y].op = "refresh" => job'[y] = job[y]
      BY <1>3
    <3>6. applyAuth(t, n) /\ n # NoPair
      BY <2>1, <3>1, <3>4
    <3> HIDE DEF t
    <3> QED
      BY <1>1, <1>2, <1>3, <3>2, <3>3, <3>4, <3>5, <3>6, Adopted
  <2>2. CASE /\ clearAuth(t)
             /\ left' = [left EXCEPT ![t] = IF Outstanding(t) THEN "raced" ELSE "out"]
    <3>1. \E l \in {"out", "raced"} : left' = [left EXCEPT ![t] = l] /\ (l = "out" => refreshing[t] = "none")
      BY <2>2 DEF Outstanding
    <3> HIDE DEF t
    <3> QED
      BY <1>1, <1>2, <1>3, <2>2, <3>1, NothingLearnt
  <2>3. CASE Touch(t) /\ UNCHANGED left
    <3> HIDE DEF t
    <3> QED
      BY <1>1, <1>2, <1>3, <2>3, NothingLearnt
  <2> QED
    BY <2>1, <2>2, <2>3 DEF Receive
<1>6. Typed'
  <2>1. open' \subseteq Tab /\ refreshing' \in [Tab -> {"none", "sent", "itself"}]
    BY <1>1, BrowserFacts
  <2> QED
    BY <1>1, <1>3, <1>4, <1>5, <2>1, BrowserTyped
<1> QED
  BY <1>3, <1>5, <1>6 DEF IInv

LEMMA AbortInv == ASSUME IInv, NEW c \in Call, Abort(c) PROVE IInv'
<1> DEFINE t == TabOf[c]
<1>1. /\ call[c].step = "sent" /\ Settle(c) /\ UNCHANGED <<server, open, refreshing>>
      /\ job' = [job EXCEPT ![c] = IF @.at \in Answered THEN NoJob ELSE @]
  BY DEF Abort
<1>2. t \in Tab /\ c \in Slots /\ t \in open
  BY <1>1, Constants, BrowserFacts DEF IInv, CallOk
<1>3. \/ job' = [job EXCEPT ![c] = NoJob]
      \/ job[c].at \notin Answered /\ job' = job
  BY <1>1, BrowserFacts
<1>4. /\ job' \in [Slots -> Jobs] /\ call' \in [Call -> Calls]
      /\ \A y \in Slots : /\ job'[y].token = job[y].token \/ job'[y].token = NoPair
                          /\ job'[y].pair = job[y].pair \/ job'[y].pair = NoPair
                          /\ job'[y].op = "refresh" => job'[y] = job[y]
      /\ Rotation' /\ Issued' = Issued
      /\ \A y \in Slots : JobOk(y)'
      /\ \A d \in Call : CallOk(d)'
  BY <1>1, <1>3, CallEnds
<1>5. \A y \in Slots : job'[y].token \in Issued \cup {NoPair} /\ job'[y].pair \in Issued \cup {NoPair}
  BY <1>4, CallTokens
<1>6. \/ Touch(t) /\ left' = left
      \/ clearAuth(t) /\ \E l \in {"out", "raced"} : /\ left' = [left EXCEPT ![t] = l]
                                                     /\ l = "out" => refreshing[t] = "none"
  <2>1. CASE call[c].kind = "logout"
    BY <2>1 DEF Abort, Outstanding
  <2>2. CASE call[c].kind # "logout"
    BY <2>2 DEF Abort
  <2> QED
    BY <2>1, <2>2
<1> HIDE DEF t
<1>7. /\ Secret' /\ Opened'
      /\ stored' \in Issued \cup {NoPair} /\ tok' \in [Tab -> Issued \cup {NoPair}]
      /\ left' \in [Tab -> {"in", "out", "raced"}]
  BY <1>1, <1>2, <1>4, <1>6, NothingLearnt
<1>8. Typed'
  <2>1. open' \subseteq Tab /\ refreshing' \in [Tab -> {"none", "sent", "itself"}]
    BY <1>1, BrowserFacts
  <2> QED
    BY <1>1, <1>4, <1>5, <1>7, <2>1, BrowserTyped
<1> QED
  BY <1>4, <1>7, <1>8 DEF IInv

\* A 401 ends the call, or makes it wait for the tab's refresh.
LEMMA UnauthorizedInv == ASSUME IInv, NEW c \in Call, Unauthorized(c) PROVE IInv'
<1> DEFINE t == TabOf[c]
<1>1. call[c].step = "sent" /\ job[c].at = "401" /\ UNCHANGED <<server, stored, open, tok, left>>
  BY DEF Unauthorized
<1>2. /\ t \in Tab /\ c \in Slots /\ t \in open /\ job[c].op = call[c].kind /\ c \notin Tab /\ c # t /\ t \in Slots
      /\ call[c].kind = "api" /\ JobOk(c) /\ JobOk(t)
  <2>1. t \in Tab /\ c \in Slots /\ t \in open /\ job[c].op = call[c].kind /\ c \notin Tab /\ t \in Slots /\ JobOk(c) /\ JobOk(t)
    BY <1>1, Constants, BrowserFacts, SlotFacts DEF IInv, CallOk
  <2>2. call[c].kind = "api"
    BY <1>1, <2>1, NoJobTyped, SlotFacts DEF JobOk
  <2> QED
    BY <2>1, <2>2
<1>3. CASE call[c].retry \/ tok[t] = NoPair
  <2>1. job' = [job EXCEPT ![c] = NoJob] /\ Settle(c) /\ UNCHANGED refreshing
    BY <1>3 DEF Unauthorized
  <2>2. /\ job' \in [Slots -> Jobs] /\ call' \in [Call -> Calls]
        /\ \A y \in Slots : /\ job'[y].token = job[y].token \/ job'[y].token = NoPair
                            /\ job'[y].pair = job[y].pair \/ job'[y].pair = NoPair
                            /\ job'[y].op = "refresh" => job'[y] = job[y]
        /\ Rotation' /\ Issued' = Issued
        /\ \A y \in Slots : JobOk(y)'
        /\ \A d \in Call : CallOk(d)'
    BY <1>1, <2>1, CallEnds
  <2>3. \A y \in Slots : job'[y].token \in Issued \cup {NoPair} /\ job'[y].pair \in Issued \cup {NoPair}
    BY <2>2, CallTokens
  <2> HIDE DEF t
  <2>4. /\ Secret' /\ Opened'
        /\ stored' \in Issued \cup {NoPair} /\ tok' \in [Tab -> Issued \cup {NoPair}]
        /\ left' \in [Tab -> {"in", "out", "raced"}]
    BY <1>1, <1>2, <2>1, <2>2, NothingLearnt
  <2>5. open' \subseteq Tab /\ refreshing' \in [Tab -> {"none", "sent", "itself"}]
    BY <1>1, <2>1, BrowserFacts
  <2>6. Typed'
    BY <1>1, <2>2, <2>3, <2>4, <2>5, BrowserTyped
  <2> QED
    BY <2>2, <2>4, <2>6 DEF IInv
<1>4. CASE ~(call[c].retry \/ tok[t] = NoPair)
  <2> DEFINE k == [kind |-> call[c].kind, step |-> "awaiting", retry |-> call[c].retry]
             j == Job("refresh", tok[t])
             first == refreshing[t] = "none"
  <2>1. /\ call' = [call EXCEPT ![c].step = "awaiting"]
        /\ refreshing' = [refreshing EXCEPT ![t] = IF @ = "none" THEN "sent" ELSE @]
        /\ job' = [x \in Slots |-> IF x = c THEN NoJob ELSE IF x = t /\ first THEN j ELSE job[x]]
        /\ tok[t] # NoPair
    BY <1>4 DEF Unauthorized, Slots
  <2>2. tok[t] \in Issued \cup {NoPair} /\ tok[t] \in Tokens
    BY <1>2, BrowserFacts
  <2>3. j \in Jobs /\ j.op = "refresh" /\ j.token = tok[t] /\ j.pair = NoPair /\ j.at = "start"
    BY <2>2, JobFacts
  <2>4. /\ call' \in [Call -> Calls] /\ call'[c].kind = "api" /\ call'[c].step = "awaiting"
        /\ \A d \in Call \ {c} : call'[d] = call[d]
    <3>1. call[c] \in Calls
      BY BrowserFacts
    <3>2. [call[c] EXCEPT !.step = "awaiting"] = k
      BY <3>1 DEF Calls
    <3>3. call' = [call EXCEPT ![c] = k]
      BY <2>1, <3>2
    <3>4. k \in Calls /\ k.kind = "api" /\ k.step = "awaiting"
      BY <1>2, <3>1 DEF Calls
    <3> HIDE DEF k
    <3> QED
      BY <3>3, <3>4, BrowserFacts
  <2> HIDE DEF j
  <2>5. /\ job' \in [Slots -> Jobs] /\ job'[c] = NoJob
        /\ first => job'[t] = j
        /\ ~first => job'[t] = job[t]
        /\ \A y \in Slots \ {c, t} : job'[y] = job[y]
    BY <1>2, <2>1, <2>3, BrowserFacts, NoJobTyped
  <2>6. /\ refreshing' \in [Tab -> {"none", "sent", "itself"}] /\ refreshing'[t] # "none"
        /\ ~first => refreshing' = refreshing
        /\ \A s \in Tab \ {t} : refreshing'[s] = refreshing[s]
    BY <1>2, <2>1, BrowserFacts
  <2> HIDE DEF first, t
  <2>7. \A y \in Slots : /\ job'[y].token \in {job[y].token, NoPair, tok[t]}
                         /\ job'[y].pair = job[y].pair \/ job'[y].pair = NoPair
                         /\ job'[y] = job[y] \/ job'[y].at \in {"none", "start"}
    BY <2>3, <2>5, NoJobTyped
  <2>8. Rotation' /\ Issued' = Issued
    <3>1. \A y \in Slots : job'[y] = job[y] \/ ~Consumed(y)'
      BY <2>7 DEF Consumed
    <3> QED
      BY <1>1, <3>1, BrowserRotates
  <2>9. Typed'
    <3>1. \A y \in Slots : job'[y].token \in Issued \cup {NoPair} /\ job'[y].pair \in Issued \cup {NoPair}
      BY <2>2, <2>7, SlotFacts
    <3> QED
      BY <1>1, <2>4, <2>5, <2>6, <3>1, BrowserFacts, BrowserTyped
  <2>10. \A y \in Slots : JobOk(y)'
    <3> TAKE y \in Slots
    <3>1. CASE y = c
      BY <2>5, <3>1, NoJobTyped DEF JobOk, Answered
    <3>2. CASE y = t /\ first
      BY <1>2, <2>1, <2>3, <2>5, <3>2 DEF JobOk, Answered
    <3>3. CASE y # c /\ (y = t => ~first)
      <4>1. job'[y] = job[y] /\ JobOk(y) /\ (Awaited(y)' <=> Awaited(y))
        BY <2>4, <2>5, <2>6, <3>3, SlotFacts DEF Awaited, Slots
      <4> QED
        BY <4>1 DEF JobOk
    <3> QED
      BY <3>1, <3>2, <3>3
  <2>11. \A d \in Call : CallOk(d)'
    <3> TAKE d \in Call
    <3>1. CASE d # c
      <4>1. job'[d] = job[d] /\ CallOk(d) /\ call'[d] = call[d] /\ open' = open
        BY <1>1, <1>2, <2>4, <2>5, <3>1, Constants, BrowserFacts DEF IInv
      <4> QED
        BY <4>1 DEF CallOk
    <3>2. CASE d = c
      BY <1>1, <1>2, <2>4, <2>5, <3>2 DEF CallOk, t
    <3> QED
      BY <3>1, <3>2
  <2>12. Secret'
    <3>1. ASSUME NEW m \in Pairs, (\E s \in Tab : tok'[s] = m) \/ m = stored' \/ (\E y \in Slots : job'[y].token = m)
          PROVE  Known(m)
      BY <1>1, <1>2, <2>7, <3>1, Constants DEF Known, Presents
    <3> QED
      BY <1>1, <2>7, <3>1, SecretStays DEF server
  <2>13. Opened'
    <3>1. ASSUME NEW s \in Tab, open' = {s}
          PROVE  Alone(s)'
      <4>1. s = t /\ Alone(t)
        BY <1>1, <1>2, <3>1 DEF IInv, Opened
      <4> QED
        BY <1>1, <2>1, <2>6, <4>1 DEF Alone, t
    <3>2. \A s \in Tab : refreshing'[s] # "none" => s \in open'
      BY <1>1, <1>2, <2>6 DEF IInv, Opened
    <3> QED
      BY <1>1, <1>2, <3>1, <3>2 DEF Opened
  <2> QED
    BY <2>8, <2>9, <2>10, <2>11, <2>12, <2>13 DEF IInv
<1> QED
  BY <1>3, <1>4

\* The refresh of t is over: the calls that wait for it fail or are sent again.
LEMMA ResolveFacts ==
  ASSUME IInv, NEW t \in Tab, NEW n \in Issued \cup {NoPair}, Resolve(t, n), refreshing[t] = "sent"
  PROVE  /\ UNCHANGED <<server, open, left>> /\ t \in open
         /\ job' \in [Slots -> Jobs] /\ call' \in [Call -> Calls]
         /\ refreshing' \in [Tab -> {"none", "sent", "itself"}] /\ refreshing'[t] = "none"
         /\ \A s \in Tab : refreshing'[s] # "none" => s \in open
         /\ \A y \in Slots : /\ job'[y].token = job[y].token \/ job'[y].token = NoPair \/ job'[y].token = n
                             /\ job'[y].pair = job[y].pair \/ job'[y].pair = NoPair
                             /\ job'[y].op = "refresh" => job'[y] = job[y]
         /\ job'[t].pair = NoPair
         /\ Rotation' /\ Issued' = Issued
         /\ \A y \in Slots : JobOk(y)'
         /\ \A d \in Call : CallOk(d)'
<1> DEFINE waiting == {c \in CallsOf(t) : call[c].step = "awaiting"}
           j == Job("api", n)
           over == job[t].at \in Answered
<1>1. /\ refreshing' = [refreshing EXCEPT ![t] = "none"]
      /\ call' = [c \in Call |->
           IF c \notin waiting THEN call[c]
           ELSE IF n = NoPair THEN Idle ELSE [call[c] EXCEPT !.step = "sent", !.retry = TRUE]]
      /\ job' = [x \in Slots |->
           IF x = t THEN (IF over THEN NoJob ELSE job[t])
           ELSE IF x \in waiting /\ n # NoPair THEN j ELSE job[x]]
      /\ UNCHANGED <<server, open, left>>
  BY DEF Resolve, Slots
<1>2. t \in Slots /\ t \in open /\ JobOk(t) /\ waiting \subseteq Call /\ t \notin waiting
  BY BrowserFacts, SlotFacts, Constants DEF IInv, Opened, CallsOf
<1>3. j \in Jobs /\ j.op = "api" /\ j.token = n /\ j.pair = NoPair /\ j.at = "start"
  BY JobFacts, BrowserFacts
<1>4. \A c \in waiting : /\ call[c].kind = "api" /\ job[c] = NoJob /\ TabOf[c] \in open /\ c \in Call /\ c \in Slots
                         /\ call[c] \in Calls /\ call[c].step = "awaiting"
  BY BrowserFacts DEF IInv, CallOk, CallsOf
<1>5. /\ call' \in [Call -> Calls] /\ \A c \in Call \ waiting : call'[c] = call[c]
      /\ n = NoPair => \A c \in waiting : call'[c] = Idle
      /\ n # NoPair => \A c \in waiting : call'[c].kind = "api" /\ call'[c].step = "sent"
  <2> DEFINE Again(c) == [call[c] EXCEPT !.step = "sent", !.retry = TRUE]
  <2>1. ASSUME NEW c \in waiting
        PROVE  Again(c) \in Calls /\ Again(c).kind = "api" /\ Again(c).step = "sent"
    <3> DEFINE r == [call[c] EXCEPT !.step = "sent"]
    <3>1. call[c] \in Calls /\ call[c].kind = "api"
      BY <1>4
    <3>2. r \in Calls /\ r.kind = "api" /\ r.step = "sent"
      BY <3>1 DEF Calls
    <3>3. Again(c) = [r EXCEPT !.retry = TRUE]
      BY <3>1 DEF Calls
    <3> HIDE DEF r, Again
    <3>4. [r EXCEPT !.retry = TRUE] \in Calls
      BY <3>2 DEF Calls
    <3>5. [r EXCEPT !.retry = TRUE].kind = r.kind /\ [r EXCEPT !.retry = TRUE].step = r.step
      BY <3>2 DEF Calls
    <3> QED
      BY <3>2, <3>3, <3>4, <3>5
  <2> HIDE DEF Again, waiting
  <2>2. call' = [c \in Call |-> IF c \notin waiting THEN call[c] ELSE IF n = NoPair THEN Idle ELSE Again(c)]
    BY <1>1 DEF waiting, Again
  <2> QED
    BY <1>2, <2>1, <2>2, BrowserFacts
<1> HIDE DEF j
<1>6. /\ job' \in [Slots -> Jobs]
      /\ over => job'[t] = NoJob
      /\ ~over => job'[t] = job[t]
      /\ \A y \in waiting : n # NoPair => job'[y] = j
      /\ \A y \in waiting : n = NoPair => job'[y] = job[y]
      /\ \A y \in Slots \ waiting : y # t => job'[y] = job[y]
  <2> HIDE DEF waiting, over
  <2> QED
    BY <1>1, <1>2, <1>3, <1>4, BrowserFacts, NoJobTyped
<1>7. /\ refreshing' \in [Tab -> {"none", "sent", "itself"}] /\ refreshing'[t] = "none"
      /\ \A s \in Tab : refreshing'[s] # "none" => s \in open
      /\ \A s \in Tab \ {t} : refreshing'[s] = refreshing[s]
  BY <1>1, BrowserFacts DEF IInv, Opened
<1>8. ~over => job[t].pair = NoPair
  BY <1>2 DEF JobOk, Answered
<1> HIDE DEF over, waiting
<1>9. \A y \in Slots : /\ job'[y].token = job[y].token \/ job'[y].token = NoPair \/ job'[y].token = n
                       /\ job'[y].pair = job[y].pair \/ job'[y].pair = NoPair
                       /\ job'[y].op = "refresh" => job'[y] = job[y]
                       /\ job'[y] = job[y] \/ job'[y].at \in {"none", "start"}
  BY <1>3, <1>6, NoJobTyped
<1>10. job'[t].pair = NoPair
  BY <1>6, <1>8, NoJobTyped
<1>11. Rotation' /\ Issued' = Issued
  <2>1. \A y \in Slots : job'[y] = job[y] \/ ~Consumed(y)'
    BY <1>9 DEF Consumed
  <2> QED
    BY <1>1, <2>1, BrowserRotates
<1>12. \A y \in Slots : JobOk(y)'
  <2> TAKE y \in Slots
  <2>1. CASE y = t /\ over
    BY <1>6, <2>1, NoJobTyped DEF JobOk, Answered
  <2>2. CASE y = t /\ ~over
    <3>1. job'[y] = job[y] /\ JobOk(y) /\ job[y].at \notin Answered
      BY <1>2, <1>6, <2>2 DEF over
    <3> QED
      BY <3>1 DEF JobOk
  <2>3. CASE y \in waiting /\ n # NoPair
    <3>1. y \in Call /\ y \notin Tab /\ job'[y] = j
      BY <1>4, <1>6, <2>3, Constants
    <3> QED
      BY <1>3, <3>1 DEF JobOk, Answered
  <2>4. CASE y \in waiting /\ n = NoPair
    <3>1. job'[y] = NoJob
      BY <1>4, <1>6, <2>4
    <3> QED
      BY <3>1, NoJobTyped DEF JobOk, Answered
  <2>5. CASE y # t /\ y \notin waiting
    <3>1. job'[y] = job[y] /\ JobOk(y) /\ (Awaited(y)' <=> Awaited(y))
      BY <1>5, <1>6, <1>7, <2>5, SlotFacts DEF Awaited, Slots
    <3> QED
      BY <3>1 DEF JobOk
  <2> QED
    BY <2>1, <2>2, <2>3, <2>4, <2>5
<1>13. \A d \in Call : CallOk(d)'
  <2> TAKE d \in Call
  <2>1. CASE d \notin waiting
    <3>1. d \in Slots /\ d # t /\ job'[d] = job[d] /\ CallOk(d) /\ call'[d] = call[d] /\ open' = open
      BY <1>1, <1>5, <1>6, <2>1, Constants, BrowserFacts DEF IInv
    <3> QED
      BY <3>1 DEF CallOk
  <2>2. CASE d \in waiting /\ n = NoPair
    BY <1>5, <2>2 DEF CallOk, Idle
  <2>3. CASE d \in waiting /\ n # NoPair
    BY <1>1, <1>3, <1>4, <1>5, <1>6, <2>3 DEF CallOk
  <2> QED
    BY <2>1, <2>2, <2>3
<1> QED
  BY <1>1, <1>2, <1>5, <1>6, <1>7, <1>9, <1>10, <1>11, <1>12, <1>13

LEMMA RefreshedInv == ASSUME IInv, NEW t \in Tab, Refreshed(t) PROVE IInv'
<1>1. PICK n : n = job[t].pair
  OBVIOUS
<1>2. refreshing[t] = "sent" /\ job[t].at = "ok" /\ applyAuth(t, n) /\ Resolve(t, n)
  BY <1>1 DEF Refreshed
<1>3. t \in Slots /\ n # NoPair /\ n \in Issued \cup {NoPair} /\ job[t].pair = n
  BY <1>1, <1>2, BrowserFacts, SlotFacts, NoJobTyped DEF JobOk
<1>4. /\ UNCHANGED <<server, open, left>> /\ t \in open
      /\ job' \in [Slots -> Jobs] /\ call' \in [Call -> Calls]
      /\ refreshing' \in [Tab -> {"none", "sent", "itself"}] /\ refreshing'[t] = "none"
      /\ \A s \in Tab : refreshing'[s] # "none" => s \in open
      /\ \A y \in Slots : /\ job'[y].token = job[y].token \/ job'[y].token = NoPair \/ job'[y].token = n
                          /\ job'[y].pair = job[y].pair \/ job'[y].pair = NoPair
                          /\ job'[y].op = "refresh" => job'[y] = job[y]
      /\ job'[t].pair = NoPair
      /\ Rotation' /\ Issued' = Issued
      /\ \A y \in Slots : JobOk(y)'
      /\ \A d \in Call : CallOk(d)'
  BY <1>2, <1>3, ResolveFacts
<1>5. \A y \in Slots : job'[y].token \in Issued \cup {NoPair} /\ job'[y].pair \in Issued \cup {NoPair}
  BY <1>3, <1>4, SlotFacts
<1>6. open = {t} => left'[t] # "out"
  BY <1>2, <1>4 DEF IInv, Opened, Alone
<1>7. /\ Secret' /\ Opened'
      /\ stored' \in Issued \cup {NoPair} /\ tok' \in [Tab -> Issued \cup {NoPair}]
  BY <1>2, <1>3, <1>4, <1>6, Adopted
<1>8. Typed'
  <2>1. open' \subseteq Tab /\ left' \in [Tab -> {"in", "out", "raced"}]
    BY <1>4, BrowserFacts
  <2> QED
    BY <1>4, <1>5, <1>7, <2>1, BrowserTyped
<1> QED
  BY <1>4, <1>7, <1>8 DEF IInv

\* A refresh that is refused or cut off ends the session of the tab.
LEMMA DeadRefresh ==
  ASSUME IInv, NEW t \in Tab, refreshing[t] = "sent", clearAuth(t), Resolve(t, NoPair)
  PROVE  IInv'
<1>1. PICK n : n = NoPair
  OBVIOUS
<1>2. /\ UNCHANGED <<server, open, left>> /\ t \in open
      /\ job' \in [Slots -> Jobs] /\ call' \in [Call -> Calls]
      /\ refreshing' \in [Tab -> {"none", "sent", "itself"}] /\ refreshing'[t] = "none"
      /\ \A s \in Tab : refreshing'[s] # "none" => s \in open
      /\ \A y \in Slots : /\ job'[y].token = job[y].token \/ job'[y].token = NoPair \/ job'[y].token = n
                          /\ job'[y].pair = job[y].pair \/ job'[y].pair = NoPair
                          /\ job'[y].op = "refresh" => job'[y] = job[y]
      /\ Rotation' /\ Issued' = Issued
      /\ \A y \in Slots : JobOk(y)'
      /\ \A d \in Call : CallOk(d)'
  BY <1>1, ResolveFacts
<1>3. tok' = [tok EXCEPT ![t] = NoPair] /\ stored' = NoPair
  BY DEF clearAuth
<1>4. \A y \in Slots : /\ job'[y].token = job[y].token \/ job'[y].token = NoPair
                       /\ job'[y].pair = job[y].pair \/ job'[y].pair = NoPair
  BY <1>1, <1>2
<1>5. \A y \in Slots : job'[y].token \in Issued \cup {NoPair} /\ job'[y].pair \in Issued \cup {NoPair}
  BY <1>4, SlotFacts
<1>6. stored' \in Issued \cup {NoPair} /\ tok' \in [Tab -> Issued \cup {NoPair}] /\ tok'[t] = NoPair
  BY <1>3, BrowserFacts
<1>7. Secret'
  <2>1. ASSUME NEW m \in Pairs, (\E s \in Tab : tok'[s] = m) \/ m = stored' \/ (\E y \in Slots : job'[y].token = m)
        PROVE  Known(m)
    <3>1. (\E s \in Tab : tok[s] = m) \/ (\E y \in Slots : job[y].token = m)
      BY <1>3, <1>4, <2>1, Constants, BrowserFacts
    <3> QED
      BY <3>1 DEF Known, Presents
  <2>2. \A y \in Slots : job'[y].pair # NoPair => job'[y].pair = job[y].pair
    BY <1>4
  <2> QED
    BY <1>2, <2>1, <2>2, SecretStays DEF server
<1>8. Opened'
  <2>1. Alone(t)'
    BY <1>2, <1>3, <1>6 DEF Alone
  <2>2. \A s \in Tab : open' = {s} => s = t
    BY <1>2
  <2> QED
    BY <1>2, <2>1, <2>2 DEF Opened
<1>9. Typed'
  <2>1. open' \subseteq Tab /\ left' \in [Tab -> {"in", "out", "raced"}]
    BY <1>2, BrowserFacts
  <2> QED
    BY <1>2, <1>5, <1>6, <2>1, BrowserTyped
<1> QED
  BY <1>2, <1>7, <1>8, <1>9 DEF IInv

LEMMA AbortRefreshInv == ASSUME IInv, NEW t \in Tab, AbortRefresh(t) PROVE IInv'
BY DeadRefresh DEF AbortRefresh, AfterDeadRefresh

LEMMA RefreshRefusedInv == ASSUME IInv, NEW t \in Tab, RefreshRefused(t) PROVE IInv'
<1>1. refreshing[t] = "sent" /\ job[t].at = "401"
  BY DEF RefreshRefused
<1>2. CASE tok[t] = NoPair
  BY <1>1, <1>2, DeadRefresh DEF RefreshRefused, AfterDeadRefresh
<1>3. CASE tok[t] # NoPair
  <2>1. /\ refreshing' = [refreshing EXCEPT ![t] = "itself"] /\ job' = [job EXCEPT ![t] = NoJob]
        /\ UNCHANGED <<server, stored, open, tok, call, left>>
    BY <1>3 DEF RefreshRefused
  <2>2. t \in Slots /\ t \in open /\ t \notin Call
    BY <1>1, BrowserFacts, Constants DEF IInv, Opened
  <2>3. job' \in [Slots -> Jobs] /\ job'[t] = NoJob /\ \A y \in Slots \ {t} : job'[y] = job[y]
    BY <2>1, <2>2, BrowserFacts, NoJobTyped
  <2>4. refreshing' \in [Tab -> {"none", "sent", "itself"}] /\ \A s \in Tab \ {t} : refreshing'[s] = refreshing[s]
    BY <2>1, BrowserFacts
  <2>5. \A y \in Slots : /\ job'[y] = job[y] \/ job'[y] = NoJob
                         /\ job'[y].token = job[y].token \/ job'[y].token = NoPair
                         /\ job'[y].pair = job[y].pair \/ job'[y].pair = NoPair
    BY <2>3, NoJobTyped
  <2>6. Rotation' /\ Issued' = Issued
    <3>1. \A y \in Slots : job'[y] = job[y] \/ ~Consumed(y)'
      BY <2>5, NoJobTyped DEF Consumed
    <3> QED
      BY <2>1, <3>1, BrowserRotates
  <2>7. Typed'
    <3>1. \A y \in Slots : job'[y].token \in Issued \cup {NoPair} /\ job'[y].pair \in Issued \cup {NoPair}
      BY <2>5, SlotFacts
    <3> QED
      BY <2>1, <2>3, <2>4, <3>1, BrowserFacts, BrowserTyped
  <2>8. \A y \in Slots : JobOk(y)'
    <3> TAKE y \in Slots
    <3>1. CASE y = t
      BY <2>3, <3>1, NoJobTyped DEF JobOk, Answered
    <3>2. CASE y # t
      <4>1. job'[y] = job[y] /\ JobOk(y) /\ (Awaited(y)' <=> Awaited(y))
        BY <2>1, <2>3, <2>4, <3>2, SlotFacts DEF Awaited, Slots
      <4> QED
        BY <4>1 DEF JobOk
    <3> QED
      BY <3>1, <3>2
  <2>9. \A d \in Call : CallOk(d)'
    <3> TAKE d \in Call
    <3>1. d # t /\ job'[d] = job[d] /\ CallOk(d) /\ call' = call /\ open' = open
      BY <2>1, <2>2, <2>3, BrowserFacts DEF IInv
    <3> QED
      BY <3>1 DEF CallOk
  <2>10. Secret'
    <3>1. ASSUME NEW m \in Pairs, (\E s \in Tab : tok'[s] = m) \/ m = stored' \/ (\E y \in Slots : job'[y].token = m)
          PROVE  Known(m)
      BY <2>1, <2>5, <3>1, Constants DEF Known, Presents
    <3> QED
      BY <2>1, <2>5, <3>1, SecretStays DEF server
  <2>11. Opened'
    <3>1. ASSUME NEW s \in Tab, open' = {s}
          PROVE  Alone(s)'
      <4>1. s = t /\ Alone(t) /\ refreshing'[t] = "itself"
        BY <2>1, <2>2, <3>1, BrowserFacts DEF IInv, Opened
      <4> QED
        BY <1>1, <2>1, <4>1 DEF Alone
    <3>2. \A s \in Tab : refreshing'[s] # "none" => s \in open'
      BY <2>1, <2>2, <2>4 DEF IInv, Opened
    <3> QED
      BY <2>1, <2>2, <3>1, <3>2 DEF Opened
  <2> QED
    BY <2>6, <2>7, <2>8, <2>9, <2>10, <2>11 DEF IInv
<1> QED
  BY <1>2, <1>3

\* A reload forgets what the page was waiting for; the server goes on with it.
LEMMA LoadInv == ASSUME IInv, NEW t \in Tab, Load(t) PROVE IInv'
<1> DEFINE mine == CallsOf(t) \cup {t}
           Kept(x) == IF x \in mine /\ job[x].at \in Answered THEN NoJob ELSE job[x]
           fetch == [kind |-> "api", step |-> "sent", retry |-> FALSE]
           j == Job("api", stored)
<1>1. /\ open' = open \cup {t} /\ tok' = [tok EXCEPT ![t] = stored]
      /\ refreshing' = [refreshing EXCEPT ![t] = "none"]
      /\ left' = [left EXCEPT ![t] = IF refreshing[t] # "none" \/ job[t] # NoJob THEN "raced" ELSE @]
      /\ UNCHANGED <<server, stored>>
  BY DEF Load
<1>2. /\ mine \subseteq Slots /\ t \in Slots /\ t \in mine /\ CallsOf(t) \subseteq Call
      /\ \A c \in CallsOf(t) : TabOf[c] = t /\ c # t
      /\ \A c \in Call : c \notin mine => TabOf[c] # t
  BY BrowserFacts, Constants DEF CallsOf
<1>3. stored \in Issued \cup {NoPair} /\ stored \in Tokens
  BY BrowserFacts
<1>4. j \in Jobs /\ j.op = "api" /\ j.token = stored /\ j.pair = NoPair /\ j.at = "start"
  BY <1>3, JobFacts
<1>5. fetch \in Calls /\ fetch.kind = "api" /\ fetch.step = "sent"
  BY DEF Calls
<1>6. \A x \in Slots : /\ Kept(x) \in Jobs
                       /\ (Kept(x) = job[x] /\ (x \in mine => job[x].at \notin Answered)) \/ Kept(x) = NoJob
  BY BrowserFacts, NoJobTyped
<1> HIDE DEF j, fetch, Kept
\* The call that asks for the user, if there is a session, or none.
<1>7. PICK me \in CallsOf(t) \cup {t} :
        /\ call' = [c \in Call |-> IF c = me THEN fetch ELSE IF c \in mine THEN Idle ELSE call[c]]
        /\ job' = [x \in Slots |-> IF x = me /\ me # t THEN j ELSE Kept(x)]
  <2>1. CASE stored = NoPair
    <3>1. /\ call' = [c \in Call |-> IF c \in mine THEN Idle ELSE call[c]]
          /\ job' = [x \in Slots |-> Kept(x)]
      BY <2>1 DEF Load, Slots, Kept
    <3>2. \A c \in Call : c # t
      BY Constants
    <3> QED
      BY <1>2, <3>1, <3>2
  <2>2. CASE stored # NoPair
    <3>1. PICK me \in CallsOf(t) :
            /\ call' = [c \in Call |-> IF c = me THEN fetch ELSE IF c \in mine THEN Idle ELSE call[c]]
            /\ job' = [x \in Slots |-> IF x = me THEN j ELSE Kept(x)]
      BY <2>2 DEF Load, Slots, Kept, fetch, j
    <3> QED
      BY <1>2, <3>1
  <2> QED
    BY <2>1, <2>2
<1>8. /\ call' \in [Call -> Calls]
      /\ me \in Call => call'[me] = fetch
      /\ \A c \in Call : c \in mine /\ c # me => call'[c] = Idle
      /\ \A c \in Call \ mine : call'[c] = call[c]
  <2> HIDE DEF mine
  <2> QED
    BY <1>2, <1>5, <1>7, BrowserFacts DEF mine
<1>9. /\ job' \in [Slots -> Jobs]
      /\ me # t => job'[me] = j
      /\ \A x \in Slots : x # me \/ me = t =>
           (job'[x] = job[x] /\ (x \in mine => job[x].at \notin Answered)) \/ job'[x] = NoJob
      /\ \A x \in Slots \ mine : job'[x] = job[x]
  <2>1. me \in Slots
    BY <1>2, <1>7
  <2>2. job' \in [Slots -> Jobs]
    BY <1>4, <1>6, <1>7
  <2>3. me # t => job'[me] = j
    BY <1>7, <2>1
  <2>4. \A x \in Slots : x # me \/ me = t => job'[x] = Kept(x)
    BY <1>7
  <2>5. \A x \in Slots \ mine : Kept(x) = job[x] /\ x # me
    BY <1>2, <1>7 DEF Kept
  <2> HIDE DEF mine
  <2> QED
    BY <1>6, <2>2, <2>3, <2>4, <2>5
<1>10. /\ refreshing' \in [Tab -> {"none", "sent", "itself"}] /\ refreshing'[t] = "none"
       /\ \A s \in Tab \ {t} : refreshing'[s] = refreshing[s]
  BY <1>1, BrowserFacts
<1>11. \A x \in Slots : /\ job'[x].token \in {job[x].token, NoPair, stored}
                        /\ job'[x].pair = job[x].pair \/ job'[x].pair = NoPair
                        /\ job'[x].op = "refresh" => job'[x] = job[x]
                        /\ job'[x] = job[x] \/ job'[x].at \in {"none", "start"}
  <2> HIDE DEF mine
  <2> QED
    BY <1>4, <1>9, NoJobTyped
<1>12. Rotation' /\ Issued' = Issued
  <2>1. \A y \in Slots : job'[y] = job[y] \/ ~Consumed(y)'
    BY <1>11 DEF Consumed
  <2> QED
    BY <1>1, <2>1, BrowserRotates
<1>13. tok' \in [Tab -> Issued \cup {NoPair}] /\ tok'[t] = stored
  BY <1>1, <1>3, BrowserFacts
<1>14. Typed'
  <2>1. \A y \in Slots : job'[y].token \in Issued \cup {NoPair} /\ job'[y].pair \in Issued \cup {NoPair}
    BY <1>3, <1>11, SlotFacts
  <2>2. left' \in [Tab -> {"in", "out", "raced"}] /\ open' \subseteq Tab /\ stored' \in Issued \cup {NoPair}
    BY <1>1, <1>3, BrowserFacts
  <2> QED
    BY <1>1, <1>8, <1>9, <1>10, <1>13, <2>1, <2>2, BrowserTyped
<1>15. \A y \in Slots : JobOk(y)'
  <2> TAKE y \in Slots
  <2>1. CASE y = me /\ me # t
    <3>1. y \in Call /\ y \notin Tab /\ job'[y] = j
      BY <1>2, <1>7, <1>9, <2>1, Constants
    <3> QED
      BY <1>4, <3>1 DEF JobOk, Answered
  <2>2. CASE job'[y] = NoJob
    BY <2>2, NoJobTyped DEF JobOk, Answered
  <2>3. CASE y \in mine /\ job'[y] = job[y] /\ job[y].at \notin Answered
    <3>1. JobOk(y)
      BY SlotFacts
    <3> QED
      BY <2>3, <3>1 DEF JobOk
  <2>4. CASE y \notin mine
    <3>1. job'[y] = job[y] /\ JobOk(y) /\ (Awaited(y)' <=> Awaited(y))
      BY <1>2, <1>8, <1>9, <1>10, <2>4, SlotFacts DEF Awaited, Slots
    <3> QED
      BY <3>1 DEF JobOk
  <2> HIDE DEF mine
  <2> QED
    BY <1>9, <2>1, <2>2, <2>3, <2>4
<1>16. \A d \in Call : CallOk(d)'
  <2> TAKE d \in Call
  <2>1. CASE d = me
    <3>1. d # t /\ d \in CallsOf(t) /\ job'[d] = j /\ call'[d] = fetch /\ TabOf[d] = t
      BY <1>2, <1>7, <1>8, <1>9, <2>1, Constants
    <3> QED
      BY <1>1, <1>4, <1>5, <3>1 DEF CallOk
  <2>2. CASE d # me /\ d \in mine
    BY <1>8, <2>2 DEF CallOk, Idle
  <2>3. CASE d \notin mine
    <3>1. job'[d] = job[d] /\ CallOk(d) /\ call'[d] = call[d] /\ open \subseteq open'
      BY <1>1, <1>8, <1>9, <2>3, BrowserFacts DEF IInv
    <3> QED
      BY <3>1 DEF CallOk
  <2> HIDE DEF mine
  <2> QED
    BY <2>1, <2>2, <2>3
<1>17. Secret'
  <2>1. ASSUME NEW m \in Pairs, (\E s \in Tab : tok'[s] = m) \/ m = stored' \/ (\E y \in Slots : job'[y].token = m)
        PROVE  Known(m)
    <3>1. m = stored \/ (\E s \in Tab : tok[s] = m) \/ (\E y \in Slots : job[y].token = m)
      BY <1>1, <1>11, <2>1, Constants, BrowserFacts
    <3> QED
      BY <3>1 DEF Known, Presents
  <2> QED
    BY <1>1, <1>11, <2>1, SecretStays DEF server
<1>18. Opened'
  <2>1. \A s \in Tab : refreshing'[s] # "none" => s \in open'
    BY <1>1, <1>10 DEF IInv, Opened
  <2>2. ASSUME open' = {t}
        PROVE  Alone(t)'
    <3>1. open = {} \/ open = {t}
      BY <1>1, <2>2
    <3>2. CASE open = {}
      <4>1. stored = NoPair
        BY <3>2 DEF IInv, Opened
      <4> QED
        BY <1>1, <1>10, <1>13, <4>1 DEF Alone
    <3>3. CASE open = {t}
      <4>1. Alone(t)
        BY <3>3 DEF IInv, Opened
      <4>2. tok'[t] = tok[t] /\ stored' = tok'[t]
        BY <1>1, <1>13, <4>1 DEF Alone
      <4>3. left'[t] = "out" => tok'[t] = NoPair
        BY <1>1, <4>1, <4>2, BrowserFacts DEF Alone
      <4>4. left'[t] = "in" => tok'[t] = NoPair \/ Unspent(tok[t])
        BY <1>1, <4>1, <4>2, BrowserFacts DEF Alone
      <4>5. \A m : Unspent(m) => (\A k \in Issued' : parent'[k] # m) /\ \A x \in Slots : job'[x].op = "refresh" => job'[x].token # m
        BY <1>1, <1>11, <1>12 DEF Unspent, Childless, server
      <4> QED
        BY <1>10, <4>2, <4>3, <4>4, <4>5 DEF Alone, Unspent, Childless
    <3> QED
      BY <3>1, <3>2, <3>3
  <2>3. \A s \in Tab : open' = {s} => s = t
    BY <1>1
  <2> QED
    BY <1>1, <2>1, <2>2, <2>3 DEF Opened
<1> QED
  BY <1>12, <1>14, <1>15, <1>16, <1>17, <1>18 DEF IInv
-----------------------------------------------------------------------------
LEMMA InitInv == Init => IInv
<1> SUFFICES ASSUME Init PROVE IInv
  OBVIOUS
<1>1. Issued = {} /\ Issued = 1 .. 0 /\ 0 \in 0 .. MaxPairs
  BY Constants DEF Init, Issued
<1>2. \A x \in Slots : job[x] = NoJob
  BY DEF Init, Slots
<1>3. Typed
  <2>1. TypeOK
    BY <1>1, <1>2, NoJobTyped, Constants DEF Init, TypeOK, Slots, Calls, Idle, Answered
  <2>2. parent \in [Pairs -> Tokens] /\ job \in [Slots -> Jobs]
    BY NoJobTyped DEF Init, Slots, Tokens
  <2> QED
    BY <1>1, <2>1, <2>2 DEF Init, Typed
<1>4. \A x \in Slots : JobOk(x)
  BY <1>2, NoJobTyped DEF JobOk, Answered
<1>5. \A c \in Call : CallOk(c)
  BY DEF Init, CallOk, Idle
<1>6. Rotation
  BY <1>1, <1>2, NoJobTyped DEF Init, Rotation, RotatedOnce, Consumed
<1>7. Secret
  BY <1>2, NoJobTyped DEF Secret, SecretOf
<1>8. Opened
  BY DEF Init, Opened
<1> QED
  BY <1>3, <1>4, <1>5, <1>6, <1>7, <1>8 DEF IInv

LEMMA StutterInv == ASSUME IInv, UNCHANGED vars PROVE IInv'
BY DEF IInv, Typed, TypeOK, Issued, JobOk, CallOk, Awaited, Rotation, RotatedOnce, Consumed, Childless, Secret,
       SecretOf, Known, Presents, Opened, Alone, Unspent, vars, server, browser

LEMMA NextInv == IInv /\ [Next]_vars => IInv'
<1> SUFFICES ASSUME IInv, [Next]_vars PROVE IInv'
  OBVIOUS
<1>1. ASSUME NEW x \in Call \cup Tab, Handle(x) \/ CutOff(x)
      PROVE  IInv'
  <2>1. x \in Slots
    BY DEF Slots
  <2> QED
    BY <1>1, <2>1, AuthenticateInv, IsRevokedInv, GetDelInv, BlacklistInv, IssueInv, RevokeInv, CutOffInv DEF Handle
<1>2. ASSUME NEW n \in Pairs, ExpireAccess(n) \/ ExpireRefresh(n) \/ ExpireRevoked(n)
      PROVE  IInv'
  BY <1>2, ExpireInv
<1>3. ASSUME NEW t \in Tab, ReactToRefresh(t) \/ Load(t)
      PROVE  IInv'
  BY <1>3, RefreshedInv, RefreshRefusedInv, AbortRefreshInv, LoadInv DEF ReactToRefresh
<1>4. ASSUME NEW c \in Call, ReactToCall(c)
      PROVE  IInv'
  BY <1>4, ReceiveInv, UnauthorizedInv, AbortInv DEF ReactToCall
<1>5. ASSUME NEW c \in Call, NEW kind \in {"api", "login", "logout"}, Send(c, kind)
      PROVE  IInv'
  BY <1>5, SendInv
<1>6. CASE UNCHANGED vars
  BY <1>6, StutterInv
<1> QED
  BY <1>1, <1>2, <1>3, <1>4, <1>5, <1>6 DEF Next

\* Sessions keep the inductive invariant, whichever tabs, retries and expiries
\* overlap.
THEOREM Inductive == Spec => []IInv
<1> QED
  BY InitInv, NextInv, PTL DEF Spec

\* Every value keeps its type, and pairs are issued in order: TypeOK.
THEOREM TypeCorrect == Spec => []TypeOK
<1>1. IInv => TypeOK
  BY DEF IInv, Typed
<1> QED
  BY Inductive, <1>1, PTL

\* A refresh token is exchanged at most once and stays dead once it was
\* exchanged or revoked, for any number of tabs (consumeRefreshToken's GETDEL),
\* and a lone tab keeps no token after a logout nor one its refresh has spent
\* (stores/auth, api/client): TokensHold.
THEOREM TokensHoldAlways == Spec => []TokensHold
<1>1. IInv => RotatedOnce
  BY DEF IInv, Rotation
<1>2. IInv => SingleTab
  <2> SUFFICES ASSUME IInv, NEW t \in open, open = {t}
               PROVE  /\ left[t] = "out" => tok[t] = NoPair /\ stored = NoPair
                      /\ left[t] = "in" /\ refreshing[t] = "none" =>
                           tok[t] = NoPair \/ (\A n \in Issued : parent[n] # tok[t])
    BY DEF SingleTab
  <2>1. t \in Tab
    BY BrowserFacts
  <2>2. Alone(t)
    BY <2>1 DEF IInv, Opened
  <2> QED
    BY <2>2 DEF Alone, Unspent, Childless
<1> QED
  BY Inductive, <1>1, <1>2, PTL DEF TokensHold
-----------------------------------------------------------------------------
(* Gate: the inductive invariant.                                              *)

Routes == G!Ops
Bars == {"ban", "break"}
Statements == {"idle", "ban", "circuit", "cooldown", "schema", "incr", "expire", "limit", "strike",
               "break", "handle", "push", "trim", "cool", "done"}
Results == {"none", "BANNED", "circuit_break", "cooldown_active", "rate_limited",
            "validation_error", "blocked", "allowed", "cut"}

\* The requests that have counted themselves.
Asked == {p \in Proc : count[p] # 0}

GateTyped ==
  /\ banned \in BOOLEAN /\ broken \in BOOLEAN /\ cooling \in BOOLEAN /\ strikes \in Nat
  /\ hits \in [Routes -> Nat] /\ expires \in [Routes -> BOOLEAN] /\ admitted \in [Routes -> Nat]
  /\ history \in [Routes -> Seq(Proc)] /\ pushed \in [Routes -> Seq(Proc)]
  /\ step \in [Proc -> Statements] /\ op \in [Proc -> Routes]
  /\ count \in [Proc -> 0 .. Max + Cardinality(Proc)]
  /\ answer \in [Proc -> Results] /\ late \in [Proc -> SUBSET Bars] /\ failedOpen \in [Proc -> BOOLEAN]

\* A request counts itself once, whichever the order of its route.
CountedOnce(p) ==
  /\ step[p] \in {"idle", "ban", "circuit", "incr"} => count[p] = 0
  /\ op[p] = "saideira_chat" /\ step[p] \in {"cooldown", "schema"} => count[p] = 0

\* What has barred the player since before p came still does, and p has passed no check
\* of it but one that failed open.
KeptOut(p) ==
  /\ "ban" \in late[p] => banned
  /\ "break" \in late[p] => broken
  /\ step[p] = "circuit" /\ ~failedOpen[p] => "ban" \notin late[p]
  /\ G!Behind(p) /\ ~failedOpen[p] => late[p] = {}

GuestInv(p) ==
  /\ CountedOnce(p) /\ KeptOut(p)
  /\ answer[p] # "none" => step[p] = "done"

\* A window admits no more than it has counted, and counts each request once.
WindowOk(o) ==
  /\ admitted[o] <= hits[o] /\ admitted[o] <= Max
  /\ hits[o] <= Max + Cardinality(Asked)
  /\ hits[o] > 0 /\ ~expires[o] =>
       \E p \in Proc : op[p] = o /\ (step[p] = "expire" \/ answer[p] = "cut")

\* The requests of a route that have pushed and not trimmed, or may have.
Untrimmed(o) == {p \in Proc : op[p] = o /\ (step[p] = "trim" \/ answer[p] = "cut")}

ListOk(o) ==
  /\ Len(history[o]) <= Len(pushed[o])
  /\ \A i \in 1 .. Len(history[o]) : history[o][i] = pushed[o][i]
  /\ Len(history[o]) >= Len(pushed[o]) \/ Len(history[o]) >= HistoryMax
  /\ Len(history[o]) <= HistoryMax + Cardinality(Untrimmed(o))

GateInv ==
  /\ GateTyped
  /\ \A o \in Routes : WindowOk(o) /\ ListOk(o)
  /\ \A p \in Proc : GuestInv(p)
-----------------------------------------------------------------------------
LEMMA Finite == G!GateAssumption => IsFiniteSet(Proc)
BY DEF G!GateAssumption, G!IsFiniteSet, IsFiniteSet

\* The requests are finitely many, and at most Card(Proc) have counted themselves.
LEMMA GuestSets ==
  ASSUME G!GateAssumption, NEW A, A \subseteq Proc
  PROVE  IsFiniteSet(A) /\ Cardinality(A) \in Nat /\ Cardinality(A) <= Cardinality(Proc)
BY Finite, FS_Subset, FS_CardinalityType

LEMMA Numbers == G!GateAssumption => Max \in Nat /\ Max >= 1 /\ HistoryMax \in Nat /\ HistoryMax >= 1 /\ Cardinality(Proc) \in Nat
BY Finite, FS_CardinalityType DEF G!GateAssumption

LEMMA Grows ==
  ASSUME G!GateAssumption, NEW A, NEW B, A \subseteq B, B \subseteq Proc
  PROVE  Cardinality(A) <= Cardinality(B) /\ Cardinality(A) \in Nat /\ Cardinality(B) \in Nat
BY GuestSets, FS_Subset

\* What a step leaves alone of a request keeps what is known of it.
LEMMA GuestStays ==
  ASSUME GateInv, NEW q \in Proc, step'[q] = step[q], op'[q] = op[q], count'[q] = count[q], answer'[q] = answer[q],
         failedOpen'[q] = failedOpen[q], late'[q] \subseteq late[q],
         "ban" \in late'[q] => banned', "break" \in late'[q] => broken'
  PROVE  GuestInv(q)'
<1>1. GuestInv(q)
  BY DEF GateInv
<1> QED
  BY <1>1 DEF GuestInv, CountedOnce, KeptOut, G!Behind

LEMMA WindowStays ==
  ASSUME G!GateAssumption, GateInv, NEW o \in Routes, hits'[o] = hits[o], expires'[o] = expires[o], admitted'[o] = admitted[o],
         Asked \subseteq Asked',
         \A p \in Proc : op[p] = o /\ (step[p] = "expire" \/ answer[p] = "cut") =>
                           op'[p] = o /\ (step'[p] = "expire" \/ answer'[p] = "cut")
  PROVE  WindowOk(o)'
<1>1. WindowOk(o) /\ hits[o] \in Nat /\ Max \in Nat
  BY Numbers DEF GateInv, GateTyped
<1>2. Cardinality(Asked) <= Cardinality(Asked') /\ Cardinality(Asked) \in Nat /\ Cardinality(Asked') \in Nat
  <2>1. Asked' \subseteq Proc
    BY DEF Asked
  <2> QED
    BY <2>1, Grows
<1>3. hits'[o] <= Max + Cardinality(Asked')
  BY <1>1, <1>2 DEF WindowOk
<1>4. Cardinality(Asked)' = Cardinality(Asked')
  OBVIOUS
<1> QED
  BY <1>1, <1>3, <1>4 DEF WindowOk

LEMMA ListStays ==
  ASSUME G!GateAssumption, GateInv, NEW o \in Routes, history'[o] = history[o], pushed'[o] = pushed[o],
         Untrimmed(o) \subseteq Untrimmed(o)'
  PROVE  ListOk(o)'
<1>1. ListOk(o) /\ history[o] \in Seq(Proc) /\ HistoryMax \in Nat
  BY Numbers DEF GateInv, GateTyped
<1>2. Cardinality(Untrimmed(o)) <= Cardinality(Untrimmed(o)') /\ Cardinality(Untrimmed(o)) \in Nat /\ Cardinality(Untrimmed(o)') \in Nat
  <2>1. Untrimmed(o)' \subseteq Proc
    BY DEF Untrimmed
  <2> QED
    BY <2>1, Grows
<1>3. Len(history[o]) \in Nat
  BY <1>1
<1>4. Len(history'[o]) <= HistoryMax + Cardinality(Untrimmed(o)')
  BY <1>1, <1>2, <1>3 DEF ListOk
<1> QED
  BY <1>1, <1>4 DEF ListOk

\* A step of request p that counts nothing and moves no list.
LEMMA QuietInv ==
  ASSUME G!GateAssumption, GateInv, NEW p \in Proc, UNCHANGED <<banned, hits, expires, history, op, count, admitted, pushed>>,
         broken' \in BOOLEAN, broken => broken', cooling' \in BOOLEAN, strikes' \in Nat,
         step' \in [Proc -> Statements], answer' \in [Proc -> Results],
         late' \in [Proc -> SUBSET Bars], failedOpen' \in [Proc -> BOOLEAN],
         \A q \in Proc \ {p} : /\ step'[q] = step[q] /\ answer'[q] = answer[q]
                               /\ late'[q] = late[q] /\ failedOpen'[q] = failedOpen[q],
         step[p] # "done", step[p] \in {"trim", "expire"} => answer'[p] = "cut",
         GuestInv(p)'
  PROVE  GateInv'
<1>1. GateTyped'
  BY DEF GateInv, GateTyped
<1>2. answer[p] # "cut"
  BY DEF GateInv, GuestInv
<1>3. Asked' = Asked
  BY DEF Asked
<1>4. ASSUME NEW o \in Routes PROVE WindowOk(o)'
  <2>1. \A q \in Proc : op[q] = o /\ (step[q] = "expire" \/ answer[q] = "cut") =>
                          op'[q] = o /\ (step'[q] = "expire" \/ answer'[q] = "cut")
    BY <1>2
  <2> QED
    BY <1>3, <2>1, WindowStays
<1>5. ASSUME NEW o \in Routes PROVE ListOk(o)'
  <2>1. Untrimmed(o) \subseteq Untrimmed(o)'
    BY <1>2 DEF Untrimmed
  <2> QED
    BY <2>1, ListStays
<1>6. ASSUME NEW q \in Proc, q # p PROVE GuestInv(q)'
  <2>1. GuestInv(q)
    BY DEF GateInv
  <2>2. "ban" \in late'[q] => banned'
    BY <1>6, <2>1 DEF GuestInv, KeptOut
  <2>3. "break" \in late'[q] => broken'
    BY <1>6, <2>1 DEF GuestInv, KeptOut
  <2> QED
    BY <1>6, <2>2, <2>3, GuestStays
<1> QED
  BY <1>1, <1>4, <1>5, <1>6 DEF GateInv
-----------------------------------------------------------------------------
\* What the types say of one request.
LEMMA GuestFacts ==
  ASSUME GateInv, NEW p \in Proc
  PROVE  /\ step[p] \in Statements /\ op[p] \in Routes /\ count[p] \in Nat /\ answer[p] \in Results
         /\ late[p] \subseteq Bars /\ failedOpen[p] \in BOOLEAN /\ GuestInv(p)
         /\ step \in [Proc -> Statements] /\ answer \in [Proc -> Results]
         /\ late \in [Proc -> SUBSET Bars] /\ failedOpen \in [Proc -> BOOLEAN]
         /\ banned \in BOOLEAN /\ broken \in BOOLEAN /\ cooling \in BOOLEAN /\ strikes \in Nat
BY Z3 DEF GateInv, GateTyped

LEMMA RouteFacts == \A o \in Routes : o = "saideira_chat" \/ o = "crew_chat"
BY DEF Routes, G!Ops

LEMMA ArriveInv ==
  ASSUME G!GateAssumption, GateInv, NEW p \in Proc, G!Arrive(p)
  PROVE  GateInv'
<1> DEFINE bars == {bar \in {"ban", "break"} : IF bar = "ban" THEN banned ELSE broken}
<1>1. /\ step[p] = "idle" /\ step' = [step EXCEPT ![p] = "ban"]
      /\ late' = [late EXCEPT ![p] = bars]
      /\ UNCHANGED <<banned, hits, expires, history, op, count, admitted, pushed>>
      /\ UNCHANGED <<broken, cooling, strikes, answer, failedOpen>>
  BY DEF G!Arrive, G!Goto, G!keys
<1>2. bars \in SUBSET Bars /\ ("ban" \in bars => banned) /\ ("break" \in bars => broken)
  BY DEF Bars
<1> HIDE DEF bars
<1>3. /\ step' \in [Proc -> Statements] /\ step'[p] = "ban" /\ late' \in [Proc -> SUBSET Bars] /\ late'[p] = bars
      /\ \A q \in Proc \ {p} : step'[q] = step[q] /\ late'[q] = late[q]
  BY <1>1, <1>2, GuestFacts DEF Statements
<1>4. GuestInv(p)'
  BY <1>1, <1>2, <1>3, GuestFacts DEF GuestInv, CountedOnce, KeptOut, G!Behind
<1> QED
  BY <1>1, <1>3, <1>4, GuestFacts, QuietInv

\* A check answers, lets pass, or fails open.
LEMMA CheckInv ==
  ASSUME G!GateAssumption, GateInv, NEW p \in Proc,
         NEW at \in {"ban", "circuit", "cooldown"}, NEW closed \in BOOLEAN,
         NEW result \in {"BANNED", "circuit_break", "cooldown_active"},
         NEW next \in {"circuit", "cooldown", "incr", "schema"},
         G!Check(p, at, closed, result, next),
         next \in {"circuit", "incr"} \/ op[p] = "saideira_chat" => count[p] = 0,
         ~closed /\ ~failedOpen[p] => IF next = "circuit" THEN "ban" \notin late[p] ELSE late[p] = {}
  PROVE  GateInv'
<1>1. /\ step[p] = at
      /\ UNCHANGED <<banned, hits, expires, history, op, count, admitted, pushed>>
      /\ UNCHANGED <<broken, cooling, strikes, late>>
      /\ \/ closed /\ step' = [step EXCEPT ![p] = "done"] /\ answer' = [answer EXCEPT ![p] = result] /\ failedOpen' = failedOpen
         \/ ~closed /\ step' = [step EXCEPT ![p] = next] /\ answer' = answer /\ failedOpen' = failedOpen
         \/ step' = [step EXCEPT ![p] = next] /\ answer' = answer /\ failedOpen' = [failedOpen EXCEPT ![p] = TRUE]
  BY DEF G!Check, G!Answer, G!Pass, G!Goto, G!keys
<1>2. /\ step' \in [Proc -> Statements] /\ answer' \in [Proc -> Results] /\ failedOpen' \in [Proc -> BOOLEAN]
      /\ \A q \in Proc \ {p} : step'[q] = step[q] /\ answer'[q] = answer[q] /\ failedOpen'[q] = failedOpen[q]
  BY <1>1, GuestFacts DEF Statements, Results
<1>3. GuestInv(p) /\ step[p] \notin {"done", "trim", "expire"} /\ answer[p] = "none"
  BY <1>1, GuestFacts DEF GuestInv
<1>4. GuestInv(p)'
  <2>1. CASE closed /\ step' = [step EXCEPT ![p] = "done"]
    <3>1. step'[p] = "done"
      BY <2>1, GuestFacts
    <3> QED
      BY <1>1, <1>3, <3>1 DEF GuestInv, CountedOnce, KeptOut, G!Behind
  <2>2. CASE ~closed /\ step' = [step EXCEPT ![p] = next] /\ answer' = answer /\ failedOpen' = failedOpen
    <3>1. step'[p] = next
      BY <2>2, GuestFacts
    <3> QED
      BY <1>1, <1>3, <2>2, <3>1, GuestFacts DEF GuestInv, CountedOnce, KeptOut, G!Behind, Bars
  <2>3. CASE step' = [step EXCEPT ![p] = next] /\ answer' = answer /\ failedOpen' = [failedOpen EXCEPT ![p] = TRUE]
    <3>1. step'[p] = next /\ failedOpen'[p]
      BY <2>3, GuestFacts
    <3> QED
      BY <1>1, <1>3, <2>3, <3>1, GuestFacts DEF GuestInv, CountedOnce, KeptOut, G!Behind
  <2> QED
    BY <1>1, <2>1, <2>2, <2>3
<1> QED
  BY <1>1, <1>2, <1>3, <1>4, GuestFacts, QuietInv

LEMMA ChecksInv ==
  ASSUME G!GateAssumption, GateInv, NEW p \in Proc, G!CheckBan(p) \/ G!CheckCircuitBreaker(p) \/ G!CheckCooldown(p)
  PROVE  GateInv'
<1>1. GuestInv(p) /\ banned \in BOOLEAN /\ broken \in BOOLEAN /\ cooling \in BOOLEAN
  BY GuestFacts
<1>2. ASSUME G!CheckBan(p) PROVE GateInv'
  <2>1. G!Check(p, "ban", banned, "BANNED", "circuit") /\ step[p] = "ban"
    BY <1>2 DEF G!CheckBan, G!Check
  <2>2. count[p] = 0 /\ (~banned => "ban" \notin late[p])
    BY <1>1, <2>1 DEF GuestInv, CountedOnce, KeptOut
  <2> QED
    BY <1>1, <2>1, <2>2, CheckInv
<1>3. ASSUME G!CheckCircuitBreaker(p) PROVE GateInv'
  <2> DEFINE next == G!AfterCircuit(p)
  <2>1. G!Check(p, "circuit", broken, "circuit_break", next) /\ step[p] = "circuit"
    BY <1>3 DEF G!CheckCircuitBreaker, G!Check, G!Tripped
  <2>2. next \in {"cooldown", "incr"}
    BY DEF G!AfterCircuit
  <2>3. count[p] = 0 /\ (~broken /\ ~failedOpen[p] => late[p] = {})
    BY <1>1, <2>1, GuestFacts DEF GuestInv, CountedOnce, KeptOut, Bars
  <2> HIDE DEF next
  <2> QED
    BY <1>1, <2>1, <2>2, <2>3, CheckInv
<1>4. ASSUME G!CheckCooldown(p) PROVE GateInv'
  <2>1. G!Check(p, "cooldown", cooling, "cooldown_active", "schema") /\ step[p] = "cooldown"
    BY <1>4 DEF G!CheckCooldown, G!Check
  <2>2. (op[p] = "saideira_chat" => count[p] = 0) /\ (~failedOpen[p] => late[p] = {})
    BY <1>1, <2>1 DEF GuestInv, CountedOnce, KeptOut, G!Behind
  <2> QED
    BY <1>1, <2>1, <2>2, CheckInv
<1> QED
  BY <1>2, <1>3, <1>4

\* Request p passes a guard or is answered, and counts nothing.
LEMMA PassInv ==
  ASSUME G!GateAssumption, GateInv, NEW p \in Proc,
         UNCHANGED <<banned, hits, expires, history, op, count, admitted, pushed>>, UNCHANGED <<late, failedOpen>>,
         broken' \in BOOLEAN, broken => broken', cooling' \in BOOLEAN, strikes' \in Nat,
         NEW s \in Statements, step' = [step EXCEPT ![p] = s],
         \/ answer' = answer /\ step[p] \notin {"trim", "expire"} /\ G!Behind(p)
         \/ s = "done" /\ step[p] \notin {"trim", "expire"} /\ (\E r \in Results : answer' = [answer EXCEPT ![p] = r])
         \/ s = "done" /\ answer' = [answer EXCEPT ![p] = "cut"],
         step[p] # "done",
         s # "circuit", s \in {"idle", "ban", "incr"} => count[p] = 0,
         s \in {"cooldown", "schema"} /\ op[p] = "saideira_chat" => count[p] = 0
  PROVE  GateInv'
<1>1. /\ step' \in [Proc -> Statements] /\ answer' \in [Proc -> Results] /\ step'[p] = s
      /\ \A q \in Proc \ {p} : step'[q] = step[q] /\ answer'[q] = answer[q]
      /\ answer'[p] = answer[p] \/ s = "done"
      /\ step[p] \in {"trim", "expire"} => answer'[p] = "cut"
  BY GuestFacts DEF Results
<1>2. GuestInv(p) /\ answer[p] = "none"
  BY GuestFacts DEF GuestInv
<1>3. GuestInv(p)'
  <2>1. op'[p] = op[p] /\ count'[p] = count[p] /\ late'[p] = late[p] /\ failedOpen'[p] = failedOpen[p]
        /\ (banned' <=> banned) /\ (broken => broken')
    OBVIOUS
  <2>2. CASE s = "done"
    BY <1>1, <1>2, <2>1, <2>2 DEF GuestInv, CountedOnce, KeptOut, G!Behind
  <2>3. CASE s # "done"
    <3>1. answer' = answer /\ G!Behind(p)
      BY <2>3
    <3> QED
      BY <1>1, <1>2, <2>1, <2>3, <3>1 DEF GuestInv, CountedOnce, KeptOut, G!Behind
  <2> QED
    BY <2>2, <2>3
<1> QED
  BY <1>1, <1>3, GuestFacts, QuietInv

LEMMA ValidateInv ==
  ASSUME G!GateAssumption, GateInv, NEW p \in Proc, G!Validate(p)
  PROVE  GateInv'
<1> DEFINE next == G!AfterSchema(p)
<1>1. /\ step[p] = "schema"
      /\ UNCHANGED <<banned, hits, expires, history, op, count, admitted, pushed>> /\ UNCHANGED <<late, failedOpen>>
      /\ UNCHANGED <<broken, cooling, strikes>>
      /\ \/ step' = [step EXCEPT ![p] = "done"] /\ answer' = [answer EXCEPT ![p] = "validation_error"]
         \/ step' = [step EXCEPT ![p] = next] /\ answer' = answer
  BY DEF G!Validate, G!Answer, G!Pass, G!Goto, G!keys, G!past
<1>2. next \in {"incr", "handle"} /\ (next = "incr" => count[p] = 0) /\ "validation_error" \in Results /\ G!Behind(p)
  BY <1>1, GuestFacts DEF G!AfterSchema, GuestInv, CountedOnce, Results, G!Behind
<1> HIDE DEF next
<1>3. broken \in BOOLEAN /\ cooling \in BOOLEAN /\ strikes \in Nat
  BY GuestFacts
<1>4. CASE step' = [step EXCEPT ![p] = "done"] /\ answer' = [answer EXCEPT ![p] = "validation_error"]
  <2>1. "done" \in Statements
    BY DEF Statements
  <2> QED
    BY <1>1, <1>2, <1>3, <1>4, <2>1, PassInv
<1>5. CASE step' = [step EXCEPT ![p] = next] /\ answer' = answer
  <2>1. next \in Statements
    BY <1>2 DEF Statements
  <2> QED
    BY <1>1, <1>2, <1>3, <1>5, <2>1, PassInv
<1> QED
  BY <1>1, <1>4, <1>5

LEMMA LimitInv ==
  ASSUME G!GateAssumption, GateInv, NEW p \in Proc, G!Limit(p)
  PROVE  GateInv'
<1> DEFINE next == IF G!WithinLimit(count[p]) THEN G!AfterRate(p) ELSE "strike"
<1>1. /\ step[p] = "limit"
      /\ UNCHANGED <<banned, hits, expires, history, op, count, admitted, pushed>> /\ UNCHANGED <<late, failedOpen>>
      /\ UNCHANGED <<broken, cooling, strikes>>
      /\ step' = [step EXCEPT ![p] = next] /\ answer' = answer
  BY DEF G!Limit, G!Goto, G!keys, G!past
<1>2. next \in {"handle", "cooldown", "strike"} /\ (next = "cooldown" => op[p] # "saideira_chat") /\ G!Behind(p)
  BY <1>1, GuestFacts DEF G!AfterRate, G!Behind
<1> HIDE DEF next
<1>3. broken \in BOOLEAN /\ cooling \in BOOLEAN /\ strikes \in Nat /\ next \in Statements
  BY <1>2, GuestFacts DEF Statements
<1> QED
  BY <1>1, <1>2, <1>3, PassInv

LEMMA StrikeInv ==
  ASSUME G!GateAssumption, GateInv, NEW p \in Proc, G!Strike(p)
  PROVE  GateInv'
<1>1. /\ step[p] = "strike" /\ strikes' = strikes + 1
      /\ UNCHANGED <<banned, hits, expires, history, op, count, admitted, pushed>> /\ UNCHANGED <<late, failedOpen>>
      /\ UNCHANGED <<broken, cooling>>
      /\ \/ step' = [step EXCEPT ![p] = "break"] /\ answer' = answer
         \/ step' = [step EXCEPT ![p] = "done"] /\ answer' = [answer EXCEPT ![p] = "rate_limited"]
  BY DEF G!Strike, G!Answer, G!Pass, G!Goto
<1>2. broken \in BOOLEAN /\ cooling \in BOOLEAN /\ strikes' \in Nat /\ G!Behind(p)
  BY <1>1, GuestFacts DEF G!Behind
<1>3. "break" \in Statements /\ "done" \in Statements /\ "rate_limited" \in Results
  BY DEF Statements, Results
<1>4. CASE step' = [step EXCEPT ![p] = "break"] /\ answer' = answer
  BY <1>1, <1>2, <1>3, <1>4, PassInv
<1>5. CASE step' = [step EXCEPT ![p] = "done"] /\ answer' = [answer EXCEPT ![p] = "rate_limited"]
  BY <1>1, <1>2, <1>3, <1>5, PassInv
<1> QED
  BY <1>1, <1>4, <1>5

LEMMA BreakInv ==
  ASSUME G!GateAssumption, GateInv, NEW p \in Proc, G!Break(p)
  PROVE  GateInv'
<1>1. /\ step[p] = "break" /\ broken' = TRUE
      /\ UNCHANGED <<banned, hits, expires, history, op, count, admitted, pushed>> /\ UNCHANGED <<late, failedOpen>>
      /\ UNCHANGED <<strikes, cooling>>
      /\ step' = [step EXCEPT ![p] = "done"] /\ answer' = [answer EXCEPT ![p] = "circuit_break"]
  BY DEF G!Break, G!Answer, G!Goto, G!past
<1>2. cooling \in BOOLEAN /\ strikes \in Nat /\ "done" \in Statements /\ "circuit_break" \in Results
  BY GuestFacts DEF Statements, Results
<1> QED
  BY <1>1, <1>2, PassInv

LEMMA PostInv ==
  ASSUME G!GateAssumption, GateInv, NEW p \in Proc, G!Handle(p)
  PROVE  GateInv'
<1>1. /\ step[p] = "handle"
      /\ UNCHANGED <<banned, hits, expires, history, op, count, admitted, pushed>> /\ UNCHANGED <<late, failedOpen>>
      /\ UNCHANGED <<broken, cooling, strikes>>
      /\ \/ step' = [step EXCEPT ![p] = "push"] /\ answer' = answer
         \/ step' = [step EXCEPT ![p] = "done"] /\ answer' = [answer EXCEPT ![p] = "blocked"]
  BY DEF G!Handle, G!Answer, G!Pass, G!Goto, G!keys, G!past
<1>2. broken \in BOOLEAN /\ cooling \in BOOLEAN /\ strikes \in Nat /\ G!Behind(p)
  BY <1>1, GuestFacts DEF G!Behind
<1>3. "push" \in Statements /\ "done" \in Statements /\ "blocked" \in Results
  BY DEF Statements, Results
<1>4. CASE step' = [step EXCEPT ![p] = "push"] /\ answer' = answer
  BY <1>1, <1>2, <1>3, <1>4, PassInv
<1>5. CASE step' = [step EXCEPT ![p] = "done"] /\ answer' = [answer EXCEPT ![p] = "blocked"]
  BY <1>1, <1>2, <1>3, <1>5, PassInv
<1> QED
  BY <1>1, <1>4, <1>5

LEMMA SetCooldownInv ==
  ASSUME G!GateAssumption, GateInv, NEW p \in Proc, G!SetCooldown(p)
  PROVE  GateInv'
<1>1. /\ step[p] = "cool" /\ cooling' = TRUE
      /\ UNCHANGED <<banned, hits, expires, history, op, count, admitted, pushed>> /\ UNCHANGED <<late, failedOpen>>
      /\ UNCHANGED <<broken, strikes>>
      /\ step' = [step EXCEPT ![p] = "done"] /\ answer' = [answer EXCEPT ![p] = "allowed"]
  BY DEF G!SetCooldown, G!Answer, G!Goto
<1>2. broken \in BOOLEAN /\ strikes \in Nat /\ "done" \in Statements /\ "allowed" \in Results
  BY GuestFacts DEF Statements, Results
<1> QED
  BY <1>1, <1>2, PassInv

LEMMA GuestCutOffInv ==
  ASSUME G!GateAssumption, GateInv, NEW p \in Proc, G!CutOff(p)
  PROVE  GateInv'
<1>1. /\ step[p] # "done"
      /\ UNCHANGED <<banned, hits, expires, history, op, count, admitted, pushed>> /\ UNCHANGED <<late, failedOpen>>
      /\ UNCHANGED <<broken, cooling, strikes>>
      /\ step' = [step EXCEPT ![p] = "done"] /\ answer' = [answer EXCEPT ![p] = "cut"]
  BY DEF G!CutOff, G!Active, G!Answer, G!Goto, G!keys, G!past
<1>2. broken \in BOOLEAN /\ cooling \in BOOLEAN /\ strikes \in Nat /\ "done" \in Statements
  BY GuestFacts DEF Statements
<1> QED
  BY <1>1, <1>2, PassInv

\* INCR: the request counts itself, for the first time.
LEMMA IncrInv ==
  ASSUME G!GateAssumption, GateInv, NEW p \in Proc, G!Incr(p)
  PROVE  GateInv'
<1> DEFINE r == op[p]
           n == hits[r] + 1
           next == IF n = 1 THEN "expire" ELSE "limit"
           let == IF n <= Max THEN admitted[r] + 1 ELSE admitted[r]
<1>1. /\ step[p] = "incr" /\ hits' = [hits EXCEPT ![r] = n] /\ count' = [count EXCEPT ![p] = n]
      /\ step' = [step EXCEPT ![p] = next] /\ admitted' = [admitted EXCEPT ![r] = let]
      /\ UNCHANGED <<banned, expires, strikes, broken, cooling, history, op, answer, pushed, late, failedOpen>>
  BY DEF G!Incr, G!Counted, G!WithinLimit, G!Goto
<1>2. /\ r \in Routes /\ hits \in [Routes -> Nat] /\ admitted \in [Routes -> Nat] /\ WindowOk(r)
      /\ count \in [Proc -> 0 .. Max + Cardinality(Proc)] /\ hits[r] \in Nat /\ admitted[r] \in Nat
  BY DEF GateInv, GateTyped
<1>3. GuestInv(p) /\ count[p] = 0 /\ answer[p] = "none"
  BY <1>1, GuestFacts DEF GuestInv, CountedOnce
<1>4. n \in Nat /\ n >= 1 /\ let \in Nat /\ (admitted[r] <= hits[r] /\ admitted[r] <= Max => let <= n /\ let <= Max)
  BY <1>2, Numbers
<1>5. next \in {"expire", "limit"} /\ (next = "expire" \/ hits[r] > 0)
  BY <1>2
<1>6. n = hits[r] + 1
  OBVIOUS
<1> HIDE DEF n, next, let
<1>7. /\ Asked' = Asked \cup {p} /\ p \notin Asked /\ Asked' \subseteq Proc /\ Asked \subseteq Proc
  BY <1>1, <1>2, <1>3, <1>4 DEF Asked
<1>8. Cardinality(Asked') = Cardinality(Asked) + 1 /\ Cardinality(Asked') <= Cardinality(Proc) /\ Cardinality(Asked) \in Nat
  BY <1>7, GuestSets, FS_AddElement
<1>9. n <= Max + Cardinality(Asked') /\ n <= Max + Cardinality(Proc)
  BY <1>2, <1>6, <1>8, Numbers DEF WindowOk
<1>10. GateTyped'
  <2>1. count' \in [Proc -> 0 .. Max + Cardinality(Proc)]
    BY <1>1, <1>2, <1>4, <1>9, Numbers
  <2>2. hits' \in [Routes -> Nat] /\ admitted' \in [Routes -> Nat]
    BY <1>1, <1>2, <1>4
  <2>3. step' \in [Proc -> Statements]
    BY <1>1, <1>5, GuestFacts DEF Statements
  <2> QED
    BY <1>1, <2>1, <2>2, <2>3 DEF GateInv, GateTyped
<1>11. step'[p] = next /\ \A q \in Proc \ {p} : step'[q] = step[q] /\ count'[q] = count[q]
  BY <1>1, <1>2, GuestFacts
<1>12. \A q \in Proc : \A o \in Routes : op[q] = o /\ (step[q] = "expire" \/ answer[q] = "cut") =>
                                           op'[q] = o /\ (step'[q] = "expire" \/ answer'[q] = "cut")
  BY <1>1, <1>11
<1>13. ASSUME NEW o \in Routes, o # r PROVE WindowOk(o)'
  <2>1. hits'[o] = hits[o] /\ expires'[o] = expires[o] /\ admitted'[o] = admitted[o] /\ Asked \subseteq Asked'
    BY <1>1, <1>2, <1>7, <1>13
  <2> QED
    BY <1>12, <2>1, WindowStays
<1>14. ASSUME NEW o \in Routes, o = r PROVE WindowOk(o)'
  <2>1. hits'[o] = n /\ admitted'[o] = let /\ expires'[o] = expires[o]
    BY <1>1, <1>2, <1>14
  <2>2. let <= n /\ let <= Max
    BY <1>2, <1>4 DEF WindowOk
  <2>3. ASSUME ~expires'[o] PROVE \E q \in Proc : op'[q] = o /\ (step'[q] = "expire" \/ answer'[q] = "cut")
    <3>1. CASE next = "expire"
      BY <1>1, <1>11, <1>14, <3>1
    <3>2. CASE hits[r] > 0
      <4>1. PICK q \in Proc : op[q] = o /\ (step[q] = "expire" \/ answer[q] = "cut")
        BY <1>2, <1>14, <2>1, <2>3, <3>2 DEF WindowOk
      <4> QED
        BY <1>12, <4>1
    <3> QED
      BY <1>5, <3>1, <3>2
  <2>4. n <= Max + Cardinality(Asked)'
    BY <1>9
  <2> QED
    BY <2>1, <2>2, <2>3, <2>4 DEF WindowOk
<1>15. ASSUME NEW o \in Routes PROVE ListOk(o)'
  <2>1. Untrimmed(o) \subseteq Untrimmed(o)'
    BY <1>1, <1>11 DEF Untrimmed
  <2> QED
    BY <1>1, <2>1, ListStays
<1>16. GuestInv(p)'
  BY <1>1, <1>3, <1>5, <1>11 DEF GuestInv, CountedOnce, KeptOut, G!Behind
<1>17. ASSUME NEW q \in Proc, q # p PROVE GuestInv(q)'
  <2>1. GuestInv(q)
    BY DEF GateInv
  <2>2. ("ban" \in late'[q] => banned') /\ ("break" \in late'[q] => broken')
    BY <1>1, <2>1 DEF GuestInv, KeptOut
  <2> QED
    BY <1>1, <1>11, <1>17, <2>2, GuestStays
<1> HIDE DEF r
<1> QED
  BY <1>10, <1>13, <1>14, <1>15, <1>16, <1>17 DEF GateInv

\* EXPIRE, by the request that created the key.
LEMMA SetExpiryInv ==
  ASSUME G!GateAssumption, GateInv, NEW p \in Proc, G!Expire(p)
  PROVE  GateInv'
<1> DEFINE r == op[p]
<1>1. /\ step[p] = "expire" /\ expires' = [expires EXCEPT ![r] = TRUE] /\ step' = [step EXCEPT ![p] = "limit"]
      /\ UNCHANGED <<banned, hits, broken, strikes, cooling, history, op, count, answer, admitted, pushed, late, failedOpen>>
  BY DEF G!Expire, G!Goto, G!past
<1>2. r \in Routes /\ expires \in [Routes -> BOOLEAN]
  BY DEF GateInv, GateTyped
<1>3. /\ expires' \in [Routes -> BOOLEAN] /\ expires'[r] /\ (\A o \in Routes \ {r} : expires'[o] = expires[o])
      /\ step' \in [Proc -> Statements] /\ step'[p] = "limit" /\ \A q \in Proc \ {p} : step'[q] = step[q]
  BY <1>1, <1>2, GuestFacts DEF Statements
<1>4. GateTyped'
  BY <1>1, <1>3 DEF GateInv, GateTyped
<1>5. GuestInv(p)'
  BY <1>1, <1>3, GuestFacts DEF GuestInv, CountedOnce, KeptOut, G!Behind
<1>6. ASSUME NEW q \in Proc, q # p PROVE GuestInv(q)'
  <2>1. GuestInv(q)
    BY DEF GateInv
  <2>2. ("ban" \in late'[q] => banned') /\ ("break" \in late'[q] => broken')
    BY <1>1, <2>1 DEF GuestInv, KeptOut
  <2> QED
    BY <1>1, <1>3, <1>6, <2>2, GuestStays
<1>7. ASSUME NEW o \in Routes PROVE ListOk(o)'
  <2>1. Untrimmed(o) \subseteq Untrimmed(o)'
    BY <1>1, <1>3 DEF Untrimmed
  <2> QED
    BY <1>1, <2>1, ListStays
<1>8. Asked' = Asked
  BY <1>1 DEF Asked
<1>9. ASSUME NEW o \in Routes, o # r PROVE WindowOk(o)'
  <2>1. \A q \in Proc : op[q] = o /\ (step[q] = "expire" \/ answer[q] = "cut") =>
                          op'[q] = o /\ (step'[q] = "expire" \/ answer'[q] = "cut")
    BY <1>1, <1>3, <1>9
  <2>2. hits'[o] = hits[o] /\ expires'[o] = expires[o] /\ admitted'[o] = admitted[o]
    BY <1>1, <1>3, <1>9
  <2> QED
    BY <1>8, <2>1, <2>2, WindowStays
<1>10. ASSUME NEW o \in Routes, o = r PROVE WindowOk(o)'
  <2>1. WindowOk(o) /\ hits'[o] = hits[o] /\ admitted'[o] = admitted[o] /\ expires'[o] /\ Cardinality(Asked)' = Cardinality(Asked)
    BY <1>1, <1>3, <1>8, <1>10 DEF GateInv
  <2> QED
    BY <2>1 DEF WindowOk
<1> HIDE DEF r
<1> QED
  BY <1>4, <1>5, <1>6, <1>7, <1>9, <1>10 DEF GateInv
-----------------------------------------------------------------------------
\* LPUSH puts the message before the others of its route; its sender is about to trim.
LEMMA PushInv ==
  ASSUME G!GateAssumption, GateInv, NEW p \in Proc, G!Push(p)
  PROVE  GateInv'
<1> DEFINE r == op[p]
           longer == <<p>> \o history[r]
           all == <<p>> \o pushed[r]
<1>1. /\ step[p] = "push" /\ history' = [history EXCEPT ![r] = longer] /\ pushed' = [pushed EXCEPT ![r] = all]
      /\ step' = [step EXCEPT ![p] = "trim"]
      /\ UNCHANGED <<banned, hits, expires, strikes, broken, cooling, op, count, answer, admitted, late, failedOpen>>
  BY DEF G!Push, G!Goto
<1>2. /\ r \in Routes /\ history \in [Routes -> Seq(Proc)] /\ pushed \in [Routes -> Seq(Proc)]
      /\ history[r] \in Seq(Proc) /\ pushed[r] \in Seq(Proc)
  BY DEF GateInv, GateTyped
<1>3. /\ longer \in Seq(Proc) /\ Len(longer) = Len(history[r]) + 1
      /\ all \in Seq(Proc) /\ Len(all) = Len(pushed[r]) + 1
      /\ longer[1] = p /\ all[1] = p
      /\ \A i \in 1 .. Len(history[r]) : longer[i + 1] = history[r][i]
      /\ \A i \in 1 .. Len(pushed[r]) : all[i + 1] = pushed[r][i]
  BY <1>2
<1> HIDE DEF longer, all
<1>4. /\ step' \in [Proc -> Statements] /\ step'[p] = "trim" /\ \A q \in Proc \ {p} : step'[q] = step[q]
  BY <1>1, GuestFacts DEF Statements
<1>5. GateTyped'
  BY <1>1, <1>2, <1>3, <1>4 DEF GateInv, GateTyped
<1>6. GuestInv(p) /\ answer[p] = "none" /\ GuestInv(p)'
  BY <1>1, <1>4, GuestFacts DEF GuestInv, CountedOnce, KeptOut, G!Behind
<1>7. ASSUME NEW q \in Proc, q # p PROVE GuestInv(q)'
  <2>1. GuestInv(q)
    BY DEF GateInv
  <2>2. ("ban" \in late'[q] => banned') /\ ("break" \in late'[q] => broken')
    BY <1>1, <2>1 DEF GuestInv, KeptOut
  <2> QED
    BY <1>1, <1>4, <1>7, <2>2, GuestStays
<1>8. ASSUME NEW o \in Routes PROVE WindowOk(o)'
  <2>1. \A q \in Proc : op[q] = o /\ (step[q] = "expire" \/ answer[q] = "cut") =>
                          op'[q] = o /\ (step'[q] = "expire" \/ answer'[q] = "cut")
    BY <1>1, <1>4
  <2>2. Asked' = Asked
    BY <1>1 DEF Asked
  <2> QED
    BY <1>1, <2>1, <2>2, WindowStays
<1>9. ASSUME NEW o \in Routes, o # r PROVE ListOk(o)'
  <2>1. Untrimmed(o) \subseteq Untrimmed(o)'
    BY <1>1, <1>4 DEF Untrimmed
  <2>2. history'[o] = history[o] /\ pushed'[o] = pushed[o]
    BY <1>1, <1>2, <1>9
  <2> QED
    BY <2>1, <2>2, ListStays
<1>10. ASSUME NEW o \in Routes, o = r PROVE ListOk(o)'
  <2>1. history'[o] = longer /\ pushed'[o] = all /\ ListOk(o) /\ Len(history[r]) \in Nat /\ Len(pushed[r]) \in Nat
    BY <1>1, <1>2, <1>10 DEF GateInv
  <2>2. Untrimmed(o)' = Untrimmed(o) \cup {p} /\ p \notin Untrimmed(o) /\ Untrimmed(o) \subseteq Proc
    BY <1>1, <1>4, <1>6, <1>10 DEF Untrimmed
  <2>3. Cardinality(Untrimmed(o)') = Cardinality(Untrimmed(o)) + 1 /\ Cardinality(Untrimmed(o)) \in Nat
    BY <2>2, GuestSets, FS_AddElement
  <2>4. \A i \in 1 .. Len(longer) : longer[i] = all[i]
    <3> TAKE i \in 1 .. Len(longer)
    <3>1. CASE i = 1
      BY <1>3, <3>1
    <3>2. CASE i # 1
      <4>1. i - 1 \in 1 .. Len(history[r]) /\ i - 1 \in 1 .. Len(pushed[r]) /\ (i - 1) + 1 = i
        BY <1>3, <1>10, <2>1, <3>2 DEF ListOk
      <4>2. longer[(i - 1) + 1] = history[r][i - 1] /\ all[(i - 1) + 1] = pushed[r][i - 1]
        BY <1>3, <4>1
      <4> QED
        BY <1>10, <2>1, <4>1, <4>2 DEF ListOk
    <3> QED
      BY <3>1, <3>2
  <2>5. Len(longer) <= Len(all)
    BY <1>3, <1>10, <2>1 DEF ListOk
  <2>6. Len(longer) >= Len(all) \/ Len(longer) >= HistoryMax
    BY <1>3, <1>10, <2>1, Numbers DEF ListOk
  <2>7. Len(longer) <= HistoryMax + Cardinality(Untrimmed(o)')
    BY <1>3, <1>10, <2>1, <2>3, Numbers DEF ListOk
  <2> QED
    BY <2>1, <2>4, <2>5, <2>6, <2>7 DEF ListOk
<1> HIDE DEF r
<1> QED
  BY <1>5, <1>6, <1>7, <1>8, <1>9, <1>10 DEF GateInv

\* LTRIM keeps the newest HistoryMax of the list.
LEMMA TrimmedFacts ==
  ASSUME G!GateAssumption, NEW s \in Seq(Proc)
  PROVE  /\ G!Trimmed(s) \in Seq(Proc)
         /\ Len(G!Trimmed(s)) = (IF Len(s) < HistoryMax THEN Len(s) ELSE HistoryMax)
         /\ \A i \in 1 .. Len(G!Trimmed(s)) : G!Trimmed(s)[i] = s[i]
<1> DEFINE n == IF Len(s) < HistoryMax THEN Len(s) ELSE HistoryMax
<1>1. n \in Nat /\ n <= Len(s)
  BY Numbers
<1>2. SubSeq(s, 1, n) \in Seq(Proc) /\ Len(SubSeq(s, 1, n)) = n /\ \A i \in 1 .. n : SubSeq(s, 1, n)[i] = s[i]
  <2> HIDE DEF n
  <2> QED
    BY <1>1
<1> QED
  BY <1>2 DEF G!Trimmed

LEMMA TrimInv ==
  ASSUME G!GateAssumption, GateInv, NEW p \in Proc, G!Trim(p)
  PROVE  GateInv'
<1> DEFINE r == op[p]
           short == G!Trimmed(history[r])
<1>1. /\ step[p] = "trim" /\ history' = [history EXCEPT ![r] = short] /\ step' = [step EXCEPT ![p] = "cool"]
      /\ UNCHANGED <<banned, hits, expires, strikes, broken, cooling, op, count, answer, admitted, pushed, late, failedOpen>>
  BY DEF G!Trim, G!Goto, G!past
<1>2. /\ r \in Routes /\ history \in [Routes -> Seq(Proc)] /\ pushed \in [Routes -> Seq(Proc)]
      /\ history[r] \in Seq(Proc) /\ Len(history[r]) \in Nat
  BY DEF GateInv, GateTyped
<1>3. /\ short \in Seq(Proc) /\ Len(short) = (IF Len(history[r]) < HistoryMax THEN Len(history[r]) ELSE HistoryMax)
      /\ \A i \in 1 .. Len(short) : short[i] = history[r][i]
  BY <1>2, TrimmedFacts
<1> HIDE DEF short
<1>4. /\ step' \in [Proc -> Statements] /\ step'[p] = "cool" /\ \A q \in Proc \ {p} : step'[q] = step[q]
  BY <1>1, GuestFacts DEF Statements
<1>5. GateTyped'
  BY <1>1, <1>2, <1>3, <1>4 DEF GateInv, GateTyped
<1>6. GuestInv(p)'
  BY <1>1, <1>4, GuestFacts DEF GuestInv, CountedOnce, KeptOut, G!Behind
<1>7. ASSUME NEW q \in Proc, q # p PROVE GuestInv(q)'
  <2>1. GuestInv(q)
    BY DEF GateInv
  <2>2. ("ban" \in late'[q] => banned') /\ ("break" \in late'[q] => broken')
    BY <1>1, <2>1 DEF GuestInv, KeptOut
  <2> QED
    BY <1>1, <1>4, <1>7, <2>2, GuestStays
<1>8. ASSUME NEW o \in Routes PROVE WindowOk(o)'
  <2>1. \A q \in Proc : op[q] = o /\ (step[q] = "expire" \/ answer[q] = "cut") =>
                          op'[q] = o /\ (step'[q] = "expire" \/ answer'[q] = "cut")
    BY <1>1, <1>4
  <2>2. Asked' = Asked
    BY <1>1 DEF Asked
  <2> QED
    BY <1>1, <2>1, <2>2, WindowStays
<1>9. ASSUME NEW o \in Routes, o # r PROVE ListOk(o)'
  <2>1. Untrimmed(o) \subseteq Untrimmed(o)'
    BY <1>1, <1>4, <1>9 DEF Untrimmed
  <2>2. history'[o] = history[o] /\ pushed'[o] = pushed[o]
    BY <1>1, <1>2, <1>9
  <2> QED
    BY <2>1, <2>2, ListStays
<1>10. ASSUME NEW o \in Routes, o = r PROVE ListOk(o)'
  <2>1. history'[o] = short /\ pushed'[o] = pushed[o] /\ ListOk(o)
    BY <1>1, <1>2, <1>10 DEF GateInv
  <2>2. Cardinality(Untrimmed(o)') \in Nat
    <3>1. Untrimmed(o)' \subseteq Proc
      BY <1>1 DEF Untrimmed
    <3> QED
      BY <3>1, GuestSets
  <2>3. Len(short) \in Nat /\ Len(short) <= HistoryMax /\ Len(short) <= Len(history[o])
    BY <1>2, <1>3, <1>10, Numbers
  <2>4. pushed[o] \in Seq(Proc) /\ Len(pushed[o]) \in Nat /\ Len(history[o]) \in Nat
    BY <1>2, <1>10
  <2>5. Len(short) <= Len(pushed[o]) /\ \A i \in 1 .. Len(short) : short[i] = pushed[o][i]
    BY <1>3, <1>10, <2>1, <2>3, <2>4 DEF ListOk
  <2>6. Len(short) >= Len(pushed[o]) \/ Len(short) >= HistoryMax
    BY <1>3, <1>10, <2>1, <2>4, Numbers DEF ListOk
  <2>7. Len(short) <= HistoryMax + Cardinality(Untrimmed(o)')
    BY <2>2, <2>3, Numbers
  <2> QED
    BY <2>1, <2>5, <2>6, <2>7 DEF ListOk
<1> HIDE DEF r
<1> QED
  BY <1>5, <1>6, <1>7, <1>8, <1>9, <1>10 DEF GateInv
-----------------------------------------------------------------------------
\* Nothing a request knows of itself changes: a key runs out, or an operator acts.
LEMMA KeysInv ==
  ASSUME G!GateAssumption, GateInv, UNCHANGED <<step, op, count, answer, history, pushed, failedOpen>>,
         banned' \in BOOLEAN, broken' \in BOOLEAN, cooling' \in BOOLEAN, strikes' \in Nat,
         hits' \in [Routes -> Nat], expires' \in [Routes -> BOOLEAN], admitted' \in [Routes -> Nat],
         late' \in [Proc -> SUBSET Bars],
         \A p \in Proc : /\ late'[p] \subseteq late[p]
                         /\ ("ban" \in late'[p] => banned') /\ ("break" \in late'[p] => broken'),
         \A o \in Routes : \/ hits'[o] = hits[o] /\ expires'[o] = expires[o] /\ admitted'[o] = admitted[o]
                           \/ hits'[o] = 0 /\ admitted'[o] = 0
  PROVE  GateInv'
<1>1. GateTyped'
  BY DEF GateInv, GateTyped
<1>2. Asked' = Asked /\ Asked \subseteq Proc
  BY DEF Asked
<1>3. ASSUME NEW p \in Proc PROVE GuestInv(p)'
  BY GuestStays
<1>4. ASSUME NEW o \in Routes PROVE ListOk(o)'
  <2>1. Untrimmed(o) \subseteq Untrimmed(o)'
    BY DEF Untrimmed
  <2> QED
    BY <2>1, ListStays
<1>5. ASSUME NEW o \in Routes PROVE WindowOk(o)'
  <2>1. CASE hits'[o] = hits[o] /\ expires'[o] = expires[o] /\ admitted'[o] = admitted[o]
    <3>1. \A q \in Proc : op[q] = o /\ (step[q] = "expire" \/ answer[q] = "cut") =>
                            op'[q] = o /\ (step'[q] = "expire" \/ answer'[q] = "cut")
      OBVIOUS
    <3> QED
      BY <1>2, <2>1, <3>1, WindowStays
  <2>2. CASE hits'[o] = 0 /\ admitted'[o] = 0
    <3>1. Cardinality(Asked)' = Cardinality(Asked) /\ Cardinality(Asked) \in Nat
      BY <1>2, GuestSets
    <3> QED
      BY <2>2, <3>1, Numbers DEF WindowOk
  <2> QED
    BY <2>1, <2>2
<1> QED
  BY <1>1, <1>3, <1>4, <1>5 DEF GateInv

LEMMA KeysFacts ==
  ASSUME GateInv
  PROVE  /\ banned \in BOOLEAN /\ broken \in BOOLEAN /\ cooling \in BOOLEAN /\ strikes \in Nat
         /\ hits \in [Routes -> Nat] /\ expires \in [Routes -> BOOLEAN] /\ admitted \in [Routes -> Nat]
         /\ late \in [Proc -> SUBSET Bars]
         /\ \A p \in Proc : ("ban" \in late[p] => banned) /\ ("break" \in late[p] => broken)
BY DEF GateInv, GateTyped, GuestInv, KeptOut

LEMMA BanInv ==
  ASSUME G!GateAssumption, GateInv, G!Ban \/ G!Unban
  PROVE  GateInv'
<1>1. /\ UNCHANGED <<step, op, count, answer, history, pushed, failedOpen>>
      /\ UNCHANGED <<hits, expires, strikes, broken, cooling, admitted>>
      /\ banned' \in BOOLEAN
      /\ \/ banned' /\ late' = late
         \/ late' = [p \in Proc |-> late[p] \ {"ban"}]
  BY DEF G!Ban, G!Unban, G!keys, G!local, G!past
<1>2. /\ late' \in [Proc -> SUBSET Bars]
      /\ \A p \in Proc : late'[p] \subseteq late[p] /\ ("ban" \in late'[p] => banned') /\ ("break" \in late'[p] => broken')
  BY <1>1, KeysFacts
<1>3. \A o \in Routes : hits'[o] = hits[o] /\ expires'[o] = expires[o] /\ admitted'[o] = admitted[o]
  BY <1>1
<1> QED
  BY <1>1, <1>2, <1>3, KeysFacts, KeysInv

LEMMA ExpireHitsInv ==
  ASSUME G!GateAssumption, GateInv, NEW r \in Routes, G!ExpireHits(r)
  PROVE  GateInv'
<1>1. /\ UNCHANGED <<step, op, count, answer, history, pushed, failedOpen>>
      /\ UNCHANGED <<banned, strikes, broken, cooling, late>>
      /\ hits' = [hits EXCEPT ![r] = 0] /\ expires' = [expires EXCEPT ![r] = FALSE] /\ admitted' = [admitted EXCEPT ![r] = 0]
  BY DEF G!ExpireHits, G!local
<1>2. hits' \in [Routes -> Nat] /\ expires' \in [Routes -> BOOLEAN] /\ admitted' \in [Routes -> Nat]
  BY <1>1, KeysFacts
<1>3. \A o \in Routes : \/ hits'[o] = hits[o] /\ expires'[o] = expires[o] /\ admitted'[o] = admitted[o]
                        \/ hits'[o] = 0 /\ admitted'[o] = 0
  BY <1>1, KeysFacts
<1> QED
  BY <1>1, <1>2, <1>3, KeysFacts, KeysInv

LEMMA ExpireKeysInv ==
  ASSUME G!GateAssumption, GateInv, G!ExpireStrikes \/ G!ExpireBreak \/ G!ExpireCooldown
  PROVE  GateInv'
<1>1. /\ UNCHANGED <<step, op, count, answer, history, pushed, failedOpen>>
      /\ UNCHANGED <<banned, hits, expires, admitted>>
      /\ strikes' \in Nat /\ broken' \in BOOLEAN /\ cooling' \in BOOLEAN
      /\ \/ broken' = broken /\ late' = late
         \/ late' = [p \in Proc |-> late[p] \ {"break"}]
  <2>1. CASE G!ExpireStrikes
    BY <2>1, KeysFacts DEF G!ExpireStrikes, G!local
  <2>2. CASE G!ExpireBreak
    BY <2>2, KeysFacts DEF G!ExpireBreak, G!local
  <2>3. CASE G!ExpireCooldown
    BY <2>3, KeysFacts DEF G!ExpireCooldown, G!local
  <2> QED
    BY <2>1, <2>2, <2>3
<1>2. /\ late' \in [Proc -> SUBSET Bars]
      /\ \A p \in Proc : late'[p] \subseteq late[p] /\ ("ban" \in late'[p] => banned') /\ ("break" \in late'[p] => broken')
  BY <1>1, KeysFacts
<1>3. \A o \in Routes : hits'[o] = hits[o] /\ expires'[o] = expires[o] /\ admitted'[o] = admitted[o]
  BY <1>1
<1> QED
  BY <1>1, <1>2, <1>3, KeysFacts, KeysInv

LEMMA GateStutterInv ==
  ASSUME G!GateAssumption, GateInv, UNCHANGED gate
  PROVE  GateInv'
<1>1. /\ UNCHANGED <<step, op, count, answer, history, pushed, failedOpen>>
      /\ UNCHANGED <<banned, broken, cooling, strikes, hits, expires, admitted, late>>
  BY DEF gate
<1> QED
  BY <1>1, KeysFacts, KeysInv

LEMMA GateInitInv == G!GateAssumption /\ G!Init => GateInv
<1> SUFFICES ASSUME G!GateAssumption, G!Init PROVE GateInv
  OBVIOUS
<1>1. Max \in Nat /\ HistoryMax \in Nat /\ Cardinality(Proc) \in Nat /\ Threshold \in Nat
  BY Numbers DEF G!GateAssumption
<1>2. hits \in [Routes -> 0 .. Max] /\ admitted = hits /\ expires = [o \in Routes |-> hits[o] > 0]
  BY DEF G!Init, Routes
<1>3. GateTyped
  <2>1. << >> \in Seq(Proc)
    OBVIOUS
  <2>2. history \in [Routes -> Seq(Proc)] /\ pushed \in [Routes -> Seq(Proc)]
    BY <2>1 DEF G!Init, Routes
  <2>3. strikes \in Nat /\ hits \in [Routes -> Nat] /\ admitted \in [Routes -> Nat] /\ expires \in [Routes -> BOOLEAN]
    BY <1>1, <1>2 DEF G!Init
  <2>4. count \in [Proc -> 0 .. Max + Cardinality(Proc)]
    BY <1>1 DEF G!Init
  <2>5. step \in [Proc -> Statements] /\ op \in [Proc -> Routes] /\ answer \in [Proc -> Results]
    BY DEF G!Init, Routes, Statements, Results
  <2>6. late \in [Proc -> SUBSET Bars] /\ failedOpen \in [Proc -> BOOLEAN]
    BY DEF G!Init
  <2>7. banned \in BOOLEAN /\ broken \in BOOLEAN /\ cooling \in BOOLEAN
    BY DEF G!Init
  <2> QED
    BY <2>2, <2>3, <2>4, <2>5, <2>6, <2>7 DEF GateTyped
<1>4. ASSUME NEW o \in Routes PROVE WindowOk(o)
  <2>1. Cardinality(Asked) \in Nat
    BY GuestSets DEF Asked
  <2>2. hits[o] \in 0 .. Max /\ admitted[o] = hits[o] /\ (hits[o] > 0 => expires[o])
    BY <1>2
  <2>3. ~(hits[o] > 0 /\ ~expires[o])
    BY <2>2
  <2> QED
    BY <1>1, <2>1, <2>2, <2>3 DEF WindowOk
<1>5. ASSUME NEW o \in Routes PROVE ListOk(o)
  <2>1. history[o] = << >> /\ pushed[o] = << >>
    BY DEF G!Init, Routes
  <2>2. Cardinality(Untrimmed(o)) \in Nat
    BY GuestSets DEF Untrimmed
  <2> QED
    BY <1>1, <2>1, <2>2 DEF ListOk
<1>6. ASSUME NEW p \in Proc PROVE GuestInv(p)
  <2>1. step[p] = "idle" /\ count[p] = 0 /\ answer[p] = "none" /\ late[p] = {}
    BY DEF G!Init
  <2> QED
    BY <2>1 DEF GuestInv, CountedOnce, KeptOut, G!Behind
<1> QED
  BY <1>3, <1>4, <1>5, <1>6 DEF GateInv

LEMMA GateNextInv ==
  ASSUME G!GateAssumption, GateInv, G!Next
  PROVE  GateInv'
<1>1. ASSUME NEW p \in Proc, G!Arrive(p) \/ G!Step(p) \/ G!CutOff(p) PROVE GateInv'
  <2>1. ASSUME G!Step(p) PROVE GateInv'
    BY <2>1, ChecksInv, ValidateInv, IncrInv, SetExpiryInv, LimitInv, StrikeInv, BreakInv, PostInv, PushInv, TrimInv, SetCooldownInv
       DEF G!Step
  <2> QED
    BY <1>1, <2>1, ArriveInv, GuestCutOffInv
<1>2. ASSUME NEW o \in G!Ops, G!ExpireHits(o) PROVE GateInv'
  <2>1. o \in Routes
    BY DEF Routes
  <2> QED
    BY <1>2, <2>1, ExpireHitsInv
<1>3. ASSUME G!AllAnswered PROVE GateInv'
  <2>1. UNCHANGED gate
    BY <1>3 DEF G!AllAnswered, G!vars, G!keys, G!local, G!past, gate
  <2> QED
    BY <2>1, GateStutterInv
<1> QED
  BY <1>1, <1>2, <1>3, BanInv, ExpireKeysInv DEF G!Next

\* What the invariant says of the lists, in the words of the history.
LEMMA HistoryIsKept == G!GateAssumption /\ GateInv => G!HistoryKept
<1> SUFFICES ASSUME G!GateAssumption, GateInv, NEW o \in Routes
             PROVE  /\ history[o] = SubSeq(pushed[o], 1, Len(history[o]))
                    /\ Len(history[o]) >= Len(G!Trimmed(pushed[o])) /\ Len(history[o]) <= Len(pushed[o])
                    /\ Len(history[o]) <= HistoryMax + Cardinality({p \in Proc : op[p] = o /\ step[p] = "trim"})
                                                     + Cardinality({p \in Proc : op[p] = o /\ answer[p] = "cut"})
  BY DEF G!HistoryKept, Routes, G!Cardinality, Cardinality
<1>1. ListOk(o) /\ history[o] \in Seq(Proc) /\ pushed[o] \in Seq(Proc) /\ HistoryMax \in Nat
  BY Numbers DEF GateInv, GateTyped
<1>2. Len(history[o]) \in Nat /\ Len(pushed[o]) \in Nat /\ Len(history[o]) <= Len(pushed[o])
  BY <1>1 DEF ListOk
<1>3. history[o] = SubSeq(pushed[o], 1, Len(history[o]))
  <2>1. /\ SubSeq(pushed[o], 1, Len(history[o])) \in Seq(Proc)
        /\ Len(SubSeq(pushed[o], 1, Len(history[o]))) = Len(history[o])
        /\ \A i \in 1 .. Len(history[o]) : SubSeq(pushed[o], 1, Len(history[o]))[i] = pushed[o][i]
    BY <1>1, <1>2
  <2>2. \A i \in 1 .. Len(history[o]) : SubSeq(pushed[o], 1, Len(history[o]))[i] = history[o][i]
    BY <1>1, <2>1 DEF ListOk
  <2> QED
    BY <1>1, <2>1, <2>2
<1>4. Len(history[o]) >= Len(G!Trimmed(pushed[o]))
  <2>1. Len(G!Trimmed(pushed[o])) = (IF Len(pushed[o]) < HistoryMax THEN Len(pushed[o]) ELSE HistoryMax)
    BY <1>1, TrimmedFacts
  <2> QED
    BY <1>1, <1>2, <2>1 DEF ListOk
<1>5. ASSUME NEW A, NEW B, A = {p \in Proc : op[p] = o /\ step[p] = "trim"}, B = {p \in Proc : op[p] = o /\ answer[p] = "cut"}
      PROVE  Len(history[o]) <= HistoryMax + Cardinality(A) + Cardinality(B)
  <2>1. A \subseteq Proc /\ B \subseteq Proc /\ Untrimmed(o) = A \cup B
    BY <1>5 DEF Untrimmed
  <2>2. A \cap B = {}
    BY <1>5 DEF GateInv, GuestInv
  <2>3. IsFiniteSet(A) /\ IsFiniteSet(B) /\ Cardinality(A) \in Nat /\ Cardinality(B) \in Nat
    BY <2>1, GuestSets
  <2>4. Cardinality(A \cup B) = Cardinality(A) + Cardinality(B) - Cardinality({})
    BY <2>2, <2>3, FS_Union
  <2>5. Cardinality(Untrimmed(o)) = Cardinality(A) + Cardinality(B)
    BY <2>1, <2>3, <2>4, FS_EmptySet
  <2> QED
    BY <1>1, <1>2, <2>3, <2>5 DEF ListOk
<1> QED
  BY <1>2, <1>3, <1>4, <1>5

LEMMA GateStays ==
  ASSUME G!GateAssumption, GateInv, [SessionStep \/ GateStep]_<<vars, gate>>
  PROVE  GateInv'
<1>1. CASE SessionStep
  BY <1>1, GateStutterInv DEF SessionStep
<1>2. CASE GateStep
  BY <1>2, GateNextInv DEF GateStep
<1>3. CASE UNCHANGED <<vars, gate>>
  BY <1>3, GateStutterInv
<1> QED
  BY <1>1, <1>2, <1>3

-----------------------------------------------------------------------------
(* Gate: requests that do not overlap.                                         *)

\* Request p has asked the cooldown and will answer as long as nothing else stops it.
PastCooldown(p) ==
  \/ step[p] \in {"schema", "handle", "push", "trim", "cool"}
  \/ op[p] = "saideira_chat" /\ step[p] \in {"incr", "expire", "limit"}

Spaced ==
  G!Undisturbed =>
    /\ burst \in {0, 1} /\ (~cooling => burst = 0)
    /\ \A p \in Proc : PastCooldown(p) => burst = 0

\* Whether two requests have overlapped is remembered.
Apart == \A p, q \in Proc : G!Active(p) /\ G!Active(q) => p = q
Watched == overlapped \in BOOLEAN /\ (~overlapped => Apart)
LoneInv == Watched /\ (~overlapped => Spaced)

\* A step of request p that neither sends nor lets a cooldown run out.
LEMMA SpacedKeeps ==
  ASSUME GateInv, Spaced, NEW p \in Proc, UNCHANGED <<burst, cooling, op>>,
         \A q \in Proc \ {p} : step'[q] = step[q] /\ answer'[q] = answer[q] /\ failedOpen'[q] = failedOpen[q],
         step[p] # "done", failedOpen[p] => failedOpen'[p],
         PastCooldown(p)' => PastCooldown(p) \/ failedOpen'[p] \/ ~cooling
  PROVE  Spaced'
<1> SUFFICES ASSUME G!Undisturbed' PROVE Spaced'
  BY DEF Spaced
<1>1. answer[p] = "none"
  BY GuestFacts DEF GuestInv
<1>2. G!Undisturbed
  BY <1>1 DEF G!Undisturbed
<1>3. burst \in {0, 1} /\ (~cooling => burst = 0) /\ \A q \in Proc : PastCooldown(q) => burst = 0
  BY <1>2 DEF Spaced
<1>4. ~failedOpen'[p]
  BY DEF G!Undisturbed
<1>5. \A q \in Proc : PastCooldown(q)' => burst = 0
  BY <1>3, <1>4 DEF PastCooldown
<1> QED
  BY <1>3, <1>5 DEF Spaced

LEMMA SpacedStep ==
  ASSUME GateInv, Spaced, Apart, NEW p \in Proc, G!Arrive(p) \/ G!Step(p) \/ G!CutOff(p)
  PROVE  Spaced'
<1> USE DEF G!Goto, G!Answer, G!Pass, G!keys, G!past
<1>1. GuestInv(p) /\ step \in [Proc -> Statements] /\ answer \in [Proc -> Results] /\ failedOpen \in [Proc -> BOOLEAN]
  BY GuestFacts
<1>2. CASE G!Arrive(p)
  BY <1>1, <1>2, SpacedKeeps DEF G!Arrive, PastCooldown
<1>3. CASE G!CheckBan(p)
  BY <1>1, <1>3, SpacedKeeps DEF G!CheckBan, G!Check, PastCooldown
<1>4. CASE G!CheckCircuitBreaker(p)
  <2>1. G!AfterCircuit(p) = "cooldown" \/ (G!AfterCircuit(p) = "incr" /\ op[p] # "saideira_chat")
    BY DEF G!AfterCircuit
  <2> QED
    BY <1>1, <1>4, <2>1, SpacedKeeps DEF G!CheckCircuitBreaker, G!Check, PastCooldown
<1>5. CASE G!CheckCooldown(p)
  BY <1>1, <1>5, SpacedKeeps DEF G!CheckCooldown, G!Check, PastCooldown
<1>6. CASE G!Validate(p)
  BY <1>1, <1>6, SpacedKeeps DEF G!Validate, PastCooldown
<1>7. CASE G!Incr(p)
  BY <1>1, <1>7, SpacedKeeps DEF G!Incr, PastCooldown
<1>8. CASE G!Expire(p)
  BY <1>1, <1>8, SpacedKeeps DEF G!Expire, PastCooldown
<1>9. CASE G!Limit(p)
  BY <1>1, <1>9, SpacedKeeps DEF G!Limit, G!AfterRate, PastCooldown
<1>10. CASE G!Strike(p)
  BY <1>1, <1>10, SpacedKeeps DEF G!Strike, PastCooldown
<1>11. CASE G!Break(p)
  BY <1>1, <1>11, SpacedKeeps DEF G!Break, PastCooldown
<1>12. CASE G!Handle(p)
  BY <1>1, <1>12, SpacedKeeps DEF G!Handle, PastCooldown
<1>13. CASE G!Push(p)
  BY <1>1, <1>13, SpacedKeeps DEF G!Push, PastCooldown
<1>14. CASE G!Trim(p)
  BY <1>1, <1>14, SpacedKeeps DEF G!Trim, PastCooldown
<1>15. CASE G!CutOff(p)
  BY <1>1, <1>15, SpacedKeeps DEF G!CutOff, G!Active, PastCooldown
\* p sends the one message of this cooldown: nobody else has asked for it.
<1>16. CASE G!SetCooldown(p)
  <2>1. /\ step[p] = "cool" /\ cooling' = TRUE /\ burst' = burst + 1 /\ op' = op /\ failedOpen' = failedOpen
        /\ step'[p] = "done" /\ answer'[p] = "allowed" /\ answer[p] = "none"
        /\ \A q \in Proc \ {p} : step'[q] = step[q] /\ answer'[q] = answer[q]
    BY <1>1, <1>16 DEF G!SetCooldown, GuestInv
  <2>2. G!Undisturbed' => burst = 0
    BY <2>1 DEF G!Undisturbed, Spaced, PastCooldown
  <2>3. \A q \in Proc : ~PastCooldown(q)'
    <3>1. ASSUME NEW q \in Proc, q # p PROVE step[q] \in {"idle", "done"}
      BY <2>1, <3>1 DEF Apart, G!Active
    <3> QED
      BY <2>1, <3>1 DEF PastCooldown
  <2> QED
    BY <2>1, <2>2, <2>3 DEF Spaced
<1> QED
  BY <1>2, <1>3, <1>4, <1>5, <1>6, <1>7, <1>8, <1>9, <1>10, <1>11, <1>12, <1>13, <1>14, <1>15, <1>16 DEF G!Step

LEMMA SpacedNext ==
  ASSUME GateInv, Spaced, Apart, [SessionStep \/ GateStep]_<<vars, gate>>
  PROVE  Spaced'
<1>1. ASSUME step' = step /\ op' = op /\ answer' = answer /\ failedOpen' = failedOpen,
             \/ burst' = burst /\ cooling' = cooling
             \/ burst' = 0
      PROVE  Spaced'
  <2>1. (G!Undisturbed' <=> G!Undisturbed) /\ \A p \in Proc : PastCooldown(p)' <=> PastCooldown(p)
    BY <1>1 DEF G!Undisturbed, PastCooldown
  <2> QED
    BY <1>1, <2>1 DEF Spaced
<1>2. ASSUME G!Ban \/ G!Unban PROVE Spaced'
  <2>1. step' = step /\ op' = op /\ answer' = answer /\ failedOpen' = failedOpen /\ burst' = burst /\ cooling' = cooling
    BY <1>2 DEF G!Ban, G!Unban, G!keys, G!local, G!past
  <2> QED
    BY <1>1, <2>1
<1>3. ASSUME NEW o \in G!Ops, G!ExpireHits(o) PROVE Spaced'
  <2>1. step' = step /\ op' = op /\ answer' = answer /\ failedOpen' = failedOpen /\ burst' = burst /\ cooling' = cooling
    BY <1>3 DEF G!ExpireHits, G!local
  <2> QED
    BY <1>1, <2>1
<1>4. ASSUME G!ExpireStrikes \/ G!ExpireBreak \/ G!ExpireCooldown PROVE Spaced'
  <2>1. /\ step' = step /\ op' = op /\ answer' = answer /\ failedOpen' = failedOpen
        /\ (burst' = burst /\ cooling' = cooling) \/ burst' = 0
    BY <1>4 DEF G!ExpireStrikes, G!ExpireBreak, G!ExpireCooldown, G!local
  <2> QED
    BY <1>1, <2>1
<1>5. ASSUME UNCHANGED gate PROVE Spaced'
  <2>1. step' = step /\ op' = op /\ answer' = answer /\ failedOpen' = failedOpen /\ burst' = burst /\ cooling' = cooling
    BY <1>5 DEF gate
  <2> QED
    BY <1>1, <2>1
<1>6. CASE G!AllAnswered
  <2>1. UNCHANGED gate
    BY <1>6 DEF G!AllAnswered, G!vars, G!keys, G!local, G!past, gate
  <2> QED
    BY <1>5, <2>1
<1>7. ASSUME G!Next PROVE Spaced'
  BY <1>2, <1>3, <1>4, <1>6, <1>7, SpacedStep DEF G!Next
<1> QED
  BY <1>5, <1>7 DEF SessionStep, GateStep

LEMMA AloneStep ==
  ASSUME GateInv, Watched, NEW p \in Proc, G!Arrive(p) \/ G!Step(p) \/ G!CutOff(p)
  PROVE  Watched' /\ (overlapped => overlapped')
<1> USE DEF G!Goto, G!Answer, G!Pass, G!keys, G!past
<1>1. step \in [Proc -> Statements]
  BY GuestFacts
<1>2. CASE G!Arrive(p)
  <2>1. /\ overlapped' = (overlapped \/ \E q \in Proc \ {p} : G!Active(q))
        /\ \A q \in Proc \ {p} : step'[q] = step[q]
    BY <1>1, <1>2 DEF G!Arrive
  <2>2. overlapped' \in BOOLEAN
    BY <2>1 DEF Watched
  <2>3. ASSUME ~overlapped' PROVE Apart'
    BY <2>1, <2>3 DEF G!Active, Apart
  <2> QED
    BY <2>1, <2>2, <2>3 DEF Watched
<1>3. CASE G!Step(p) \/ G!CutOff(p)
  <2>1. overlapped' = overlapped /\ G!Active(p) /\ \A q \in Proc \ {p} : step'[q] = step[q]
    BY <1>1, <1>3 DEF G!Step, G!CutOff, G!Active, G!CheckBan, G!CheckCircuitBreaker, G!CheckCooldown, G!Check,
         G!Validate, G!Incr, G!Expire, G!Limit, G!Strike, G!Break, G!Handle, G!Push, G!Trim, G!SetCooldown
  <2> QED
    BY <2>1 DEF Watched, G!Active, Apart
<1> QED
  BY <1>2, <1>3

LEMMA LoneNext ==
  ASSUME GateInv, LoneInv, [SessionStep \/ GateStep]_<<vars, gate>>
  PROVE  LoneInv'
<1>1. Watched' /\ (overlapped => overlapped')
  <2>1. ASSUME step' = step, overlapped' = overlapped PROVE Watched' /\ (overlapped => overlapped')
    BY <2>1 DEF LoneInv, Watched, G!Active, Apart
  <2>2. CASE UNCHANGED gate
    BY <2>1, <2>2 DEF gate
  <2>3. ASSUME G!Next PROVE Watched' /\ (overlapped => overlapped')
    <3>1. ASSUME NEW p \in Proc, G!Arrive(p) \/ G!Step(p) \/ G!CutOff(p) PROVE Watched' /\ (overlapped => overlapped')
      BY <3>1, AloneStep DEF LoneInv
    <3>2. ASSUME G!Ban \/ G!Unban \/ (\E o \in G!Ops : G!ExpireHits(o)) \/ G!ExpireStrikes \/ G!ExpireBreak \/ G!ExpireCooldown
          PROVE  Watched' /\ (overlapped => overlapped')
      BY <2>1, <3>2 DEF G!Ban, G!Unban, G!ExpireHits, G!ExpireStrikes, G!ExpireBreak, G!ExpireCooldown, G!keys, G!local, G!past
    <3>3. CASE G!AllAnswered
      BY <2>1, <3>3 DEF G!AllAnswered, G!vars, G!local, G!past
    <3> QED
      BY <2>3, <3>1, <3>2, <3>3 DEF G!Next
  <2> QED
    BY <2>2, <2>3 DEF SessionStep, GateStep
<1>2. ASSUME ~overlapped' PROVE Spaced'
  <2>1. ~overlapped
    BY <1>1, <1>2
  <2>2. Spaced /\ Apart
    BY <2>1 DEF LoneInv, Watched
  <2> QED
    BY <2>2, SpacedNext
<1> QED
  BY <1>1, <1>2 DEF LoneInv

-----------------------------------------------------------------------------
\* For any number of requests, limits and keys that run out: nobody banned or
\* broken before a request gets that request past a guard of authenticate or
\* checkCircuitBreaker (BarredStayOut), no window of checkActionRateLimit lets
\* more through than its limit or lives for ever unless a request was cut off
\* before its EXPIRE (WindowsHold), LPUSH and LTRIM lose no message but the
\* oldest (HistoryKept), and until two requests overlap checkCooldown and
\* setCooldown let one message through per cooldown, on whichever of the two
\* routes (MessagesSpaced).
THEOREM GateHoldsAlways == ASSUME G!GateAssumption PROVE OnlineSpec => []GateHolds
<1>1. Init /\ G!Init => GateInv /\ LoneInv
  BY GateInitInv DEF G!Init, LoneInv, Watched, Spaced, PastCooldown, Apart, G!Active
<1>2. GateInv /\ LoneInv /\ [SessionStep \/ GateStep]_<<vars, gate>> => GateInv' /\ LoneInv'
  BY GateStays, LoneNext
<1>3. GateInv => G!BarredStayOut
  BY DEF GateInv, GuestInv, KeptOut, G!BarredStayOut
<1>4. GateInv => G!WindowsHold
  BY DEF GateInv, WindowOk, G!WindowsHold, Routes
<1>5. GateInv => G!HistoryKept
  BY HistoryIsKept
<1>6. LoneInv => G!MessagesSpaced
  BY DEF LoneInv, Spaced, G!MessagesSpaced
<1>7. GateInv /\ LoneInv => GateHolds
  BY <1>3, <1>4, <1>5, <1>6 DEF GateHolds, G!GateHolds
<1> QED
  BY <1>1, <1>2, <1>7, PTL DEF OnlineSpec

\* Every value of both services keeps its type: OnlineTypeOK.
THEOREM OnlineTypesHold == ASSUME G!GateAssumption PROVE OnlineSpec => []OnlineTypeOK
<1>1. Init /\ G!Init => IInv /\ GateInv /\ LoneInv
  BY InitInv, GateInitInv DEF G!Init, LoneInv, Watched, Spaced, PastCooldown, Apart, G!Active
<1>2. IInv /\ GateInv /\ LoneInv /\ [SessionStep \/ GateStep]_<<vars, gate>> => IInv' /\ GateInv' /\ LoneInv'
  <2>1. [SessionStep \/ GateStep]_<<vars, gate>> => [Next]_vars
    BY DEF SessionStep, GateStep
  <2> QED
    BY <2>1, NextInv, GateStays, LoneNext
<1>3. IInv => TypeOK
  BY DEF IInv, Typed
<1>4. GateInv /\ LoneInv => G!TypeOK
  <2> SUFFICES ASSUME GateInv, LoneInv PROVE G!TypeOK
    OBVIOUS
  <2>1. GateTyped /\ Max \in Nat /\ Cardinality(Proc) \in Nat
    BY Numbers DEF GateInv
  <2>2. hits \in [Routes -> 0 .. Max + Cardinality(Proc)]
    <3>1. \A o \in Routes : hits[o] \in Nat /\ hits[o] <= Max + Cardinality(Proc)
      <4> TAKE o \in Routes
      <4>1. Cardinality(Asked) \in Nat /\ Cardinality(Asked) <= Cardinality(Proc) /\ WindowOk(o) /\ hits[o] \in Nat
        BY <2>1, GuestSets DEF Asked, GateInv, GateTyped
      <4> QED
        BY <2>1, <4>1 DEF WindowOk
    <3> QED
      BY <2>1, <3>1 DEF GateTyped
  <2>3. \A o \in Routes : G!Elements(history[o]) \subseteq Proc
    BY <2>1 DEF GateTyped, G!Elements
  <2>4. G!Cardinality(Proc) = Cardinality(Proc)
    BY DEF G!Cardinality, Cardinality
  <2> QED
    BY <2>1, <2>2, <2>3, <2>4 DEF GateTyped, LoneInv, Watched, G!TypeOK, Routes, Statements, Results
<1>5. IInv /\ GateInv /\ LoneInv => OnlineTypeOK
  BY <1>3, <1>4 DEF OnlineTypeOK
<1> QED
  BY <1>1, <1>2, <1>5, PTL DEF OnlineSpec
=============================================================================
