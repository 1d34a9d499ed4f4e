------------------------------ MODULE Sessions ------------------------------
(***************************************************************************)
(* Sessions: the refresh tokens the server keeps in Redis (lib/auth,       *)
(* services/auth-service) and the browser that uses them (api/client,      *)
(* stores/auth).  An access token and the refresh token issued with it are *)
(* one pair, numbered in the order of issue.                               *)
(*                                                                         *)
(* Every open tab keeps a pair in memory and shares one localStorage with  *)
(* the other tabs; each call c of a tab and the refresh of each tab is one *)
(* HTTP exchange, which the server handles one Redis command at a time and *)
(* may never answer.                                                       *)
(***************************************************************************)
EXTENDS Naturals, FiniteSets

CONSTANTS Tab,        \* browser tabs
          Call,       \* calls that can be under way at once
          TabOf,      \* the tab a call belongs to
          MaxPairs    \* bound: pairs ever issued

ASSUME SessionsAssumption == TabOf \in [Call -> Tab] /\ Call \cap Tab = {} /\ MaxPairs \in Nat

Pairs == 1 .. MaxPairs
NoPair == 0

VARIABLES live,       \* refresh tokens under auth:refresh:{token}
          revoked,    \* refresh tokens under auth:refresh:revoked:{token}
          parent,     \* pair -> the pair it was rotated from, NoPair for a login;
                      \* a pair not issued yet is its own parent
          stale,      \* access tokens past ACCESS_TOKEN_TTL
          stored,     \* localStorage: the pair under nd_auth
          open,       \* tabs that are loaded
          tok,        \* tab -> the pair in its store
          refreshing, \* tab -> refreshInFlight: none, sent, or waiting for itself
          call,       \* call -> what the tab waits for
          job,        \* call or tab -> its request, as the server handles it
          left        \* history: tab -> how its user last left: in, out, or raced

server == <<live, revoked, parent, stale>>
browser == <<stored, open, tok, refreshing, call, left>>
vars == <<server, browser, job>>

Idle == [kind |-> "none", step |-> "idle", retry |-> FALSE]
NoJob == [op |-> "none", token |-> NoPair, at |-> "none", pair |-> NoPair]
Job(op, token) == [op |-> op, token |-> token, at |-> IF op = "login" THEN "issue" ELSE "start", pair |-> NoPair]

Issued == {n \in Pairs : parent[n] # n}
CallsOf(t) == {c \in Call : TabOf[c] = t}

Init ==
  /\ live = {} /\ revoked = {} /\ stale = {}
  /\ parent = [n \in Pairs |-> n]
  /\ stored = NoPair /\ open = {}
  /\ tok = [t \in Tab |-> NoPair]
  /\ refreshing = [t \in Tab |-> "none"]
  /\ call = [c \in Call |-> Idle]
  /\ job = [x \in Call \cup Tab |-> NoJob]
  /\ left = [t \in Tab |-> "in"]
-----------------------------------------------------------------------------
(* The server.  A request whose tab gave up is still handled; its answer   *)
(* goes nowhere.                                                           *)

Awaited(x) == IF x \in Tab THEN refreshing[x] # "none" ELSE call[x].step = "sent"

Handles(x, op, at) == job[x].op = op /\ job[x].at = at
Proceed(x, at) == job' = [job EXCEPT ![x].at = at]
Answer(x, status, pair) ==
  job' = [job EXCEPT ![x] =
    IF Awaited(x) THEN [@ EXCEPT !.at = status, !.pair = pair] ELSE NoJob]

\* authenticate: the access token is present, signed and not expired.
Authenticate(x) ==
  /\ Handles(x, "api", "start")
  /\ Answer(x, IF job[x].token = NoPair \/ job[x].token \in stale THEN "401" ELSE "ok", NoPair)
  /\ UNCHANGED <<server, browser>>

\* consumeRefreshToken, the blacklist gate.
IsRefreshTokenRevoked(x) ==
  /\ Handles(x, "refresh", "start")
  /\ IF job[x].token \in revoked THEN Answer(x, "401", NoPair) ELSE Proceed(x, "getdel")
  /\ UNCHANGED <<server, browser>>

\* consumeRefreshToken, GETDEL of the live key.
LiveAfterGet_NotDeleted(token) == live
LiveAfterGet(token) == live \ {token}
GetDel(x) ==
  /\ Handles(x, "refresh", "getdel")
  /\ IF job[x].token \in live THEN Proceed(x, "blacklist") ELSE Answer(x, "401", NoPair)
  /\ live' = LiveAfterGet(job[x].token)
  /\ UNCHANGED <<revoked, parent, stale, browser>>

\* consumeRefreshToken, the spent token enters the blacklist.
Blacklist(x) ==
  /\ Handles(x, "refresh", "blacklist")
  /\ revoked' = revoked \cup {job[x].token}
  /\ Proceed(x, "issue")
  /\ UNCHANGED <<live, parent, stale, browser>>

\* buildAuthResponse: sign an access token, store a fresh refresh token.
Issue(x) ==
  LET n == Cardinality(Issued) + 1 IN
  /\ job[x].at = "issue" /\ n \in Pairs
  /\ live' = live \cup {n}
  /\ parent' = [parent EXCEPT ![n] = job[x].token]
  /\ Answer(x, "ok", n)
  /\ UNCHANGED <<revoked, stale, browser>>

\* revokeRefreshToken: MULTI del, set.
LiveAfterLogout(token) == live \ {token}
Revoke(x) ==
  /\ Handles(x, "logout", "start")
  /\ live' = LiveAfterLogout(job[x].token)
  /\ revoked' = revoked \cup {job[x].token}
  /\ Answer(x, "ok", NoPair)
  /\ UNCHANGED <<parent, stale, browser>>

Handle(x) ==
  \/ Authenticate(x) \/ IsRefreshTokenRevoked(x) \/ GetDel(x)
  \/ Blacklist(x) \/ Issue(x) \/ Revoke(x)

\* A request nobody waits for any more is cut off, with the server or its
\* connection to Redis.
Answered == {"ok", "401"}
CutOff(x) ==
  /\ job[x] # NoJob /\ ~Awaited(x)
  /\ job' = [job EXCEPT ![x] = NoJob]
  /\ UNCHANGED <<server, browser>>

\* Time passes: an access token, a refresh token, a blacklist entry expires.
ExpireAccess(n) == n \in Issued \ stale /\ stale' = stale \cup {n} /\ UNCHANGED <<live, revoked, parent, browser, job>>
ExpireRefresh(n) == n \in live /\ live' = live \ {n} /\ UNCHANGED <<revoked, parent, stale, browser, job>>
ExpireRevoked(n) == n \in revoked /\ revoked' = revoked \ {n} /\ UNCHANGED <<live, parent, stale, browser, job>>
-----------------------------------------------------------------------------
(* The browser.  setAccessToken follows every change of the store, so the  *)
(* bearer token of a call is the one of the tab's pair.                    *)

\* applyAuth.  clearAuth: no token in the store, none in localStorage.
applyAuth(t, n) == tok' = [tok EXCEPT ![t] = n] /\ stored' = n
clearAuth(t) == tok' = [tok EXCEPT ![t] = NoPair] /\ stored' = NoPair

\* The failed refresh leaves the store as it was.
AfterDeadRefresh(t) == clearAuth(t)

\* Any other set() of the store: persist writes the tab's tokens again.
Touch(t) == stored' = tok[t] /\ UNCHANGED tok

\* A call of an idle slot is sent.  GuestOnly keeps a tab with tokens from
\* the login form, RequireAuth one without them from everything else.
Send(c, kind) ==
  LET t == TabOf[c] IN
  /\ t \in open /\ call[c] = Idle /\ job[c] = NoJob
  /\ kind = "login" <=> tok[t] = NoPair
  /\ call' = [call EXCEPT ![c] = [kind |-> kind, step |-> "sent", retry |-> FALSE]]
  /\ job' = [job EXCEPT ![c] = Job(IF kind \in {"login", "logout"} THEN kind ELSE "api", tok[t])]
  /\ Touch(t)
  /\ UNCHANGED <<server, open, refreshing, left>>

\* What is left under way could log the tab in again.
Outstanding(t) ==
  \/ refreshing[t] # "none"
  \/ \E c \in CallsOf(t) : call[c].kind = "login"

Settle(c) == call' = [call EXCEPT ![c] = Idle]

\* The answer of a call that carries no token, or that was accepted.
Receive(c) ==
  LET t == TabOf[c] IN
  /\ call[c].step = "sent" /\ job[c].at = "ok"
  /\ job' = [job EXCEPT ![c] = NoJob]
  /\ Settle(c)
  /\ \/ /\ call[c].kind = "login"
        /\ applyAuth(t, job[c].pair)
        /\ left' = [left EXCEPT ![t] = "in"]
     \/ /\ call[c].kind = "logout"
        /\ clearAuth(t)
        /\ left' = [left EXCEPT ![t] = IF Outstanding(t) THEN "raced" ELSE "out"]
     \/ /\ call[c].kind = "api"
        /\ Touch(t)
        /\ UNCHANGED left
  /\ UNCHANGED <<server, open, refreshing>>

\* 401: wait for refreshInFlight, started if there is none, and retry, unless
\* this is the retry or the tab has no token any more.  (Bound: a tab starts
\* no refresh while the server still handles one it has forgotten.)
Unauthorized(c) ==
  LET t == TabOf[c] IN
  /\ call[c].step = "sent" /\ job[c].at = "401"
  /\ IF call[c].retry \/ tok[t] = NoPair
     THEN /\ job' = [job EXCEPT ![c] = NoJob]
          /\ Settle(c)
          /\ UNCHANGED refreshing
     ELSE /\ call' = [call EXCEPT ![c].step = "awaiting"]
          /\ refreshing' = [refreshing EXCEPT ![t] = IF @ = "none" THEN "sent" ELSE @]
          /\ refreshing[t] = "none" => job[t] = NoJob
          /\ job' = [x \in Call \cup Tab |->
               IF x = c THEN NoJob
               ELSE IF x = t /\ refreshing[t] = "none" THEN Job("refresh", tok[t]) ELSE job[x]]
  /\ UNCHANGED <<server, stored, open, tok, left>>

\* refreshInFlight resolves to ok: the calls that wait for it are sent again
\* with the new pair n, or fail.
Resolve_OnlyOnSuccess(t, n) ==
  LET waiting == {c \in CallsOf(t) : call[c].step = "awaiting"} IN
  /\ refreshing' = [refreshing EXCEPT ![t] = "none"]
  /\ call' = [c \in Call |->
       IF c \in waiting /\ n # NoPair THEN [call[c] EXCEPT !.step = "sent", !.retry = TRUE] ELSE call[c]]
  /\ job' = [x \in Call \cup Tab |->
       IF x = t THEN (IF job[t].at \in Answered THEN NoJob ELSE job[t])
       ELSE IF x \in waiting /\ n # NoPair THEN Job("api", n) ELSE job[x]]
  /\ UNCHANGED <<server, open, left>>
Resolve(t, n) ==
  LET waiting == {c \in CallsOf(t) : call[c].step = "awaiting"} IN
  /\ refreshing' = [refreshing EXCEPT ![t] = "none"]
  /\ call' = [c \in Call |->
       IF c \notin waiting THEN call[c]
       ELSE IF n = NoPair THEN Idle ELSE [call[c] EXCEPT !.step = "sent", !.retry = TRUE]]
  /\ job' = [x \in Call \cup Tab |->
       IF x = t THEN (IF job[t].at \in Answered THEN NoJob ELSE job[t])
       ELSE IF x \in waiting /\ n # NoPair THEN Job("api", n) ELSE job[x]]
  /\ UNCHANGED <<server, open, left>>

\* refresh() got its pair.
Refreshed(t) ==
  /\ refreshing[t] = "sent" /\ job[t].at = "ok"
  /\ applyAuth(t, job[t].pair)
  /\ Resolve(t, job[t].pair)

\* refresh() got a 401 through api.post.  With an access token still set,
\* request asks refreshAccessToken for a refresh and is given the promise of
\* the very refresh it belongs to.
RefreshRefused(t) ==
  /\ refreshing[t] = "sent" /\ job[t].at = "401"
  /\ IF tok[t] # NoPair
     THEN /\ refreshing' = [refreshing EXCEPT ![t] = "itself"]
          /\ job' = [job EXCEPT ![t] = NoJob]
          /\ UNCHANGED <<server, stored, open, tok, call, left>>
     ELSE AfterDeadRefresh(t) /\ Resolve(t, NoPair)

\* REQUEST_TIMEOUT_MS runs out or the connection breaks, before the server
\* has answered or after; it may go on handling the request.
Abort(c) ==
  LET t == TabOf[c] IN
  /\ call[c].step = "sent"
  /\ job' = [job EXCEPT ![c] = IF @.at \in Answered THEN NoJob ELSE @]
  /\ Settle(c)
  /\ IF call[c].kind = "logout"
     THEN /\ clearAuth(t)
          /\ left' = [left EXCEPT ![t] = IF Outstanding(t) THEN "raced" ELSE "out"]
     ELSE Touch(t) /\ UNCHANGED left
  /\ UNCHANGED <<server, open, refreshing>>
AbortRefresh(t) == refreshing[t] = "sent" /\ AfterDeadRefresh(t) /\ Resolve(t, NoPair)

\* A tab is opened or reloaded: bootstrap finds the pair in localStorage and
\* asks for the user; what the page was waiting for is forgotten.
Load(t) ==
  /\ open' = open \cup {t}
  /\ tok' = [tok EXCEPT ![t] = stored]
  /\ refreshing' = [refreshing EXCEPT ![t] = "none"]
  /\ LET mine == CallsOf(t) \cup {t}
         Kept(x) == IF x \in mine /\ job[x].at \in Answered THEN NoJob ELSE job[x]
     IN IF stored = NoPair
        THEN /\ call' = [c \in Call |-> IF c \in mine THEN Idle ELSE call[c]]
             /\ job' = [x \in Call \cup Tab |-> Kept(x)]
        ELSE \E me \in CallsOf(t) :
               /\ Kept(me) = NoJob
               /\ call' = [c \in Call |->
                    IF c = me THEN [kind |-> "api", step |-> "sent", retry |-> FALSE]
                    ELSE IF c \in mine THEN Idle ELSE call[c]]
               /\ job' = [x \in Call \cup Tab |-> IF x = me THEN Job("api", stored) ELSE Kept(x)]
  /\ left' = [left EXCEPT ![t] = IF refreshing[t] # "none" \/ job[t] # NoJob THEN "raced" ELSE @]
  /\ UNCHANGED <<server, stored>>

\* What the browser does without its user.
ReactToCall(c) == Receive(c) \/ Unauthorized(c) \/ Abort(c)
ReactToRefresh(t) == Refreshed(t) \/ RefreshRefused(t) \/ AbortRefresh(t)

Next ==
  \/ \E x \in Call \cup Tab : Handle(x) \/ CutOff(x)
  \/ \E n \in Pairs : ExpireAccess(n) \/ ExpireRefresh(n) \/ ExpireRevoked(n)
  \/ \E t \in Tab : ReactToRefresh(t) \/ Load(t)
  \/ \E c \in Call : ReactToCall(c) \/ \E kind \in {"api", "login", "logout"} : Send(c, kind)

Spec == Init /\ [][Next]_vars

\* Promises settle and timers fire; the server need not answer.
FairSpec ==
  /\ Spec
  /\ \A c \in Call : WF_vars(ReactToCall(c))
  /\ \A t \in Tab : WF_vars(ReactToRefresh(t))
-----------------------------------------------------------------------------
\* Every value has its type.
TypeOK ==
  /\ live \subseteq Pairs /\ revoked \subseteq Pairs /\ stale \subseteq Issued
  /\ parent \in [Pairs -> Pairs \cup {NoPair}]
  /\ \A n \in Issued : parent[n] < n /\ 1 .. n \subseteq Issued
  /\ stored \in Issued \cup {NoPair} /\ open \subseteq Tab
  /\ tok \in [Tab -> Issued \cup {NoPair}]
  /\ refreshing \in [Tab -> {"none", "sent", "itself"}]
  /\ call \in [Call -> [kind : {"none", "api", "login", "logout"},
                        step : {"idle", "sent", "awaiting"}, retry : BOOLEAN]]
  /\ \A x \in Call \cup Tab :
       /\ job[x].op \in {"none", "api", "login", "logout", "refresh"}
       /\ job[x].at \in {"none", "start", "getdel", "blacklist", "issue"} \cup Answered
       /\ job[x].token \in Issued \cup {NoPair} /\ job[x].pair \in Issued \cup {NoPair}
  /\ left \in [Tab -> {"in", "out", "raced"}]

\* Refresh tokens form chains: a token is exchanged for at most one pair,
\* however many tabs, retries and reloads present it at once, and what was
\* exchanged or revoked is never live again, even after its blacklist entry
\* expired (consumeRefreshToken, revokeRefreshToken).
RotatedOnce ==
  /\ \A m, n \in Issued : parent[m] = parent[n] /\ m # n => parent[m] = NoPair
  /\ \A n \in Issued : parent[n] \notin live
  /\ live \cap revoked = {}

\* A browser with one tab: after a logout that overlapped neither a refresh
\* nor a login the tab and localStorage hold no token; and between refreshes
\* the tab does not sit on a token its own refresh spent, unless the page was
\* reloaded in the middle of one.
SingleTab ==
  \A t \in open : open = {t} =>
    /\ left[t] = "out" => tok[t] = NoPair /\ stored = NoPair
    /\ left[t] = "in" /\ refreshing[t] = "none" =>
         tok[t] = NoPair \/ (\A n \in Issued : parent[n] # tok[t])

\* Who holds which tokens.
TokensHold == RotatedOnce /\ SingleTab

\* Every call settles, whatever is lost or late, unless it waits for a
\* refresh that waits for itself, or the page is reloaded for ever.
Stuck(c) == refreshing[TabOf[c]] = "itself"
CallsSettle ==
  \A c \in Call :
    (call[c].step # "idle" ~> call[c].step = "idle" \/ Stuck(c)) \/ []<><<Load(TabOf[c])>>_vars

\* A refresh settles: a dead session is noticed and its tokens are dropped
\* (stores/auth.ts:135, "Returns false (and clears state) when the session is
\* dead.").
RefreshSettles == \A t \in Tab : refreshing[t] # "none" ~> refreshing[t] = "none"
=============================================================================
