-------------------------------- MODULE Gate --------------------------------
(***************************************************************************)
(* Gate: what a guarded route puts before its handler, and the chat that   *)
(* lies behind it.  Every p \in Proc is one POST of one player to          *)
(* /saideira/chat or /crews/:id/chat, run one Redis command or query at a  *)
(* time: authenticate with the ban gate, the audit context, the circuit    *)
(* breaker, the cooldown and the rate limit, in the order of the route,    *)
(* then publish, LPUSH, LTRIM and the cooldown that follows a success.     *)
(*                                                                         *)
(* A Redis key is its value, and whether it will expire; time is the       *)
(* actions that let it.                                                    *)
(***************************************************************************)
EXTENDS Integers, Sequences, FiniteSets

\* All but Proc are positive numbers.
CONSTANTS Proc,
          Max,         \* rateLimitConfig[op].max
          Threshold,   \* circuitBreakerConfig.strikeThreshold
          HistoryMax   \* CHAT_HISTORY_MAX

GateAssumption == IsFiniteSet(Proc) /\ {Max, Threshold, HistoryMax} \subseteq Nat \ {0}

Ops == {"saideira_chat", "crew_chat"}

VARIABLES banned,    \* characters.is_banned
          hits,      \* op -> rate:{user}:{op}, 0 when there is no key
          expires,   \* op -> whether that key has an expiry
          strikes,   \* cb_count:{user}, 0 when there is no key
          broken,    \* circuit_break:{user} exists
          cooling,   \* cooldown:{character}:chat_message exists
          history,   \* op -> the chat history list, newest first
          step, op,  \* request -> its next command, its route
          count,     \* request -> what its INCR returned
          answer,    \* request -> its answer, in the words of the audit log
          admitted,  \* history: op -> requests let through in this window
          pushed,    \* history: op -> all messages, newest first
          burst,     \* history: messages since the cooldown last expired
          late,      \* history: request -> what has barred the player since before it came
          failedOpen, \* history: request -> a check of it found nobody to ask
          overlapped \* history: two requests were under way at once

keys == <<hits, expires, strikes, broken, cooling, history>>
local == <<step, op, count, answer>>
past == <<admitted, pushed, burst, late, failedOpen, overlapped>>
vars == <<banned, keys, local, past>>

Init ==
  /\ banned = FALSE
  /\ hits \in [Ops -> 0 .. Max]          \* earlier requests in the window
  /\ expires = [o \in Ops |-> hits[o] > 0]
  /\ strikes \in 0 .. Threshold - 1      \* and on other routes
  /\ broken = FALSE /\ cooling = FALSE
  /\ history = [o \in Ops |-> << >>]
  /\ step = [p \in Proc |-> "idle"] /\ op \in [Proc -> Ops]
  /\ count = [p \in Proc |-> 0] /\ answer = [p \in Proc |-> "none"]
  /\ admitted = hits
  /\ pushed = [o \in Ops |-> << >>] /\ burst = 0
  /\ late = [p \in Proc |-> {}] /\ failedOpen = [p \in Proc |-> FALSE]
  /\ overlapped = FALSE

Goto(p, s) == step' = [step EXCEPT ![p] = s]
Answer(p, result) == Goto(p, "done") /\ answer' = [answer EXCEPT ![p] = result]
Pass(p, s) == Goto(p, s) /\ UNCHANGED answer

\* saideira asks the cooldown and the schema first, crews the rate limit.
AfterCircuit(p) == IF op[p] = "saideira_chat" THEN "cooldown" ELSE "incr"
AfterSchema(p) == IF op[p] = "saideira_chat" THEN "incr" ELSE "handle"
AfterRate(p) == IF op[p] = "saideira_chat" THEN "handle" ELSE "cooldown"

Active(p) == step[p] \notin {"idle", "done"}

\* A request arrives.
Arrive(p) ==
  /\ step[p] = "idle"
  /\ Goto(p, "ban")
  /\ late' = [late EXCEPT ![p] = {bar \in {"ban", "break"} : IF bar = "ban" THEN banned ELSE broken}]
  /\ overlapped' = (overlapped \/ \E q \in Proc \ {p} : Active(q))
  /\ UNCHANGED <<banned, keys, op, count, answer, admitted, pushed, burst, failedOpen>>

\* A check that fails open: closed refuses with the given result, an outage
\* of PostgreSQL or Redis lets the request pass.
Check(p, at, closed, result, next) ==
  /\ step[p] = at
  /\ \/ /\ IF closed THEN Answer(p, result) ELSE Pass(p, next)
        /\ UNCHANGED failedOpen
     \/ /\ Pass(p, next)
        /\ failedOpen' = [failedOpen EXCEPT ![p] = TRUE]
  /\ UNCHANGED <<banned, keys, op, count, admitted, pushed, burst, late, overlapped>>

\* checkBan, from authenticate: before the audit context, so it is not logged.
CheckBan(p) == Check(p, "ban", banned, "BANNED", "circuit")

Tripped(p) == broken
CheckCircuitBreaker(p) == Check(p, "circuit", Tripped(p), "circuit_break", AfterCircuit(p))
CheckCooldown(p) == Check(p, "cooldown", cooling, "cooldown_active", "schema")

\* validate: the message has a legal length.
Validate(p) ==
  /\ step[p] = "schema"
  /\ Answer(p, "validation_error") \/ Pass(p, AfterSchema(p))
  /\ UNCHANGED <<banned, keys, op, count, past>>

WithinLimit_OffByOne(n) == n <= Max + 1
WithinLimit(n) == n <= Max

\* INCR, once for each request that gets this far.
Counted_Twice(n) == n + 2
Counted(n) == n + 1

\* checkActionRateLimit: INCR, and EXPIRE for the request that created the key.
Incr(p) ==
  LET n == Counted(hits[op[p]]) IN
  /\ step[p] = "incr"
  /\ hits' = [hits EXCEPT ![op[p]] = n]
  /\ count' = [count EXCEPT ![p] = n]
  /\ Goto(p, IF n = 1 THEN "expire" ELSE "limit")
  /\ admitted' = [admitted EXCEPT ![op[p]] = IF WithinLimit(n) THEN @ + 1 ELSE @]
  /\ UNCHANGED <<banned, expires, strikes, broken, cooling, history, op, answer, pushed, burst, late, failedOpen, overlapped>>
Expire(p) ==
  /\ step[p] = "expire"
  /\ expires' = [expires EXCEPT ![op[p]] = TRUE]
  /\ Goto(p, "limit")
  /\ UNCHANGED <<banned, hits, strikes, broken, cooling, history, op, count, answer, past>>

\* Up to config.max the request goes on, beyond it is a strike.
Limit(p) ==
  /\ step[p] = "limit"
  /\ Goto(p, IF WithinLimit(count[p]) THEN AfterRate(p) ELSE "strike")
  /\ UNCHANGED <<banned, keys, op, count, answer, past>>

\* MULTI INCR cb_count, EXPIRE: a strike, and the answer below the threshold.
Strike(p) ==
  /\ step[p] = "strike"
  /\ strikes' = strikes + 1
  /\ IF strikes + 1 >= Threshold THEN Pass(p, "break") ELSE Answer(p, "rate_limited")
  /\ UNCHANGED <<banned, hits, expires, broken, cooling, history, op, count, admitted, pushed, burst, late, failedOpen, overlapped>>

\* SETEX circuit_break.
Break(p) ==
  /\ step[p] = "break"
  /\ broken' = TRUE
  /\ Answer(p, "circuit_break")
  /\ UNCHANGED <<banned, hits, expires, strikes, cooling, history, op, count, past>>

\* The handler's own conditions (Moral, membership) and PUBLISH, which nobody
\* here listens to.
Handle(p) ==
  /\ step[p] = "handle"
  /\ Pass(p, "push") \/ Answer(p, "blocked")
  /\ UNCHANGED <<banned, keys, op, count, past>>

Push(p) ==
  /\ step[p] = "push"
  /\ history' = [history EXCEPT ![op[p]] = <<p>> \o @]
  /\ pushed' = [pushed EXCEPT ![op[p]] = <<p>> \o @]
  /\ Goto(p, "trim")
  /\ UNCHANGED <<banned, hits, expires, strikes, broken, cooling, op, count, answer, admitted, burst, late, failedOpen, overlapped>>

\* LTRIM 0 .. CHAT_HISTORY_MAX - 1.
Trimmed(s) == SubSeq(s, 1, IF Len(s) < HistoryMax THEN Len(s) ELSE HistoryMax)
Trim(p) ==
  /\ step[p] = "trim"
  /\ history' = [history EXCEPT ![op[p]] = Trimmed(@)]
  /\ Goto(p, "cool")
  /\ UNCHANGED <<banned, hits, expires, strikes, broken, cooling, op, count, answer, past>>

\* setCooldown after the success, and the 201.
SetCooldown(p) ==
  /\ step[p] = "cool"
  /\ cooling' = TRUE
  /\ burst' = burst + 1
  /\ Answer(p, "allowed")
  /\ UNCHANGED <<banned, hits, expires, strikes, broken, history, op, count, admitted, pushed, late, failedOpen, overlapped>>

\* The server is lost between two commands.
CutOff(p) ==
  /\ Active(p)
  /\ Answer(p, "cut")
  /\ UNCHANGED <<banned, keys, op, count, past>>

Step(p) ==
  \/ CheckBan(p) \/ CheckCircuitBreaker(p) \/ CheckCooldown(p) \/ Validate(p)
  \/ Incr(p) \/ Expire(p) \/ Limit(p) \/ Strike(p) \/ Break(p)
  \/ Handle(p) \/ Push(p) \/ Trim(p) \/ SetCooldown(p)

\* banPlayer and unbanPlayer.
Ban == ~banned /\ banned' = TRUE /\ UNCHANGED <<keys, local, past>>
Unban ==
  /\ banned /\ banned' = FALSE
  /\ late' = [p \in Proc |-> late[p] \ {"ban"}]
  /\ UNCHANGED <<keys, local, admitted, pushed, burst, failedOpen, overlapped>>

\* Keys run out.
ExpireHits(o) ==
  /\ hits[o] > 0 /\ expires[o]
  /\ hits' = [hits EXCEPT ![o] = 0] /\ expires' = [expires EXCEPT ![o] = FALSE]
  /\ admitted' = [admitted EXCEPT ![o] = 0]
  /\ UNCHANGED <<banned, strikes, broken, cooling, history, local, pushed, burst, late, failedOpen, overlapped>>
ExpireStrikes ==
  /\ strikes > 0 /\ strikes' = 0
  /\ UNCHANGED <<banned, hits, expires, broken, cooling, history, local, admitted, pushed, burst, late, failedOpen, overlapped>>
ExpireBreak ==
  /\ broken /\ broken' = FALSE
  /\ late' = [p \in Proc |-> late[p] \ {"break"}]
  /\ UNCHANGED <<banned, hits, expires, strikes, cooling, history, local, admitted, pushed, burst, failedOpen, overlapped>>
ExpireCooldown ==
  /\ cooling /\ cooling' = FALSE /\ burst' = 0
  /\ UNCHANGED <<banned, hits, expires, strikes, broken, history, local, admitted, pushed, late, failedOpen, overlapped>>

AllAnswered == (\A p \in Proc : step[p] = "done") /\ UNCHANGED vars

Next ==
  \/ \E p \in Proc : Arrive(p) \/ Step(p) \/ CutOff(p)
  \/ Ban \/ Unban
  \/ (\E o \in Ops : ExpireHits(o)) \/ ExpireStrikes \/ ExpireBreak \/ ExpireCooldown
  \/ AllAnswered

Spec == Init /\ [][Next]_vars
-----------------------------------------------------------------------------
Elements(s) == {s[i] : i \in DOMAIN s}

\* Every value has its type.
TypeOK ==
  /\ {banned, strikes > 0, broken, cooling, overlapped} \subseteq BOOLEAN
  /\ hits \in [Ops -> 0 .. Max + Cardinality(Proc)] /\ expires \in [Ops -> BOOLEAN]
  /\ \A o \in Ops : Elements(history[o]) \subseteq Proc
  /\ step \in [Proc -> {"idle", "ban", "circuit", "cooldown", "schema", "incr", "expire", "limit", "strike",
                        "break", "handle", "push", "trim", "cool", "done"}]
  /\ op \in [Proc -> Ops] /\ count \in [Proc -> 0 .. Max + Cardinality(Proc)]
  /\ answer \in [Proc -> {"none", "BANNED", "circuit_break", "cooldown_active", "rate_limited",
                          "validation_error", "blocked", "allowed", "cut"}]

Behind(p) == step[p] \in {"cooldown", "schema", "incr", "expire", "limit", "strike", "break", "handle", "push", "trim", "cool"}

\* A banned or broken player stays out: a request that came after the ban or
\* the break, while it lasts, gets past neither check, on either route, unless
\* a check failed open.
BarredStayOut ==
  \A p \in Proc : late[p] # {} /\ ~failedOpen[p] => ~Behind(p)

\* Within the life of one counter at most Max requests are let through, and
\* a counter without an expiry is waiting for the request that created it,
\* unless that request was cut off before its EXPIRE.
WindowsHold ==
  /\ \A o \in Ops : admitted[o] <= Max
  /\ (\A p \in Proc : answer[p] # "cut") =>
       \A o \in Ops : hits[o] > 0 /\ ~expires[o] => \E p \in Proc : op[p] = o /\ step[p] = "expire"

\* The chat history holds every message that was pushed, newest first, but
\* for those at least HistoryMax newer ones pushed out; and it exceeds the
\* cap only while a request is about to trim it.
HistoryKept ==
  \A o \in Ops :
    LET trimming == Cardinality({p \in Proc : op[p] = o /\ step[p] = "trim"})
        cut == Cardinality({p \in Proc : op[p] = o /\ answer[p] = "cut"})
    IN /\ history[o] = SubSeq(pushed[o], 1, Len(history[o]))
       /\ Len(history[o]) >= Len(Trimmed(pushed[o])) /\ Len(history[o]) <= Len(pushed[o])
       /\ Len(history[o]) <= HistoryMax + trimming + cut

\* As long as no two requests have overlapped, they send one message per cooldown, on
\* whichever route, unless a check failed open or one was cut off before it set the
\* cooldown.  (Requests that overlap all check it before any sets it.)
Undisturbed == \A p \in Proc : ~failedOpen[p] /\ answer[p] # "cut"
MessagesSpaced == ~overlapped /\ Undisturbed => burst <= 1

\* All that the guards of the two chats promise.
GateHolds == BarredStayOut /\ WindowsHold /\ HistoryKept /\ MessagesSpaced
=============================================================================
