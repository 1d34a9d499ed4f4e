------------------------------ MODULE MCOnline ------------------------------
(* Small instances of the two services of module Online.  They share no key, so  *)
(* each behaviour follows one part: one browser tab with two calls under way,    *)
(* two tabs with one each, or two guarded requests.                              *)
EXTENDS Online, TLC

CONSTANTS t1, t2, a1, a2, b1,
          Parts  \* the parts this run follows

VARIABLE part

ASSUME G!GateAssumption

MCTabOf == [c \in Call |-> IF c = b1 THEN t2 ELSE t1]

MCInit ==
  /\ Init /\ G!Init
  /\ part \in Parts
  /\ part # "gate" => hits = [o \in G!Ops |-> 0] /\ strikes = 0 /\ \A p \in Proc : op[p] = "crew_chat"

\* Bounds.  Two tabs: no refresh token and no blacklist entry runs out, one
\* access token does, and one tab logs out.  One request of the gate fails open or is cut off.
OneTab == open' \subseteq {t1}
TwoTabs ==
  /\ call'[a2] = Idle
  /\ live \subseteq live' \cup {job[x].token : x \in Call \cup Tab}
  /\ revoked \subseteq revoked'
  /\ Cardinality(stale') <= 1
  /\ \A c \in Call : call'[c].kind = "logout" => TabOf[c] = t1
Disturbed == Cardinality({p \in Proc : failedOpen'[p]}) + Cardinality({p \in Proc : answer'[p] = "cut"})

MCNext ==
  /\ UNCHANGED part
  /\ \/ part = "tab" /\ Next /\ OneTab /\ UNCHANGED gate
     \/ part = "tabs" /\ Next /\ TwoTabs /\ UNCHANGED gate
     \/ part = "gate" /\ G!Next /\ Disturbed <= 1 /\ UNCHANGED vars

MCSpec == MCInit /\ [][MCNext]_<<vars, gate, part>>
\* The bounds forbid no reaction of the browser.
MCFairSpec ==
  /\ MCSpec
  /\ \A c \in Call : WF_vars(ReactToCall(c))
  /\ \A t \in Tab : WF_vars(ReactToRefresh(t))
=============================================================================
