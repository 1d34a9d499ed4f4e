----------------------------- MODULE MCEconomy -----------------------------
(* Small instances of Economy for TLC. *)
EXTENDS Economy, TLC

CONSTANTS c1, c2, ampola, pingado

\* One limited catalogue item whose stock two buyers can drain, one unlimited
\* item that grants no inventory; prices and seed make some debits bounce.
MCPrice == [i \in Item |-> IF i = ampola THEN 1 ELSE 3]
MCInitStock == [i \in Item |-> IF i = ampola THEN 2 ELSE -1]

\* A credit, and a debit that a wallet with only the seed covers once.
MCAmounts == {0, 3, -3}

\* Requests differ in nothing but their names, so TLC follows one of the ways
\* to name them: any order of asking, but in the order of what they ask.
Community == INSTANCE SequencesExt
Named == Community!SetToSeq(Proc)
Rank(r) == (IF r.char = c1 THEN 0 ELSE 20) +
  (CASE r.op = "getWallet" -> 0
     [] r.op = "transfer" -> 4 + r.amount
     [] r.op = "buy" -> 8 + 2 * r.units + (IF r.item = ampola THEN 0 ELSE 1))
InOrder(asked) ==
  \A i, j \in DOMAIN Named :
    i < j /\ asked[Named[i]] # NoRequest /\ asked[Named[j]] # NoRequest =>
      Rank(asked[Named[i]]) <= Rank(asked[Named[j]])

\* Statements complete: a request that has started keeps running, and a row
\* lock is granted in the end.
MCFairSpec ==
  /\ Init /\ [][Next /\ InOrder(req')]_vars
  /\ \A p \in Proc : WF_vars(Step(p))
=============================================================================
