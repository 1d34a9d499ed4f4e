------------------------------- MODULE Ledger -------------------------------
(***************************************************************************)
(* What the economy promises its callers, whatever the interleaving of     *)
(* requests: a character has at most one account, opened with the seed     *)
(* capital; a settled request moved Grana, stock and goods once and        *)
(* together, in the state the ledger was really in at that moment; no      *)
(* balance and no limited stock ever goes below zero; a request that is    *)
(* not settled moved nothing.                                              *)
(***************************************************************************)
EXTENDS Integers

CONSTANTS Proc, Char, Item,   \* requests, characters, stock rows
          Requests,           \* what a request may ask for
          Price, Catalog,     \* unit price; the items that enter the inventory
          Seed,               \* INITIAL_BALANCE
          InitStock,
          NoAccount, NoReceipt

VARIABLES account,   \* character -> balance, or NoAccount
          shelf,     \* stock row -> units left, -1 for unlimited
          goods,     \* character -> item -> units in the inventory
          receipt    \* request -> what it settled, or NoReceipt

ledgerVars == <<account, shelf, goods, receipt>>

Held(c) == IF account[c] = NoAccount THEN Seed ELSE account[c]

LedgerInit ==
  /\ account = [c \in Char |-> NoAccount]
  /\ shelf = InitStock
  /\ goods = [c \in Char |-> [i \in Item |-> 0]]
  /\ receipt = [p \in Proc |-> NoReceipt]

\* The first look at a wallet opens it.
Open(c) ==
  /\ account' = [account EXCEPT ![c] = Held(c)]
  /\ UNCHANGED <<shelf, goods>>

\* A credit, or a debit the balance covers.
Move(c, amount) ==
  /\ Held(c) + amount >= 0
  /\ account' = [account EXCEPT ![c] = Held(c) + amount]
  /\ UNCHANGED <<shelf, goods>>

\* A sale: the price leaves the account, the units leave the shelf.
Sell(c, i, units) ==
  /\ Held(c) >= Price[i] * units
  /\ shelf[i] >= 0 => shelf[i] >= units
  /\ account' = [account EXCEPT ![c] = Held(c) - Price[i] * units]
  /\ shelf' = [shelf EXCEPT ![i] = IF @ >= 0 THEN @ - units ELSE @]
  /\ goods' = IF i \in Catalog THEN [goods EXCEPT ![c][i] = @ + units] ELSE goods

Settle(p, r) ==
  /\ receipt[p] = NoReceipt
  /\ receipt' = [receipt EXCEPT ![p] = r]
  /\ \/ r.op = "getWallet" /\ Open(r.char)
     \/ r.op = "transfer" /\ Move(r.char, r.amount)
     \/ r.op = "buy" /\ Sell(r.char, r.item, r.units)

LedgerNext == \E p \in Proc, r \in Requests : Settle(p, r)

LedgerSpec == LedgerInit /\ [][LedgerNext]_ledgerVars
=============================================================================
