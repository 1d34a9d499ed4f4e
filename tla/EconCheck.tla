----------------------------- MODULE EconCheck -----------------------------
(***************************************************************************)
(* scripts/check-economy: an execution makes test characters, moves Grana  *)
(* to and fro in balanced pairs, verifies the ledger and cleans up.        *)
(* Nothing is a transaction: each query stands alone, executions overlap   *)
(* on one database, and each may be stopped between two queries.           *)
(*                                                                         *)
(* A user and its character have the name of the execution that made them  *)
(* and a number.  Of transaction_log, the sums the checks ask for are kept *)
(* by character; all rows here have the source econ-check, and the CHECK   *)
(* of the table is invariant 5.                                            *)
(***************************************************************************)
EXTENDS Integers, FiniteSets, FiniteSetsExt, TLC

CONSTANTS Exec,        \* executions, numbered in the order of their start
          CHAR_COUNT, TX_PAIRS, INITIAL_BALANCE, MAX_RETRIES,
          Amounts      \* what a pair may move

VARIABLES production,  \* NODE_ENV is production
          users, characters,
          wallets,     \* character -> its wallet, or NoWallet
          entries,     \* character -> sums over its rows of transaction_log
          exec         \* execution -> its place and locals

econVars == <<production, users, characters, wallets, entries, exec>>

Id == Exec \X (1 .. CHAR_COUNT)
NoWallet == [balance |-> -1]
NoEntries == [granted |-> 0, earned |-> 0, spent |-> 0, count |-> 0]
\* alone (no other execution overlapped) and before (what did not balance when it
\* started) are not the script's.
NotStarted == [pc |-> "new", made |-> 0, pairs |-> 0, amount |-> 0, id |-> 0, sink |-> FALSE, attempt |-> 1,
               read |-> NoWallet, found |-> << >>, passed |-> TRUE,
               alone |-> TRUE, before |-> 0]

Init ==
  /\ production \in BOOLEAN
  /\ users = {} /\ characters = {}
  /\ wallets = [i \in Id |-> NoWallet]
  /\ entries = [i \in Id |-> NoEntries]
  /\ exec = [e \in Exec |-> NotStarted]

Go(e, new) == exec' = [exec EXCEPT ![e] = new @@ @]
Exit(e, passed) == exec' = [exec EXCEPT ![e] = [NotStarted EXCEPT !.pc = "exit", !.passed = passed]]
Running(e) == exec[e].pc \notin {"new", "exit"}
Own(e) == {e} \X (1 .. exec[e].made)
Unbalanced == MapThenSumSet(LAMBDA i : entries[i].earned - entries[i].spent, Id)

Start(e) ==
  /\ exec[e].pc = "new" /\ \A f \in Exec : f < e => exec[f].pc # "new"
  /\ exec' = [f \in Exec |->
       IF f = e THEN [NotStarted EXCEPT !.pc = "user", !.before = Unbalanced, !.alone = \A g \in Exec : ~Running(g)]
       ELSE [exec[f] EXCEPT !.alone = @ /\ ~Running(f)]]
  /\ UNCHANGED <<production, users, characters, wallets, entries>>
-----------------------------------------------------------------------------
\* The four inserts of a test character.  A foreign key that is gone is fatal.
New(e) == <<e, exec[e].made + 1>>
Fatal(e) == Exit(e, FALSE) /\ UNCHANGED <<production, users, characters, wallets, entries>>

InsertUser(e) ==
  /\ exec[e].pc = "user" /\ users' = users \cup {New(e)} /\ Go(e, [pc |-> "character"])
  /\ UNCHANGED <<production, characters, wallets, entries>>
InsertCharacter(e) ==
  /\ exec[e].pc = "character"
  /\ \/ New(e) \notin users /\ Fatal(e)
     \/ /\ New(e) \in users /\ characters' = characters \cup {New(e)} /\ Go(e, [pc |-> "wallet"])
        /\ UNCHANGED <<production, users, wallets, entries>>
InsertWallet(e) ==
  /\ exec[e].pc = "wallet"
  /\ \/ New(e) \notin characters /\ Fatal(e)
     \/ /\ New(e) \in characters
        /\ wallets' = [wallets EXCEPT ![New(e)] =
             [balance |-> INITIAL_BALANCE, lifetime_earned |-> INITIAL_BALANCE, lifetime_spent |-> 0, version |-> 0]]
        /\ Go(e, [pc |-> "grant"])
        /\ UNCHANGED <<production, users, characters, entries>>
InsertGrant(e) ==
  /\ exec[e].pc = "grant"
  /\ \/ New(e) \notin characters /\ Fatal(e)
     \/ /\ New(e) \in characters
        /\ entries' = [entries EXCEPT ![New(e)].granted = @ + INITIAL_BALANCE]
        /\ Go(e, [pc |-> IF exec[e].made + 1 = CHAR_COUNT THEN "pair" ELSE "user", made |-> exec[e].made + 1])
        /\ UNCHANGED <<production, users, characters, wallets>>
-----------------------------------------------------------------------------
\* The pairs: a credit, then the same amount as a debit, whatever became of the first.
Pair(e) ==
  /\ exec[e].pc = "pair"
  /\ IF exec[e].pairs = TX_PAIRS THEN Go(e, [pc |-> "sum"])
     ELSE \E i \in Own(e), amount \in Amounts :
            Go(e, [pc |-> "read", id |-> i, amount |-> amount, sink |-> FALSE, attempt |-> 1])
  /\ UNCHANGED <<production, users, characters, wallets, entries>>

\* What follows a call of applyTx: the debit, or the next pair.
Applied(e) ==
  IF exec[e].sink THEN [pc |-> "pair", pairs |-> exec[e].pairs + 1, read |-> NoWallet]
  ELSE [pc |-> "read", sink |-> TRUE, attempt |-> 1, read |-> NoWallet]

\* applyTx: a missing wallet and an overdraft are refused, silently.
ReadWallet(e) ==
  LET x == exec[e]  wallet == wallets[x.id] IN
  /\ x.pc = "read"
  /\ IF wallet = NoWallet \/ (x.sink /\ wallet.balance < x.amount) THEN Go(e, Applied(e))
     ELSE Go(e, [pc |-> "update", read |-> wallet])
  /\ UNCHANGED <<production, users, characters, wallets, entries>>

Moved(wallet, x) ==
  [balance |-> wallet.balance + (IF x.sink THEN -x.amount ELSE x.amount),
   lifetime_earned |-> wallet.lifetime_earned + (IF x.sink THEN 0 ELSE x.amount),
   lifetime_spent |-> wallet.lifetime_spent + (IF x.sink THEN x.amount ELSE 0),
   version |-> wallet.version + 1]
Matches(wallet, x) == wallet # NoWallet /\ wallet.version = x.read.version
\* WHERE version = the one read.  An update that finds no row is repeated from the
\* read; the last attempt is given up and fails the execution.
UpdateWallet(e) ==
  LET x == exec[e]  wallet == wallets[x.id] IN
  /\ x.pc = "update"
  /\ \/ /\ Matches(wallet, x)
        /\ wallets' = [wallets EXCEPT ![x.id] = Moved(x.read, x)]
        /\ Go(e, [pc |-> "entry"])
     \/ /\ ~Matches(wallet, x)
        /\ Go(e, IF x.attempt < MAX_RETRIES THEN [pc |-> "read", attempt |-> x.attempt + 1]
                 ELSE [passed |-> FALSE] @@ Applied(e))
        /\ UNCHANGED wallets
  /\ UNCHANGED <<production, users, characters, entries>>
InsertEntry(e) ==
  LET x == exec[e] IN
  /\ x.pc = "entry"
  /\ \/ x.id \notin characters /\ Fatal(e)
     \/ /\ x.id \in characters
        /\ entries' = [entries EXCEPT ![x.id] =
             IF x.sink THEN [@ EXCEPT !.spent = @ + x.amount, !.count = @ + 1]
             ELSE [@ EXCEPT !.earned = @ + x.amount, !.count = @ + 1]]
        /\ Go(e, Applied(e))
        /\ UNCHANGED <<production, users, characters, wallets>>
-----------------------------------------------------------------------------
\* The six invariants, over the wallets as they were read once.  The first sums the
\* rows of every execution.
SumAmount(e) ==
  /\ exec[e].pc = "sum"
  /\ Go(e, [pc |-> "wallets", passed |-> exec[e].passed /\ Unbalanced = 0])
  /\ UNCHANGED <<production, users, characters, wallets, entries>>
ReadWallets(e) ==
  /\ exec[e].pc = "wallets"
  /\ Go(e, [pc |-> "balances", found |-> [i \in {j \in Own(e) : wallets[j] # NoWallet} |-> wallets[i]]])
  /\ UNCHANGED <<production, users, characters, wallets, entries>>

After == [balances |-> "negatives", negatives |-> "versions", versions |-> "lifetimes", lifetimes |-> "clean"]
Verified(e) ==
  LET f == exec[e].found IN
  CASE exec[e].pc = "balances" ->
         \A i \in DOMAIN f : f[i].balance = entries[i].granted + entries[i].earned - entries[i].spent
    [] exec[e].pc = "negatives" -> \A i \in Own(e) : wallets[i] # NoWallet => wallets[i].balance >= 0
    [] exec[e].pc = "versions" -> \A i \in DOMAIN f : f[i].version = entries[i].count
    [] OTHER -> \A i \in DOMAIN f : /\ f[i].lifetime_earned - (entries[i].granted + entries[i].earned) \in -1 .. 1
                                    /\ f[i].lifetime_spent - entries[i].spent \in -1 .. 1
Verify(e) ==
  /\ exec[e].pc \in DOMAIN After
  /\ Go(e, [pc |-> After[exec[e].pc], passed |-> exec[e].passed /\ Verified(e)])
  /\ UNCHANGED <<production, users, characters, wallets, entries>>

\* The cleanup: the rows of every execution, its own wallets and characters, then
\* every test user, and by cascade all that hangs on it.
Without(f, ids, none) == [i \in Id |-> IF i \in ids THEN none ELSE f[i]]
Clean(e) ==
  /\ exec[e].pc = "clean"
  /\ IF production THEN Go(e, [pc |-> "report"]) /\ UNCHANGED entries
     ELSE Go(e, [pc |-> "own"]) /\ entries' = [i \in Id |-> NoEntries]
  /\ UNCHANGED <<production, users, characters, wallets>>
DeleteWallets(e) ==
  /\ exec[e].pc = "own" /\ Go(e, [pc |-> "delete"])
  /\ wallets' = Without(wallets, Own(e), NoWallet)
  /\ UNCHANGED <<production, users, characters, entries>>
DeleteCharacters(e) ==
  /\ exec[e].pc = "delete" /\ Go(e, [pc |-> "users"])
  /\ characters' = characters \ Own(e)
  /\ wallets' = Without(wallets, Own(e), NoWallet)
  /\ entries' = Without(entries, Own(e), NoEntries)
  /\ UNCHANGED <<production, users>>
DeleteUsers(e) ==
  /\ exec[e].pc = "users" /\ Go(e, [pc |-> "report"])
  /\ users' = {} /\ characters' = {}
  /\ wallets' = [i \in Id |-> NoWallet] /\ entries' = [i \in Id |-> NoEntries]
  /\ UNCHANGED production
Report(e) ==
  /\ exec[e].pc = "report" /\ Exit(e, exec[e].passed)
  /\ UNCHANGED <<production, users, characters, wallets, entries>>

\* The process is stopped, or its database is.
Stop(e) == Running(e) /\ Fatal(e)

Step(e) ==
  \/ Start(e) \/ InsertUser(e) \/ InsertCharacter(e) \/ InsertWallet(e) \/ InsertGrant(e)
  \/ Pair(e) \/ ReadWallet(e) \/ UpdateWallet(e) \/ InsertEntry(e)
  \/ SumAmount(e) \/ ReadWallets(e) \/ Verify(e)
  \/ Clean(e) \/ DeleteWallets(e) \/ DeleteCharacters(e) \/ DeleteUsers(e) \/ Report(e)
  \/ Stop(e)
Next == \E e \in Exec : Step(e)
-----------------------------------------------------------------------------
\* An execution that nobody overlapped raises no false alarm and hides none: at its
\* report it fails if and only if executions before it were stopped between a
\* credit and its debit and nobody cleaned up since.
VerdictExact(e) == exec[e].passed <=> exec[e].before = 0

\* Outside production it leaves no test row behind, whatever those before it left, so
\* that the next one passes.
NothingLeft ==
  users = {} /\ characters = {} /\ \A i \in Id : wallets[i] = NoWallet /\ entries[i] = NoEntries

EconHolds ==
  \A e \in Exec : exec[e].pc = "report" /\ exec[e].alone =>
    VerdictExact(e) /\ (production \/ NothingLeft)
=============================================================================
