--------------------------------- MODULE Boot ---------------------------------
(* The boot of the server (server.ts, db/index.ts, seed/): the migrations, the   *)
(* seeds of the content, then the port, and only then the two accounts of the   *)
(* environment, among the requests already served.                              *)
(*                                                                              *)
(* Every insert of a seed is a statement of its own, and the process may stop   *)
(* between any two: the container is started again, with the same build or      *)
(* another one and with other passwords.  A table is one row here, and its      *)
(* content the build whose seed wrote it, 0 for a row that is not there.        *)
EXTENDS Naturals, Sequences, SequencesExt

CONSTANTS Builds, Passwords,   \* the builds deployed, the passwords configured
          Own, Unset,          \* the password of somebody else; a variable not set
          MaxBoots, MaxRounds

VARIABLES pc, build, env, boots,
          content,    \* table -> the build that wrote its row
          sold,       \* units of the stock were sold
          legends,    \* how many founding legends and how many players
          rounds,     \* the rows of rounds, as inserted
          users, characters, wallets,
          nameTaken,  \* a character of somebody else is called Zanetti
          found,      \* the row an account seeder has read
          mine,       \* e-mails registered by somebody, not by a seeder
          cut         \* the test user was left half made

vars == <<pc, build, env, boots, content, sold, legends, rounds, users, characters, wallets,
          nameTaken, found, mine, cut>>
database == <<content, sold, legends, rounds>>
accounts == <<users, characters, wallets, nameTaken, mine>>

Email == {"admin", "test"}
MergedTables == {"chrome", "inventory", "gigs", "params", "consumables"}
KeptTables == {"vendors", "loot"}
NoUser == [role |-> "none", hash |-> Unset]
Founders == 5

Serving == pc \in {"admin", "adminWrite", "tester", "testerWrite", "character", "wallet", "up"}

Init ==
  /\ pc = "down" /\ build \in Builds /\ boots = 0
  /\ env = [e \in Email |-> Unset]
  /\ content = [t \in MergedTables \cup KeptTables |-> 0] /\ sold = FALSE
  /\ legends = [founders |-> 0, players |-> 0] /\ rounds = << >>
  /\ users = [e \in Email |-> NoUser] /\ characters = {} /\ wallets = {} /\ nameTaken = FALSE
  /\ found = NoUser /\ mine = {} /\ cut = FALSE
-----------------------------------------------------------------------------
(* Before the port is opened.                                                  *)

Start ==
  /\ pc = "down" /\ boots < MaxBoots
  /\ boots' = boots + 1 /\ build' \in Builds /\ env' \in [Email -> Passwords \cup {Unset}]
  /\ pc' = "migrate"
  /\ UNCHANGED <<database, accounts, found, cut>>

\* Every pending migration is applied in one transaction.
Migrate ==
  /\ pc = "migrate" /\ pc' = "chrome"
  /\ UNCHANGED <<build, env, boots, database, accounts, found, cut>>

Seeds(table, next) ==
  /\ pc = table /\ pc' = next
  /\ UNCHANGED <<build, env, boots, accounts, found, cut>>

\* onConflict.merge: the row is the one of this build.
Merge(table) == content' = [content EXCEPT ![table] = build]

\* onConflict.ignore: the row stays as it was first written.
Ignore(table) == content' = [content EXCEPT ![table] = IF @ = 0 THEN build ELSE @]

SeedChrome == Seeds("chrome", "vendors") /\ Merge("chrome") /\ UNCHANGED <<sold, legends, rounds>>
SeedVendors == Seeds("vendors", "inventory") /\ Ignore("vendors") /\ UNCHANGED <<sold, legends, rounds>>

\* The price and the stock are merged too: what was sold is back.
SeedInventory ==
  Seeds("inventory", "gigs") /\ Merge("inventory") /\ sold' = FALSE /\ UNCHANGED <<legends, rounds>>

SeedGigs == Seeds("gigs", "loot") /\ Merge("gigs") /\ UNCHANGED <<sold, legends, rounds>>
SeedLoot == Seeds("loot", "legends") /\ Ignore("loot") /\ UNCHANGED <<sold, legends, rounds>>

\* Only when the table is empty, and all of them with one insert.
SeedLegends ==
  /\ Seeds("legends", "round")
  /\ legends' = IF legends.founders + legends.players = 0 THEN [legends EXCEPT !.founders = Founders]
                ELSE legends
  /\ UNCHANGED <<content, sold, rounds>>

\* Only when no round has the number 1, whatever its status.
SeedRound ==
  /\ Seeds("round", "params")
  /\ rounds' = IF \E r \in ToSet(rounds) : r.number = 1 THEN rounds
               ELSE Append(rounds, [number |-> 1, status |-> "active"])
  /\ UNCHANGED <<content, sold, legends>>

SeedGameParams == Seeds("params", "consumables") /\ Merge("params") /\ UNCHANGED <<sold, legends, rounds>>
SeedConsumables == Seeds("consumables", "listen") /\ Merge("consumables") /\ UNCHANGED <<sold, legends, rounds>>

InitDb ==
  \/ Migrate
  \/ SeedChrome \/ SeedVendors \/ SeedInventory \/ SeedGigs \/ SeedLoot
  \/ SeedLegends \/ SeedRound \/ SeedGameParams \/ SeedConsumables

Listen ==
  /\ pc = "listen" /\ pc' = "admin"
  /\ UNCHANGED <<build, env, boots, database, accounts, found, cut>>
-----------------------------------------------------------------------------
(* The accounts of the environment.                                            *)

\* An error of a seeder ends the process.
Exits == pc' = "down" /\ cut' = (cut \/ pc \in {"character", "wallet"}) /\ found' = NoUser

Find(email, here, write, skip) ==
  /\ pc = here
  /\ IF env[email] = Unset THEN pc' = skip /\ UNCHANGED found
     ELSE pc' = write /\ found' = users[email]
  /\ UNCHANGED <<build, env, boots, database, accounts, cut>>

Inserts(email, role) == users' = [users EXCEPT ![email] = [role |-> role, hash |-> env[email]]]

\* The row found is left alone when its role is another one, or when its hash is
\* already the password's.
Converge(email, role) ==
  users' = IF found.role = role THEN [users EXCEPT ![email].hash = env[email]] ELSE users

\* Between the read and the insert, somebody may have taken the e-mail.
SeedAdminAccount ==
  /\ pc = "adminWrite"
  /\ IF found # NoUser THEN Converge("admin", "admin") /\ pc' = "tester" /\ found' = NoUser /\ UNCHANGED cut
     ELSE IF users["admin"] = NoUser
          THEN Inserts("admin", "admin") /\ pc' = "tester" /\ UNCHANGED <<found, cut>>
          ELSE Exits /\ UNCHANGED users
  /\ UNCHANGED <<build, env, boots, database, characters, wallets, nameTaken, mine>>

SeedTestUser ==
  /\ pc = "testerWrite"
  /\ IF found # NoUser THEN Converge("test", "player") /\ pc' = "up" /\ found' = NoUser /\ UNCHANGED cut
     ELSE IF users["test"] = NoUser
          THEN Inserts("test", "player") /\ pc' = "character" /\ UNCHANGED <<found, cut>>
          ELSE Exits /\ UNCHANGED users
  /\ UNCHANGED <<build, env, boots, database, characters, wallets, nameTaken, mine>>

\* A user has one character, and a name is one character's.
InsertCharacter ==
  /\ pc = "character"
  /\ IF nameTaken \/ "test" \in characters THEN Exits /\ UNCHANGED characters
     ELSE characters' = characters \cup {"test"} /\ pc' = "wallet" /\ UNCHANGED <<found, cut>>
  /\ UNCHANGED <<build, env, boots, database, users, wallets, nameTaken, mine>>

InsertWallet ==
  /\ pc = "wallet" /\ wallets' = wallets \cup {"test"} /\ pc' = "up"
  /\ UNCHANGED <<build, env, boots, database, users, characters, nameTaken, found, mine, cut>>

SeedAccounts ==
  \/ Find("admin", "admin", "adminWrite", "tester") \/ SeedAdminAccount
  \/ Find("test", "tester", "testerWrite", "up") \/ SeedTestUser \/ InsertCharacter \/ InsertWallet
-----------------------------------------------------------------------------
(* Around the boot.                                                            *)

\* A crash, or a signal: the container's policy starts the server again.
Stop ==
  /\ pc # "down" /\ Exits
  /\ UNCHANGED <<build, env, boots, database, accounts>>

Register(e) ==
  /\ Serving /\ users[e] = NoUser
  /\ users' = [users EXCEPT ![e] = [role |-> "player", hash |-> Own]] /\ mine' = mine \cup {e}
  /\ UNCHANGED <<pc, build, env, boots, database, characters, wallets, nameTaken, found, cut>>

\* Whoever knows the test user's password may give it a character.
CreateCharacter ==
  /\ Serving
  /\ \/ ~nameTaken /\ "test" \notin characters /\ nameTaken' = TRUE /\ UNCHANGED <<characters, wallets>>
     \/ /\ users["test"] # NoUser /\ "test" \notin characters
        /\ characters' = characters \cup {"test"} /\ wallets' = wallets \cup {"test"} /\ UNCHANGED nameTaken
  /\ UNCHANGED <<pc, build, env, boots, database, users, found, mine, cut>>

\* What the game changes in the tables of the seeds.
Play ==
  /\ Serving
  /\ \/ ~sold /\ sold' = TRUE /\ UNCHANGED <<legends, rounds>>
     \/ legends.players = 0 /\ legends' = [legends EXCEPT !.players = 1] /\ UNCHANGED <<sold, rounds>>
     \/ /\ Len(rounds) < MaxRounds
        /\ rounds' = Append([i \in DOMAIN rounds |-> [rounds[i] EXCEPT !.status = "ended"]],
                            [number |-> Len(rounds) + 1, status |-> "active"])
        /\ UNCHANGED <<sold, legends>>
  /\ UNCHANGED <<pc, build, env, boots, content, accounts, found, cut>>

Next ==
  \/ Start \/ InitDb \/ Listen \/ SeedAccounts \/ Stop
  \/ \E e \in Email : Register(e)
  \/ CreateCharacter \/ Play

Spec == Init /\ [][Next]_vars
-----------------------------------------------------------------------------
(* No request is served before the content of this build is there: what is      *)
(* merged is this build's, what is ignored is some build's, the founders are in *)
(* the hall once, and one round is open.                                        *)
ServesSeeded ==
  Serving =>
    /\ \A t \in MergedTables : content[t] = build
    /\ \A t \in KeptTables : content[t] # 0
    /\ legends.founders = Founders
    /\ Len(SelectSeq(rounds, LAMBDA r : r.status = "active")) = 1

\* However often the seeds run again, no lore and no round comes twice.
OnceOnly ==
  /\ legends.founders \in {0, Founders}
  /\ \A i, j \in DOMAIN rounds : rounds[i].number = rounds[j].number => i = j

\* "Never overwrite the hash of a player who registered with the admin email":
\* and when the server is up, the admin of the environment has its password.
AdminConverges ==
  /\ "admin" \in mine => users["admin"] = [role |-> "player", hash |-> Own]
  /\ pc = "up" /\ env["admin"] # Unset /\ "admin" \notin mine
       => users["admin"] = [role |-> "admin", hash |-> env["admin"]]

\* The test user has its password, and the character and the wallet it is made
\* with unless a boot stopped while it was made: no later one repairs it.
TesterWhole ==
  /\ pc = "up" /\ env["test"] # Unset => users["test"] = [role |-> "player", hash |-> env["test"]]
  /\ pc = "up" /\ users["test"] # NoUser /\ "test" \notin mine /\ ~cut => "test" \in characters \cap wallets
  /\ wallets \subseteq characters

BootHolds == ServesSeeded /\ OnceOnly /\ AdminConverges /\ TesterWhole
=============================================================================
