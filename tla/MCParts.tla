------------------------------ MODULE MCParts ------------------------------
(* Small instances of the parts that stand alone; each behaviour follows one.   *)
(* Of Vitals, NIL, the abilities and the operating system share a row but no    *)
(* column, and each is followed with one request at a time (solo) and with two. *)
(* "rules" looks at each probe of Rules, where nothing moves.  The others follow *)
(* the pages and stores of the client, the lists read by pages, the parameters,  *)
(* the boot, the asset generator over five registries and a dozen calls, two     *)
(* runs of the deploy script on two hosts, and a few days of backups.  What a     *)
(* part does not use is off.                                                     *)
EXTENDS Vitals, Catalog, TLC

CONSTANTS p1, p2, bicho, despachante, nobody,
          off,          \* the state of a part that is not followed
          w, m,         \* runs of the deploy script
          Parts         \* the parts this run follows

VARIABLES part, solo, probe,
          registry, opt, at, item, job, failures, files, exit, touched, up, jobs,
          images, build, host, run, bad, migrating, passed, slipped, before,
          backups, step, made,
          tab, fetches, conns, opened, history, post, posted,
          loadout, view, panel, loads, posts, asked, missed,
          table, cache, reads, form, save, auditLog, overlap, raced, saves, restarted,
          list, rows, shown, cursor, filter, first,
          attributes, identified, request, notice, created, moral, resets,
          clock, done, active, board, cards, sieve, page, fetch, asof, elapsed, nilShown, nilFetch,
          rider, district, traveling, timer, mounted, destination, crossing,
          load, loading, error, map, city, rides, visits,
          gig, sight, drawn, summary, theater, act, get, waits, unsure, past,
          who, moves, readout, hud, hudError, readPanel, gets, logins, patient, watch,
          site, carried, window, calls, seen, busy, acting, armed, failed, told, informed, visit, onPage,
          behind, alone, last,
          banned, roster, fetching, listings, text, order, debounce, modal, reason, banning, sent, inputs, input, calm,
          booting, image, env, boots, content, sold, legends, rounds, users, characters, wallets, nameTaken, found, mine, cut,
          openRound, signedIn, heldRound, heldStats, dismissed, polls, turns, polled, readAt, steady,
          production, testers, avatars, purses, entries, exec

forgeVars == <<registry, opt, at, item, job, failures, files, exit, touched, up, jobs>>
deployVars == <<images, build, host, run, bad, migrating, passed, slipped, before>>
backupVars == <<backups, step, made>>
chatVars == <<tab, fetches, conns, opened, history, post, posted>>
clinicVars == <<loadout, view, panel, loads, posts, asked, missed>>
paramVars == <<table, cache, reads, form, save, auditLog, overlap, raced, saves, restarted>>
pageVars == <<list, rows, shown, cursor, filter, first>>
cityVars == <<attributes, identified, request, notice, created, moral, resets>>
boardVars == <<clock, done, active, board, cards, sieve, page, fetch, asof>>
nilVars == <<elapsed, nilShown, nilFetch>>
metroVars == <<rider, district, traveling, timer, mounted, destination, crossing, load, loading, error, map, city, rides, visits>>
readoutVars == <<who, moves, readout, hud, hudError, readPanel, gets, logins, patient, watch>>
actionVars == <<site, carried, window, calls, seen, busy, acting, armed, failed, told, informed, visit, onPage, behind, alone, last>>
rosterVars == <<banned, roster, fetching, listings, text, order, debounce, modal, reason, banning, sent, inputs, input, calm>>
bootVars == <<booting, image, env, boots, content, sold, legends, rounds, users, characters, wallets,
              nameTaken, found, mine, cut>>
blackoutVars == <<openRound, signedIn, heldRound, heldStats, dismissed, polls, turns, polled, readAt, steady>>
econVars == <<production, testers, avatars, purses, entries, exec>>
screenVars == <<gig, sight, drawn, summary, theater, act, get, waits, unsure, past>>

MCDuration == [r \in Role |-> IF r = bicho THEN 1 ELSE 0]
MCCooldown == [r \in Role |-> 2]

\* Requests, administrators and GETs that are as good as each other have the same
\* two names, which no part tells apart.
Symmetry == Permutations(Proc)

Asked == [nil |-> {"consume", "accept", "stim", "buy", "attack"},
          ability |-> {"activate", "use"},
          os |-> {"os"}]

Types == <<[id |-> "icon", regime |-> "flat", size |-> 64, complete |-> TRUE],
           [id |-> "scene", regime |-> "atmospheric", size |-> 64, complete |-> TRUE]>>
Valid == [version |-> 2, types |-> Types, districts |-> <<[id |-> "docks"]>>,
          families |-> <<[id |-> "crews", type |-> "icon", members |-> <<"a", "b", "c">>]>>]
Registries == {Valid, [Valid EXCEPT !.version = 1], [Valid EXCEPT !.types[1].size = 63],
               [Valid EXCEPT !.families[1].members = << >>], [Valid EXCEPT !.districts = @ \o @]}
Generate == [command |-> "generate", type |-> "icon", family |-> "", member |-> "", district |-> "",
             seed |-> 0, variants |-> 1, subject |-> "given", dryRun |-> FALSE]
OfFamily == [Generate EXCEPT !.family = "crews"]
Options == {Generate, OfFamily,
            [Generate EXCEPT !.command = "check"], [Generate EXCEPT !.command = "list"],
            [Generate EXCEPT !.variants = 2], [Generate EXCEPT !.variants = 2, !.seed = 1],
            [Generate EXCEPT !.type = "scene", !.district = "docks"], [Generate EXCEPT !.district = "docks"],
            [Generate EXCEPT !.member = "a"], [Generate EXCEPT !.subject = "blank"],
            [OfFamily EXCEPT !.member = "b"], [OfFamily EXCEPT !.member = "z"], [OfFamily EXCEPT !.seed = 1],
            [OfFamily EXCEPT !.type = "scene"], [OfFamily EXCEPT !.dryRun = TRUE]}

Arithmetic == INSTANCE Rules
Forge == INSTANCE AssetForge WITH Seeds <- {7, 8}
Release == INSTANCE Deploy WITH Run <- {w, m}, Workflow <- w, MaxVersion <- 2, KEEP <- 2, MaxBackups <- 5
Chat == INSTANCE ChatScreen WITH Room <- {"docks", "north"}, Nowhere <- "nowhere",
          HISTORY_MAX <- 2, OFFLINE_THRESHOLD <- 2, MaxConns <- 3, MaxPosts <- 2, MaxMounts <- 2
Surgery == INSTANCE Clinic WITH Slot <- {"skull", "arm"}, NoSlot <- "none",
          Implant <- {"eye", "chip"}, NoImplant <- "none", SlotOf <- [i \in {"eye", "chip"} |-> "skull"],
          Capacity <- 1, MaxFetches <- 4, MaxPanels <- 5
Panel == INSTANCE Params WITH Admin <- Proc, Reader <- {"r"}, Key <- {"floor", "cost"},
          Default <- [floor |-> 0, cost |-> 1], Typed <- {0, 2}, MaxSaves <- 3
Pages == INSTANCE Paging WITH Lists <- {"feed", "audit"}, Limit <- 2, Times <- 0 .. 4, Ms <- 2,
          Actions <- {"ban", "chat"}, MaxRows <- 4
Newcomer == INSTANCE City WITH None <- nobody, character <- created
Counting == INSTANCE Board WITH Trampo <- {"run"}, Cooldown <- [t \in {"run"} |-> 2], Floor <- 0, NoTrampo <- "none",
              MaxNow <- 7, Interval <- 3, now <- clock, filter <- sieve, nil <- nilShown
Ride == INSTANCE Metro WITH Station <- {"fervo", "fluxo"}, Nowhere <- "none", Origins <- {"fervo", "fluxo"},
          MaxLoads <- 3, MaxVisits <- 2, character <- rider, loads <- rides
Loop == INSTANCE GigScreen WITH Fetch <- Proc, MaxGigs <- 2,
          view <- sight, shown <- drawn, panel <- theater, patient <- waits
Shown == INSTANCE Readouts WITH Account <- {"a", "b"}, Nobody <- "nobody", Copies <- {1, 2}, MaxMoves <- 1, MaxLogins <- 2,
           panel <- readPanel
Acting == INSTANCE Actions WITH Page <- {"vendor", "therapy", "os", "consumables", "attack", "crew"}, Item <- {"i", "j", "k"},
            Supply <- [i \in {"i", "j", "k"} |-> 1], Said <- {"i"}, Final <- {"k"}, Nothing <- nobody, Copies <- Proc, MaxVisits <- 2,
            page <- site, done <- carried, loading <- busy, asked <- informed
Characters == {"x", "y", "z"}
Players == INSTANCE Roster WITH Player <- Characters, Tripped <- {"z"}, Text <- {"", "a"},
             Matches <- [t \in {"", "a"} |-> IF t = "" THEN Characters ELSE {"x"}], Sort <- {"sc", "last_activity"},
             Ranked <- [sc |-> <<"x", "y", "z">>, last_activity |-> <<"y", "z", "x">>],
             LastSeen <- [x |-> 1, y |-> 2, z |-> 3], PageSize <- 2, Nothing <- nobody, Copies <- {1, 2}, MaxInputs <- 3,
             list <- roster, gets <- listings, timer <- debounce, acting <- banning
Booting == INSTANCE Boot WITH Builds <- {1, 2}, Passwords <- {"p", "q"}, Own <- "own", Unset <- "unset",
             MaxBoots <- 2, MaxRounds <- 2, pc <- booting, build <- image
Overlay == INSTANCE Blackout WITH Copies <- Proc, MaxMoves <- 4, MaxPolls <- 4, current <- openRound, round <- heldRound,
             stats <- heldStats, moves <- turns, asof <- readAt, calm <- steady
Economics == INSTANCE EconCheck WITH Exec <- 1 .. 3, CHAR_COUNT <- 1, TX_PAIRS <- 1, INITIAL_BALANCE <- 1, MAX_RETRIES <- 3,
               Amounts <- {1}, users <- testers, characters <- avatars, wallets <- purses

\* How long each part of Vitals is followed: two UTC days of the operating
\* system, three ticks of NIL or two effects of an ability with one request at a
\* time, and one tick with two, which may spend the NIL of that tick more than
\* once and for ever.
Horizon == IF part = "os" THEN MaxNow ELSE IF solo THEN 3 * Interval ELSE Interval

MCInit ==
  /\ part \in Parts /\ solo \in BOOLEAN /\ Init
  /\ part \notin DOMAIN Asked => solo
  /\ part # "ability" => db[Me].role = bicho
  /\ part # "os" => ~db[Me].os
  /\ IF part = "rules" THEN Arithmetic!Init ELSE probe = off
  /\ IF part = "forge" THEN Forge!Init
     ELSE /\ registry = off /\ opt = off /\ at = off /\ item = off /\ job = off /\ failures = off
          /\ files = off /\ exit = off /\ touched = off /\ up = off /\ jobs = off
  /\ IF part = "deploy" THEN Release!DeployInit
     ELSE /\ images = off /\ build = off /\ host = off /\ run = off /\ bad = off /\ migrating = off
          /\ passed = off /\ slipped = off /\ before = off
  /\ IF part = "backup" THEN Release!BackupInit
     ELSE /\ backups = off /\ step = off /\ made = off
  /\ IF part = "chat" THEN Chat!Init
     ELSE /\ tab = off /\ fetches = off /\ conns = off /\ opened = off /\ history = off /\ post = off
          /\ posted = off
  /\ IF part = "clinic" THEN Surgery!Init
     ELSE /\ loadout = off /\ view = off /\ panel = off /\ loads = off /\ posts = off /\ asked = off
          /\ missed = off
  /\ IF part = "params" THEN Panel!Init
     ELSE /\ table = off /\ cache = off /\ reads = off /\ form = off /\ save = off /\ auditLog = off
          /\ overlap = off /\ raced = off /\ saves = off /\ restarted = off
  /\ IF part = "pages" THEN Pages!Init
     ELSE /\ list = off /\ rows = off /\ shown = off /\ cursor = off /\ filter = off /\ first = off
  /\ IF part = "city" THEN Newcomer!Init
     ELSE /\ attributes = off /\ identified = off /\ request = off /\ notice = off /\ created = off
          /\ moral = off /\ resets = off
  /\ IF part = "board" THEN Counting!BoardInit
     ELSE /\ clock = off /\ done = off /\ active = off /\ board = off /\ cards = off /\ sieve = off
          /\ page = off /\ fetch = off /\ asof = off
  /\ IF part = "clock" THEN Counting!NilInit
     ELSE /\ elapsed = off /\ nilShown = off /\ nilFetch = off
  /\ IF part = "metro" THEN Ride!Init
     ELSE /\ rider = off /\ district = off /\ traveling = off /\ timer = off /\ mounted = off
          /\ destination = off /\ crossing = off /\ load = off /\ loading = off /\ error = off
          /\ map = off /\ city = off /\ rides = off /\ visits = off
  /\ IF part = "screen" THEN Loop!Init
     ELSE /\ gig = off /\ sight = off /\ drawn = off /\ summary = off /\ theater = off /\ act = off
          /\ get = off /\ waits = off /\ unsure = off /\ past = off
  /\ IF part = "readouts" THEN Shown!Init
     ELSE /\ who = off /\ moves = off /\ readout = off /\ hud = off /\ hudError = off
          /\ readPanel = off /\ gets = off /\ logins = off /\ patient = off /\ watch = off
  /\ IF part = "actions" THEN Acting!Init
     ELSE /\ site = off /\ carried = off /\ window = off /\ calls = off /\ seen = off /\ busy = off
          /\ acting = off /\ armed = off /\ failed = off /\ told = off /\ informed = off /\ visit = off
          /\ onPage = off /\ behind = off /\ alone = off /\ last = off
  /\ IF part = "roster" THEN Players!Init
     ELSE /\ banned = off /\ roster = off /\ fetching = off /\ listings = off /\ text = off /\ order = off
          /\ debounce = off /\ modal = off /\ reason = off /\ banning = off /\ sent = off /\ inputs = off
          /\ input = off /\ calm = off
  /\ IF part = "boot" THEN Booting!Init
     ELSE /\ booting = off /\ image = off /\ env = off /\ boots = off /\ content = off /\ sold = off
          /\ legends = off /\ rounds = off /\ users = off /\ characters = off /\ wallets = off
          /\ nameTaken = off /\ found = off /\ mine = off /\ cut = off
  /\ IF part = "blackout" THEN Overlay!Init
     ELSE /\ openRound = off /\ signedIn = off /\ heldRound = off /\ heldStats = off /\ dismissed = off
          /\ polls = off /\ turns = off /\ polled = off /\ readAt = off /\ steady = off
  /\ IF part = "econ" THEN Economics!Init
     ELSE /\ production = off /\ testers = off /\ avatars = off /\ purses = off /\ entries = off /\ exec = off

VitalsNext ==
  /\ Next
  /\ \A p \in Proc : req'[p].op \in Asked[part] \cup {"none"}
  /\ part # "os" => ~db'[Me].flat
  /\ now' <= Horizon
  /\ ~solo => hist'.spent <= MaxNil
  /\ solo => hist'.alone

\* Of a form, one field is edited between two saves; a third save, by whoever holds
\* an older form, is followed without readers and restarts.
PanelNext ==
  /\ Panel!Next
  /\ \A a \in DOMAIN form' : Cardinality(form'[a].edited) <= 1
  /\ saves' > 2 => ~restarted' /\ reads' = reads /\ \A k \in DOMAIN cache' : cache'[k] = Panel!NotCached

\* A form that has made its character is not filled in again.
StartNext == Newcomer!Next /\ (created # nobody => UNCHANGED attributes)

\* A player who does not wait is followed with one outcome for each trampo, and the
\* second one without legwork.
ScreenNext ==
  /\ Loop!Next
  /\ waits \/ \A i \in DOMAIN past' :
            /\ past'[i].execute => i = 1
            /\ past'[i].escape => i = 2
            /\ past'[i].phase = "legwork" => i = 1
            /\ past'[i].phase = "execute" => past'[i].execute = (i = 1)
            /\ past'[i].phase = "escape" => past'[i].escape = (i = 2)

\* A third stream is followed with one message.
ChatNext == Chat!Next /\ (opened' > 2 => posted' <= 1)

\* Two executions of the economy check overlap as they like, a third comes after them.
EconNext == Economics!Next /\ (exec'[3].pc # "new" => exec'[3].alone)

Still ==
  /\ UNCHANGED <<part, solo, probe>>
  /\ part \notin DOMAIN Asked => UNCHANGED vars
  /\ part # "forge" => UNCHANGED forgeVars
  /\ part # "deploy" => UNCHANGED deployVars
  /\ part # "backup" => UNCHANGED backupVars
  /\ part # "chat" => UNCHANGED chatVars
  /\ part # "clinic" => UNCHANGED clinicVars
  /\ part # "params" => UNCHANGED paramVars
  /\ part # "pages" => UNCHANGED pageVars
  /\ part # "city" => UNCHANGED cityVars
  /\ part # "board" => UNCHANGED boardVars
  /\ part # "clock" => UNCHANGED nilVars
  /\ part # "metro" => UNCHANGED metroVars
  /\ part # "screen" => UNCHANGED screenVars
  /\ part # "readouts" => UNCHANGED readoutVars
  /\ part # "actions" => UNCHANGED actionVars
  /\ part # "roster" => UNCHANGED rosterVars
  /\ part # "boot" => UNCHANGED bootVars
  /\ part # "blackout" => UNCHANGED blackoutVars
  /\ part # "econ" => UNCHANGED econVars

MCNext ==
  /\ Still
  /\ \/ part \in DOMAIN Asked /\ VitalsNext
     \/ part = "rules"
     \/ part = "forge" /\ Forge!Next
     \/ part = "deploy" /\ Release!DeployNext
     \/ part = "backup" /\ Release!BackupNext
     \/ part = "chat" /\ ChatNext
     \/ part = "clinic" /\ Surgery!Next
     \/ part = "params" /\ PanelNext
     \/ part = "pages" /\ Pages!Next
     \/ part = "city" /\ StartNext
     \/ part = "board" /\ Counting!BoardNext
     \/ part = "clock" /\ Counting!NilNext
     \/ part = "metro" /\ Ride!Next
     \/ part = "screen" /\ ScreenNext
     \/ part = "readouts" /\ Shown!Next
     \/ part = "actions" /\ Acting!Next
     \/ part = "roster" /\ Players!Next
     \/ part = "boot" /\ Booting!Next
     \/ part = "blackout" /\ Overlay!Next
     \/ part = "econ" /\ EconNext

allVars == <<vars, part, solo, probe, forgeVars, deployVars, backupVars, chatVars, clinicVars, paramVars, pageVars,
             cityVars, boardVars, nilVars, metroVars, screenVars, readoutVars, actionVars, rosterVars, bootVars, blackoutVars, econVars>>
MCSpec == MCInit /\ [][MCNext]_allVars

\* The arithmetic keeps its promises on every probe, the tables of content theirs, what
\* a player is told of a failure is what happened, and the points a new character spends
\* by its form are those the server accepts and the trampos count.
RulesHold ==
  CASE part = "rules" -> Arithmetic!RulesHold /\ CatalogHolds /\ Arithmetic!AnswersHold
    [] part = "city" -> Newcomer!CityHolds
    [] OTHER -> TRUE

\* What the generator leaves behind, and what its exit code says of it.
ForgeHolds == part = "forge" => Forge!ForgeHolds

\* What runs on the hosts, what may reach production, the backups kept, what a server
\* that has just booted serves, and what the economy check reports and leaves.
HostsHold ==
  CASE part = "deploy" -> Release!DeployHolds
    [] part = "backup" -> Release!KeptLongEnough
    [] part = "boot" -> Booting!BootHolds
    [] part = "econ" -> Economics!EconHolds
    [] OTHER -> TRUE

\* A chat keeps one stream, goes on trying, and shows its own room.
ChatHolds == part = "chat" => Chat!ChatHolds

\* The chrome page shows the loadout, asks twice, and plays what happened.
ClinicHolds == part = "clinic" => Surgery!ClinicHolds

\* The parameters read, recorded and refused are those of the table, a list read
\* to its end is whole, and the players' tab lists whom its toolbar asks for.
PanelHolds ==
  CASE part = "params" -> Panel!ParamsHold
    [] part = "pages" -> Pages!PagesHold
    [] part = "roster" -> Players!RosterHolds
    [] OTHER -> TRUE

\* Whatever way the answers take, the screens of the trampos are never ahead of the
\* server and play no other roll; for a player who waits, they show the active trampo;
\* and no countdown, of a trampo's cooldown or of the next NIL, ends before the server's.
ScreenTruthful ==
  CASE part = "screen" -> Loop!NeverAhead /\ Loop!TheaterFaithful /\ Loop!PatientScreen
    [] part = "board" -> Counting!CardsHonest
    [] part = "clock" -> Counting!NilOnTime
    [] OTHER -> TRUE

\* A page that posts an action shows, once it has read back, what the server has; it tells
\* how the action ended, sends one at a time where it says so, and no flag stays up.
PagesReadBack == part = "actions" => Acting!PagesHold


\* The chrome page is never taken down by its own surgery panel.
PageStands == part = "clinic" => Surgery!PageStands

\* What the administrators tuned is what the game goes by.
TunedValuesSurvive == part = "params" => Panel!TunedValuesSurvive
=============================================================================
