------------------------------- MODULE Deploy -------------------------------
(***************************************************************************)
(* Releases: the workflow that builds a homolog image of each service,     *)
(* deploys staging and promotes the images to latest, and the deploy       *)
(* script, which the workflow and people run on both hosts.                *)
(*                                                                         *)
(* Versions of a service are numbered as they are built; the versions of   *)
(* the server in migrating bring a migration, and knex refuses to start on *)
(* a database that records a migration its directory lacks.  A bad image   *)
(* never passes the smoke test, any other may fail to in time.             *)
(*                                                                         *)
(* And the daily backup script of a host: a dump made in the database's    *)
(* container goes through gzip into a new file, a size guard looks at the  *)
(* file, and the oldest files beyond KEEP are removed.                     *)
(***************************************************************************)
EXTENDS Integers, FiniteSets, FiniteSetsExt, Sequences, SequencesExt

CONSTANTS Run,         \* runs of the deploy script
          Workflow,    \* the one of them the workflow starts
          MaxVersion,
          KEEP, MaxBackups

VARIABLES images,      \* host -> service -> the version its tag names
          build,       \* the workflow: where it is
          host,        \* host -> its tags, containers, schema and lock
          run,         \* run -> the script's place and memory
          bad, migrating,
          passed,      \* history: what passed the smoke test of staging
          slipped,     \* history: hosts where a run left images that passed no test
          before,      \* history: host -> what ran when the last run ended
          backups,     \* the files, oldest first: their number, bytes and content
          step,        \* the backup script's place
          made         \* history: of each run so far, whether its dump was whole

dvars == <<images, build, host, run, bad, migrating, passed, slipped, before>>

Hosts == {"staging", "production"}
Services == {"server", "app"}
NoImage == 0
Images == [s \in Services |-> 1]
Idle == [at |-> "idle", on |-> "staging", previous |-> Images, forced |-> FALSE, seen |-> Images]

DeployInit ==
  /\ bad \in SUBSET (Services \X (2 .. MaxVersion)) /\ migrating \in SUBSET (2 .. MaxVersion)
  /\ images = [h \in Hosts |-> Images]
  /\ build = "idle"
  /\ \E first \in SUBSET {"staging"} :
       host = [h \in Hosts |-> [tag |-> Images, schema |-> 1, owner |-> "nobody",
                                running |-> [s \in Services |-> IF h \in first THEN NoImage ELSE 1]]]
  /\ run = [p \in Run |-> Idle]
  /\ passed = {} /\ slipped = {}
  /\ before = [h \in Hosts |-> host[h].running]

Goto(p, at) == run' = [run EXCEPT ![p].at = at]
\* The newest migration in the directory of a server image.
Migrations(v) == Max({1} \cup {w \in migrating : w <= v})
Boots(v, schema) == schema <= Migrations(v)
Serves(h) == /\ \A s \in Services : <<s, host[h].running[s]>> \notin bad /\ host[h].running[s] # NoImage
             /\ Boots(host[h].running["server"], host[h].schema)
-----------------------------------------------------------------------------
\* The workflow.  A step that fails ends it; a script it started goes on.

Build(s) ==
  /\ build = s
  /\ images["staging"][s] < MaxVersion
  /\ images' = [images EXCEPT !["staging"][s] = @ + 1]
  /\ build' = IF s = "server" THEN "app" ELSE "deploy"
  /\ UNCHANGED <<host, run, bad, migrating, passed, slipped, before>>
Push == build = "idle" /\ build' = "server" /\ UNCHANGED <<images, host, run, bad, migrating, passed, slipped, before>>
Break == build # "idle" /\ build' = "idle"
         /\ UNCHANGED <<images, host, run, bad, migrating, passed, slipped, before>>

Deployed ==
  /\ run[Workflow].at \in {"complete", "failed"}
  /\ build' = IF build # "deploying" THEN build
              ELSE IF run[Workflow].at = "complete" THEN "promote server" ELSE "idle"
  /\ run' = [run EXCEPT ![Workflow] = Idle]
  /\ UNCHANGED <<images, host, bad, migrating, passed, slipped, before>>
Promote(s) ==
  /\ build = IF s = "server" THEN "promote server" ELSE "promote app"
  /\ images' = [images EXCEPT !["production"][s] = images["staging"][s]]
  /\ build' = IF s = "server" THEN "promote app" ELSE "idle"
  /\ UNCHANGED <<host, run, bad, migrating, passed, slipped, before>>
-----------------------------------------------------------------------------
\* The script.  A person may give the images to go back to, with a smoke test
\* that is made to fail.

Start(p) ==
  /\ run[p].at = "idle"
  /\ \E h \in Hosts, forced \in BOOLEAN :
       /\ p = Workflow => build = "deploy" /\ h = "staging" /\ ~forced
       /\ run' = [run EXCEPT ![p] = [Idle EXCEPT !.at = "lock", !.on = h, !.forced = forced, !.seen = images[h]]]
  /\ build' = IF p = Workflow THEN "deploying" ELSE build
  /\ UNCHANGED <<images, host, bad, migrating, passed, slipped, before>>

\* flock, and capture_previous_images behind it.
Previous(p, h) == IF run[p].forced THEN Images ELSE host[h].running
Lock_Busy(p) == host[run[p].on].owner # p
Lock(p) == host[run[p].on].owner = "nobody"
Capture(p) ==
  LET h == run[p].on IN
  /\ run[p].at = "lock" /\ Lock(p)
  /\ host' = [host EXCEPT ![h].owner = p]
  /\ run' = [run EXCEPT ![p].at = "pull", ![p].previous = Previous(p, h)]
  /\ UNCHANGED <<images, build, bad, migrating, passed, slipped, before>>

Pull(p) ==
  /\ run[p].at = "pull" /\ Goto(p, "migrate")
  /\ host' = [host EXCEPT ![run[p].on].tag = images[run[p].on]]
  /\ UNCHANGED <<images, build, bad, migrating, passed, slipped, before>>

Migrate(p) ==
  LET h == run[p].on  server == host[h].tag["server"] IN
  /\ run[p].at = "migrate" /\ Boots(server, host[h].schema) /\ Goto(p, "up")
  /\ host' = [host EXCEPT ![h].schema = Migrations(server)]
  /\ UNCHANGED <<images, build, bad, migrating, passed, slipped, before>>

Up(p) ==
  /\ run[p].at = "up" /\ Goto(p, "smoke")
  /\ host' = [host EXCEPT ![run[p].on].running = host[run[p].on].tag]
  /\ UNCHANGED <<images, build, bad, migrating, passed, slipped, before>>

Smoke(p) ==
  LET h == run[p].on IN
  /\ run[p].at = "smoke"
  /\ \E ok \in BOOLEAN :
       /\ ok => Serves(h) /\ ~run[p].forced
       /\ Goto(p, IF ok THEN "ended" ELSE "roll back")
       /\ passed' = IF ok /\ h = "staging" THEN passed \cup {<<s, host[h].running[s]>> : s \in Services} ELSE passed
       /\ slipped' = IF ok THEN slipped \ {h} ELSE slipped
  /\ UNCHANGED <<images, build, host, bad, migrating, before>>

Restored(p, h) == [s \in Services |-> IF run[p].previous[s] = NoImage THEN host[h].tag[s] ELSE run[p].previous[s]]
RollBack(p) ==
  LET h == run[p].on IN
  /\ run[p].at = "roll back" /\ Goto(p, "rolled back")
  /\ host' = [host EXCEPT ![h].tag = Restored(p, h), ![h].running = Restored(p, h)]
  /\ slipped' = IF \E s \in Services : run[p].previous[s] = NoImage THEN slipped \cup {h} ELSE slipped
  /\ UNCHANGED <<images, build, bad, migrating, passed, before>>

\* The lock goes with the script.
End(p) ==
  LET h == run[p].on IN
  /\ run[p].at \in {"ended", "rolled back"}
  /\ run' = [run EXCEPT ![p] = IF p = Workflow
                               THEN [Idle EXCEPT !.at = IF run[p].at = "ended" THEN "complete" ELSE "failed"]
                               ELSE Idle]
  /\ host' = [host EXCEPT ![h].owner = "nobody"]
  /\ before' = [before EXCEPT ![h] = host[h].running]
  /\ UNCHANGED <<images, build, bad, migrating, passed, slipped>>

\* A command fails under set -e, or the session is lost: pull and up may have
\* taken some of the services along, and there is no way back.
Partly(old, new) == {[s \in Services |-> IF s \in S THEN new[s] ELSE old[s]] : S \in SUBSET Services}
Abort(p) ==
  LET h == run[p].on  here == host[h] IN
  /\ run[p].at \in {"lock", "pull", "migrate", "up", "smoke", "roll back"}
  /\ \E tag \in IF run[p].at = "pull" THEN Partly(here.tag, images[h]) ELSE {here.tag},
        running \in IF run[p].at = "up" THEN Partly(here.running, here.tag) ELSE {here.running} :
       /\ host' = [host EXCEPT ![h] = [@ EXCEPT !.tag = tag, !.running = running,
                                              !.owner = IF @ = p THEN "nobody" ELSE @]]
       /\ before' = IF here.owner = p THEN [before EXCEPT ![h] = running] ELSE before
  /\ slipped' = IF run[p].at \in {"up", "smoke", "roll back"} THEN slipped \cup {h} ELSE slipped
  /\ run' = [run EXCEPT ![p] = IF p = Workflow THEN [Idle EXCEPT !.at = "failed"] ELSE Idle]
  /\ UNCHANGED <<images, build, bad, migrating, passed>>

Step(p) == Start(p) \/ Capture(p) \/ Pull(p) \/ Migrate(p) \/ Up(p) \/ Smoke(p) \/ RollBack(p) \/ End(p) \/ Abort(p)
DeployNext ==
  \/ Push \/ Break \/ Deployed
  \/ \E s \in Services : Build(s) \/ Promote(s)
  \/ \E p \in Run : Step(p)
-----------------------------------------------------------------------------
\* The backup script.

GzipHeader == 20
FullDump == 100

BackupInit == backups = << >> /\ step = "idle" /\ made = << >>

\* > "$BACKUP_FILE" makes the file before the command behind it runs.
Open ==
  /\ step = "idle" /\ Len(made) < MaxBackups
  /\ backups' = Append(backups, [number |-> Len(made) + 1, bytes |-> 0, dump |-> FALSE])
  /\ made' = Append(made, FALSE) /\ step' = "dump"

\* The shell in the container takes the status of gzip for that of the pipe: a
\* pg_dump that fails leaves the little gzip makes of nothing.
Wrote(bytes, dump) == [backups EXCEPT ![Len(backups)].bytes = bytes, ![Len(backups)].dump = dump]
Dump ==
  /\ step = "dump"
  /\ \/ /\ step' = "guard" /\ backups' = Wrote(FullDump, TRUE)
        /\ made' = [made EXCEPT ![Len(made)] = TRUE]
     \/ step' = "guard" /\ backups' = Wrote(GzipHeader, FALSE) /\ UNCHANGED made
     \/ step' = "idle" /\ UNCHANGED <<backups, made>>   \* compose exec fails: set -e

Empty(f) == f.bytes = 0
Guard ==
  /\ step = "guard" /\ UNCHANGED made
  /\ IF Empty(Last(backups)) THEN step' = "idle" /\ backups' = Front(backups)
     ELSE step' = "OK" /\ UNCHANGED backups

Newest(s) == SubSeq(s, IF Len(s) < KEEP THEN 1 ELSE Len(s) - KEEP + 1, Len(s))
Prune == step = "OK" /\ step' = "idle" /\ backups' = Newest(backups) /\ UNCHANGED made

\* The machine goes down.
Crash == step # "idle" /\ step' = "idle" /\ UNCHANGED <<backups, made>>

BackupNext == Open \/ Dump \/ Guard \/ Prune \/ Crash
-----------------------------------------------------------------------------
\* Nothing reaches production's tag that did not pass the smoke test of staging.
PromotedPassed == \A s \in Services : images["production"][s] = 1 \/ <<s, images["production"][s]>> \in passed

\* A deploy that completes runs images no older than those there when it began,
\* however long it waited for its turn.
NewestWins ==
  \A p \in Run : run[p].at = "ended" => \A s \in Services : host[run[p].on].running[s] >= run[p].seen[s]

\* A deploy that rolls back leaves what ran when the deploy before it ended.
RolledBackExactly ==
  \A p \in Run : run[p].at = "rolled back" /\ ~run[p].forced =>
    \A s \in Services : before[run[p].on][s] # NoImage => host[run[p].on].running[s] = before[run[p].on][s]

\* Between deploys a host serves, unless since the last one that completed one
\* broke off after it began to replace containers, the first one failed, or one
\* that brought a migration was rolled back or broke off behind it: then the
\* server does not start again on the migrated database.
Started(h) == \A s \in Services : host[h].running[s] # NoImage
KeepsServing ==
  \A h \in Hosts :
    host[h].owner = "nobody" /\ h \notin slipped /\ Started(h) /\ Boots(host[h].running["server"], host[h].schema) =>
      Serves(h)

\* The database is never behind the server that runs on it.
MigratedFirst == \A h \in Hosts : Migrations(host[h].running["server"]) <= host[h].schema

\* A whole dump is kept until KEEP runs were begun after it, whatever became of
\* those: a file that holds nothing takes the place of one that does.
KeptLongEnough ==
  \A n \in DOMAIN made : made[n] /\ Len(made) - n < KEEP =>
    \E i \in DOMAIN backups : backups[i].number = n /\ backups[i].dump

DeployHolds == PromotedPassed /\ NewestWins /\ RolledBackExactly /\ KeepsServing /\ MigratedFirst
=============================================================================
