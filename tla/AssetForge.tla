----------------------------- MODULE AssetForge -----------------------------
(***************************************************************************)
(* One call of the asset generator (tools/asset-forge): its options are    *)
(* checked against the registry, then each image of the plan is submitted  *)
(* to a ComfyUI server, polled, downloaded and written, one after another. *)
(*                                                                         *)
(* ComfyUI renders one job at a time in the order they came, whoever still *)
(* waits for them, and loses its jobs when it restarts.  Any request may   *)
(* stall, be refused, be answered with an error status or with a body that *)
(* breaks off.  A name that is not given is the empty string, a seed that  *)
(* is not given is 0.                                                      *)
(***************************************************************************)
EXTENDS Integers, Sequences, FiniteSets, FiniteSetsExt, SequencesExt

CONSTANTS Registries,  \* contents of registry.json
          Options,     \* what a command line may say
          Seeds        \* what the random pick of a seed may return

VARIABLES registry, opt,
          at, item,    \* the next step of the call, and the image of the plan it is at
          job,         \* the prompt_id of the image under way
          failures,    \* item -> the error it was given up for
          files,       \* file -> the job whose image was written to it
          exit,        \* exit code, Running until there is one
          touched,     \* history: a request was sent or a file written
          up, jobs     \* ComfyUI: whether it answers, and prompt_id -> its job

call == <<at, item, job, failures, files, exit, touched>>
fvars == <<registry, opt, call, up, jobs>>

EXIT == [OK |-> 0, GENERIC |-> 1, USAGE |-> 2, OFFLINE |-> 3, GENERATION |-> 4, TIMEOUT |-> 5]
Running == -1
Errors == {"offline", "http", "generation", "timeout", "unexpected"}

Init ==
  /\ registry \in Registries /\ opt \in Options
  /\ at = "validate" /\ item = 1 /\ job = 0
  /\ failures = << >> /\ files = << >>
  /\ exit = Running /\ touched = FALSE
  /\ up \in BOOLEAN /\ jobs = << >>
-----------------------------------------------------------------------------
\* registry.json.

UniqueIds(s) == \A i, j \in DOMAIN s : s[i].id = s[j].id => i = j
\* An even, positive size, a known regime, and every other field (complete).
validateType(t) ==
  t.complete /\ t.regime \in {"flat", "atmospheric"} /\ t.size > 0 /\ t.size % 2 = 0
validateSeedFamilies(fs, types) ==
  /\ fs # << >> /\ UniqueIds(fs)
  /\ \A i \in DOMAIN fs : fs[i].members # << >> /\ \E j \in DOMAIN types : types[j].id = fs[i].type
validateDistricts(ds) == ds # << >> /\ UniqueIds(ds)
loadRegistry(r) ==
  /\ r.version = 2
  /\ r.types # << >> /\ \A i \in DOMAIN r.types : validateType(r.types[i])
  /\ UniqueIds(r.types)
  /\ validateSeedFamilies(r.families, r.types)
  /\ validateDistricts(r.districts)

WithId(s, id) == SelectSeq(s, LAMBDA e : e.id = id)
Named(s, id) == WithId(s, id) # << >>
Type == Head(WithId(registry.types, opt.type))
Family == Head(WithId(registry.families, opt.family))
InFamily == opt.family # ""

\* Everything that can be wrong about a generate, in order.
UsageOk ==
  /\ opt.variants > 0
  /\ opt.command # "check" => loadRegistry(registry)
  /\ opt.command = "generate" =>
       /\ Named(registry.types, opt.type)
       /\ opt.subject # "blank"
       /\ opt.member # "" => InFamily
       /\ InFamily =>
            /\ opt.seed = 0 /\ opt.variants = 1
            /\ Named(registry.families, opt.family) /\ Family.type = opt.type
            /\ opt.member = "" \/ Contains(Family.members, opt.member)
       /\ opt.district # "" => Named(registry.districts, opt.district) /\ Type.regime = "atmospheric"

\* What is to be made: the members of a family, or variants by their number.
Plan == IF ~InFamily THEN [i \in 1 .. opt.variants |-> i]
        ELSE IF opt.member # "" THEN <<opt.member>> ELSE Family.members
-----------------------------------------------------------------------------
\* errorExit.
ExitCode(e) ==
  CASE e = "offline" -> EXIT.OFFLINE
    [] e = "timeout" -> EXIT.TIMEOUT
    [] e = "unexpected" -> EXIT.GENERIC
    [] OTHER -> EXIT.GENERATION
End(code) == exit' = code /\ at' = "done" /\ UNCHANGED <<item, job, failures>>

\* The whole batch has been through: the worst failure wins.
BatchCode_Last(fs) == IF fs = << >> THEN EXIT.OK ELSE ExitCode(Last(fs).error)
BatchCode(fs) == IF fs = << >> THEN EXIT.OK ELSE Max({ExitCode(fs[i].error) : i \in DOMAIN fs})
Proceed(fs) ==
  IF item = Len(Plan)
  THEN /\ exit' = BatchCode(fs) /\ at' = "done" /\ failures' = fs
       /\ UNCHANGED <<item, job>>
  ELSE item' = item + 1 /\ at' = "submit" /\ job' = 0 /\ failures' = fs /\ UNCHANGED exit

\* What a family goes on after; a plain call ends at its first failure.
Collected(e) == InFamily /\ e \in {"http", "generation", "timeout"}
Fail(e) ==
  IF at \in {"submit", "poll", "download", "write"} /\ Collected(e)
  THEN Proceed(Append(failures, [item |-> item, error |-> e]))
  ELSE End(ExitCode(e))

Validate ==
  /\ at = "validate"
  /\ IF ~UsageOk THEN End(EXIT.USAGE)
     ELSE IF opt.command = "list" \/ (opt.command = "generate" /\ opt.dryRun) THEN End(EXIT.OK)
     ELSE at' = "server" /\ UNCHANGED <<item, job, failures, exit>>
  /\ UNCHANGED <<registry, opt, files, touched, up, jobs>>

\* The answers a request may get: none within its time, an error status, a body
\* that breaks off, or what the endpoint says.
Answers == {"offline"} \cup (IF up THEN {"http", "broken", "ok"} ELSE {})
Requested == touched' = TRUE /\ UNCHANGED <<registry, opt, files, up>>

\* checkServer and checkCheckpoint: a broken body is nobody's error.
Check ==
  /\ at \in {"server", "checkpoint"}
  /\ \E a \in Answers \cup (IF up /\ at = "checkpoint" THEN {"generation"} ELSE {}) :
       CASE a = "ok" -> IF at = "server" THEN at' = "checkpoint" /\ UNCHANGED <<item, job, failures, exit>>
                        ELSE IF opt.command = "check" THEN End(EXIT.OK)
                        ELSE at' = "submit" /\ UNCHANGED <<item, job, failures, exit>>
         [] a = "broken" -> Fail("unexpected")
         [] OTHER -> Fail(a)
  /\ Requested /\ UNCHANGED jobs

\* submitWorkflow: the server may have queued the job of a broken or late answer.
Submit ==
  /\ at = "submit"
  /\ \E a \in Answers, queued \in BOOLEAN :
       /\ (a = "ok") => queued
       /\ ~up => ~queued
       /\ jobs' = IF queued THEN Append(jobs, [item |-> Plan[item], state |-> "queued"]) ELSE jobs
       /\ CASE a = "ok" -> at' = "poll" /\ job' = Len(jobs') /\ UNCHANGED <<item, failures, exit>>
            [] a = "broken" -> Fail("http")
            [] OTHER -> Fail(a)
  /\ Requested

\* pollHistory: a job that failed, or completed without an image, is an error; a
\* broken body is as good as no entry, and without one the deadline decides.
Poll ==
  /\ at = "poll"
  /\ \E a \in Answers :
       CASE a \in {"offline", "http"} -> Fail(a)
         [] a = "ok" /\ jobs[job].state = "rendered" -> at' = "download" /\ UNCHANGED <<item, job, failures, exit>>
         [] a = "ok" /\ jobs[job].state = "failed" -> Fail("generation")
         [] OTHER -> \/ Fail("timeout")
                     \/ UNCHANGED <<at, item, job, failures, exit>>
  /\ Requested /\ UNCHANGED jobs

\* downloadImage: the body is read outside the request's own error handling.
Download ==
  /\ at = "download"
  /\ \E a \in Answers :
       CASE a = "ok" -> at' = "write" /\ UNCHANGED <<item, job, failures, exit>>
         [] a = "broken" -> Fail("unexpected")
         [] OTHER -> Fail(a)
  /\ Requested /\ UNCHANGED jobs

\* The file of a member is its name, that of a variant its seed.
FileNames == IF InFamily THEN {Plan[item]}
             ELSE IF opt.seed > 0 THEN {opt.seed + item - 1} ELSE Seeds
Write ==
  /\ at = "write"
  /\ \/ /\ \E f \in FileNames : files' = [x \in {f} |-> job] @@ files
        /\ Proceed(failures)
     \/ Fail("unexpected") /\ UNCHANGED files
  /\ touched' = TRUE
  /\ UNCHANGED <<registry, opt, up, jobs>>
-----------------------------------------------------------------------------
\* ComfyUI.

Queued == {j \in DOMAIN jobs : jobs[j].state = "queued"}
Render ==
  /\ up /\ Queued # {}
  /\ \E s \in {"rendered", "failed"} : jobs' = [jobs EXCEPT ![Min(Queued)].state = s]
  /\ UNCHANGED <<registry, opt, call, up>>

\* It goes away, and comes back knowing nothing.
Crash ==
  /\ up /\ exit = Running /\ at # "validate"
  /\ up' = FALSE
  /\ jobs' = [j \in DOMAIN jobs |-> [jobs[j] EXCEPT !.state = "lost"]]
  /\ UNCHANGED <<registry, opt, call>>
Restart == ~up /\ exit = Running /\ at # "validate" /\ up' = TRUE /\ UNCHANGED <<registry, opt, call, jobs>>

Next ==
  \/ Validate \/ Check \/ Submit \/ Poll \/ Download \/ Write
  \/ Render \/ Crash \/ Restart
-----------------------------------------------------------------------------
\* A call that is refused for its usage has touched nothing.
UsageFirst == exit = EXIT.USAGE => ~touched /\ files = << >>

\* Whatever was given up on, rendered late or asked for twice, the file of a
\* member holds the image of that member, that of a seed the image of its variant.
OwnImages ==
  /\ InFamily => \A f \in DOMAIN files : jobs[files[f]].item = f
  /\ ~InFamily /\ opt.seed > 0 => \A f \in DOMAIN files : opt.seed + jobs[files[f]].item - 1 = f

\* A batch that nobody broke off has tried every member and written the files of
\* all but those that failed, and its code tells the worst of their errors; a
\* call that ends well has written every variant it was asked for.
Ended == at = "done" /\ (failures # << >> \/ files # << >>) /\ exit \notin {EXIT.OFFLINE, EXIT.GENERIC}
BatchComplete ==
  Ended =>
    LET failed == {failures[i].item : i \in DOMAIN failures}
        errors == {failures[i].error : i \in DOMAIN failures}
    IN /\ InFamily => /\ DOMAIN files = {Plan[i] : i \in (DOMAIN Plan) \ failed}
                      /\ exit = EXIT.TIMEOUT <=> "timeout" \in errors
                      /\ exit = EXIT.OK <=> failed = {}
       /\ ~InFamily /\ opt.seed > 0 /\ exit = EXIT.OK => Cardinality(DOMAIN files) = opt.variants

ForgeHolds == UsageFirst /\ OwnImages /\ BatchComplete
=============================================================================
