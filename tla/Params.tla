------------------------------- MODULE Params -------------------------------
(* The game parameters: the table, the cache getGameParam reads it through    *)
(* (game-param-repository), the save of the admin panel (admin-service) and   *)
(* the form that posts it (stores/admin, ParamsTab).  A save is one statement *)
(* a step, and drops a cached value a step after it changed the row.  A boot  *)
(* of the server runs the seeds, which upsert every parameter.                *)
EXTENDS Integers, FiniteSets, SequencesExt

CONSTANTS Admin, Reader, Key,
          Default,      \* DEFAULT_PARAMS, what the seeds install
          Typed,        \* bound: the values an admin may type
          MaxSaves      \* bound: saves of a run

NotCached == -1
NotRead == -2
NoValues == [k \in Key |-> NotRead]

VARIABLES table, cache,
          reads,    \* reader -> the key it misses and the value it has read
          form,     \* admin -> its form and what became of its last save
          save,     \* admin -> the save the server is at
          auditLog, \* the diffs recorded, in order
          overlap,  \* a save met another one, failed in the middle or left no entry
          raced,    \* keys cached from a row read before its last update
          saves,
          restarted

vars == <<table, cache, reads, form, save, auditLog, overlap, raced, saves, restarted>>

NoSave == [stage |-> "none", posted |-> NoValues, diffs |-> {}, todo |-> {}]

Init ==
  /\ table = Default
  /\ cache = [k \in Key |-> NotCached]
  /\ reads = [r \in Reader |-> [key |-> "none", value |-> NotRead, old |-> FALSE]]
  /\ form = [a \in Admin |-> [params |-> Default, values |-> Default, edited |-> {}, result |-> "none"]]
  /\ save = [a \in Admin |-> NoSave]
  /\ auditLog = << >>
  /\ overlap = FALSE
  /\ raced = {}
  /\ saves = 0 /\ restarted = FALSE
-----------------------------------------------------------------------------
(* The cached read.                                                           *)

Cached(k) == cache[k] # NotCached

Miss(r, k) ==
  /\ reads[r].key = "none" /\ ~Cached(k)
  /\ reads' = [reads EXCEPT ![r] = [key |-> k, value |-> table[k], old |-> FALSE]]
  /\ UNCHANGED <<table, cache, form, save, auditLog, overlap, raced, saves, restarted>>

CacheRead(r) ==
  /\ reads[r].key # "none"
  /\ cache' = [cache EXCEPT ![reads[r].key] = reads[r].value]
  /\ raced' = IF reads[r].old THEN raced \cup {reads[r].key} ELSE raced \ {reads[r].key}
  /\ reads' = [reads EXCEPT ![r] = [key |-> "none", value |-> NotRead, old |-> FALSE]]
  /\ UNCHANGED <<table, form, save, auditLog, overlap, saves, restarted>>

\* Thirty seconds later.
ExpireCached(k) ==
  /\ Cached(k) /\ cache' = [cache EXCEPT ![k] = NotCached] /\ raced' = raced \ {k}
  /\ UNCHANGED <<table, reads, form, save, auditLog, overlap, saves, restarted>>
-----------------------------------------------------------------------------
(* The form.                                                                  *)

\* The panel is opened again, or its load lands: the fields are the table's.
FetchParams(a) ==
  /\ save[a].stage = "none"
  /\ form' = [form EXCEPT ![a] = [params |-> table, values |-> table, edited |-> {}, result |-> "none"]]
  /\ UNCHANGED <<table, cache, reads, save, auditLog, overlap, raced, saves, restarted>>

HandleChange(a, k, v) ==
  /\ save[a].stage = "none" /\ v # form[a].values[k]
  /\ form' = [form EXCEPT ![a].values[k] = v, ![a].edited = @ \cup {k}, ![a].result = "none"]
  /\ UNCHANGED <<table, cache, reads, save, auditLog, overlap, raced, saves, restarted>>

\* Every field is posted, whichever was edited.
Posted(f) == f.values

HandleSave(a) ==
  /\ save[a].stage = "none" /\ form[a].values # form[a].params /\ saves < MaxSaves
  /\ save' = [save EXCEPT ![a] = [NoSave EXCEPT !.stage = "validate", !.posted = Posted(form[a])]]
  /\ saves' = saves + 1
  /\ overlap' = (overlap \/ \E b \in Admin : save[b].stage # "none")
  /\ UNCHANGED <<table, cache, reads, form, auditLog, raced, restarted>>
-----------------------------------------------------------------------------
(* The save, at the server.                                                   *)

Valid(v) == v > 0

Answer(a, result, params) ==
  /\ save' = [save EXCEPT ![a] = NoSave]
  /\ form' = [form EXCEPT ![a] = IF result = "saved"
       THEN [params |-> params, values |-> params, edited |-> {}, result |-> result]
       ELSE [@ EXCEPT !.result = result]]

Validate(a) ==
  /\ save[a].stage = "validate"
  /\ IF \A k \in Key : Valid(save[a].posted[k])
     THEN save' = [save EXCEPT ![a].stage = "diff"] /\ UNCHANGED form
     ELSE Answer(a, "refused", table)
  /\ UNCHANGED <<table, cache, reads, auditLog, overlap, raced, saves, restarted>>

\* Nothing to change answers what was read; else every posted key is written.
ReadCurrent(a) ==
  /\ save[a].stage = "diff"
  /\ LET diffs == {k \in Key : table[k] # save[a].posted[k]}
     IN IF diffs = {} THEN Answer(a, "saved", table)
        ELSE /\ save' = [save EXCEPT ![a].stage = "update", ![a].diffs = diffs, ![a].todo = Key]
             /\ UNCHANGED form
  /\ UNCHANGED <<table, cache, reads, auditLog, overlap, raced, saves, restarted>>

UpdateRow(a, k) ==
  /\ save[a].stage = "update" /\ k \in save[a].todo
  /\ table' = [table EXCEPT ![k] = save[a].posted[k]]
  /\ reads' = [r \in Reader |-> IF reads[r].key = k THEN [reads[r] EXCEPT !.old = TRUE] ELSE reads[r]]
  /\ save' = [save EXCEPT ![a].stage = "invalidate", ![a].todo = @ \ {k}]
  /\ raced' = IF Cached(k) THEN raced \cup {k} ELSE raced
  /\ UNCHANGED <<cache, form, auditLog, overlap, saves, restarted>>

\* The cached value of the key just written is dropped, and the next key's turn.
InvalidateGameParamCache(a, k) ==
  /\ save[a].stage = "invalidate" /\ k \notin save[a].todo
  /\ cache' = [cache EXCEPT ![k] = NotCached] /\ raced' = raced \ {k}
  /\ save' = [save EXCEPT ![a].stage = IF save[a].todo = {} THEN "record" ELSE "update"]
  /\ UNCHANGED <<table, reads, form, auditLog, overlap, saves, restarted>>

\* One of the statements fails: what it wrote stays, and is not recorded.
UpdateFails(a) ==
  /\ save[a].stage = "update" /\ overlap' = TRUE
  /\ Answer(a, "failed", table)
  /\ UNCHANGED <<table, cache, reads, auditLog, raced, saves, restarted>>

Diff_EditedOnly(a) == [k \in save[a].diffs \cap form[a].edited |-> save[a].posted[k]]
Diff(a) == [k \in save[a].diffs |-> save[a].posted[k]]

\* Nothing waits for the entry, and one that fails is only logged.
Record(a) ==
  /\ save[a].stage = "record"
  /\ \/ auditLog' = Append(auditLog, Diff(a)) /\ UNCHANGED overlap
     \/ UNCHANGED auditLog /\ overlap' = TRUE
  /\ Answer(a, "saved", table)
  /\ UNCHANGED <<table, cache, reads, raced, saves, restarted>>

\* The server stops, whatever it was at, and starts again: the cache is gone and the
\* seeds put every value back.  The forms are in the browsers.
Seeded(t) == Default
Restart ==
  /\ ~restarted /\ restarted' = TRUE
  /\ table' = Seeded(table)
  /\ cache' = [k \in Key |-> NotCached] /\ raced' = {}
  /\ reads' = [r \in Reader |-> [key |-> "none", value |-> NotRead, old |-> FALSE]]
  /\ save' = [a \in Admin |-> NoSave]
  /\ form' = [a \in Admin |-> IF save[a].stage = "none" THEN form[a] ELSE [form[a] EXCEPT !.result = "failed"]]
  /\ overlap' = (overlap \/ \E a \in Admin : save[a].stage # "none")
  /\ UNCHANGED <<auditLog, saves>>

Next ==
  \/ Restart
  \/ \E r \in Reader : CacheRead(r) \/ \E k \in Key : Miss(r, k)
  \/ \E k \in Key : ExpireCached(k)
  \/ \E a \in Admin :
       \/ FetchParams(a) \/ HandleSave(a) \/ Validate(a) \/ ReadCurrent(a) \/ UpdateFails(a) \/ Record(a)
       \/ \E k \in Key : UpdateRow(a, k) \/ InvalidateGameParamCache(a, k) \/ \E v \in Typed : HandleChange(a, k, v)
-----------------------------------------------------------------------------
(* Properties.                                                                *)

\* The cache holds the table's value, but between the two halves of an update
\* and where a reader stores, after the value was dropped, what it read before.
CacheFresh == \A k \in Key : Cached(k) => cache[k] = table[k] \/ k \in raced

\* As long as no save meets another one, fails in the middle or leaves no entry,
\* the diffs of the audit log, replayed on what the seeds installed, give the table: also
\* where a form loaded earlier posts back what another admin had changed.  A restart
\* ends it (TunedValuesSurvive).
Replayed == FoldLeft(LAMBDA t, d : [k \in Key |-> IF k \in DOMAIN d THEN d[k] ELSE t[k]], Default, auditLog)
Undisturbed == ~overlap /\ \A a \in Admin : save[a].stage = "none"
AuditExplains == Undisturbed /\ ~restarted => table = Replayed

\* The economy is tuned by the parameters of the panel, and never by a deploy: what
\* the admins saved is in the table, restarts or not.
TunedValuesSurvive == Undisturbed => table = Replayed

\* What the table holds is a value the panel takes or one the seeds installed:
\* a save is refused for a value its admin typed, or for a seeded one that every
\* save of the panel posts back.
RefusedForCause ==
  \A a \in Admin : form[a].result = "refused" =>
    \E k \in Key : ~Valid(form[a].values[k]) /\ (k \in form[a].edited \/ form[a].values[k] = Default[k])

ParamsHold == CacheFresh /\ AuditExplains /\ RefusedForCause
=============================================================================
