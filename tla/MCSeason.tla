----------------------------- MODULE MCSeason -----------------------------
(* Small instances of Season: one request at a time over some days (solo), the   *)
(* cron, an administrator and a player at once (busy), and the same with less to *)
(* play under fairness (fair).                                                   *)
EXTENDS Season, TLC

CONSTANTS cron, admin, player,
          SoloPlayed, BusyPlayed,  \* bounds: trampos and fights
          Modes                    \* the modes this run follows

VARIABLES mode, played

Begins(p, kinds) == pc[p] = "idle" /\ req'[p] \in kinds

MCInit == Init /\ mode \in Modes /\ played = 0

\* While several requests are under way the clock stands still, and of the
\* players' requests only those that a reset can meet are followed.
MCNext ==
  /\ Next
  /\ UNCHANGED mode
  /\ played' = IF \E p \in Proc : Begins(p, Played) THEN played + 1 ELSE played
  /\ mode = "solo" => req'[admin] = "none" /\ req'[player] = "none" /\ played' <= SoloPlayed
  /\ mode # "solo" =>
       /\ played' <= (IF mode = "busy" THEN BusyPlayed ELSE 1) /\ day' = 0
       /\ req'[cron] \in {"cron", "none"}
       /\ req'[admin] \in {"admin", "gig", "none"}
       /\ req'[player] \in Played \cup {"none"}

MCSpec == MCInit /\ [][MCNext]_<<vars, mode, played>>

\* The hourly check runs, its statements and those it waits for end.
MCFairSpec ==
  /\ MCSpec
  /\ \A p \in Proc : WF_vars(mode = "fair" /\ Step(p))
  /\ WF_vars(mode = "fair" /\ Start(cron) /\ req'[cron] = "cron")
FairRoundsEnd == mode = "fair" => RoundsEnd
=============================================================================
