------------------------------- MODULE Online -------------------------------
(* The two services that live in Redis side by side: the sessions of the        *)
(* browser tabs and the guards of the chat routes.  They share no key, so a     *)
(* step of one leaves the other alone.                                          *)
EXTENDS Sessions

CONSTANTS Proc, Max, Threshold, HistoryMax

VARIABLES banned, hits, expires, strikes, broken, cooling, history, step, op,
          count, answer, admitted, pushed, burst, late, failedOpen, overlapped

G == INSTANCE Gate
gate == <<banned, hits, expires, strikes, broken, cooling, history, step, op,
          count, answer, admitted, pushed, burst, late, failedOpen, overlapped>>

SessionStep == Next /\ UNCHANGED gate
GateStep == G!Next /\ UNCHANGED vars

OnlineSpec == Init /\ G!Init /\ [][SessionStep \/ GateStep]_<<vars, gate>>

\* Every value of both services has its type.
OnlineTypeOK == TypeOK /\ G!TypeOK

\* All that the guards of the two chats promise.
GateHolds == G!GateHolds
=============================================================================
