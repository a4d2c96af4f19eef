----------------------------- MODULE MCNodeAgent -----------------------------
(* Instances of NodeAgent for TLC.                                         *)
EXTENDS NodeAgent

CONSTANTS i1, tStart, tStop, tLogs

StartTask == [task |-> tStart, type |-> "start", inst |-> i1]
StopTask  == [task |-> tStop, type |-> "stop", inst |-> i1]
LogsTask  == [task |-> tLogs, type |-> "logs", inst |-> i1]

(* Nothing, a start, a stop, or a start followed by a logs task of one     *)
(* instance; each may come again in a later response.                      *)
MCResponses == {<<>>, <<StartTask>>, <<StopTask>>, <<StartTask, LogsTask>>}
=============================================================================
