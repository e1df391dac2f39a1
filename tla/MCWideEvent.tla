------------------------------ MODULE MCWideEvent ------------------------------
(* An instance of WideEvent for TLC: a schema with a duration of two or of *)
(* three segments and an event with timestamp and id.                   *)
EXTENDS EventLine

CONSTANTS duration, total, wall, event, timestamp, id, log, level, message, info, hello

MCPaths ==
  {<<duration>>, <<duration, total>>, <<duration, total, wall>>,
   <<event>>, <<event, timestamp>>, <<event, id>>}
MCDurationPaths == {<<duration, total>>, <<duration, total, wall>>}
MCTimestampPath == <<event, timestamp>>
MCIdPath == <<event, id>>
MCDefaults ==
  <<[path |-> <<event, timestamp>>, value |-> I64(-1)]>>
\* Not the order in which the paths are written.
MCKeys == <<event, id, timestamp, duration, wall, total>>
Entry == [level |-> info, message |-> hello]
MCLogEntries == {Entry, [Entry EXCEPT !.message = info]}
MCLogs == {<<>>, <<Entry>>, <<Entry, [Entry EXCEPT !.message = info]>>}
MCAmounts == {-1, 1}
MCMinI64 == -2
================================================================================
