-------------------------------- MODULE LineLog --------------------------------
(***************************************************************************)
(* What the stdout writer promises its callers, with neither channel nor   *)
(* buffer nor writer thread: accepted lines form one log, the log reaches  *)
(* the operating system from the front and in order, and a flush ends only *)
(* when everything accepted before it began is there.  The promise ends    *)
(* with the first failure of stdout; the order does not.                   *)
(***************************************************************************)
EXTENDS Integers, Sequences

CONSTANT Thread

VARIABLES
  log,      \* the accepted lines, each by the thread it came from
  onDisk,   \* how many of them have been written out (or have failed)
  waiting,  \* per thread: the lines its flush must see written, or NoFlush
  healthy   \* stdout has not failed yet

vars == <<log, onDisk, waiting, healthy>>

NoFlush == -1

Init ==
  /\ log = <<>> /\ onDisk = 0 /\ healthy = TRUE
  /\ waiting = [t \in Thread |-> NoFlush]

Accept(t) ==
  /\ log' = Append(log, t)
  /\ UNCHANGED <<onDisk, waiting, healthy>>

\* Some more of the log is written; a failure may come with it.
Persist ==
  /\ onDisk' \in onDisk..Len(log)
  /\ healthy' \in {healthy, FALSE}
  /\ UNCHANGED <<log, waiting>>

BeginFlush(t) ==
  /\ waiting[t] = NoFlush
  /\ waiting' = [waiting EXCEPT ![t] = Len(log)]
  /\ UNCHANGED <<log, onDisk, healthy>>

EndFlush(t) ==
  /\ waiting[t] # NoFlush
  /\ healthy => onDisk >= waiting[t]
  /\ waiting' = [waiting EXCEPT ![t] = NoFlush]
  /\ UNCHANGED <<log, onDisk, healthy>>

Next ==
  \/ Persist
  \/ \E t \in Thread : Accept(t) \/ BeginFlush(t) \/ EndFlush(t)

Spec == Init /\ [][Next]_vars
================================================================================
