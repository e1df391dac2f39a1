------------------------------ MODULE WriterTimer ------------------------------
(***************************************************************************)
(* The clock of writer_loop in src/src/stdout_emit.rs.                     *)
(*                                                                         *)
(* StdoutEmit lets the writer find its batch old, or time out, whenever it *)
(* likes; this module counts the time.  The writer is idle in recv_timeout *)
(* between jobs.  Handling a job or a timeout takes no time, so the writer *)
(* gets to every job the moment it is submitted and to every timeout when  *)
(* it expires; stdout does not fail.  The instants the code keeps appear   *)
(* as the time elapsed since then, in ticks.                               *)
(*                                                                         *)
(* Definitions named Slip_X_... are mistakes to put in the place of X.     *)
(***************************************************************************)
EXTENDS Integers

CONSTANTS
  MaxInterval,  \* policy.max_interval, in ticks; a policy with a timer
  MaxLines      \* policy.max_lines

ASSUME TimedPolicy == MaxInterval \in Nat \ {0} /\ MaxLines \in Nat

VARIABLES
  batch_started,  \* batch_started.elapsed()
  batch_lines,    \* lines buffered since then
  waiting,        \* how long recv_timeout has been waiting
  oldest,         \* age of the oldest buffered line
  newest          \* age of the newest buffered line

vars == <<batch_started, batch_lines, waiting, oldest, newest>>

wakeup == MaxInterval

\* Elapsed time is only ever compared with max_interval; it stops counting well
\* beyond it.
Saturation == 2 * MaxInterval
Elapse(age) == IF age < Saturation THEN age + 1 ELSE age

Init ==
  /\ batch_started = 0 /\ batch_lines = 0 /\ waiting = 0
  /\ oldest = 0 /\ newest = 0

Slip_FlushAndReset_subtracts ==
  batch_started' = 0 /\ batch_lines' = batch_lines - MaxLines /\ oldest' = 0 /\ newest' = 0
FlushAndReset == batch_started' = 0 /\ batch_lines' = 0 /\ oldest' = 0 /\ newest' = 0

aged == batch_started >= MaxInterval

\* Time passes while recv_timeout waits, and not beyond its deadline.
tick ==
  /\ waiting < wakeup
  /\ waiting' = waiting + 1
  /\ batch_started' = Elapse(batch_started)
  /\ oldest' = IF batch_lines > 0 THEN oldest + 1 ELSE 0
  /\ newest' = IF batch_lines > 0 THEN newest + 1 ELSE 0
  /\ UNCHANGED batch_lines

\* A line arrives.  bytes_hit may hold for any batch: `full' is a choice.
Slip_flush_due_ageless(full) == MaxLines <= 1 \/ full \/ batch_lines + 1 >= MaxLines
flush_due(full) == MaxLines <= 1 \/ full \/ batch_lines + 1 >= MaxLines \/ aged

Slip_line_restarts(full) ==
  /\ waiting' = 0
  /\ \/ flush_due(full) /\ FlushAndReset
     \/ /\ ~flush_due(full)
        /\ batch_lines' = batch_lines + 1
        /\ newest' = 0 /\ batch_started' = 0
        /\ UNCHANGED oldest

line(full) ==
  /\ waiting' = 0
  /\ \/ flush_due(full) /\ FlushAndReset
     \/ /\ ~flush_due(full)
        /\ batch_lines' = batch_lines + 1
        /\ newest' = 0
        /\ UNCHANGED <<batch_started, oldest>>

flush == waiting' = 0 /\ FlushAndReset

Slip_timeout_due_beyond == batch_lines > 0 /\ batch_started > MaxInterval
timeout_due == batch_lines > 0 /\ aged

timeout ==
  /\ waiting = wakeup
  /\ waiting' = 0
  /\ \/ timeout_due /\ FlushAndReset
     \/ ~timeout_due /\ UNCHANGED <<batch_started, batch_lines, oldest, newest>>

Next == tick \/ timeout \/ flush \/ \E full \in BOOLEAN : line(full)

Spec == Init /\ [][Next]_vars
-------------------------------------------------------------------------------
TypeOK ==
  /\ batch_started \in 0..Saturation
  /\ batch_lines \in Nat
  /\ waiting \in 0..wakeup
  /\ oldest \in Nat /\ newest \in Nat

\* No line stays in the buffer for two intervals: what a kill loses is younger
\* than that.  (A batch is not started when its first line arrives but when the
\* last one ended, and a line arriving late in it restarts the timeout.)
LossBound == batch_lines > 0 => oldest < 2 * MaxInterval

\* A reader "observes the buffered line within `max_interval` of the last
\* `submit`" (README, lines 690-694).
ReaderBound == batch_lines > 0 => newest <= MaxInterval

\* The strengthening that makes both inductive: the last line of an open batch
\* arrived before the batch was one interval old, and the timeout runs since.
BatchShape ==
  /\ batch_lines = 0 => oldest = 0
  /\ batch_lines > 0 => /\ newest = waiting
                        /\ newest <= oldest /\ oldest <= batch_started
                        /\ batch_started - waiting < MaxInterval
================================================================================
