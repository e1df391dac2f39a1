----------------------------- MODULE MCStdoutEmit -----------------------------
(***************************************************************************)
(* Instances of StdoutEmit for TLC.                                        *)
(***************************************************************************)
EXTENDS StdoutEmit, TLC

\* The default policy scaled down: a timer, a byte threshold equal to the buffer's
\* capacity as in the code (8 KiB both), and a line threshold, each
\* of which a handful of short lines can reach.
DefaultScaled == [max_interval |-> 1, max_bytes |-> 4, max_lines |-> 3]
\* Legal, and neither per-line nor timed.
CountedOnly == [max_interval |-> 0, max_bytes |-> 0, max_lines |-> 2]
\* The buffer fills up long before the policy asks for a flush.
BufferBound == [max_interval |-> 1, max_bytes |-> 0, max_lines |-> 9]

DefaultPolicies == {DefaultScaled, per_line}
AllPolicies == {DefaultScaled, per_line, CountedOnly, BufferBound}
NoPolicies == {}

OneSlot == {Bounded(1)}
NoCapacities == {}
\* A request for no slots is granted one; a program may also ask twice.
SmallChannels == {Bounded(0), Bounded(2)}

Symmetry == Permutations(Thread)
===============================================================================
