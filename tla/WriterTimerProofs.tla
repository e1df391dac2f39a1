--------------------------- MODULE WriterTimerProofs ---------------------------
(***************************************************************************)
(* The bounds of WriterTimer for every interval and every line threshold.  *)
(***************************************************************************)
EXTENDS WriterTimer, TLAPS

IInv == TypeOK /\ BatchShape

LEMMA InitIInv == Init => IInv
  BY TimedPolicy DEF Init, IInv, TypeOK, BatchShape, Saturation, wakeup

\* Every step of the writer and of the clock keeps the shape of the batch: a
\* line joins an open batch only while the batch is younger than the interval,
\* and the clock does not run past the deadline of recv_timeout.
LEMMA NextIInv == IInv /\ [Next]_vars => IInv'
<1> SUFFICES ASSUME IInv, [Next]_vars PROVE IInv'
  OBVIOUS
<1> USE TimedPolicy DEF IInv, TypeOK, BatchShape, Saturation, wakeup
<1>1. CASE tick
  BY <1>1 DEF tick, Elapse
<1>2. CASE timeout
  BY <1>2 DEF timeout, timeout_due, aged, FlushAndReset
<1>3. CASE flush
  BY <1>3 DEF flush, FlushAndReset
<1>4. ASSUME NEW full \in BOOLEAN, line(full) PROVE IInv'
  <2>1. CASE flush_due(full) /\ FlushAndReset
    BY <1>4, <2>1 DEF line, FlushAndReset
  <2>2. CASE ~flush_due(full)
    BY <1>4, <2>2 DEF line, flush_due, aged
  <2> QED BY <1>4, <2>1, <2>2 DEF line
<1>5. CASE UNCHANGED vars
  BY <1>5 DEF vars
<1> QED BY <1>1, <1>2, <1>3, <1>4, <1>5 DEF Next

\* No age leaves its range: recv_timeout does not outlast its deadline, and the
\* age of a batch that is idle saturates.
THEOREM TypeCorrect == Spec => []TypeOK
<1>1. IInv => TypeOK
  BY DEF IInv
<1> QED BY <1>1, InitIInv, NextIInv, PTL DEF Spec

\* BatchShape holds in every reachable state: a line that restarts recv_timeout
\* never finds the batch older than the interval.
THEOREM BatchShapeHolds == Spec => [](TypeOK /\ BatchShape)
<1>1. Spec => []IInv
  BY InitIInv, NextIInv, PTL DEF Spec
<1>2. IInv => TypeOK /\ BatchShape
  BY DEF IInv
<1> QED BY <1>1, <1>2, PTL

\* With a working stdout and a writer that is scheduled at once, a line is never
\* as old as two intervals when it leaves the buffer: it is at most as old as
\* its batch, and the batch was younger than one interval when its last line
\* arrived, which is at most one timeout ago.
THEOREM LossBoundHolds == Spec => []LossBound
<1>1. TypeOK /\ BatchShape => LossBound
  BY TimedPolicy DEF TypeOK, BatchShape, LossBound, Saturation, wakeup
<1> QED BY <1>1, BatchShapeHolds, PTL

\* A reader sees a line at most one interval after the last submit: the age of
\* the newest line is the time recv_timeout has been waiting.
THEOREM ReaderBoundHolds == Spec => []ReaderBound
<1>1. TypeOK /\ BatchShape => ReaderBound
  BY TimedPolicy DEF TypeOK, BatchShape, ReaderBound, wakeup
<1> QED BY <1>1, BatchShapeHolds, PTL
================================================================================
