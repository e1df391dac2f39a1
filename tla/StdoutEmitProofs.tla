--------------------------- MODULE StdoutEmitProofs ---------------------------
(***************************************************************************)
(* What holds of the stdout writer for every number of threads, every      *)
(* policy, capacity, line length and buffer size, and every number of      *)
(* lines, flushes and faults of stdout.                                    *)
(***************************************************************************)
EXTENDS StdoutEmit, SequenceLemmas, FiniteSetTheorems, TLAPS

LEMMA InitTypeOK == Init => TypeOK
<1>1. Unbounded \in ChannelCapacity /\ NoArg \in Arg
  BY DEF Unbounded, ChannelCapacity, NoArg, Arg
<1>2. "idle" \in Label
  BY DEF Label
<1> SUFFICES ASSUME Init PROVE TypeOK
  OBVIOUS
<1>3. jobs \in Seq(Job)
  BY DEF Init
<1>4. /\ pc \in [Thread -> Label] /\ arg \in [Thread -> Arg]
      /\ mark \in [Thread -> Nat] /\ ticket \in [Thread -> Nat]
  BY <1>1, <1>2 DEF Init
<1> QED BY <1>1, <1>3, <1>4 DEF Init, TypeOK

\* The values that leave the OnceLocks have the type of those that went in.
LEMMA CellTypes ==
  ASSUME TypeOK
  PROVE  current_flush_policy \in FlushPolicy /\ current_channel_capacity \in ChannelCapacity
<1>1. Unbounded \in ChannelCapacity
  BY DEF Unbounded, ChannelCapacity
<1> QED BY <1>1, ConstantsAssumption
        DEF TypeOK, current_flush_policy, current_channel_capacity, OnceGet

\* A producer that returns, or goes on, keeps the types of its call.
CallTypes == /\ pc \in [Thread -> Label] /\ arg \in [Thread -> Arg]
             /\ mark \in [Thread -> Nat] /\ ticket \in [Thread -> Nat]

LEMMA ReturnTypes ==
  ASSUME CallTypes, NEW t \in Thread, Return(t) PROVE CallTypes'
  BY DEF CallTypes, Return, Label, NoArg, Arg

LEMMA GotoTypes ==
  ASSUME CallTypes, NEW t \in Thread, NEW label \in Label, Goto(t, label)
  PROVE  CallTypes'
  BY DEF CallTypes, Goto

\* A send either appends its job or finds the receiver gone.
LEMMA EnqueueTypes ==
  ASSUME TypeOK, NEW job \in Job, Enqueue(job) \/ Disconnected
  PROVE  jobs' \in Seq(Job)
<1>1. jobs \in Seq(Job)
  BY DEF TypeOK
<1> QED BY <1>1 DEF Enqueue, Disconnected

\* flush() of the BufWriter, and a batch left open, keep the types of the
\* writer's counters.
LEMMA FlushTypes ==
  ASSUME TypeOK, NEW d \in Nat, NEW end \in Nat, FlushAndReset(d, end)
  PROVE  /\ durable' \in Nat /\ faults' \in Nat /\ lost' \in SUBSET Nat
         /\ batch_bytes' \in Nat /\ batch_lines' \in Nat
  BY DEF TypeOK, FlushAndReset

LEMMA NextTypeOK == TypeOK /\ [Next]_vars => TypeOK'
<1> SUFFICES ASSUME TypeOK, [Next]_vars PROVE TypeOK'
  OBVIOUS
<1> USE DEF cells, startup, producers, counters, batch, stdout, writer
<1>1. ASSUME NEW p \in Policies, set_flush_policy(p) PROVE TypeOK'
  BY <1>1, ConstantsAssumption DEF TypeOK, set_flush_policy, OnceSet
<1>2. ASSUME NEW c \in Capacities, set_channel_capacity(c) PROVE TypeOK'
  BY <1>2, ConstantsAssumption DEF TypeOK, set_channel_capacity, OnceSet
<1>3. ASSUME NEW t \in Thread PROVE Invoke(t) => TypeOK'
  <2>1. ASSUME NEW n \in LineLens, NEW b \in BOOLEAN, Call(t, b, n) PROVE TypeOK'
    <3>1. [blocking |-> b, len |-> n] \in Arg
      BY ConstantsAssumption DEF Arg
    <3> QED BY <2>1, <3>1 DEF TypeOK, Call, Label
  <2>2. CASE flush(t)
    <3>1. Len(jobs) \in Nat
      BY DEF TypeOK
    <3> QED BY <2>2, <3>1 DEF TypeOK, flush, Label
  <2> QED BY <2>1, <2>2 DEF Invoke, submit, try_submit
<1>4. ASSUME NEW t \in Thread PROVE Proceed(t) => TypeOK'
  <2>0. CallTypes
    BY DEF TypeOK, CallTypes
  <2>1. CASE init_sender_enter(t)
    BY <2>1, CellTypes DEF TypeOK, init_sender_enter, Goto, Label
  <2>2. CASE init_sender_leave(t)
    BY <2>2 DEF TypeOK, init_sender_leave, Goto, Label
  <2>3. CASE get_sender(t)
    BY <2>3 DEF TypeOK, get_sender, Goto, Label
  <2>4. CASE send(t)
    <3>1. Line(t, arg[t].len) \in Job
      BY DEF Line, Job, TypeOK, Arg
    <3>2. jobs' \in Seq(Job)
      BY <2>4, <3>1, EnqueueTypes DEF send
    <3>3. CallTypes'
      BY <2>4, <2>0, ReturnTypes, GotoTypes DEF send, Label
    <3>4. UNCHANGED <<cells, startup, counters, writer>>
      BY <2>4 DEF send
    <3> QED BY <3>2, <3>3, <3>4 DEF TypeOK, CallTypes
  <2>5. CASE try_send_full(t)
    BY <2>5 DEF TypeOK, try_send_full, Goto, Label
  <2>6. CASE count_drop(t)
    <3>1. CallTypes'
      BY <2>6, <2>0, ReturnTypes DEF count_drop
    <3> QED BY <2>6, <3>1 DEF TypeOK, CallTypes, count_drop
  <2>7. CASE flush_send(t)
    <3>1. Flush(t) \in Job /\ Len(jobs) \in Nat
      BY DEF Flush, Job, TypeOK
    <3>2. jobs' \in Seq(Job)
      BY <2>7, <3>1, EnqueueTypes DEF flush_send
    <3>3. CallTypes'
      <4>1. CASE Return(t)
        BY <4>1, <2>0, ReturnTypes
      <4>2. CASE /\ pc' = [pc EXCEPT ![t] = "await"]
                 /\ ticket' = [ticket EXCEPT ![t] = Len(jobs) + 1]
                 /\ UNCHANGED <<arg, mark>>
        BY <4>2, <2>0, <3>1 DEF CallTypes, Label
      <4> QED BY <2>7, <4>1, <4>2 DEF flush_send
    <3>4. UNCHANGED <<cells, startup, counters, writer>>
      BY <2>7 DEF flush_send
    <3> QED BY <3>2, <3>3, <3>4 DEF TypeOK, CallTypes
  <2> QED BY <2>1, <2>2, <2>3, <2>4, <2>5, <2>6, <2>7 DEF Proceed
<1>5. CASE writer_start
  BY <1>5, CellTypes DEF TypeOK, writer_start
<1>6. CASE writer_line
  <2> DEFINE n == jobs[received + 1].len
  <2>1. n \in Nat /\ received + 1 \in Nat
    <3>1. received + 1 \in 1..Len(jobs)
      BY <1>6 DEF TypeOK, writer_line, Recv
    <3>2. jobs[received + 1] \in Job
      BY <3>1 DEF TypeOK
    <3> QED BY <3>2 DEF TypeOK, Job
  <2>2. CASE write_failed(n)
    <3>1. /\ faults' = faults + 1 /\ durable' \in durable..received
          /\ lost' = lost \cup {received + 1} /\ UNCHANGED batch
      BY <2>2 DEF write_failed
    <3>2. faults' \in Nat /\ durable' \in Nat
      BY <3>1 DEF TypeOK
    <3>3. lost' \in SUBSET Nat
      BY <2>1, <3>1 DEF TypeOK
    <3> QED BY <1>6, <2>1, <3>1, <3>2, <3>3 DEF TypeOK, writer_line, Recv
  <2>3. CASE write_done(DurableAfterWrite(n), batch_bytes + n, batch_lines + 1)
    <3>1. DurableAfterWrite(n) \in Nat
      BY DEF TypeOK, DurableAfterWrite
    <3>2. batch_bytes + n \in Nat /\ batch_lines + 1 \in Nat
      BY <2>1 DEF TypeOK
    <3> HIDE DEF n
    <3>3. /\ durable' \in Nat /\ faults' \in Nat /\ lost' \in SUBSET Nat
          /\ batch_bytes' \in Nat /\ batch_lines' \in Nat
      <4>1. CASE FlushAndReset(DurableAfterWrite(n), received + 1)
        BY <2>1, <3>1, <4>1, FlushTypes
      <4>2. CASE KeepBatch(batch_bytes + n, batch_lines + 1, DurableAfterWrite(n))
        BY <3>1, <3>2, <4>2 DEF KeepBatch, TypeOK
      <4> QED BY <2>3, <4>1, <4>2 DEF write_done
    <3> QED BY <1>6, <2>1, <3>3 DEF TypeOK, writer_line, Recv
  <2> QED BY <1>6, <2>2, <2>3 DEF writer_line
<1>7. CASE writer_flush
  <2>1. received + 1 \in Nat /\ durable \in Nat
    BY DEF TypeOK
  <2> QED BY <1>7, <2>1, FlushTypes DEF TypeOK, writer_flush, Recv
<1>8. CASE writer_ack
  <2> DEFINE t == jobs[received].from
  <2>1. UNCHANGED <<cells, startup, jobs, counters, policy, received, batch, stdout>>
    BY <1>8 DEF writer_ack
  <2>2. pc[t] = "await" /\ Return(t) /\ wpc' = "loop"
    BY <1>8 DEF writer_ack
  <2> HIDE DEF t
  <2>3. CallTypes'
    BY <2>2 DEF TypeOK, CallTypes, Return, Label, NoArg, Arg
  <2> QED BY <2>1, <2>2, <2>3 DEF TypeOK, CallTypes
<1>9. CASE writer_timeout
  <2>1. received \in Nat /\ durable \in Nat
    BY DEF TypeOK
  <2> QED BY <1>9, <2>1, FlushTypes DEF TypeOK, writer_timeout
<1>10. CASE UNCHANGED vars
  BY <1>10 DEF TypeOK, vars
<1> QED BY <1>1, <1>2, <1>3, <1>4, <1>5, <1>6, <1>7, <1>8, <1>9, <1>10
        DEF Next, Configure, writer_loop

\* Every variable keeps its type, whatever the interleaving and the faults.
THEOREM TypeCorrect == Spec => []TypeOK
  BY InitTypeOK, NextTypeOK, PTL DEF Spec
-------------------------------------------------------------------------------
(* The invariant behind flush.                                             *)

LEMMA InitFlushInv == Init => FlushInv
  BY DEF Init, FlushInv, StartUp, Drained, Tickets, AckAwaited, FirstUnanswered

\* A second initialisation is impossible: whoever is in init_sender holds the
\* OnceLock alone, and jobs need the receiver that only it creates.
LEMMA NextStartUp == TypeOK /\ StartUp /\ [Next]_vars => StartUp'
<1> SUFFICES ASSUME TypeOK, StartUp, [Next]_vars PROVE StartUp'
  OBVIOUS
<1> USE DEF StartUp, cells, startup, producers, counters, batch, stdout, writer
<1>0. pc \in [Thread -> Label]
  BY DEF TypeOK
<1>1. CASE Configure
  BY <1>1 DEF Configure, set_flush_policy, set_channel_capacity
<1>2. ASSUME NEW t \in Thread PROVE Invoke(t) => StartUp'
  <2>1. ASSUME NEW n \in LineLens, NEW b \in BOOLEAN, Call(t, b, n) PROVE StartUp'
    BY <1>0, <2>1 DEF Call
  <2>2. CASE flush(t)
    BY <1>0, <2>2 DEF flush
  <2> QED BY <2>1, <2>2 DEF Invoke, submit, try_submit
<1>3. ASSUME NEW t \in Thread PROVE Proceed(t) => StartUp'
  <2>1. CASE init_sender_enter(t)
    BY <1>0, <2>1 DEF init_sender_enter, Goto
  <2>2. CASE init_sender_leave(t)
    BY <1>0, <2>2 DEF init_sender_leave, Goto
  <2>3. CASE get_sender(t)
    BY <1>0, <2>3 DEF get_sender, Goto
  <2>4. CASE send(t)
    BY <1>0, <2>4 DEF send, Enqueue, Disconnected, Return, Goto
  <2>5. CASE try_send_full(t)
    BY <1>0, <2>5 DEF try_send_full, Goto
  <2>6. CASE count_drop(t)
    BY <1>0, <2>6 DEF count_drop, Return
  <2>7. CASE flush_send(t)
    BY <1>0, <2>7 DEF flush_send, Enqueue, Disconnected, Return
  <2> QED BY <2>1, <2>2, <2>3, <2>4, <2>5, <2>6, <2>7 DEF Proceed
<1>4. CASE writer_loop
  <2>1. CASE writer_ack
    <3>1. UNCHANGED <<sender, rxAlive, jobs>> /\ wpc = "acking"
      BY <2>1 DEF writer_ack
    <3>2. \A t \in Thread : pc'[t] = "init" => pc[t] = "init"
      BY <1>0, <2>1 DEF writer_ack, Return
    <3> QED BY <3>1, <3>2
  <2>2. CASE writer_start \/ writer_line \/ writer_flush \/ writer_timeout
    BY <2>2 DEF writer_start, writer_line, writer_flush, writer_timeout, Recv
  <2> QED BY <1>4, <2>1, <2>2 DEF writer_loop
<1>5. CASE UNCHANGED vars
  BY <1>5 DEF vars
<1> QED BY <1>1, <1>2, <1>3, <1>4, <1>5 DEF Next

\* What an append does to the history of the channel.
LEMMA EnqueueJobs ==
  ASSUME TypeOK, NEW job \in Job, Enqueue(job)
  PROVE  /\ Len(jobs) \in Nat /\ Len(jobs') = Len(jobs) + 1
         /\ \A i \in 1..Len(jobs) : jobs'[i] = jobs[i]
         /\ jobs'[Len(jobs) + 1] = job
<1>1. jobs \in Seq(Job)
  BY DEF TypeOK
<1> QED BY <1>1 DEF Enqueue

\* A producer leaves the writer alone, and only ever appends to the channel.
LEMMA ProducerFrame ==
  ASSUME TypeOK, StartUp, NEW t \in Thread, Invoke(t) \/ Proceed(t)
  PROVE  /\ UNCHANGED <<policy, received, durable, lost, faults>>
         /\ wpc' = "acking" <=> wpc = "acking"
         /\ \/ UNCHANGED jobs
            \/ \E job \in Job : Enqueue(job) /\ pc[t] \in {"send", "flush"}
<1> USE DEF startup, writer, stdout, batch, StartUp
<1>1. ASSUME NEW n \in LineLens, NEW b \in BOOLEAN, Call(t, b, n)
      PROVE  UNCHANGED <<writer, jobs>>
  BY <1>1 DEF Call
<1>2. CASE flush(t)
  BY <1>2 DEF flush
<1>3. CASE init_sender_leave(t)
  BY <1>3 DEF init_sender_leave
<1>4. CASE send(t)
  <2>1. Line(t, arg[t].len) \in Job
    BY DEF Line, Job, TypeOK, Arg
  <2> QED BY <1>4, <2>1 DEF send, Disconnected
<1>5. CASE flush_send(t)
  <2>1. Flush(t) \in Job
    BY DEF Flush, Job
  <2> QED BY <1>5, <2>1 DEF flush_send, Disconnected
<1>6. CASE init_sender_enter(t) \/ get_sender(t) \/ try_send_full(t) \/ count_drop(t)
  BY <1>6 DEF init_sender_enter, get_sender, try_send_full, count_drop
<1> QED BY <1>1, <1>2, <1>3, <1>4, <1>5, <1>6 DEF Invoke, Proceed, submit, try_submit

\* The writer's indices: the buffer is drained before an acknowledgement.
LEMMA NextDrained == TypeOK /\ StartUp /\ Drained /\ [Next]_vars => Drained'
<1> SUFFICES ASSUME TypeOK, StartUp, Drained, [Next]_vars PROVE Drained'
  OBVIOUS
<1>0. /\ received \in Nat /\ durable \in Nat /\ faults \in Nat /\ Len(jobs) \in Nat
      /\ durable <= received /\ received <= Len(jobs)
  BY DEF TypeOK, Drained
<1>1. CASE Configure
  BY <1>1 DEF Configure, set_flush_policy, set_channel_capacity, Drained,
              writer, stdout
<1>2. ASSUME NEW t \in Thread, Invoke(t) \/ Proceed(t) PROVE Drained'
  <2>1. CASE UNCHANGED jobs
    BY <1>2, <2>1, ProducerFrame DEF Drained
  <2>2. ASSUME NEW job \in Job, Enqueue(job) PROVE Drained'
    BY <1>0, <1>2, <2>2, ProducerFrame, EnqueueJobs DEF Drained
  <2> QED BY <1>2, <2>1, <2>2, ProducerFrame
<1>3. CASE writer_start
  BY <1>3 DEF writer_start, Drained, stdout
<1>4. CASE writer_line
  <2> DEFINE n == jobs[received + 1].len
             d == DurableAfterWrite(n)
  <2>1. UNCHANGED jobs /\ wpc' # "acking" /\ received' = received + 1
        /\ received < Len(jobs)
    BY <1>4 DEF writer_line, Recv
  <2>2. CASE write_failed(n)
    <3>1. faults' = faults + 1 /\ durable' \in durable..received
      BY <2>2 DEF write_failed
    <3> QED BY <1>0, <2>1, <3>1 DEF Drained
  <2>3. CASE write_done(d, batch_bytes + n, batch_lines + 1)
    <3>1. d \in Nat /\ d <= received + 1
      BY <1>0 DEF DurableAfterWrite
    <3> HIDE DEF d, n
    <3>2. /\ lost' = lost /\ (faults' = 0 => faults = 0)
          /\ durable' <= received + 1
      <4>1. CASE FlushAndReset(d, received + 1)
        BY <1>0, <3>1, <4>1 DEF FlushAndReset
      <4>2. CASE KeepBatch(batch_bytes + n, batch_lines + 1, d)
        BY <3>1, <4>2 DEF KeepBatch
      <4> QED BY <2>3, <4>1, <4>2 DEF write_done
    <3> QED BY <1>0, <2>1, <3>2 DEF Drained
  <2> QED BY <1>4, <2>2, <2>3 DEF writer_line
<1>5. CASE writer_flush
  <2>1. /\ UNCHANGED jobs /\ received' = received + 1 /\ received < Len(jobs)
        /\ jobs[received + 1].kind = "Flush" /\ FlushAndReset(durable, received + 1)
    BY <1>5 DEF writer_flush, Recv
  <2>2. /\ lost' = lost /\ (faults' = 0 => faults = 0 /\ durable' = received')
        /\ durable' <= received'
    BY <1>0, <2>1 DEF FlushAndReset
  <2> QED BY <1>0, <2>1, <2>2 DEF Drained
<1>6. CASE writer_ack
  BY <1>6 DEF writer_ack, Drained, stdout
<1>7. CASE writer_timeout
  <2>1. /\ UNCHANGED <<jobs, received, wpc>> /\ wpc = "loop"
        /\ FlushAndReset(durable, received) \/ UNCHANGED stdout
    BY <1>7 DEF writer_timeout
  <2>2. /\ lost' = lost /\ (faults' = 0 => faults = 0) /\ durable' <= received
    BY <1>0, <2>1 DEF FlushAndReset, stdout
  <2> QED BY <1>0, <2>1, <2>2 DEF Drained
<1>8. CASE UNCHANGED vars
  BY <1>8 DEF vars, writer, stdout, Drained
<1> QED BY <1>1, <1>2, <1>3, <1>4, <1>5, <1>6, <1>7, <1>8 DEF Next, writer_loop

\* A producer's step concerns its own call only; it comes to wait for an
\* acknowledgement exactly by enqueueing a flush job after its mark.
LEMMA ProducerCall ==
  ASSUME TypeOK, NEW t \in Thread, Invoke(t) \/ Proceed(t)
  PROVE  /\ pc[t] # "await"
         /\ \A u \in Thread \ {t} : /\ pc'[u] = pc[u] /\ mark'[u] = mark[u]
                                   /\ ticket'[u] = ticket[u]
         /\ \/ pc'[t] # "await" /\ mark'[t] \in {mark[t], 0, Len(jobs)}
            \/ /\ Enqueue(Flush(t)) /\ pc'[t] = "await"
               /\ mark'[t] = mark[t] /\ ticket'[t] = Len(jobs) + 1
         /\ \A job \in Job :
              Enqueue(job) /\ job.kind = "Flush" => job = Flush(t) /\ pc'[t] = "await"
<1>0. /\ pc \in [Thread -> Label] /\ mark \in [Thread -> Nat]
      /\ ticket \in [Thread -> Nat] /\ jobs \in Seq(Job)
  BY DEF TypeOK
<1>1. \A a, b \in Job : Enqueue(a) /\ Enqueue(b) => a = b
  BY EnqueueJobs
<1>2. \A a \in Job : Enqueue(a) => jobs' # jobs
  BY <1>0 DEF Enqueue
<1> USE DEF producers
<1>3. ASSUME NEW n \in LineLens, NEW b \in BOOLEAN, Call(t, b, n)
      PROVE  /\ pc[t] = "idle" /\ UNCHANGED <<jobs, mark, ticket>>
             /\ pc' = [pc EXCEPT ![t] = "get"]
  BY <1>3 DEF Call
<1>4. CASE flush(t)
  BY <1>0, <1>2, <1>4 DEF flush
<1>5. CASE Invoke(t) /\ ~flush(t)
  BY <1>0, <1>2, <1>3, <1>5 DEF Invoke, submit, try_submit
<1>6. CASE init_sender_enter(t)
  BY <1>0, <1>2, <1>6 DEF init_sender_enter, Goto
<1>7. CASE init_sender_leave(t)
  BY <1>0, <1>2, <1>7 DEF init_sender_leave, Goto
<1>8. CASE get_sender(t)
  BY <1>0, <1>2, <1>8 DEF get_sender, Goto
<1>9. CASE send(t)
  <2>1. Line(t, arg[t].len) \in Job /\ Line(t, arg[t].len).kind = "Line"
    BY DEF Line, Job, TypeOK, Arg
  <2>2. CASE Enqueue(Line(t, arg[t].len)) /\ Return(t)
    <3>1. \A job \in Job : Enqueue(job) => job.kind = "Line"
      BY <1>1, <2>1, <2>2
    <3> QED BY <1>0, <1>9, <2>2, <3>1 DEF send, Return
  <2>3. CASE Disconnected /\ Goto(t, "drop")
    BY <1>0, <1>2, <1>9, <2>3 DEF send, Disconnected, Goto
  <2> QED BY <1>9, <2>2, <2>3 DEF send
<1>10. CASE try_send_full(t)
  BY <1>0, <1>2, <1>10 DEF try_send_full, Goto
<1>11. CASE count_drop(t)
  BY <1>0, <1>2, <1>11 DEF count_drop, Return
<1>12. CASE flush_send(t)
  <2>1. Flush(t) \in Job
    BY DEF Flush, Job
  <2>2. CASE Disconnected /\ Return(t)
    BY <1>0, <1>2, <1>12, <2>2 DEF flush_send, Disconnected, Return
  <2>3. CASE ~(Disconnected /\ Return(t))
    <3>1. /\ pc[t] = "flush" /\ Enqueue(Flush(t))
          /\ pc' = [pc EXCEPT ![t] = "await"]
          /\ ticket' = [ticket EXCEPT ![t] = Len(jobs) + 1]
          /\ UNCHANGED mark
      BY <1>12, <2>3 DEF flush_send
    <3>2. \A job \in Job : Enqueue(job) => job = Flush(t)
      BY <1>1, <2>1, <3>1
    <3> QED BY <1>0, <3>1, <3>2
  <2> QED BY <2>2, <2>3
<1> QED BY <1>4, <1>5, <1>6, <1>7, <1>8, <1>9, <1>10, <1>11, <1>12 DEF Proceed

\* Marks, tickets and waiting calls stay in step with the channel.
LEMMA NextTickets ==
  TypeOK /\ FlushInv /\ [Next]_vars => Tickets' /\ AckAwaited'
<1> SUFFICES ASSUME TypeOK, FlushInv, [Next]_vars PROVE Tickets' /\ AckAwaited'
  OBVIOUS
<1>0. /\ jobs \in Seq(Job) /\ Len(jobs) \in Nat /\ received \in Nat
      /\ pc \in [Thread -> Label] /\ mark \in [Thread -> Nat]
      /\ ticket \in [Thread -> Nat]
  BY DEF TypeOK
<1>1. received <= Len(jobs) /\ (wpc = "acking" => received > 0)
  BY DEF FlushInv, Drained
<1>2. \A i \in FirstUnanswered..Len(jobs) : jobs[i] \in Job /\ jobs[i].from \in Thread
  <2>1. \A i \in FirstUnanswered..Len(jobs) : i \in 1..Len(jobs)
    BY <1>0, <1>1 DEF FirstUnanswered
  <2>2. \A i \in 1..Len(jobs) : jobs[i] \in Job
    BY <1>0
  <2>3. \A job \in Job : job.from \in Thread
    BY DEF Job
  <2> QED BY <2>1, <2>2, <2>3
<1>3. ASSUME UNCHANGED <<jobs, producers>>, FirstUnanswered' >= FirstUnanswered,
             FirstUnanswered' \in Nat
      PROVE  Tickets' /\ AckAwaited'
  BY <1>0, <1>3 DEF producers, FlushInv, Tickets, AckAwaited, FirstUnanswered
<1>4. CASE Configure \/ UNCHANGED vars
  <2>1. UNCHANGED <<jobs, producers, wpc, received>>
    BY <1>4 DEF Configure, set_flush_policy, set_channel_capacity, vars, writer
  <2> QED BY <1>0, <1>3, <2>1 DEF FirstUnanswered
<1>5. ASSUME NEW t \in Thread, Invoke(t) \/ Proceed(t)
      PROVE  Tickets' /\ AckAwaited'
  <2>1. FirstUnanswered' = FirstUnanswered
    BY <1>5, ProducerFrame DEF FirstUnanswered, FlushInv
  <2>2. /\ pc[t] # "await"
        /\ \A u \in Thread \ {t} : /\ pc'[u] = pc[u] /\ mark'[u] = mark[u]
                                  /\ ticket'[u] = ticket[u]
    BY <1>5, ProducerCall
  <2>3. \A i \in FirstUnanswered..Len(jobs) :
          jobs[i].kind = "Flush" => jobs[i].from # t
    BY <1>2, <2>2 DEF FlushInv, AckAwaited
  <2>4. CASE UNCHANGED jobs
    <3>1. pc'[t] # "await" /\ mark'[t] \in {mark[t], 0, Len(jobs)}
      <4>1. ~Enqueue(Flush(t))
        BY <1>0, <2>4 DEF Enqueue
      <4> QED BY <1>5, <4>1, ProducerCall
    <3>2. Tickets'
      BY <1>0, <2>2, <2>4, <3>1 DEF FlushInv, Tickets
    <3>3. AckAwaited'
      BY <1>2, <2>1, <2>2, <2>3, <2>4 DEF FlushInv, AckAwaited
    <3> QED BY <3>2, <3>3
  <2>5. ASSUME NEW job \in Job, Enqueue(job) PROVE Tickets' /\ AckAwaited'
    <3>1. /\ Len(jobs') = Len(jobs) + 1
          /\ \A i \in 1..Len(jobs) : jobs'[i] = jobs[i]
          /\ jobs'[Len(jobs) + 1] = job
      BY <2>5, EnqueueJobs
    <3>2. \/ pc'[t] # "await" /\ mark'[t] \in {mark[t], 0, Len(jobs)}
          \/ /\ pc'[t] = "await" /\ mark'[t] = mark[t]
             /\ ticket'[t] = Len(jobs) + 1
      BY <1>5, ProducerCall
    <3>3. Tickets'
      BY <1>0, <2>2, <3>1, <3>2 DEF FlushInv, Tickets
    <3>4. ASSUME NEW i \in FirstUnanswered'..Len(jobs'), jobs'[i].kind = "Flush"
          PROVE  pc'[jobs'[i].from] = "await" /\ ticket'[jobs'[i].from] = i
      <4>1. CASE i = Len(jobs) + 1
        <5>1. job = Flush(t) /\ pc'[t] = "await"
          BY <1>5, <2>5, <3>1, <3>4, <4>1, ProducerCall
        <5> QED BY <3>1, <3>2, <4>1, <5>1 DEF Flush
      <4>2. CASE i # Len(jobs) + 1
        <5>1. i \in FirstUnanswered..Len(jobs) /\ i \in 1..Len(jobs)
          BY <1>0, <1>1, <2>1, <3>1, <4>2 DEF FirstUnanswered
        <5> QED BY <1>2, <2>2, <2>3, <3>1, <3>4, <5>1 DEF FlushInv, AckAwaited
      <4> QED BY <4>1, <4>2
    <3> QED BY <3>3, <3>4 DEF AckAwaited
  <2> QED BY <1>5, <2>4, <2>5, ProducerFrame DEF FlushInv
<1>6. CASE writer_start
  BY <1>0, <1>3, <1>6 DEF writer_start, FirstUnanswered
<1>7. CASE writer_line
  BY <1>0, <1>3, <1>7 DEF writer_line, Recv, FirstUnanswered
<1>8. CASE writer_flush
  BY <1>0, <1>3, <1>8 DEF writer_flush, Recv, FirstUnanswered
<1>9. CASE writer_ack
  <2> DEFINE t == jobs[received].from
  <2>1. /\ wpc = "acking" /\ wpc' = "loop" /\ UNCHANGED <<jobs, received>>
        /\ pc[t] = "await" /\ Return(t)
    BY <1>9 DEF writer_ack
  <2>2. t \in Thread /\ ticket[t] = received
    BY <1>0, <1>1, <1>2, <2>1 DEF FlushInv, AckAwaited, FirstUnanswered, Drained
  <2> HIDE DEF t
  <2>3. \A u \in Thread \ {t} : /\ pc'[u] = pc[u] /\ mark'[u] = mark[u]
                               /\ ticket'[u] = ticket[u]
    BY <1>0, <2>1 DEF Return
  <2>4. pc'[t] = "idle" /\ mark'[t] = 0
    BY <1>0, <2>1, <2>2 DEF Return
  <2>5. Tickets'
    BY <1>0, <2>1, <2>3, <2>4 DEF FlushInv, Tickets
  <2>6. ASSUME NEW i \in FirstUnanswered'..Len(jobs'), jobs'[i].kind = "Flush"
        PROVE  pc'[jobs'[i].from] = "await" /\ ticket'[jobs'[i].from] = i
    <3>1. i \in FirstUnanswered..Len(jobs) /\ i # received
      BY <1>0, <2>1 DEF FirstUnanswered
    <3>2. jobs[i].from \in Thread \ {t}
      BY <1>2, <2>1, <2>2, <2>6, <3>1 DEF FlushInv, AckAwaited
    <3> QED BY <2>1, <2>3, <2>6, <3>1, <3>2 DEF FlushInv, AckAwaited
  <2> QED BY <2>5, <2>6 DEF AckAwaited
<1>10. CASE writer_timeout
  BY <1>0, <1>3, <1>10 DEF writer_timeout, FirstUnanswered
<1> QED BY <1>4, <1>5, <1>6, <1>7, <1>8, <1>9, <1>10 DEF Next, writer_loop

\* The strengthening is inductive.
THEOREM FlushInvHolds == Spec => [](TypeOK /\ FlushInv)
<1>1. Init => TypeOK /\ FlushInv
  BY InitTypeOK, InitFlushInv
<1>2. TypeOK /\ FlushInv /\ [Next]_vars => (TypeOK /\ FlushInv)'
  BY NextTypeOK, NextStartUp, NextDrained, NextTickets DEF FlushInv
<1> QED BY <1>1, <1>2, PTL DEF Spec

\* Each pending flush job belongs to a call that waits for that very job, with
\* any number of threads flushing, submitting and initialising at once.
THEOREM AckAwaitedHolds == Spec => []AckAwaited
<1>1. FlushInv => AckAwaited
  BY DEF FlushInv
<1> QED BY <1>1, FlushInvHolds, PTL

\* The promise of flush(): everything enqueued before the call is taken by the
\* writer and, while stdout works, at the operating system when it returns.
THEOREM FlushIsDurable == Spec => FlushDurable
<1> DEFINE Promise ==
      \A t \in Thread :
        InFlush(t) /\ pc'[t] = "idle" =>
          /\ received' >= mark[t]
          /\ faults' = 0 => durable' >= mark[t] /\ lost' = {}
<1>1. TypeOK /\ FlushInv /\ [Next]_vars => [Promise]_vars
  <2> SUFFICES ASSUME TypeOK, FlushInv, [Next]_vars, NEW t \in Thread,
                      InFlush(t), pc'[t] = "idle"
               PROVE  /\ received' >= mark[t]
                      /\ faults' = 0 => durable' >= mark[t] /\ lost' = {}
    OBVIOUS
  <2>0. /\ pc \in [Thread -> Label] /\ received \in Nat /\ durable \in Nat
        /\ mark \in [Thread -> Nat] /\ ticket \in [Thread -> Nat]
        /\ jobs \in Seq(Job)
    BY DEF TypeOK
  <2>1. pc[t] \in {"flush", "await"} /\ pc'[t] # pc[t]
    BY DEF InFlush
  <2>2. CASE \E u \in Thread : Invoke(u) \/ Proceed(u)
    <3>1. PICK u \in Thread : Invoke(u) \/ Proceed(u)
      BY <2>2
    <3>2. u = t
      BY <2>1, <3>1, ProducerCall
    <3>3. pc[t] = "flush"
      BY <2>1, <3>1, <3>2, ProducerCall
    <3>4. flush_send(t)
      BY <3>1, <3>2, <3>3
      DEF Invoke, Proceed, submit, try_submit, Call, flush, init_sender_enter,
          init_sender_leave, get_sender, send, try_send_full, count_drop
    <3>5. Disconnected
      BY <2>0, <3>4 DEF flush_send
    <3>6. mark[t] = 0
      BY <2>0, <3>5 DEF Disconnected, FlushInv, StartUp, Tickets
    <3>7. UNCHANGED <<received, durable, lost, faults>>
      BY <3>1, <3>2, ProducerFrame DEF FlushInv
    <3> QED BY <2>0, <3>6, <3>7 DEF FlushInv, Drained
  <2>3. CASE writer_ack
    <3>1. /\ wpc = "acking" /\ Return(jobs[received].from)
          /\ UNCHANGED <<received, durable, lost, faults>>
      BY <2>3 DEF writer_ack, stdout
    <3>2. /\ received > 0 /\ received <= Len(jobs) /\ jobs[received].kind = "Flush"
          /\ faults = 0 => durable = received /\ lost = {}
      BY <3>1 DEF FlushInv, Drained
    <3>3. t = jobs[received].from
      BY <2>0, <2>1, <3>1 DEF Return
    <3>4. ticket[t] = received /\ pc[t] = "await"
      BY <2>0, <3>1, <3>2, <3>3 DEF FlushInv, AckAwaited, FirstUnanswered
    <3>5. mark[t] < received
      BY <3>4 DEF FlushInv, Tickets
    <3> QED BY <2>0, <3>1, <3>2, <3>5
  <2>4. CASE \/ Configure \/ UNCHANGED vars
            \/ writer_start \/ writer_line \/ writer_flush \/ writer_timeout
    BY <2>1, <2>4 DEF Configure, set_flush_policy, set_channel_capacity, vars,
       producers, writer_start, writer_line, writer_flush, writer_timeout
  <2> QED BY <2>2, <2>3, <2>4 DEF Next, writer_loop
<1> QED BY <1>1, FlushInvHolds, PTL DEF Spec, FlushDurable
-------------------------------------------------------------------------------
(* No line goes uncounted.  The books balance because a call enters them   *)
(* when it begins and leaves them with its line or with a dropped one.     *)

InCalls  == {t \in Thread : InSubmit(t)}
LineJobs == Lines(1, Len(jobs))

Books == IsFiniteSet(InCalls) /\ DropAccounting

LEMMA LineJobsFinite ==
  ASSUME TypeOK
  PROVE  /\ IsFiniteSet(LineJobs) /\ Cardinality(LineJobs) \in Nat
         /\ Len(jobs) + 1 \notin LineJobs
<1>1. Len(jobs) \in Nat
  BY DEF TypeOK
<1>2. IsFiniteSet(1..Len(jobs))
  BY <1>1, FS_Interval
<1>3. LineJobs \in SUBSET (1..Len(jobs))
  BY DEF LineJobs, Lines
<1>4. IsFiniteSet(LineJobs)
  BY <1>2, <1>3, FS_Subset
<1> QED BY <1>1, <1>3, <1>4, FS_CardinalityType

\* A line that goes into the channel is one line more; a flush is none.
LEMMA EnqueuedLines ==
  ASSUME TypeOK, NEW job \in Job, Enqueue(job)
  PROVE  LineJobs' = IF job.kind = "Line" THEN LineJobs \cup {Len(jobs) + 1}
                     ELSE LineJobs
<1>1. /\ jobs \in Seq(Job) /\ jobs' = Append(jobs, job) /\ Len(jobs) \in Nat
  BY DEF TypeOK, Enqueue
<1>2. /\ Len(jobs') = Len(jobs) + 1
      /\ jobs'[Len(jobs) + 1] = job
      /\ \A i \in 1..Len(jobs) : jobs'[i] = jobs[i]
  BY <1>1
<1>3. LineJobs' = {i \in 1..(Len(jobs) + 1) : jobs'[i].kind = "Line"}
  BY <1>2 DEF LineJobs, Lines
<1>4. LineJobs = {i \in 1..Len(jobs) : jobs[i].kind = "Line"}
  BY DEF LineJobs, Lines
<1> QED BY <1>1, <1>2, <1>3, <1>4

\* A step that leaves jobs, the counters and the calls alone.
LEMMA BooksFrame ==
  ASSUME Books, UNCHANGED <<jobs, counters>>, InCalls' = InCalls
  PROVE  Books'
<1>1. LineJobs' = LineJobs
  BY DEF LineJobs, Lines
<1> QED BY <1>1 DEF Books, DropAccounting, InCalls, LineJobs, counters

\* A call that begins is one more of those in progress; one that ends is one
\* less.
LEMMA CallBegins ==
  ASSUME IsFiniteSet(InCalls), NEW t \in Thread, ~InSubmit(t),
         InCalls' = InCalls \cup {t}
  PROVE  /\ IsFiniteSet(InCalls')
         /\ Cardinality(InCalls') = Cardinality(InCalls) + 1
  BY FS_AddElement DEF InCalls

LEMMA CallEnds ==
  ASSUME IsFiniteSet(InCalls), NEW t \in Thread, InSubmit(t),
         InCalls' = InCalls \ {t}
  PROVE  /\ IsFiniteSet(InCalls')
         /\ Cardinality(InCalls') = Cardinality(InCalls) - 1
  BY FS_RemoveElement DEF InCalls

LEMMA InitBooks == Init => Books
<1> SUFFICES ASSUME Init PROVE Books
  OBVIOUS
<1>1. InCalls = {}
  BY DEF Init, InCalls, InSubmit
<1>2. LineJobs = {}
  BY DEF Init, LineJobs, Lines
<1>3. IsFiniteSet(InCalls) /\ Cardinality(InCalls) = 0 /\ Cardinality(LineJobs) = 0
  BY <1>1, <1>2, FS_EmptySet
<1>4. offered = Cardinality(LineJobs) + dropped + Cardinality(InCalls)
  BY <1>3 DEF Init
<1> QED BY <1>3, <1>4 DEF Books, DropAccounting, InCalls, LineJobs

\* What a label change does to the calls in progress.
LEMMA CallsAfter ==
  ASSUME TypeOK, NEW t \in Thread, NEW label \in Label,
         pc' = [pc EXCEPT ![t] = label]
  PROVE  InCalls' = IF label \in {"get", "init", "send", "drop"}
                    THEN InCalls \cup {t} ELSE InCalls \ {t}
  BY DEF TypeOK, InCalls, InSubmit

LEMMA NextBooks == TypeOK /\ Books /\ [Next]_vars => Books'
<1> SUFFICES ASSUME TypeOK, Books, [Next]_vars PROVE Books'
  OBVIOUS
<1>0. /\ IsFiniteSet(InCalls) /\ Cardinality(InCalls) \in Nat
      /\ dropped \in Nat /\ offered \in Nat
      /\ offered = Cardinality(LineJobs) + dropped + Cardinality(InCalls)
  BY FS_CardinalityType DEF TypeOK, Books, DropAccounting, InCalls, LineJobs
<1>1. ASSUME IsFiniteSet(InCalls'),
             offered' = Cardinality(LineJobs') + dropped' + Cardinality(InCalls')
      PROVE  Books'
  BY <1>1 DEF Books, DropAccounting, InCalls, LineJobs
<1>2. CASE \E u \in Thread : Invoke(u) \/ Proceed(u)
  <2>1. PICK t \in Thread : Invoke(t) \/ Proceed(t)
    BY <1>2
  <2>2. ASSUME NEW n \in LineLens, NEW b \in BOOLEAN, Call(t, b, n) PROVE Books'
    <3>1. InCalls' = InCalls \cup {t} /\ ~InSubmit(t)
      BY <2>2, CallsAfter DEF Call, Label, InSubmit
    <3>2. LineJobs' = LineJobs /\ offered' = offered + 1 /\ dropped' = dropped
      BY <2>2 DEF Call, LineJobs, Lines
    <3>3. IsFiniteSet(InCalls') /\ Cardinality(InCalls') = Cardinality(InCalls) + 1
      BY <1>0, <3>1, CallBegins
    <3> QED BY <1>0, <1>1, <3>2, <3>3, LineJobsFinite
  <2>3. CASE flush(t)
    <3>1. InCalls' = InCalls
      <4>1. CASE UNCHANGED producers
        BY <4>1 DEF producers, InCalls, InSubmit
      <4>2. CASE pc' = [pc EXCEPT ![t] = "flush"]
        BY <2>3, <4>2, CallsAfter DEF flush, Label, InCalls, InSubmit
      <4> QED BY <2>3, <4>1, <4>2 DEF flush
    <3> QED BY <2>3, <3>1, BooksFrame DEF flush
  <2>4. CASE init_sender_enter(t) \/ init_sender_leave(t) \/ get_sender(t) \/ try_send_full(t)
    <3>1. PICK label \in {"init", "send", "drop"} : Goto(t, label)
      BY <2>4 DEF init_sender_enter, init_sender_leave, get_sender, try_send_full
    <3>2. InSubmit(t) /\ UNCHANGED <<jobs, counters>>
      BY <2>4 DEF InSubmit, init_sender_enter, init_sender_leave, get_sender, try_send_full
    <3>3. InCalls' = InCalls
      BY <3>1, <3>2, CallsAfter DEF Goto, Label, InCalls
    <3> QED BY <3>2, <3>3, BooksFrame
  <2>5. CASE send(t)
    <3>1. InSubmit(t) /\ UNCHANGED counters /\ arg[t].len \in Nat
      BY <2>5 DEF send, InSubmit, TypeOK, Arg
    <3>2. CASE Enqueue(Line(t, arg[t].len)) /\ Return(t)
      <4>1. Line(t, arg[t].len) \in Job /\ Line(t, arg[t].len).kind = "Line"
        BY <3>1 DEF Line, Job
      <4>2. LineJobs' = LineJobs \cup {Len(jobs) + 1}
        BY <3>2, <4>1, EnqueuedLines
      <4>3. InCalls' = InCalls \ {t}
        BY <3>2, CallsAfter DEF Return, Label
      <4>4. Cardinality(LineJobs') = Cardinality(LineJobs) + 1
        BY <4>2, LineJobsFinite, FS_AddElement
      <4>5. IsFiniteSet(InCalls') /\ Cardinality(InCalls') = Cardinality(InCalls) - 1
        BY <1>0, <3>1, <4>3, CallEnds
      <4> QED BY <1>0, <1>1, <3>1, <4>4, <4>5, LineJobsFinite DEF counters
    <3>3. CASE Disconnected /\ Goto(t, "drop")
      <4>1. InCalls' = InCalls
        BY <3>1, <3>3, CallsAfter DEF Goto, Label, InCalls
      <4> QED BY <3>1, <3>3, <4>1, BooksFrame DEF Disconnected
    <3> QED BY <2>5, <3>2, <3>3 DEF send
  <2>6. CASE count_drop(t)
    <3>1. InSubmit(t) /\ dropped' = dropped + 1 /\ UNCHANGED <<jobs, offered>>
      BY <2>6 DEF count_drop, InSubmit
    <3>2. InCalls' = InCalls \ {t}
      BY <2>6, CallsAfter DEF count_drop, Return, Label
    <3>3. LineJobs' = LineJobs
      BY <3>1 DEF LineJobs, Lines
    <3>4. IsFiniteSet(InCalls') /\ Cardinality(InCalls') = Cardinality(InCalls) - 1
      BY <1>0, <3>1, <3>2, CallEnds
    <3> QED BY <1>0, <1>1, <3>1, <3>3, <3>4, LineJobsFinite
  <2>7. CASE flush_send(t)
    <3>1. ~InSubmit(t) /\ UNCHANGED counters
      BY <2>7 DEF flush_send, InSubmit
    <3>2. InCalls' = InCalls
      <4>1. PICK label \in {"await", "idle"} : pc' = [pc EXCEPT ![t] = label]
        BY <2>7 DEF flush_send, Return
      <4> QED BY <3>1, <4>1, CallsAfter DEF Label, InCalls
    <3>3. LineJobs' = LineJobs
      <4>1. CASE Enqueue(Flush(t))
        <5>1. Flush(t) \in Job /\ Flush(t).kind = "Flush"
          BY DEF Flush, Job
        <5> QED BY <4>1, <5>1, EnqueuedLines
      <4>2. CASE Disconnected
        BY <4>2 DEF Disconnected, LineJobs, Lines
      <4> QED BY <2>7, <4>1, <4>2 DEF flush_send
    <3> QED BY <1>0, <1>1, <3>1, <3>2, <3>3 DEF counters
  <2> QED BY <2>1, <2>2, <2>3, <2>4, <2>5, <2>6, <2>7
          DEF Invoke, Proceed, submit, try_submit
<1>3. CASE writer_ack
  <2>1. /\ wpc = "acking" /\ pc[jobs[received].from] = "await"
        /\ Return(jobs[received].from) /\ UNCHANGED <<jobs, counters>>
    BY <1>3 DEF writer_ack
  <2>2. InCalls' = InCalls
    BY <2>1 DEF Return, TypeOK, InCalls, InSubmit
  <2> QED BY <2>1, <2>2, BooksFrame
<1>4. CASE \/ Configure \/ UNCHANGED vars
           \/ writer_start \/ writer_line \/ writer_flush \/ writer_timeout
  <2>1. UNCHANGED <<jobs, counters, pc>>
    BY <1>4 DEF Configure, set_flush_policy, set_channel_capacity, vars,
       producers, writer_start, writer_line, writer_flush, writer_timeout
  <2>2. InCalls' = InCalls
    BY <2>1 DEF InCalls, InSubmit
  <2> QED BY <2>1, <2>2, BooksFrame
<1> QED BY <1>2, <1>3, <1>4 DEF Next, writer_loop

\* Every line offered is enqueued, counted as dropped, or still in its call,
\* for any number of producers: dropped_count() of the source misses none.
THEOREM DropsAreCounted == Spec => []DropAccounting
<1>1. Books => DropAccounting
  BY DEF Books
<1> QED BY <1>1, InitBooks, NextBooks, TypeCorrect, PTL DEF Spec
-------------------------------------------------------------------------------
(* What a kill would lose.  Sums of line lengths are the SumOver of        *)
(* SequenceLemmas.                                                         *)

lens == [i \in 1..Len(jobs) |-> jobs[i].len]

LEMMA LensTypes ==
  ASSUME TypeOK
  PROVE  \A i \in 1..Len(jobs) : lens[i] \in Nat /\ lens[i] = jobs[i].len
<1>1. \A i \in 1..Len(jobs) : jobs[i] \in Job
  BY DEF TypeOK
<1> QED BY <1>1 DEF lens, Job

\* The recursion of BytesOf, which reads the lengths in jobs, is that of lens.
LEMMA BytesAreSum ==
  ASSUME TypeOK, NEW S \in SUBSET (1..Len(jobs)), IsFiniteSet(S)
  PROVE  BytesOf(S) = SumOver(lens, S)
<1> DEFINE Bytes(g) == g = [s \in SUBSET S |->
                              IF s = {} THEN 0
                              ELSE jobs[Chosen(s)].len + g[s \ {Chosen(s)}]]
<1>1. BytesOf(S) = (CHOOSE g : Bytes(g))[S]
  BY DEF BytesOf, MapThenSumSet, MapThenFoldSet, Chosen
<1>2. \A s \in SUBSET S : s # {} => jobs[Chosen(s)].len = lens[Chosen(s)]
  <2>1. \A s \in SUBSET S : s # {} => Chosen(s) \in s
    BY DEF Chosen
  <2> QED BY <2>1 DEF lens
<1>3. \A g : [s \in SUBSET S |-> IF s = {} THEN 0
                              ELSE jobs[Chosen(s)].len + g[s \ {Chosen(s)}]]
             = [s \in SUBSET S |-> IF s = {} THEN 0
                              ELSE lens[Chosen(s)] + g[s \ {Chosen(s)}]]
  BY <1>2
<1>4. \A g : Bytes(g) <=> SumEquation(g, lens, S)
  BY <1>3 DEF SumEquation
<1> HIDE DEF Bytes
<1>5. \E g : Bytes(g)
  BY <1>4, SumExists
<1>6. PICK g : Bytes(g) /\ BytesOf(S) = g[S]
  BY <1>1, <1>5
<1> QED BY <1>4, <1>6, SumsAgree

\* What an open batch is: below the thresholds of the policy, and empty until
\* the writer has read the policy.
Batch ==
  /\ wpc \in {"none", "starting"} =>
       policy = None /\ batch_bytes = 0 /\ batch_lines = 0
  /\ wpc \in {"loop", "acking"} =>
       /\ policy \in FlushPolicy
       /\ batch_lines = 0 \/ batch_lines < policy.max_lines
       /\ policy.max_bytes > 0 => batch_bytes < policy.max_bytes

WindowInv == Batch /\ TimerArmed /\ BytesOf(Buffered) <= BufCap

LEMMA BufferedFinite ==
  ASSUME TypeOK, FlushInv
  PROVE  /\ Buffered \in SUBSET (1..Len(jobs)) /\ IsFiniteSet(Buffered)
         /\ Cardinality(Buffered) \in Nat
         /\ BytesOf(Buffered) = SumOver(lens, Buffered) /\ BytesOf(Buffered) \in Nat
<1>1. /\ received \in Nat /\ durable \in Nat /\ Len(jobs) \in Nat
      /\ received <= Len(jobs)
  BY DEF TypeOK, FlushInv, Drained
<1>2. Buffered \in SUBSET (1..Len(jobs))
  BY <1>1 DEF Buffered, Lines
<1>3. IsFiniteSet(Buffered)
  <2>1. IsFiniteSet(1..Len(jobs))
    BY <1>1, FS_Interval
  <2> QED BY <1>2, <2>1, FS_Subset
<1>4. BytesOf(Buffered) = SumOver(lens, Buffered)
  BY <1>2, <1>3, BytesAreSum
<1>5. SumOver(lens, Buffered) \in Nat
  BY <1>2, <1>3, SumType, LensTypes
<1>6. Cardinality(Buffered) \in Nat
  BY <1>3, FS_CardinalityType
<1> QED BY <1>2, <1>3, <1>4, <1>5, <1>6

\* A buffer with nothing in it.
LEMMA NothingBuffered ==
  ASSUME TypeOK, FlushInv, Buffered = {}
  PROVE  Cardinality(Buffered) = 0 /\ BytesOf(Buffered) = 0
  BY BufferedFinite, SumEmpty, FS_EmptySet

\* The window as the property states it.
LEMMA WindowInvWindow == TypeOK /\ FlushInv /\ WindowInv => LossWindow
<1> SUFFICES ASSUME TypeOK, FlushInv, WindowInv PROVE LossWindow
  OBVIOUS
<1>1. BytesOf(Buffered) \in Nat /\ Cardinality(Buffered) \in Nat
  BY BufferedFinite
<1> SUFFICES ASSUME faults = 0, policy # None
             PROVE  /\ Cardinality(Buffered) < Max({policy.max_lines, 1})
                    /\ policy.max_bytes > 0 => BytesOf(Buffered) < policy.max_bytes
  BY DEF LossWindow, WindowInv
<1>2. wpc \in {"loop", "acking"}
  BY DEF TypeOK, WindowInv, Batch
<1>3. /\ policy \in FlushPolicy /\ batch_lines \in Nat /\ batch_bytes \in Nat
      /\ batch_lines = 0 \/ batch_lines < policy.max_lines
      /\ policy.max_bytes > 0 => batch_bytes < policy.max_bytes
  BY <1>2 DEF TypeOK, WindowInv, Batch
<1>4. policy.max_lines \in Nat /\ policy.max_bytes \in Nat
  BY <1>3 DEF FlushPolicy
<1>5. Max({policy.max_lines, 1}) >= policy.max_lines /\ Max({policy.max_lines, 1}) >= 1
  <2> DEFINE m == IF policy.max_lines >= 1 THEN policy.max_lines ELSE 1
  <2>1. m \in {policy.max_lines, 1} /\ \A y \in {policy.max_lines, 1} : m >= y
    BY <1>4
  <2> QED BY <1>4, <2>1 DEF Max
<1>6. Max({policy.max_lines, 1}) \in Nat
  <2> DEFINE m == IF policy.max_lines >= 1 THEN policy.max_lines ELSE 1
  <2>1. m \in {policy.max_lines, 1} /\ \A y \in {policy.max_lines, 1} : m >= y
    BY <1>4
  <2> QED BY <1>4, <2>1 DEF Max
<1>7. Cardinality(Buffered) <= batch_lines /\ BytesOf(Buffered) <= batch_bytes
  BY DEF WindowInv, TimerArmed
<1> QED BY <1>1, <1>3, <1>4, <1>5, <1>6, <1>7

\* What the lemmas below use of the types and of the history.
BufferSound ==
  /\ Buffered \in SUBSET (1..Len(jobs)) /\ IsFiniteSet(Buffered)
  /\ Cardinality(Buffered) \in Nat
  /\ BytesOf(Buffered) = SumOver(lens, Buffered) /\ BytesOf(Buffered) \in Nat
  /\ \A i \in 1..Len(jobs) : lens[i] \in Nat /\ lens[i] = jobs[i].len

LEMMA BufferIsSound == TypeOK /\ FlushInv => BufferSound
<1> SUFFICES ASSUME TypeOK, FlushInv PROVE BufferSound
  OBVIOUS
<1> QED BY BufferedFinite, LensTypes DEF BufferSound

LEMMA BufferStaysSound == TypeOK' /\ FlushInv' => BufferSound'
  BY BufferIsSound, PTL

\* What the buffer holds is bounded by any set of jobs it lies within.
LEMMA BufferWithin ==
  ASSUME BufferSound, BufferSound',
         \A i \in 1..Len(jobs) : i \in 1..Len(jobs') /\ jobs'[i] = jobs[i],
         NEW S \in SUBSET (1..Len(jobs)), IsFiniteSet(S), Buffered' \subseteq S
  PROVE  /\ BytesOf(Buffered)' <= SumOver(lens, S)
         /\ Cardinality(Buffered)' <= Cardinality(S)
         /\ BytesOf(Buffered)' \in Nat /\ SumOver(lens, S) \in Nat
         /\ Cardinality(Buffered)' \in Nat /\ Cardinality(S) \in Nat
<1>1. \A i \in Buffered' : lens'[i] = lens[i]
  BY DEF BufferSound
<1>2. SumOver(lens', Buffered') = SumOver(lens, Buffered')
  BY <1>1, SumSame DEF BufferSound
<1>3. \A i \in S : lens[i] \in Nat
  BY DEF BufferSound
<1>4. SumOver(lens, Buffered') <= SumOver(lens, S) /\ SumOver(lens, S) \in Nat
  BY <1>3, SumMonotone, SumType
<1>5. Cardinality(Buffered') <= Cardinality(S) /\ Cardinality(S) \in Nat
  BY FS_Subset, FS_CardinalityType
<1> QED BY <1>2, <1>4, <1>5 DEF BufferSound

\* Nothing is added, and what is there may leave.
LEMMA BufferShrinks ==
  ASSUME BufferSound, BufferSound',
         \A i \in 1..Len(jobs) : i \in 1..Len(jobs') /\ jobs'[i] = jobs[i],
         Buffered' \subseteq Buffered
  PROVE  /\ BytesOf(Buffered)' <= BytesOf(Buffered)
         /\ Cardinality(Buffered)' <= Cardinality(Buffered)
  BY BufferWithin DEF BufferSound

\* Nothing is left.
LEMMA BufferEmpties ==
  ASSUME BufferSound', Buffered' = {}
  PROVE  BytesOf(Buffered)' = 0 /\ Cardinality(Buffered)' = 0
<1>1. SumOver(lens', {}) = 0
  BY SumEmpty
<1> QED BY <1>1, FS_EmptySet DEF BufferSound

\* One line is added.
LEMMA BufferGrows ==
  ASSUME BufferSound, BufferSound', UNCHANGED jobs, NEW j \in 1..Len(jobs), j \notin Buffered,
         Buffered' \subseteq Buffered \cup {j}
  PROVE  /\ BytesOf(Buffered)' <= BytesOf(Buffered) + jobs[j].len
         /\ Cardinality(Buffered)' <= Cardinality(Buffered) + 1
<1> DEFINE S == Buffered \cup {j}
<1>1. S \in SUBSET (1..Len(jobs)) /\ IsFiniteSet(S)
  BY FS_AddElement DEF BufferSound
<1>2. SumOver(lens, S) = SumOver(lens, Buffered) + jobs[j].len
  <2>1. \A i \in Buffered : lens[i] \in Nat
    BY DEF BufferSound
  <2>2. lens[j] \in Nat /\ lens[j] = jobs[j].len /\ IsFiniteSet(Buffered)
    BY DEF BufferSound
  <2>3. SumOver(lens, S) = SumOver(lens, Buffered) + lens[j]
    BY <2>1, <2>2, SumWith
  <2> QED BY <2>2, <2>3
<1>3. Cardinality(S) = Cardinality(Buffered) + 1
  BY FS_AddElement DEF BufferSound
<1>4. \A i \in 1..Len(jobs) : i \in 1..Len(jobs') /\ jobs'[i] = jobs[i]
  OBVIOUS
<1> HIDE DEF S
<1>5. Buffered' \subseteq S
  BY DEF S
<1> QED BY <1>1, <1>2, <1>3, <1>4, <1>5, BufferWithin DEF BufferSound

\* One line is all that is there.
LEMMA BufferIsLine ==
  ASSUME BufferSound, BufferSound', UNCHANGED jobs, NEW j \in 1..Len(jobs),
         Buffered' \subseteq {j}
  PROVE  BytesOf(Buffered)' <= jobs[j].len /\ Cardinality(Buffered)' <= 1
<1>1. SumOver(lens, {j}) = jobs[j].len
  <2>1. {} \cup {j} = {j} /\ lens[j] = jobs[j].len /\ lens[j] \in Nat
    BY DEF BufferSound
  <2>2. SumOver(lens, {} \cup {j}) = SumOver(lens, {}) + lens[j]
    BY <2>1, SumWith, FS_EmptySet
  <2> QED BY <2>1, <2>2, SumEmpty
<1>2. IsFiniteSet({j}) /\ Cardinality({j}) = 1
  BY FS_Singleton
<1>3. \A i \in 1..Len(jobs) : i \in 1..Len(jobs') /\ jobs'[i] = jobs[i]
  OBVIOUS
<1> QED BY <1>1, <1>2, <1>3, BufferWithin

LEMMA InitWindow == Init => WindowInv
<1> SUFFICES ASSUME Init PROVE WindowInv
  OBVIOUS
<1>1. TypeOK /\ FlushInv
  BY InitTypeOK, InitFlushInv
<1>2. Buffered = {}
  BY DEF Init, Buffered, Lines
<1>3. BytesOf(Buffered) = 0 /\ Cardinality(Buffered) = 0
  BY <1>1, <1>2, NothingBuffered
<1> QED BY <1>3, ConstantsAssumption DEF Init, WindowInv, Batch, TimerArmed

\* A step that neither takes a job nor flushes.
LEMMA WindowFrame ==
  ASSUME TypeOK, FlushInv, WindowInv, BufferSound, BufferSound',
         \A i \in 1..Len(jobs) : i \in 1..Len(jobs') /\ jobs'[i] = jobs[i],
         UNCHANGED <<received, batch, stdout>>, Batch'
  PROVE  WindowInv'
<1>1. received \in Nat /\ durable \in Nat /\ received <= Len(jobs) /\ Len(jobs) \in Nat
  BY DEF TypeOK, FlushInv, Drained
<1>2. Buffered' = Buffered
  BY <1>1 DEF Buffered, Lines, stdout
<1>3. /\ BytesOf(Buffered)' <= BytesOf(Buffered)
      /\ Cardinality(Buffered)' <= Cardinality(Buffered)
  BY <1>2, BufferShrinks
<1>4. /\ BytesOf(Buffered) \in Nat /\ BytesOf(Buffered)' \in Nat
      /\ Cardinality(Buffered) \in Nat /\ Cardinality(Buffered)' \in Nat
      /\ batch_lines \in Nat /\ batch_bytes \in Nat /\ BufCap \in Nat
  BY ConstantsAssumption DEF BufferSound, TypeOK
<1>5. BytesOf(Buffered)' <= BufCap
  BY <1>3, <1>4 DEF WindowInv
<1>6. TimerArmed'
  BY <1>3, <1>4 DEF WindowInv, TimerArmed, stdout, batch
<1> QED BY <1>5, <1>6 DEF WindowInv

\* flush() of the BufWriter, successful or not, from d on.
LEMMA WindowFlush ==
  ASSUME TypeOK, WindowInv, BufferSound, BufferSound', UNCHANGED <<jobs, policy>>,
         wpc \in {"loop", "acking"}, wpc' \in {"loop", "acking"},
         NEW d \in Nat, NEW bytes \in Nat, bytes <= BufCap,
         FlushAndReset(d, received'), received' \in Nat,
         \* what a failed flush may leave
         \A e \in d..received' : durable' = e => BytesOf(Buffered)' <= bytes
  PROVE  WindowInv'
<1>1. Batch'
  <2>1. batch_bytes' = 0 /\ batch_lines' = 0 /\ policy' = policy
    BY DEF FlushAndReset
  <2>2. policy \in FlushPolicy
    BY DEF WindowInv, Batch
  <2> QED BY <2>1, <2>2 DEF Batch, FlushPolicy
<1>2. CASE durable' = received'
  <2>1. Buffered' = {}
    BY <1>2 DEF Buffered, Lines
  <2>2. BytesOf(Buffered)' = 0 /\ Cardinality(Buffered)' = 0
    BY <2>1, BufferEmpties
  <2>3. batch_bytes' = 0 /\ batch_lines' = 0
    BY DEF FlushAndReset
  <2> QED BY <1>1, <2>2, <2>3, ConstantsAssumption DEF WindowInv, TimerArmed
<1>3. CASE faults' # 0 /\ durable' \in d..received'
  <2>1. BytesOf(Buffered)' <= bytes
    BY <1>3
  <2>2. BytesOf(Buffered)' <= BufCap
    BY <2>1, ConstantsAssumption DEF BufferSound
  <2> QED BY <1>1, <1>3, <2>2 DEF WindowInv, TimerArmed
<1> QED BY <1>2, <1>3 DEF FlushAndReset, TypeOK

\* A line that was written and not yet flushed.
LEMMA AfterWrite ==
  ASSUME TypeOK, FlushInv, WindowInv, BufferSound, BufferSound', UNCHANGED <<jobs, lost>>,
         received < Len(jobs), received' = received + 1, durable' \in Nat,
         durable' >= DurableAfterWrite(jobs[received + 1].len)
  PROVE  /\ BytesOf(Buffered)' <= BufCap
         /\ BytesOf(Buffered)' <= BytesOf(Buffered) + jobs[received + 1].len
         /\ Cardinality(Buffered)' <= Cardinality(Buffered) + 1
<1> DEFINE j == received + 1
           n == jobs[j].len
<1>1. /\ received \in Nat /\ durable \in Nat /\ durable <= received
      /\ j \in 1..Len(jobs) /\ BufCap \in Nat /\ BytesOf(Buffered) <= BufCap
      /\ BytesOf(Buffered) \in Nat /\ BytesOf(Buffered)' \in Nat
  BY ConstantsAssumption DEF TypeOK, FlushInv, Drained, WindowInv, BufferSound
<1>2. n \in Nat
  BY <1>1 DEF BufferSound
<1>3. j \notin Buffered
  BY <1>1 DEF Buffered, Lines
<1> HIDE DEF n
<1>4. DurableAfterWrite(n) >= durable
  BY <1>1 DEF DurableAfterWrite
<1>5. Buffered' \subseteq Buffered \cup {j}
  <2>1. durable' >= durable
    <3>1. durable' >= DurableAfterWrite(n) /\ DurableAfterWrite(n) \in Nat
      BY <1>1 DEF DurableAfterWrite, n
    <3> QED BY <1>1, <1>4, <3>1
  <2> QED BY <1>1, <2>1 DEF Buffered, Lines
<1>6. /\ BytesOf(Buffered)' <= BytesOf(Buffered) + n
      /\ Cardinality(Buffered)' <= Cardinality(Buffered) + 1
  BY <1>1, <1>3, <1>5, BufferGrows DEF n
<1>7. BytesOf(Buffered)' <= BufCap
  <2>1. CASE Bypasses(n)
    <3>1. Buffered' = {}
      BY <1>1, <2>1 DEF DurableAfterWrite, Buffered, Lines, n
    <3> QED BY <1>1, <3>1, BufferEmpties
  <2>2. CASE ~Bypasses(n) /\ Spills(n)
    <3>1. Buffered' \subseteq {j}
      BY <1>1, <2>2 DEF DurableAfterWrite, Buffered, Lines, n
    <3>2. BytesOf(Buffered)' <= n
      BY <1>1, <3>1, BufferIsLine DEF n
    <3>3. n < BufCap
      BY <1>1, <1>2, <2>2 DEF Bypasses
    <3> QED BY <1>1, <1>2, <3>2, <3>3
  <2>3. CASE ~Spills(n)
    <3>1. n <= BufCap - BytesOf(Buffered)
      BY <1>1, <1>2, <2>3 DEF Spills
    <3> QED BY <1>1, <1>2, <1>6, <3>1
  <2> QED BY <2>1, <2>2, <2>3
<1> QED BY <1>6, <1>7 DEF n

\* The strengthening is inductive.
LEMMA NextWindow ==
  ASSUME TypeOK, FlushInv, WindowInv, BufferSound,
         TypeOK', FlushInv', BufferSound', [Next]_vars
  PROVE  WindowInv'
<1>0. /\ received \in Nat /\ durable \in Nat /\ Len(jobs) \in Nat
      /\ durable <= received /\ received <= Len(jobs)
      /\ received' \in Nat /\ durable' \in Nat
      /\ batch_lines \in Nat /\ batch_bytes \in Nat /\ BufCap \in Nat
  BY ConstantsAssumption DEF TypeOK, FlushInv, Drained
<1>1. CASE UNCHANGED <<jobs, wpc, policy, received, batch, stdout>>
  <2>1. Batch'
    BY <1>1 DEF WindowInv, Batch, batch
  <2> QED BY <1>1, <2>1, WindowFrame
<1>2. ASSUME NEW t \in Thread, Invoke(t) \/ Proceed(t) PROVE WindowInv'
  <2>1. UNCHANGED <<policy, received, batch, stdout>>
    BY <1>2 DEF Invoke, Proceed, submit, try_submit, Call, flush, init_sender_enter,
       init_sender_leave, get_sender, send, try_send_full, count_drop, flush_send,
       writer, startup
  <2>2. \A i \in 1..Len(jobs) : i \in 1..Len(jobs') /\ jobs'[i] = jobs[i]
    BY <1>2, ProducerFrame, EnqueueJobs DEF FlushInv
  <2>3. wpc' = wpc \/ (wpc = "none" /\ wpc' = "starting")
    <3>1. CASE init_sender_leave(t)
      <4>1. pc[t] = "init"
        BY <3>1 DEF init_sender_leave
      <4>2. wpc = "none"
        BY <4>1 DEF FlushInv, StartUp
      <4> QED BY <3>1, <4>2 DEF init_sender_leave
    <3> QED BY <1>2, <3>1 DEF Invoke, Proceed, submit, try_submit, Call, flush,
          init_sender_enter, get_sender, send, try_send_full, count_drop, flush_send,
          writer, startup
  <2>4. Batch'
    BY <2>1, <2>3 DEF WindowInv, Batch, batch
  <2> QED BY <2>1, <2>2, <2>4, WindowFrame
<1>3. CASE writer_start
  <2>1. /\ UNCHANGED <<jobs, received, batch, stdout>> /\ wpc = "starting" /\ wpc' = "loop"
        /\ policy' \in FlushPolicy
    BY <1>3, CellTypes DEF writer_start
  <2>2. Batch'
    BY <2>1 DEF WindowInv, Batch, batch
  <2> QED BY <2>1, <2>2, WindowFrame
<1>4. CASE writer_line
  <2> DEFINE n == jobs[received + 1].len
             d == DurableAfterWrite(n)
  <2>1. /\ wpc = "loop" /\ wpc' = "loop" /\ UNCHANGED <<jobs, policy>>
        /\ received < Len(jobs) /\ received' = received + 1
        /\ write_failed(n) \/ write_done(d, batch_bytes + n, batch_lines + 1)
    BY <1>4 DEF writer_line, Recv
  <2>2. n \in Nat /\ d \in Nat
    <3>1. received + 1 \in 1..Len(jobs)
      BY <1>0, <2>1
    <3> QED BY <1>0, <3>1 DEF BufferSound, DurableAfterWrite
  <2>3. policy \in FlushPolicy
    BY <2>1 DEF WindowInv, Batch
  <2>4. ASSUME lost' = lost, durable' >= d
        PROVE  /\ BytesOf(Buffered)' <= BufCap
               /\ BytesOf(Buffered)' <= BytesOf(Buffered) + n
               /\ Cardinality(Buffered)' <= Cardinality(Buffered) + 1
    BY <1>0, <2>1, <2>4, AfterWrite
  <2> HIDE DEF n, d
  <2>5. CASE write_failed(n)
    <3>1. /\ UNCHANGED batch /\ faults' = faults + 1 /\ durable' \in durable..received
          /\ lost' = lost \cup {received + 1}
      BY <2>5 DEF write_failed
    <3>2. Batch'
      BY <2>1, <3>1 DEF WindowInv, Batch, batch
    <3>3. Buffered' \subseteq Buffered
      BY <1>0, <2>1, <3>1 DEF Buffered, Lines
    <3>4. BytesOf(Buffered)' <= BytesOf(Buffered)
      BY <2>1, <3>3, BufferShrinks
    <3>5. BytesOf(Buffered)' <= BufCap
      BY <1>0, <3>4 DEF WindowInv, BufferSound
    <3>6. TimerArmed'
      BY <3>1 DEF TimerArmed, TypeOK
    <3> QED BY <3>2, <3>5, <3>6 DEF WindowInv
  <2>6. CASE FlushAndReset(d, received + 1)
    <3>1. lost' = lost
      BY <2>6 DEF FlushAndReset
    <3>2. \A e \in d..received' : durable' = e => BytesOf(Buffered)' <= BufCap
      BY <2>2, <2>4, <3>1
    <3> QED BY <1>0, <2>1, <2>2, <2>6, <3>2, WindowFlush
  <2>7. CASE /\ ~(policy.max_lines <= 1 \/ bytes_hit(batch_bytes + n)
                    \/ lines_hit(batch_lines + 1))
             /\ KeepBatch(batch_bytes + n, batch_lines + 1, d)
    <3>1. /\ durable' = d /\ lost' = lost /\ faults' = faults
          /\ batch_bytes' = batch_bytes + n /\ batch_lines' = batch_lines + 1
      BY <2>7 DEF KeepBatch
    <3>2. /\ BytesOf(Buffered)' <= BufCap
          /\ BytesOf(Buffered)' <= BytesOf(Buffered) + n
          /\ Cardinality(Buffered)' <= Cardinality(Buffered) + 1
      BY <2>2, <2>4, <3>1
    <3>3. policy.max_lines \in Nat /\ policy.max_bytes \in Nat
      BY <2>3 DEF FlushPolicy
    <3>4. /\ batch_lines' < policy.max_lines
          /\ policy.max_bytes > 0 => batch_bytes' < policy.max_bytes
      BY <1>0, <2>2, <2>7, <3>1, <3>3 DEF bytes_hit, lines_hit
    <3>5. Batch'
      BY <2>1, <2>3, <3>4 DEF Batch
    <3>6. TimerArmed'
      BY <1>0, <2>2, <3>1, <3>2 DEF WindowInv, TimerArmed, BufferSound
    <3> QED BY <3>2, <3>5, <3>6 DEF WindowInv
  <2> QED BY <2>1, <2>5, <2>6, <2>7 DEF write_done
<1>5. CASE writer_flush
  <2>1. /\ wpc = "loop" /\ wpc' = "acking" /\ UNCHANGED <<jobs, policy>>
        /\ received < Len(jobs) /\ received' = received + 1
        /\ jobs[received + 1].kind = "Flush" /\ FlushAndReset(durable, received + 1)
    BY <1>5 DEF writer_flush, Recv
  <2>2. ASSUME NEW e \in durable..received', durable' = e
        PROVE  BytesOf(Buffered)' <= BytesOf(Buffered)
    <3>1. Buffered' \subseteq Buffered
      BY <1>0, <2>1, <2>2 DEF FlushAndReset, Buffered, Lines
    <3> QED BY <2>1, <3>1, BufferShrinks
  <2>3. BytesOf(Buffered) \in Nat /\ BytesOf(Buffered) <= BufCap
    BY DEF WindowInv, BufferSound
  <2> QED BY <1>0, <2>1, <2>2, <2>3, WindowFlush
<1>6. CASE writer_ack
  <2>1. /\ UNCHANGED <<jobs, policy, received, batch, stdout>>
        /\ wpc = "acking" /\ wpc' = "loop"
    BY <1>6 DEF writer_ack
  <2>2. Batch'
    BY <2>1 DEF WindowInv, Batch, batch
  <2> QED BY <2>1, <2>2, WindowFrame
<1>7. CASE writer_timeout
  <2>1. /\ UNCHANGED <<jobs, wpc, policy, received>> /\ wpc = "loop"
        /\ FlushAndReset(durable, received) \/ UNCHANGED <<stdout, batch>>
    BY <1>7 DEF writer_timeout
  <2>2. CASE FlushAndReset(durable, received)
    <3>1. ASSUME NEW e \in durable..received', durable' = e
          PROVE  BytesOf(Buffered)' <= BytesOf(Buffered)
      <4>1. Buffered' \subseteq Buffered
        BY <1>0, <2>1, <2>2, <3>1 DEF FlushAndReset, Buffered, Lines
      <4> QED BY <2>1, <4>1, BufferShrinks
    <3>2. BytesOf(Buffered) \in Nat /\ BytesOf(Buffered) <= BufCap
      BY DEF WindowInv, BufferSound
    <3> QED BY <1>0, <2>1, <2>2, <3>1, <3>2, WindowFlush
  <2> QED BY <1>1, <2>1, <2>2
<1>8. CASE Configure \/ UNCHANGED vars
  BY <1>1, <1>8 DEF Configure, set_flush_policy, set_channel_capacity, vars, writer
<1> QED BY <1>2, <1>3, <1>4, <1>5, <1>6, <1>7, <1>8 DEF Next, writer_loop

LEMMA WindowHolds == Spec => [](TypeOK /\ FlushInv /\ WindowInv)
<1>1. TypeOK /\ FlushInv /\ WindowInv /\ [Next]_vars => WindowInv'
  BY NextTypeOK, NextStartUp, NextDrained, NextTickets, BufferIsSound, BufferStaysSound, NextWindow
     DEF FlushInv
<1> QED BY <1>1, FlushInvHolds, InitWindow, PTL DEF Spec

\* A kill loses less than a batch: at no moment does the buffer hold more than
\* its capacity nor, while stdout works, as many lines or bytes as the policy
\* the writer runs with allows.
THEOREM LossIsBounded == Spec => []LossWindow
  BY WindowInvWindow, WindowHolds, PTL

\* A line the timer would not see is never in the buffer: what is buffered is
\* covered by the counters the timer of the writer looks at.
THEOREM TimerIsArmed == Spec => []TimerArmed
<1>1. WindowInv => TimerArmed
  BY DEF WindowInv
<1> QED BY <1>1, WindowHolds, PTL
-------------------------------------------------------------------------------
(* The writer implements LineLog.                                          *)

\* Counting the lines of a prefix.
LEMMA LinesFinite ==
  ASSUME NEW k \in Nat
  PROVE  /\ IsFiniteSet(Lines(1, k)) /\ LinesUpTo(k) \in Nat
         /\ Lines(1, 0) = {} /\ LinesUpTo(0) = 0
<1>1. IsFiniteSet(Lines(1, k))
  <2>1. Lines(1, k) \in SUBSET (1..k)
    BY DEF Lines
  <2> QED BY <2>1, FS_Interval, FS_Subset
<1>2. Lines(1, 0) = {}
  BY DEF Lines
<1> QED BY <1>1, <1>2, FS_CardinalityType, FS_EmptySet DEF LinesUpTo

LEMMA LinesStep ==
  ASSUME NEW k \in Nat
  PROVE  LinesUpTo(k + 1) = LinesUpTo(k) + (IF jobs[k + 1].kind = "Line" THEN 1 ELSE 0)
<1>1. Lines(1, k + 1) = IF jobs[k + 1].kind = "Line" THEN Lines(1, k) \cup {k + 1}
                        ELSE Lines(1, k)
  BY DEF Lines
<1>2. k + 1 \notin Lines(1, k)
  BY DEF Lines
<1> QED BY <1>1, <1>2, LinesFinite, FS_AddElement DEF LinesUpTo

LEMMA LinesMonotone ==
  ASSUME NEW k \in Nat, NEW m \in Nat, k <= m
  PROVE  LinesUpTo(k) <= LinesUpTo(m)
<1>1. Lines(1, k) \in SUBSET Lines(1, m)
  BY DEF Lines
<1> QED BY <1>1, LinesFinite, FS_Subset DEF LinesUpTo

\* Every number up to the count is that of a line.
LEMMA NthExists ==
  ASSUME NEW n \in Nat, NEW k \in 1..LinesUpTo(n)
  PROVE  \E i \in Lines(1, n) : LinesUpTo(i) = k
<1> DEFINE Reached == {i \in Nat : LinesUpTo(i) >= k}
<1>1. n \in Reached /\ Reached \in SUBSET Nat /\ k \in Nat \ {0}
  BY LinesFinite
<1>2. PICK i \in Reached : \A j \in Reached : i <= j
  BY <1>1, LeastOf
<1>3. i \in Nat /\ i # 0 /\ i <= n /\ LinesUpTo(i) >= k
  BY <1>1, <1>2, LinesFinite
<1>4. i - 1 \in Nat /\ ~(LinesUpTo(i - 1) >= k)
  BY <1>2, <1>3
<1>5. LinesUpTo(i) = LinesUpTo(i - 1) + (IF jobs[i].kind = "Line" THEN 1 ELSE 0)
  BY <1>3, <1>4, LinesStep
<1>6. LinesUpTo(i) = k /\ jobs[i].kind = "Line"
  BY <1>1, <1>3, <1>4, <1>5, LinesFinite
<1> QED BY <1>3, <1>6 DEF Lines

\* The log, as LineLog has it.
log == [k \in 1..LinesUpTo(Len(jobs)) |-> jobs[NthLine(k)].from]

LEMMA NthLines ==
  ASSUME TypeOK
  PROVE  /\ Len(jobs) \in Nat /\ LinesUpTo(Len(jobs)) \in Nat
         /\ \A k \in 1..LinesUpTo(Len(jobs)) :
              NthLine(k) \in 1..Len(jobs) /\ jobs[NthLine(k)].from \in Thread
         /\ log \in Seq(Thread) /\ Len(log) = LinesUpTo(Len(jobs))
<1>1. Len(jobs) \in Nat /\ LinesUpTo(Len(jobs)) \in Nat
  BY LinesFinite DEF TypeOK
<1>2. ASSUME NEW k \in 1..LinesUpTo(Len(jobs))
      PROVE  NthLine(k) \in 1..Len(jobs) /\ jobs[NthLine(k)].from \in Thread
  <2>1. NthLine(k) \in Lines(1, Len(jobs))
    BY <1>1, NthExists DEF NthLine
  <2>2. NthLine(k) \in 1..Len(jobs)
    BY <2>1 DEF Lines
  <2>3. jobs[NthLine(k)] \in Job
    BY <2>2 DEF TypeOK
  <2> QED BY <2>2, <2>3 DEF Job
<1>3. log \in Seq(Thread) /\ Len(log) = LinesUpTo(Len(jobs))
  BY <1>1, <1>2 DEF log
<1> QED BY <1>1, <1>2, <1>3

\* Sends leave the numbers of the lines before alone.
LEMMA LinesSame ==
  ASSUME NEW k \in Nat, \A i \in 1..k : jobs'[i] = jobs[i]
  PROVE  LinesUpTo(k)' = LinesUpTo(k)
<1>1. Lines(1, k)' = Lines(1, k)
  BY DEF Lines
<1> QED BY <1>1 DEF LinesUpTo

LEMMA LogSame ==
  ASSUME TypeOK, UNCHANGED jobs
  PROVE  log' = log
  BY DEF log, LinesUpTo, NthLine, Lines

\* A job that is sent is a line more at the end of the log, or nothing.
LEMMA LogAppends ==
  ASSUME TypeOK, NEW job \in Job, Enqueue(job)
  PROVE  log' = IF job.kind = "Line" THEN Append(log, job.from) ELSE log
<1>0. PICK m \in Nat, n \in Nat : m = Len(jobs) /\ n = LinesUpTo(m)
  BY NthLines
<1>1. /\ Len(jobs') = m + 1 /\ jobs'[m + 1] = job
      /\ \A i \in 1..m : jobs'[i] = jobs[i]
  BY <1>0, EnqueueJobs
<1>2. \A k \in 0..m : LinesUpTo(k)' = LinesUpTo(k) /\ LinesUpTo(k) \in 0..n
  BY <1>0, <1>1, LinesSame, LinesMonotone, LinesFinite
<1>3. Lines(1, m)' = Lines(1, m)
  BY <1>1 DEF Lines
<1>4. Lines(1, m + 1)' = IF job.kind = "Line" THEN Lines(1, m) \cup {m + 1} ELSE Lines(1, m)
  BY <1>1 DEF Lines
<1>5. m + 1 \notin Lines(1, m) /\ IsFiniteSet(Lines(1, m)) /\ Lines(1, m) \subseteq 1..m
  BY LinesFinite DEF Lines
<1>6. LinesUpTo(m + 1)' = IF job.kind = "Line" THEN n + 1 ELSE n
  BY <1>0, <1>4, <1>5, FS_AddElement DEF LinesUpTo
<1>7. ASSUME NEW k \in 1..n PROVE jobs'[NthLine(k)'] = jobs[NthLine(k)]
  <2>1. \A i : i \in Lines(1, m + 1)' /\ LinesUpTo(i)' = k
               <=> i \in Lines(1, m) /\ LinesUpTo(i) = k
    BY <1>2, <1>4, <1>5, <1>6
  <2>2. NthLine(k)' = CHOOSE i \in Lines(1, m + 1)' : LinesUpTo(i)' = k
    BY <1>1 DEF NthLine
  <2>3. NthLine(k) = CHOOSE i \in Lines(1, m) : LinesUpTo(i) = k
    BY <1>0 DEF NthLine
  <2>4. NthLine(k)' = NthLine(k)
    BY <2>1, <2>2, <2>3
  <2> QED BY <1>0, <1>1, <2>4, NthLines
<1>8. CASE job.kind = "Line"
  <2>1. \A i : i \in Lines(1, m + 1)' /\ LinesUpTo(i)' = n + 1 <=> i = m + 1
    BY <1>2, <1>4, <1>5, <1>6, <1>8
  <2>2. NthLine(n + 1)' = m + 1
    BY <1>1, <2>1 DEF NthLine
  <2>3. log' = [k \in 1..(n + 1) |-> jobs'[NthLine(k)'].from]
    BY <1>1, <1>6, <1>8 DEF log
  <2>4. log \in Seq(Thread) /\ Len(log) = n /\ log = [k \in 1..n |-> jobs[NthLine(k)].from]
    BY <1>0, NthLines DEF log
  <2>5. Append(log, job.from) = [k \in 1..(n + 1) |-> IF k = n + 1 THEN job.from ELSE log[k]]
    BY <2>4
  <2>6. \A k \in 1..(n + 1) :
          jobs'[NthLine(k)'].from = IF k = n + 1 THEN job.from ELSE log[k]
    BY <1>1, <1>7, <2>2, <2>4
  <2> QED BY <1>8, <2>3, <2>5, <2>6
<1>9. CASE job.kind # "Line"
  <2>1. log' = [k \in 1..n |-> jobs'[NthLine(k)'].from]
    BY <1>1, <1>6, <1>9 DEF log
  <2>2. log = [k \in 1..n |-> jobs[NthLine(k)].from]
    BY <1>0 DEF log
  <2> QED BY <1>7, <1>9, <2>1, <2>2
<1> QED BY <1>8, <1>9

\* The rest of LineLog's state as the writer's gives it.
written == LinesUpTo(durable)
waits   == [t \in Thread |-> IF InFlush(t) THEN LinesUpTo(mark[t]) ELSE -1]
working == faults = 0

LEMMA WaitTypes ==
  ASSUME TypeOK
  PROVE  \A t \in Thread : /\ InFlush(t) => waits[t] \in Nat
                           /\ ~InFlush(t) => waits[t] = -1
<1>1. \A t \in Thread : mark[t] \in Nat
  BY DEF TypeOK
<1> QED BY <1>1, LinesFinite DEF waits

\* Numbers of lines survive a send.
LEMMA CountsKept ==
  ASSUME TypeOK, UNCHANGED jobs \/ \E job \in Job : Enqueue(job)
  PROVE  \A k \in 0..Len(jobs) : LinesUpTo(k)' = LinesUpTo(k)
<1>1. Len(jobs) \in Nat /\ \A i \in 1..Len(jobs) : jobs'[i] = jobs[i]
  BY EnqueueJobs DEF TypeOK
<1> SUFFICES ASSUME NEW k \in 0..Len(jobs) PROVE LinesUpTo(k)' = LinesUpTo(k)
  OBVIOUS
<1>2. k \in Nat /\ \A i \in 1..k : jobs'[i] = jobs[i]
  BY <1>1
<1> QED BY <1>2, LinesSame

\* A call that neither enters nor leaves flush waits for what it waited for.
LEMMA WaitKept ==
  ASSUME TypeOK, FlushInv, UNCHANGED jobs \/ \E job \in Job : Enqueue(job),
         NEW t \in Thread, InFlush(t)' = InFlush(t), InFlush(t) => mark'[t] = mark[t]
  PROVE  waits'[t] = waits[t]
<1>1. mark[t] \in 0..Len(jobs)
  BY DEF TypeOK, FlushInv, Tickets
<1>2. PICK m \in 0..Len(jobs) : m = mark[t]
  BY <1>1
<1>3. LinesUpTo(m)' = LinesUpTo(m)
  BY CountsKept
<1>4. InFlush(t) => LinesUpTo(mark[t])' = LinesUpTo(m)'
  BY <1>2 DEF LinesUpTo, Lines
<1>5. InFlush(t) => LinesUpTo(mark[t]) = LinesUpTo(m)
  BY <1>2
<1> QED BY <1>3, <1>4, <1>5 DEF waits

LEMMA WrittenKept ==
  ASSUME TypeOK, FlushInv, UNCHANGED jobs \/ \E job \in Job : Enqueue(job),
         durable' = durable
  PROVE  written' = written
<1>1. durable \in 0..Len(jobs)
  BY DEF TypeOK, FlushInv, Drained
<1>2. PICK m \in 0..Len(jobs) : m = durable
  BY <1>1
<1>3. LinesUpTo(m)' = LinesUpTo(m)
  BY CountsKept
<1>4. LinesUpTo(durable)' = LinesUpTo(m)'
  BY <1>2 DEF LinesUpTo, Lines
<1> QED BY <1>2, <1>3, <1>4 DEF written

\* LineLog's actions over that state.
LEMMA Stutters ==
  ASSUME UNCHANGED <<log, written, waits, working>> PROVE UNCHANGED Abstract!vars
  BY DEF Abstract!vars, log, written, waits, working

LEMMA Accepts ==
  ASSUME NEW t \in Thread, log' = Append(log, t), UNCHANGED <<written, waits, working>>
  PROVE  Abstract!Next
  BY DEF Abstract!Next, Abstract!Accept, log, written, waits, working

LEMMA Begins ==
  ASSUME NEW t \in Thread, waits[t] = -1, waits' = [waits EXCEPT ![t] = Len(log)],
         UNCHANGED <<log, written, working>>
  PROVE  Abstract!Next
  BY DEF Abstract!Next, Abstract!BeginFlush, Abstract!NoFlush, log, written, waits, working

LEMMA Ends ==
  ASSUME NEW t \in Thread, waits[t] # -1, working => written >= waits[t],
         waits' = [waits EXCEPT ![t] = -1], UNCHANGED <<log, written, working>>
  PROVE  Abstract!Next
  BY DEF Abstract!Next, Abstract!EndFlush, Abstract!NoFlush, log, written, waits, working

LEMMA Persists ==
  ASSUME written' \in written..Len(log), working' \in {working, FALSE},
         UNCHANGED <<log, waits>>
  PROVE  Abstract!Next
  BY DEF Abstract!Next, Abstract!Persist, log, written, waits, working

LEMMA LogInit == Init => Abstract!Init
<1> SUFFICES ASSUME Init PROVE Abstract!Init
  OBVIOUS
<1>1. Len(jobs) = 0 /\ durable = 0 /\ faults = 0
  BY DEF Init
<1>2. log = <<>> /\ written = 0
  BY <1>1, LinesFinite DEF log, written
<1>3. waits = [t \in Thread |-> -1]
  BY DEF Init, waits, InFlush
<1> QED BY <1>1, <1>2, <1>3 DEF Abstract!Init, Abstract!NoFlush, log, written, waits

\* What a step leaves alone, step by step: the calls that are not in it, ...
LEMMA OthersWait ==
  ASSUME TypeOK, FlushInv, NEW t \in Thread, Invoke(t) \/ Proceed(t)
  PROVE  \A u \in Thread \ {t} : waits'[u] = waits[u]
<1> SUFFICES ASSUME NEW u \in Thread \ {t} PROVE waits'[u] = waits[u]
  OBVIOUS
<1>1. pc'[u] = pc[u] /\ mark'[u] = mark[u]
  BY ProducerCall
<1>2. UNCHANGED jobs \/ \E job \in Job : Enqueue(job)
  BY ProducerFrame DEF FlushInv
<1> QED BY <1>1, <1>2, WaitKept DEF InFlush

LEMMA WaitsExcept ==
  ASSUME NEW t \in Thread, NEW v, waits'[t] = v,
         \A u \in Thread \ {t} : waits'[u] = waits[u]
  PROVE  waits' = [waits EXCEPT ![t] = v]
  BY DEF waits

LEMMA WaitsSame ==
  ASSUME \A u \in Thread : waits'[u] = waits[u] PROVE waits' = waits
  BY DEF waits

\* A step of a producer: an entry of the log, the beginning or the end of a
\* flush, or nothing.
LEMMA ProducerRefines ==
  ASSUME TypeOK, FlushInv, NEW t \in Thread, Invoke(t) \/ Proceed(t)
  PROVE  Abstract!Next \/ UNCHANGED Abstract!vars
<1>0. /\ pc \in [Thread -> Label] /\ arg \in [Thread -> Arg] /\ mark \in [Thread -> Nat]
      /\ Len(jobs) \in Nat
  BY DEF TypeOK
<1>1. UNCHANGED <<written, working>>
  <2>1. UNCHANGED <<durable, faults>> /\ (UNCHANGED jobs \/ \E job \in Job : Enqueue(job))
    BY ProducerFrame DEF FlushInv
  <2> QED BY <2>1, WrittenKept DEF working
<1>2. \A u \in Thread \ {t} : waits'[u] = waits[u]
  BY OthersWait
<1>3. ASSUME UNCHANGED <<jobs, mark>>, InFlush(t)' = InFlush(t)
      PROVE  UNCHANGED Abstract!vars
  <2>1. waits' = waits
    BY <1>2, <1>3, WaitKept, WaitsSame
  <2>2. log' = log
    BY <1>3, LogSame
  <2> QED BY <1>1, <2>1, <2>2, Stutters
<1>4. ASSUME NEW n \in LineLens, NEW b \in BOOLEAN, Call(t, b, n)
      PROVE  UNCHANGED Abstract!vars
  BY <1>0, <1>3, <1>4 DEF Call, InFlush
<1>5. CASE flush(t)
  <2>1. CASE sender # "ready"
    BY <1>3, <1>5, <2>1 DEF flush, producers, InFlush
  <2>2. CASE sender = "ready"
    <3>1. /\ UNCHANGED jobs /\ pc[t] = "idle" /\ pc'[t] = "flush" /\ mark'[t] = Len(jobs)
      BY <1>0, <1>5, <2>2 DEF flush
    <3>2. waits[t] = -1 /\ waits'[t] = LinesUpTo(mark[t])'
      BY <3>1 DEF waits, InFlush
    <3>3. LinesUpTo(mark[t])' = LinesUpTo(Len(jobs))
      BY <3>1 DEF LinesUpTo, Lines
    <3>4. waits' = [waits EXCEPT ![t] = Len(log)]
      BY <1>2, <3>2, <3>3, NthLines, WaitsExcept
    <3> QED BY <1>1, <3>1, <3>2, <3>4, LogSame, Begins
  <2> QED BY <2>1, <2>2
<1>6. CASE init_sender_enter(t) \/ init_sender_leave(t) \/ get_sender(t) \/ try_send_full(t)
  <2>1. PICK label \in {"init", "send", "drop"} : Goto(t, label)
    BY <1>6 DEF init_sender_enter, init_sender_leave, get_sender, try_send_full
  <2>2. pc[t] \in {"get", "init", "send"} /\ UNCHANGED jobs
    BY <1>6 DEF init_sender_enter, init_sender_leave, get_sender, try_send_full
  <2> QED BY <1>0, <1>3, <2>1, <2>2 DEF Goto, InFlush
\* Outside flush nobody waits, before the step or after it.
<1>7. ASSUME ~InFlush(t), ~InFlush(t)', UNCHANGED jobs PROVE UNCHANGED Abstract!vars
  <2>1. waits' = waits
    BY <1>2, <1>7, WaitsSame DEF waits
  <2> QED BY <1>1, <1>7, <2>1, LogSame, Stutters
<1>8. CASE send(t)
  <2>1. ~InFlush(t)
    BY <1>8 DEF send, InFlush
  <2>2. CASE Enqueue(Line(t, arg[t].len)) /\ Return(t)
    <3>1. Line(t, arg[t].len) \in Job
      BY <1>0 DEF Line, Job, Arg
    <3>2. log' = Append(log, t)
      BY <2>2, <3>1, LogAppends DEF Line
    <3>3. ~InFlush(t)'
      BY <1>0, <2>2 DEF Return, InFlush
    <3>4. waits' = waits
      BY <1>2, <2>1, <3>3, WaitsSame DEF waits
    <3> QED BY <1>1, <3>2, <3>4, Accepts
  <2>3. CASE Disconnected /\ Goto(t, "drop")
    <3>1. ~InFlush(t)' /\ UNCHANGED jobs
      BY <1>0, <2>3 DEF Goto, Disconnected, InFlush
    <3> QED BY <1>7, <2>1, <3>1
  <2> QED BY <1>8, <2>2, <2>3 DEF send
<1>9. CASE count_drop(t)
  <2>1. ~InFlush(t) /\ ~InFlush(t)' /\ UNCHANGED jobs
    BY <1>0, <1>9 DEF count_drop, Return, InFlush
  <2> QED BY <1>7, <2>1
<1>10. CASE flush_send(t)
  <2>1. InFlush(t)
    BY <1>10 DEF flush_send, InFlush
  <2>2. CASE Enqueue(Flush(t)) /\ pc' = [pc EXCEPT ![t] = "await"] /\ UNCHANGED mark
    <3>1. Flush(t) \in Job /\ Flush(t).kind # "Line"
      BY DEF Flush, Job
    <3>2. log' = log
      BY <2>2, <3>1, LogAppends
    <3>3. InFlush(t)' = InFlush(t)
      BY <1>0, <2>1, <2>2 DEF InFlush
    <3>4. waits' = waits
      BY <1>2, <2>2, <3>1, <3>3, WaitKept, WaitsSame
    <3> QED BY <1>1, <3>2, <3>4, Stutters
  <2>3. CASE Disconnected /\ Return(t)
    <3>1. UNCHANGED jobs /\ Len(jobs) = 0 /\ mark[t] = 0 /\ ~InFlush(t)'
      BY <1>0, <2>3 DEF Disconnected, FlushInv, StartUp, Tickets, Return, InFlush
    <3>2. waits[t] = 0 /\ waits'[t] = -1
      BY <2>1, <3>1, LinesFinite DEF waits
    <3>3. written \in Nat
      BY LinesFinite DEF written, TypeOK
    <3>4. waits' = [waits EXCEPT ![t] = -1]
      BY <1>2, <3>2, WaitsExcept
    <3>5. waits[t] # -1 /\ written >= waits[t]
      BY <3>2, <3>3
    <3>6. log' = log
      BY <3>1, LogSame
    <3> QED BY <1>1, <3>4, <3>5, <3>6, Ends
  <2> QED BY <1>10, <2>2, <2>3 DEF flush_send
<1> QED BY <1>4, <1>5, <1>6, <1>8, <1>9, <1>10 DEF Invoke, Proceed, submit, try_submit

\* A step of the writer that takes a job, or looks at its timer, writes some
\* more of the log.
LEMMA WriterAdvances ==
  ASSUME TypeOK, FlushInv, writer_line \/ writer_flush \/ writer_timeout
  PROVE  /\ durable <= durable' /\ (faults' = 0 => faults = 0)
         /\ UNCHANGED <<jobs, pc, mark>>
<1>0. /\ received \in Nat /\ durable \in Nat /\ faults \in Nat /\ durable <= received
  BY DEF TypeOK, FlushInv, Drained
<1>1. ASSUME NEW d \in Nat, NEW end \in Nat, durable <= d, d <= end, FlushAndReset(d, end)
      PROVE  durable <= durable' /\ (faults' = 0 => faults = 0)
  BY <1>0, <1>1 DEF FlushAndReset
<1>2. CASE writer_line
  <2> DEFINE n == jobs[received + 1].len
             d == DurableAfterWrite(n)
  <2>1. UNCHANGED <<jobs, pc, mark>>
    BY <1>2 DEF writer_line, producers
  <2>2. CASE write_failed(n)
    BY <1>0, <2>1, <2>2 DEF write_failed
  <2>3. CASE write_done(d, batch_bytes + n, batch_lines + 1)
    <3>1. d \in Nat /\ durable <= d /\ d <= received + 1 /\ received + 1 \in Nat
      BY <1>0 DEF DurableAfterWrite
    <3> HIDE DEF n, d
    <3>2. CASE FlushAndReset(d, received + 1)
      BY <1>1, <2>1, <3>1, <3>2
    <3>3. CASE KeepBatch(batch_bytes + n, batch_lines + 1, d)
      BY <2>1, <3>1, <3>3 DEF KeepBatch
    <3> QED BY <2>3, <3>2, <3>3 DEF write_done
  <2> QED BY <1>2, <2>2, <2>3 DEF writer_line
<1>3. CASE writer_flush
  BY <1>0, <1>1, <1>3 DEF writer_flush, producers
<1>4. CASE writer_timeout
  BY <1>0, <1>1, <1>4 DEF writer_timeout, producers, stdout
<1> QED BY <1>2, <1>3, <1>4

LEMMA WriterRefines ==
  ASSUME TypeOK, FlushInv, TypeOK', FlushInv', writer_line \/ writer_flush \/ writer_timeout
  PROVE  Abstract!Next
<1>1. durable <= durable' /\ (faults' = 0 => faults = 0) /\ UNCHANGED <<jobs, pc, mark>>
  BY WriterAdvances
<1>2. log' = log /\ waits' = waits
  <2>1. \A u \in Thread : waits'[u] = waits[u]
    BY <1>1, WaitKept DEF InFlush
  <2> QED BY <1>1, <2>1, LogSame, WaitsSame
<1>3. durable \in Nat /\ durable' \in Nat /\ durable' <= Len(jobs) /\ Len(jobs) \in Nat
      /\ received' \in Nat
  BY <1>1 DEF TypeOK, FlushInv, Drained
<1>4. PICK k \in Nat, m \in Nat : k = durable /\ m = durable'
  BY <1>3
<1>5. written' = LinesUpTo(m)
  BY <1>1, <1>4 DEF written, LinesUpTo, Lines
<1>6. LinesUpTo(k) <= LinesUpTo(m) /\ LinesUpTo(m) <= LinesUpTo(Len(jobs))
  BY <1>1, <1>3, <1>4, LinesMonotone
<1>7. written' \in written..Len(log)
  BY <1>3, <1>4, <1>5, <1>6, LinesFinite, NthLines DEF written
<1>8. working' \in {working, FALSE}
  BY <1>1 DEF working
<1> QED BY <1>2, <1>7, <1>8, Persists

\* The acknowledgement ends the flush it belongs to, with everything before
\* that flush written unless stdout failed.
LEMMA AckRefines ==
  ASSUME TypeOK, FlushInv, writer_ack PROVE Abstract!Next
<1> DEFINE t == jobs[received].from
<1>0. /\ pc \in [Thread -> Label] /\ mark \in [Thread -> Nat] /\ received \in Nat
      /\ ticket \in [Thread -> Nat] /\ Len(jobs) \in Nat /\ durable \in Nat
      /\ received > 0 /\ received <= Len(jobs)
  BY DEF TypeOK, FlushInv, Drained, writer_ack
<1>1. /\ wpc = "acking" /\ pc[t] = "await" /\ Return(t)
      /\ UNCHANGED <<jobs, durable, faults>>
  BY DEF writer_ack, stdout
<1>2. /\ faults = 0 => durable = received
      /\ jobs[received].kind = "Flush" /\ jobs[received] \in Job
  BY <1>0, <1>1 DEF FlushInv, Drained, TypeOK
<1>3. t \in Thread /\ ticket[t] = received
  BY <1>0, <1>1, <1>2 DEF FlushInv, AckAwaited, FirstUnanswered, Job
<1> HIDE DEF t
<1>4. mark[t] < received
  BY <1>1, <1>3 DEF FlushInv, Tickets
<1>5. UNCHANGED <<log, written, working>>
  BY <1>1, LogSame, WrittenKept DEF working
<1>6. PICK v \in Thread : v = t
  BY <1>3
<1>7. waits[v] = LinesUpTo(mark[v]) /\ waits'[v] = -1
  BY <1>0, <1>1, <1>6 DEF waits, InFlush, Return
<1>8. \A u \in Thread \ {v} : waits'[u] = waits[u]
  <2> SUFFICES ASSUME NEW u \in Thread \ {v} PROVE waits'[u] = waits[u]
    OBVIOUS
  <2>1. pc'[u] = pc[u] /\ mark'[u] = mark[u]
    BY <1>0, <1>1, <1>6 DEF Return
  <2> QED BY <1>1, <2>1, WaitKept DEF InFlush
<1>9. waits' = [waits EXCEPT ![v] = -1]
  BY <1>7, <1>8, WaitsExcept
<1>10. waits[v] # -1 /\ (working => written >= waits[v])
  <2>1. mark[v] \in Nat /\ waits[v] \in Nat
    BY <1>0, <1>7, LinesFinite
  <2>2. working => LinesUpTo(mark[v]) <= LinesUpTo(durable)
    BY <1>0, <1>2, <1>4, <1>6, <2>1, LinesMonotone DEF working
  <2> QED BY <1>0, <1>7, <2>1, <2>2, LinesFinite DEF written
<1> QED BY <1>5, <1>9, <1>10, Ends

LEMMA NextRefines ==
  TypeOK /\ FlushInv /\ (TypeOK /\ FlushInv)' /\ [Next]_vars => [Abstract!Next]_(Abstract!vars)
<1> SUFFICES ASSUME TypeOK, FlushInv, TypeOK', FlushInv', [Next]_vars
             PROVE  Abstract!Next \/ UNCHANGED Abstract!vars
  OBVIOUS
<1>1. CASE \E t \in Thread : Invoke(t) \/ Proceed(t)
  BY <1>1, ProducerRefines
<1>2. CASE writer_line \/ writer_flush \/ writer_timeout
  BY <1>2, WriterRefines
<1>3. CASE writer_ack
  BY <1>3, AckRefines
<1>4. CASE Configure \/ writer_start \/ UNCHANGED vars
  <2>1. UNCHANGED <<jobs, pc, mark, durable, faults>>
    BY <1>4 DEF Configure, set_flush_policy, set_channel_capacity, writer_start, vars,
       producers, writer, stdout
  <2>2. \A u \in Thread : waits'[u] = waits[u]
    BY <2>1, WaitKept DEF InFlush
  <2>3. UNCHANGED <<log, written, waits, working>>
    BY <2>1, <2>2, LogSame, WrittenKept, WaitsSame DEF working
  <2> QED BY <2>3, Stutters
<1> QED BY <1>1, <1>2, <1>3, <1>4 DEF Next, writer_loop

\* Channel, start-up, buffer, flushes and acknowledgements together keep the
\* promise of LineLog: one log, written from the front, and flushes that end
\* when everything before them is there, or when stdout has failed.
THEOREM WriterImplementsLineLog == Spec => ImplementsLineLog
  BY LogInit, NextRefines, FlushInvHolds, PTL DEF Spec, ImplementsLineLog, Abstract!Spec
-------------------------------------------------------------------------------
(* The two settings.                                                       *)

PolicyFixed(p) == policyCell = p /\ (policy = None \/ policy = p)
CapacityFixed(c) == capacityCell = c /\ (sender = "unset" \/ channel = c)

\* The cell keeps its policy, and what the writer reads is the cell.
LEMMA PolicyStays ==
  ASSUME NEW p \in Policies, PolicyFixed(p), [Next]_vars
  PROVE  PolicyFixed(p)'
<1>0. p # None
  BY ConstantsAssumption
<1> USE DEF PolicyFixed
<1>1. CASE Configure
  BY <1>0, <1>1 DEF Configure, set_flush_policy, set_channel_capacity, OnceSet,
     cells, writer
<1>2. CASE \E t \in Thread : Invoke(t) \/ Proceed(t)
  <2>1. PICK t \in Thread : Invoke(t) \/ Proceed(t)
    BY <1>2
  <2>2. policyCell' = policyCell /\ policy' = policy
    BY <2>1 DEF Invoke, Proceed, submit, try_submit, Call, flush, init_sender_enter,
       init_sender_leave, get_sender, send, try_send_full, count_drop, flush_send,
       cells, writer
  <2> QED
    BY <2>2
<1>3. CASE writer_start
  BY <1>0, <1>3 DEF writer_start, current_flush_policy, OnceGet, cells
<1>4. CASE writer_line \/ writer_flush \/ writer_ack \/ writer_timeout
  BY <1>4 DEF writer_line, writer_flush, writer_ack, writer_timeout, cells
<1>5. CASE UNCHANGED vars
  BY <1>5 DEF vars, cells, writer
<1> QED
  BY <1>1, <1>2, <1>3, <1>4, <1>5 DEF Next, writer_loop

\* The cell keeps its capacity; only the one caller that finds the sender unset
\* reads it, and the channel it creates is of that capacity.
LEMMA CapacityStays ==
  ASSUME StartUp, NEW c \in Capacities, CapacityFixed(c), [Next]_vars
  PROVE  CapacityFixed(c)'
<1>0. c # None
  BY ConstantsAssumption
<1> USE DEF CapacityFixed
<1>1. CASE Configure
  BY <1>0, <1>1 DEF Configure, set_flush_policy, set_channel_capacity, OnceSet,
     cells, startup
<1>2. ASSUME NEW t \in Thread, Invoke(t)
      PROVE  CapacityFixed(c)'
  BY <1>2 DEF Invoke, submit, try_submit, Call, flush, cells, startup
<1>3. ASSUME NEW t \in Thread, Proceed(t)
      PROVE  CapacityFixed(c)'
  <2>1. CASE init_sender_enter(t)
    BY <1>0, <2>1 DEF init_sender_enter, current_channel_capacity, OnceGet, cells
  <2>2. CASE init_sender_leave(t)
    <3>1. sender = "initialising"
      BY <2>2 DEF init_sender_leave, StartUp
    <3> QED
      BY <2>2, <3>1 DEF init_sender_leave, cells
  <2>3. CASE get_sender(t) \/ send(t) \/ try_send_full(t) \/ count_drop(t) \/ flush_send(t)
    BY <2>3 DEF get_sender, send, try_send_full, count_drop, flush_send, cells, startup
  <2> QED
    BY <1>3, <2>1, <2>2, <2>3 DEF Proceed
<1>4. CASE writer_loop
  BY <1>4 DEF writer_loop, writer_start, writer_line, writer_flush, writer_ack,
     writer_timeout, cells, startup
<1>5. CASE UNCHANGED vars
  BY <1>5 DEF vars, cells, startup
<1> QED
  BY <1>1, <1>2, <1>3, <1>4, <1>5 DEF Next

\* A policy set before the writer has read it, and a capacity set before anyone
\* begins to create the channel, are in force for good (README.md, lines 712-715;
\* stdout_emit.rs, lines 226-229).
THEOREM SettingsHold == Spec => SettingsTakeEffect
<1>1. ASSUME NEW p \in Policies
      PROVE  Spec => [](policyCell = p /\ policy = None => [](policy = None \/ policy = p))
  <2>1. policyCell = p /\ policy = None => PolicyFixed(p)
    BY DEF PolicyFixed
  <2>2. PolicyFixed(p) /\ [Next]_vars => PolicyFixed(p)'
    BY PolicyStays
  <2>3. PolicyFixed(p) => policy = None \/ policy = p
    BY DEF PolicyFixed
  <2> QED
    BY <2>1, <2>2, <2>3, PTL DEF Spec
<1>2. ASSUME NEW c \in Capacities
      PROVE  Spec => [](capacityCell = c /\ sender = "unset"
                          => [](sender = "unset" \/ channel = c))
  <2>1. capacityCell = c /\ sender = "unset" => CapacityFixed(c)
    BY DEF CapacityFixed
  <2>2. StartUp /\ CapacityFixed(c) /\ [Next]_vars => CapacityFixed(c)'
    BY CapacityStays
  <2>3. CapacityFixed(c) => sender = "unset" \/ channel = c
    BY DEF CapacityFixed
  <2>4. TypeOK /\ FlushInv => StartUp
    BY DEF FlushInv
  <2> QED
    BY <2>1, <2>2, <2>3, <2>4, FlushInvHolds, PTL DEF Spec
<1> QED
  BY <1>1, <1>2 DEF SettingsTakeEffect
===============================================================================
