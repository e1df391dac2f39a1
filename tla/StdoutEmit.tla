------------------------------ MODULE StdoutEmit ------------------------------
(***************************************************************************)
(* The off-thread stdout writer of src/src/stdout_emit.rs.                 *)
(*                                                                         *)
(* Producer threads hand serialized lines to one writer thread through a   *)
(* process-global channel (submit, try_submit) and wait for it with a      *)
(* rendezvous acknowledgement (flush).  The channel and the writer are     *)
(* created by whichever producer comes first; the flush policy and the     *)
(* channel capacity are write-once cells read at two different moments of  *)
(* that start-up.  The writer appends lines to a BufWriter and flushes it  *)
(* when a threshold of the policy is met, when it wakes up with nothing to *)
(* do, or when asked.                                                      *)
(*                                                                         *)
(* The channel is kept as its whole history: `jobs' is every job ever      *)
(* enqueued, `received' how many the writer has taken, so the queue is     *)
(* jobs[received+1..Len(jobs)].  `durable' is how much of that history     *)
(* has reached the operating system: a process killed in any state leaves  *)
(* exactly the lines of jobs[1..durable], less the `lost' ones, on stdout. *)
(*                                                                         *)
(* A definition named Slip_X_... is a plausible mistake in the code that X *)
(* models.  The specification uses none of them; putting one in the place  *)
(* of X shows which property notices.                                      *)
(***************************************************************************)
EXTENDS Integers, Sequences, FiniteSets, FiniteSetsExt

CONSTANTS
  Thread,         \* the producer threads of the process
  Policies,       \* the policies a program may pass to set_flush_policy
  DefaultPolicy,  \* FlushPolicy::default(), scaled down
  Capacities,     \* the capacities a program may pass to set_channel_capacity
  LineLens,       \* the lengths of the lines submitted, in bytes
  BufCap,         \* capacity of the BufWriter (8 KiB in the code), same unit
  None,           \* an unset OnceLock
  MaxLines,       \* bound: lines offered through submit and try_submit
  MaxJobs,        \* bound: no flush call starts once this many jobs are enqueued
  MaxFaults       \* bound: failed writes and flushes of stdout

\* FlushPolicy: only whether max_interval is zero matters here, the clock
\* itself is in WriterTimer.
FlushPolicy == [max_interval : Nat, max_bytes : Nat, max_lines : Nat]
per_line == [max_interval |-> 0, max_bytes |-> 0, max_lines |-> 1]

\* ChannelCapacity, an enum: Unbounded or Bounded(n).
ChannelCapacity == [kind : {"Unbounded", "Bounded"}, n : Nat]
Unbounded == [kind |-> "Unbounded", n |-> 0]
Bounded(n) == [kind |-> "Bounded", n |-> n]

ASSUME ConstantsAssumption ==
  /\ Policies \subseteq FlushPolicy /\ DefaultPolicy \in FlushPolicy
  /\ Capacities \subseteq ChannelCapacity
  /\ LineLens \subseteq Nat \ {0}
  /\ BufCap \in Nat \ {0}
  /\ None \notin FlushPolicy /\ None \notin ChannelCapacity
  /\ MaxLines \in Nat /\ MaxJobs \in Nat /\ MaxFaults \in Nat

VARIABLES
  policyCell,    \* static POLICY: OnceLock<FlushPolicy>
  capacityCell,  \* static CAPACITY: OnceLock<ChannelCapacity>
  sender,        \* static SENDER: "unset", "initialising" or "ready"
  channel,       \* the capacity the channel was, or is being, created with
  rxAlive,       \* the receiver exists: thread creation succeeded
  jobs,          \* every job ever enqueued, oldest first
  dropped,       \* static DROPPED: AtomicU64
  offered,       \* lines handed to submit and try_submit
  pc,            \* where each producer is in its call
  arg,           \* the argument of the call: a line's length, and which call
  mark,          \* history: jobs already enqueued when the thread's flush began
  ticket,        \* which job is the thread's flush
  wpc,           \* where the writer is: "none", "starting", "loop", "acking"
  policy,        \* the writer's copy of the policy
  received,      \* jobs the writer has taken off the channel
  durable,       \* jobs whose lines reached the operating system
  lost,          \* lines whose write_all failed
  batch_bytes, batch_lines,
  faults         \* failed writes and flushes so far

cells     == <<policyCell, capacityCell>>
startup   == <<sender, channel, rxAlive>>
producers == <<pc, arg, mark, ticket>>
counters  == <<dropped, offered>>
batch     == <<batch_bytes, batch_lines>>
stdout    == <<durable, lost, faults>>
writer    == <<wpc, policy, received, batch, stdout>>
vars == <<cells, startup, jobs, counters, producers, writer>>

Line(t, n) == [kind |-> "Line", from |-> t, len |-> n]
Flush(t)   == [kind |-> "Flush", from |-> t, len |-> 0]
Job == [kind : {"Line", "Flush"}, from : Thread, len : Nat]

\* Outside any call; in submit or try_submit; in flush.
Label == {"idle"} \cup {"get", "init", "send", "drop"} \cup {"flush", "await"}

NoArg == [blocking |-> FALSE, len |-> 0]
Arg == [blocking : BOOLEAN, len : Nat]

Lines(lo, hi) == {i \in lo..hi : jobs[i].kind = "Line"}

\* What sits in the BufWriter: taken, not yet at the operating system.
Buffered == Lines(durable + 1, received) \ lost
BytesOf(is) == MapThenSumSet(LAMBDA i : jobs[i].len, is)

Init ==
  /\ policyCell = None /\ capacityCell = None
  /\ sender = "unset" /\ channel = Unbounded /\ rxAlive = FALSE
  /\ jobs = <<>>
  /\ dropped = 0 /\ offered = 0
  /\ pc = [t \in Thread |-> "idle"] /\ arg = [t \in Thread |-> NoArg]
  /\ mark = [t \in Thread |-> 0] /\ ticket = [t \in Thread |-> 0]
  /\ wpc = "none" /\ policy = None
  /\ received = 0 /\ durable = 0 /\ lost = {} /\ faults = 0
  /\ batch_bytes = 0 /\ batch_lines = 0
-------------------------------------------------------------------------------
(* Configuration.                                                          *)

Slip_OnceSet_last(cell, v) == v
\* OnceLock::set: the first value wins, later calls are ignored.
OnceSet(cell, v) == IF cell = None THEN v ELSE cell
OnceGet(cell, default) == IF cell = None THEN default ELSE cell

current_flush_policy == OnceGet(policyCell, DefaultPolicy)
current_channel_capacity == OnceGet(capacityCell, Unbounded)

set_flush_policy(p) ==
  /\ policyCell' = OnceSet(policyCell, p)
  /\ UNCHANGED <<capacityCell, startup, jobs, counters, producers, writer>>

set_channel_capacity(c) ==
  /\ capacityCell' = OnceSet(capacityCell, c)
  /\ UNCHANGED <<policyCell, startup, jobs, counters, producers, writer>>
-------------------------------------------------------------------------------
(* The channel.                                                            *)

Slots == IF channel.n = 0 THEN 1 ELSE channel.n
Full == channel.kind = "Bounded" /\ Len(jobs) - received >= Slots

\* A send succeeds, finds the receiver gone, or (bounded) must wait.
Enqueue(job) == rxAlive /\ ~Full /\ jobs' = Append(jobs, job)
Disconnected == ~rxAlive /\ UNCHANGED jobs

Return(t) ==
  /\ pc' = [pc EXCEPT ![t] = "idle"]
  /\ arg' = [arg EXCEPT ![t] = NoArg]
  /\ mark' = [mark EXCEPT ![t] = 0]
  /\ ticket' = [ticket EXCEPT ![t] = 0]

Goto(t, label) ==
  /\ pc' = [pc EXCEPT ![t] = label]
  /\ UNCHANGED <<arg, mark, ticket>>
-------------------------------------------------------------------------------
(* submit and try_submit.  Both begin with SENDER.get_or_init(init_sender).*)

Call(t, blocking, n) ==
  /\ pc[t] = "idle" /\ offered < MaxLines
  /\ offered' = offered + 1
  /\ pc' = [pc EXCEPT ![t] = "get"]
  /\ arg' = [arg EXCEPT ![t] = [blocking |-> blocking, len |-> n]]
  /\ UNCHANGED <<mark, ticket, cells, startup, jobs, dropped, writer>>

submit(t, n) == Call(t, TRUE, n)
try_submit(t, n) == Call(t, FALSE, n)

Slip_init_sender_enter_raced(t) ==
  /\ pc[t] = "get" /\ sender # "ready"
  /\ sender' = "initialising"
  /\ channel' = current_channel_capacity
  /\ Goto(t, "init")
  /\ UNCHANGED <<rxAlive, cells, jobs, counters, writer>>

\* The first caller runs init_sender; it reads the capacity when it enters.
init_sender_enter(t) ==
  /\ pc[t] = "get" /\ sender = "unset"
  /\ sender' = "initialising"
  /\ channel' = current_channel_capacity
  /\ Goto(t, "init")
  /\ UNCHANGED <<rxAlive, cells, jobs, counters, writer>>

\* It creates the channel, spawns the writer, and publishes the sender.  A
\* failed spawn is ignored; it drops the receiver.
init_sender_leave(t) ==
  /\ pc[t] = "init"
  /\ sender' = "ready"
  /\ \/ rxAlive' = TRUE /\ wpc' = "starting"
     \/ rxAlive' = FALSE /\ UNCHANGED wpc
  /\ Goto(t, "send")
  /\ UNCHANGED <<channel, cells, jobs, counters, policy, received, batch, stdout>>

\* Everybody else waits until it is initialised.
get_sender(t) ==
  /\ pc[t] = "get" /\ sender = "ready"
  /\ Goto(t, "send")
  /\ UNCHANGED <<cells, startup, jobs, counters, writer>>

\* ChannelSender::send blocks while the channel is full; ::try_send does not.
send(t) ==
  /\ pc[t] = "send"
  /\ \/ Enqueue(Line(t, arg[t].len)) /\ Return(t)
     \/ Disconnected /\ Goto(t, "drop")
  /\ UNCHANGED <<cells, startup, counters, writer>>

try_send_full(t) ==
  /\ pc[t] = "send" /\ ~arg[t].blocking
  /\ rxAlive /\ Full
  /\ Goto(t, "drop")
  /\ UNCHANGED <<cells, startup, jobs, counters, writer>>

Slip_count_drop_forgotten(t) ==
  /\ pc[t] = "drop"
  /\ Return(t)
  /\ UNCHANGED <<cells, startup, jobs, counters, writer>>

count_drop(t) ==
  /\ pc[t] = "drop"
  /\ dropped' = dropped + 1
  /\ Return(t)
  /\ UNCHANGED <<cells, startup, jobs, offered, writer>>
-------------------------------------------------------------------------------
(* flush.  SENDER.get() is None until the initialisation is over: then the *)
(* call returns at once.                                                   *)

flush(t) ==
  /\ pc[t] = "idle"
  /\ \/ sender # "ready" /\ UNCHANGED producers
     \/ /\ sender = "ready" /\ Len(jobs) < MaxJobs
        /\ pc' = [pc EXCEPT ![t] = "flush"]
        /\ mark' = [mark EXCEPT ![t] = Len(jobs)]
        /\ UNCHANGED <<arg, ticket>>
  /\ UNCHANGED <<cells, startup, jobs, counters, writer>>

Slip_flush_send_unawaited(t) ==
  /\ pc[t] = "flush"
  /\ Enqueue(Flush(t)) \/ Disconnected
  /\ Return(t)
  /\ UNCHANGED <<cells, startup, counters, writer>>

flush_send(t) ==
  /\ pc[t] = "flush"
  /\ \/ /\ Enqueue(Flush(t))
        /\ pc' = [pc EXCEPT ![t] = "await"]
        /\ ticket' = [ticket EXCEPT ![t] = Len(jobs) + 1]
        /\ UNCHANGED <<arg, mark>>
     \/ Disconnected /\ Return(t)
  /\ UNCHANGED <<cells, startup, counters, writer>>
-------------------------------------------------------------------------------
(* The writer thread.                                                      *)

\* It reads the policy once, some time after it was spawned.
writer_start ==
  /\ wpc = "starting"
  /\ wpc' = "loop"
  /\ policy' = current_flush_policy
  /\ UNCHANGED <<cells, startup, jobs, counters, producers, received, batch, stdout>>

Recv(kind) ==
  /\ wpc = "loop" /\ received < Len(jobs)
  /\ jobs[received + 1].kind = kind
  /\ received' = received + 1

\* The batch stays open: no flush() after this line.
Slip_KeepBatch_uncounted(bytes, lines, d) ==
  /\ durable' = d
  /\ batch_bytes' = bytes /\ UNCHANGED batch_lines
  /\ UNCHANGED <<lost, faults>>

KeepBatch(bytes, lines, d) ==
  /\ durable' = d
  /\ batch_bytes' = bytes /\ batch_lines' = lines
  /\ UNCHANGED <<lost, faults>>

Slip_FlushAndReset_skipped(d, end) == KeepBatch(0, 0, d)

Slip_FlushAndReset_subtracts(d, end) ==
  /\ durable' = end
  /\ batch_bytes' = batch_bytes - BufCap /\ batch_lines' = 0
  /\ UNCHANGED <<lost, faults>>

\* `let _ = buf.flush()' followed by the reset of the batch.  A failure goes
\* unnoticed: some of what the buffer held, from d on, may have been written.
FlushAndReset(d, end) ==
  /\ \/ durable' = end /\ UNCHANGED faults
     \/ /\ faults < MaxFaults /\ faults' = faults + 1
        /\ durable' \in d..end
  /\ batch_bytes' = 0 /\ batch_lines' = 0
  /\ UNCHANGED lost

\* BufWriter::write_all of n bytes: make room if they do not fit, then append
\* them, or write them straight through if they fill a buffer alone.
Spills(n) == n > BufCap - BytesOf(Buffered)
Bypasses(n) == n >= BufCap
DurableAfterWrite(n) ==
  IF Bypasses(n) THEN received + 1
  ELSE IF Spills(n) THEN received ELSE durable

\* The line is dropped and `continue' skips the whole accounting.
write_failed(n) ==
  /\ Spills(n) \/ Bypasses(n)
  /\ faults < MaxFaults /\ faults' = faults + 1
  /\ durable' \in durable..received
  /\ lost' = lost \cup {received + 1}
  /\ UNCHANGED batch

Slip_bytes_hit_beyond(bytes) == policy.max_bytes > 0 /\ bytes > policy.max_bytes
bytes_hit(bytes) == policy.max_bytes > 0 /\ bytes >= policy.max_bytes
lines_hit(lines) == lines >= policy.max_lines

\* After a line is buffered: flush if a threshold is met, or if the batch is
\* old (the clock is abstracted to a choice), else keep it open.
write_done(d, bytes, lines) ==
  \/ /\ policy.max_lines <= 1 \/ bytes_hit(bytes) \/ lines_hit(lines)
     /\ FlushAndReset(d, received + 1)
  \/ /\ ~(policy.max_lines <= 1 \/ bytes_hit(bytes) \/ lines_hit(lines))
     /\ \/ policy.max_interval > 0 /\ FlushAndReset(d, received + 1)
        \/ KeepBatch(bytes, lines, d)

writer_line ==
  /\ Recv("Line")
  /\ LET n == jobs[received + 1].len
     IN  \/ write_failed(n)
         \/ write_done(DurableAfterWrite(n), batch_bytes + n, batch_lines + 1)
  /\ UNCHANGED <<cells, startup, jobs, counters, producers, wpc, policy>>

Slip_writer_flush_unanswered ==
  /\ Recv("Flush")
  /\ FlushAndReset(durable, received + 1)
  /\ UNCHANGED <<cells, startup, jobs, counters, producers, wpc, policy>>

writer_flush ==
  /\ Recv("Flush")
  /\ FlushAndReset(durable, received + 1)
  /\ wpc' = "acking"
  /\ UNCHANGED <<cells, startup, jobs, counters, producers, policy>>

\* ack.send on a rendezvous channel: writer and flusher step together.
writer_ack ==
  /\ wpc = "acking"
  /\ LET t == jobs[received].from IN pc[t] = "await" /\ Return(t)
  /\ wpc' = "loop"
  /\ UNCHANGED <<cells, startup, jobs, counters, policy, received, batch, stdout>>

\* recv_timeout expired: flush the batch if it is old enough (a choice, as
\* above), else wake up for nothing.
Slip_writer_timeout_ignored ==
  wpc = "loop" /\ received = Len(jobs) /\ UNCHANGED vars

writer_timeout ==
  /\ wpc = "loop" /\ received = Len(jobs)
  /\ \/ /\ policy.max_interval > 0 /\ batch_lines > 0
        /\ FlushAndReset(durable, received)
     \/ UNCHANGED <<stdout, batch>>
  /\ UNCHANGED <<cells, startup, jobs, counters, producers, wpc, policy, received>>
-------------------------------------------------------------------------------
Configure ==
  \/ \E p \in Policies : set_flush_policy(p)
  \/ \E c \in Capacities : set_channel_capacity(c)

\* What a program decides to do; nothing obliges it to.
Invoke(t) ==
  \/ \E n \in LineLens : submit(t, n) \/ try_submit(t, n)
  \/ flush(t)

\* What a call does once it has begun.
Proceed(t) ==
  \/ init_sender_enter(t) \/ init_sender_leave(t) \/ get_sender(t)
  \/ send(t) \/ try_send_full(t) \/ count_drop(t)
  \/ flush_send(t)

writer_loop ==
  writer_start \/ writer_line \/ writer_flush \/ writer_ack \/ writer_timeout

Next ==
  \/ Configure
  \/ \E t \in Thread : Invoke(t) \/ Proceed(t)
  \/ writer_loop

Spec == Init /\ [][Next]_vars

\* The operating system schedules every thread that can run, and time passes
\* (writer_timeout); no program is obliged to make a call.
Fairness == WF_vars(writer_loop) /\ \A t \in Thread : WF_vars(Proceed(t))
FairSpec == Spec /\ Fairness
-------------------------------------------------------------------------------
(* Properties.                                                             *)

InSubmit(t) == pc[t] \in {"get", "init", "send", "drop"}
InFlush(t)  == pc[t] \in {"flush", "await"}

\* Types, and which fields are in use when.
TypeOK ==
  /\ policyCell \in FlushPolicy \cup {None}
  /\ capacityCell \in ChannelCapacity \cup {None}
  /\ sender \in {"unset", "initialising", "ready"}
  /\ channel \in ChannelCapacity /\ rxAlive \in BOOLEAN
  /\ jobs \in Seq(Job)
  /\ dropped \in Nat /\ offered \in Nat
  /\ pc \in [Thread -> Label]
  /\ arg \in [Thread -> Arg] /\ mark \in [Thread -> Nat] /\ ticket \in [Thread -> Nat]
  /\ wpc \in {"none", "starting", "loop", "acking"}
  /\ policy \in FlushPolicy \cup {None}
  /\ received \in Nat /\ durable \in Nat /\ faults \in Nat
  /\ lost \in SUBSET Nat
  /\ batch_bytes \in Nat /\ batch_lines \in Nat

\* flush() returns only when every job enqueued before the call has been taken
\* by the writer and, unless stdout has failed, has reached the operating
\* system (the promise of the doc of flush, lines 301-311).
FlushDurable ==
  [][\A t \in Thread :
       InFlush(t) /\ pc'[t] = "idle" =>
         /\ received' >= mark[t]
         /\ faults' = 0 => durable' >= mark[t] /\ lost' = {}]_vars

\* The oldest job whose flush, if it is one, has not returned.
FirstUnanswered == IF wpc = "acking" THEN received ELSE received + 1

\* Every flush job still queued, and the one being acknowledged, belongs to a
\* call that is waiting for exactly that job: no acknowledgement goes to
\* another call, and the writer never waits in ack.send for a caller that left.
AckAwaited ==
  \A i \in FirstUnanswered..Len(jobs) :
    jobs[i].kind = "Flush" =>
      pc[jobs[i].from] = "await" /\ ticket[jobs[i].from] = i

\* Why FlushDurable holds.  The channel comes into being once, without jobs,
\* and none arrive if its receiver does not exist ...
StartUp ==
  /\ sender # "ready" => ~rxAlive /\ wpc = "none"
  /\ ~rxAlive => jobs = <<>>
  /\ \A t \in Thread : pc[t] = "init" => sender = "initialising"
  /\ \A t, u \in Thread : pc[t] = "init" /\ pc[u] = "init" => t = u

\* ... what the writer acknowledges it has drained up to ...
Drained ==
  /\ durable <= received /\ received <= Len(jobs)
  /\ faults = 0 => lost = {}
  /\ wpc = "acking" => /\ received > 0 /\ jobs[received].kind = "Flush"
                       /\ faults = 0 => durable = received

\* ... and a flush job comes after everything its call must see written.
Tickets ==
  \A t \in Thread :
    /\ mark[t] <= Len(jobs)
    /\ pc[t] = "await" => mark[t] < ticket[t] /\ ticket[t] <= Len(jobs)

FlushInv == StartUp /\ Drained /\ Tickets /\ AckAwaited

\* Every line offered is enqueued, counted as dropped, or still in its call:
\* the counter misses none, whatever the interleaving of the producers.
DropAccounting ==
  offered = Cardinality(Lines(1, Len(jobs))) + dropped
              + Cardinality({t \in Thread : InSubmit(t)})

\* What a kill would lose of the lines already taken: between two steps of the
\* writer the buffer is below every threshold of the policy in force, and it
\* never exceeds its capacity, though it also drains itself when it is full.
LossWindow ==
  /\ BytesOf(Buffered) <= BufCap
  /\ faults = 0 /\ policy # None =>
       /\ Cardinality(Buffered) < Max({policy.max_lines, 1})
       /\ policy.max_bytes > 0 => BytesOf(Buffered) < policy.max_bytes

\* The timer looks at batch_lines, never at the buffer: as long as stdout does
\* not fail, buffered lines are always covered by the open batch.
TimerArmed ==
  faults = 0 => /\ Cardinality(Buffered) <= batch_lines
                /\ BytesOf(Buffered) <= batch_bytes

\* A setting made in time is the one in force from then on, whatever any thread
\* sets later and however long the start-up takes: a policy before the writer has
\* read it, a capacity before the first caller begins to create the channel, hence
\* both before any submit (README.md, lines 712-715; stdout_emit.rs, lines 226-229).
SettingsTakeEffect ==
  /\ \A p \in Policies :
       [](policyCell = p /\ policy = None => [](policy = None \/ policy = p))
  /\ \A c \in Capacities :
       [](capacityCell = c /\ sender = "unset" => [](sender = "unset" \/ channel = c))

\* Every call returns: submit on a full channel, the threads waiting for the
\* initialisation, flush waiting for its acknowledgement.
CallsReturn == \A t \in Thread : pc[t] # "idle" ~> pc[t] = "idle"

\* Every accepted line reaches the operating system without any further call,
\* if stdout works and the policy has a timer or flushes every line.
LinesReachStdout ==
  \A i \in 1..(MaxLines + MaxJobs + Cardinality(Thread)) :
    Len(jobs) >= i ~>
      \/ durable >= i
      \/ faults > 0
      \/ policy # None /\ policy.max_interval = 0 /\ policy.max_lines > 1
-------------------------------------------------------------------------------
(* The abstract log: the lines among the jobs, and positions counted in    *)
(* lines.                                                                  *)

LinesUpTo(k) == Cardinality(Lines(1, k))
NthLine(k) == CHOOSE i \in Lines(1, Len(jobs)) : LinesUpTo(i) = k

Abstract == INSTANCE LineLog WITH
  log     <- [k \in 1..LinesUpTo(Len(jobs)) |-> jobs[NthLine(k)].from],
  onDisk  <- LinesUpTo(durable),
  waiting <- [t \in Thread |-> IF InFlush(t) THEN LinesUpTo(mark[t]) ELSE -1],
  healthy <- faults = 0

\* The writer implements the abstract log: channel, start-up, buffer and
\* acknowledgements together promise no less than LineLog does.
ImplementsLineLog == Abstract!Spec
-------------------------------------------------------------------------------
(* What the comments of the source say and the code does not do.           *)

\* The writer "flushes any buffered bytes even when the channel is idle"
\* (lines 371-376).
IdleBytesFlushed == Buffered # {} ~> Buffered = {}
===============================================================================
