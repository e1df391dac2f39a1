# A verification of wide-log in TLA+

wide-log collects everything a request has to say into one *wide event* and
emits it as one JSON line when the request ends.  This directory models the
parts of the crate where that can go wrong in ways a unit test hardly reaches:
the process-global writer thread, the raw pointers that say which event is
current, the hook stacks behind the level macros, the thread-local buffers a
message passes through, the tree of values that user code and the guard write into,
the line it becomes, and the macro that makes all of this of a JSON-like text.  TLC checks small
instances; TLAPS proves the results that matter most for every value of the
constants.  Paths below are relative to the repository; `codegen.rs` is
`wide-log-macros/src/codegen.rs`, the other files are under `src/`.

## Inventory

| component | source | state | operations | what makes it correct |
|---|---|---|---|---|
| stdout writer | `stdout_emit.rs` | three `OnceLock`s (sender, policy, capacity), the drop counter, the channel, the writer's `BufWriter` and batch counters | `submit`, `try_submit`, `flush`, `set_flush_policy`, `set_channel_capacity`, the writer thread | `flush` returns after everything submitted before it is at the operating system; no line lost uncounted; what a kill loses is bounded by the policy; nobody waits forever |
| current event | `codegen.rs` 594-662, 838-1218; `context.rs` | per thread a pointer to the event of a guard, per task one to the event of a scope, per guard the pointer it replaced | `build`, drop of a guard, poll, completion and drop of a scope, `current` | `current` never returns an event that is being emitted or freed; leaving a guard or scope brings back what was current before |
| hook registry | `hook_registry.rs`; `codegen.rs` 750-836 | a stack of hooks per thread and per task, a format buffer per thread | `push_log_hook`, `pop_log_hook`, `scope_log_hook`, `append_log_entry`, `append_log_entry_fmt` | hook nesting mirrors event nesting; a line reaches the innermost schema |
| wide event | `wide_event.rs`, `value.rs`, `log.rs` | an array of values per object, a log, a count of present slots | set, inc, dec, add at a path, append a log entry, serialize | a write replaces what cannot stand beside it and nothing else; the cached count matches; counters keep their type's range |
| scoped guard | `guard.rs` | event, start time, emit closure | drop: set duration and timestamp, emit once | every emitted event has both, under the schema's paths; nothing else is lost, the id least of all |
| logging macros and default emit | `codegen.rs` 664-763, 1637-1794; `lib.rs` 346-410; `hook_registry.rs` 165-186 | `FMT_BUF`, `LOG_FMT_BUF`, `EMIT_BUF` per thread | five levels, literal and formatted, of a schema crate and of the crate root; `wl_set` and its like; the emission of an event | every call adds one whole entry to the event that was current when it was made, or none for a reason; one line per event |
| tracing capture layer | `codegen.rs` 1434-1622 | `FIELDS_BUF`, `FMT_BUF`, a level floor | `on_event` | the crate's own records are not captured again; records inside of records do no harm |
| tower middleware | `codegen.rs` 1290-1423 | the scope future of a request | `call`, `poll` | the inner future runs inside the scope, the inner `call` outside |
| serializers and log entries | `wide_event.rs` 290-298, 342-360, 374-502, `value.rs`, `log.rs` | none | `serialize_to`, `to_json` | both write one JSON object that reads back as the event |
| schema parser | `parse.rs` | the text read so far | overrides, keys, scalars, objects, parentheses | no key twice in an object, numbers as written |
| schema compiler | `codegen.rs` 8-592 | keys, paths, defaults, the duration, timestamp and id paths | `walk`, the automatic subtrees, `validate`, path resolution | distinct keys, one duration leaf, every path resolves, the guard's paths are apart |
| key trait and errors | `key.rs`, `error.rs` | none | none | (constants and a type; not modelled) |

Interaction: a guard's drop (or a scope's end) pops its hook, restores the
current pointer, sets duration and timestamp, serializes, and calls `submit`
from whatever thread it runs on; the writer thread takes the line from there.
The emit closure is user code and may build guards and log in its turn.

The hard parts are the concurrent start-up of channel and writer, flush
acknowledgements between several flushers, blocking on a full channel, ignored
failures of stdout, the timer, guards and scopes nested in one another on several
threads, user code that logs while it is being formatted, captured or emitted, user code
writing at, above or inside the very paths the guard writes to, and schemas that put keys where
the compiler adds its own.  `PROJECT.json` lists each hazard at its line
with the properties that watch it.

## Modules

| module | models | used by |
|---|---|---|
| `StdoutEmit` | `stdout_emit.rs`, clock abstracted | `MCStdoutEmit`, `StdoutEmitProofs` |
| `LineLog` | what the writer promises, without channel, buffer or thread | `StdoutEmit` (refinement mapping) |
| `WriterTimer` | the clock of `writer_loop` | `WriterTimerProofs` |
| `ScopeContext` | guards, scopes, requests of the middleware, cells, hook stacks | `MCScopeContext`, `ScopeContextProofs` |
| `WideEvent` | the values of one event, the builder's statements, the drop of its guard | `EventLine`, `WideEventProofs` |
| `FieldMap` | what an event promises, without objects or counts | `WideEvent` (refinement mapping) |
| `EventLine` | the two serializers, over the states of `WideEvent`, and a reader of lines | `MCWideEvent`, `WideEventProofs` |
| `LogAppend` | macros, capture layer and emission with their shared buffers | the runs `append`, `reentrant`; `LogAppendProofs` |
| `EntryLog` | what the macros promise, without buffers or calls in progress | `LogAppend` (refinement mapping) |
| `SchemaParser` | `parse.rs` | `SchemaCompiler` |
| `SchemaCompiler` | the macro from the parsed object to the generated schema | `MCSchemaCompiler`, `SchemaProofs` |
| `Picking` | the elements of a sequence at chosen positions, which is how an event iterates its keys and a walk an object's entries | `EventLine`, `SchemaCompiler` |
| `StdoutEmitProofs`, `WriterTimerProofs`, `ScopeContextProofs`, `LogAppendProofs` | the theorems about the module of that name | |
| `WideEventProofs` | the theorems about `WideEvent` and `EventLine` | |
| `SchemaProofs` | the theorems about `SchemaParser` and `SchemaCompiler` | |
| `SequenceLemmas` | facts about stacks, chosen positions and sums, and what stands in for induction | all proofs but `WriterTimerProofs` |
| `FoldLemmas` | `FoldLeft` of an operator as a trace of its steps | `SchemaProofs`, `WideEventProofs` |

Definitions named `Slip_X` sit beside the definition `X` they spoil, and are
plausible mistakes in the code of `X`; no specification uses them.  Each shows
that a property is sensitive to the code it is about.

### StdoutEmit

Producers are threads with a program counter per call: `get` (before
`SENDER.get_or_init`), `init` (inside `init_sender`), `send`, `drop` (about to count a
dropped line), `flush` (about to enqueue the job) and `await` (in `ack_rx.recv`).
`OnceLock` is modelled by its contract: one initialiser, the others wait. The
capacity is read when the initialiser enters, the policy when the writer thread
gets to run. Spawning may fail, which the code ignores: the receiver is gone
and every send fails. A channel of capacity `n` holds `max(n, 1)` jobs.

The channel is kept as its history. `jobs` only grows, `received` counts what
the writer took, `durable` what reached the operating system, so a kill in any
state leaves exactly `jobs[1..durable]` (less `lost`) on stdout; the crash needs
no action of its own. A line enters the `BufWriter` as the
standard library does it: spill when it does not fit, bypass when it fills a
buffer alone. Every write and flush may fail, at most `MaxFaults` times; a
failing one may have written any part of the buffer.  The code ignores the
failure of a flush and drops the line of a failed write.

`writer_line` is the whole `Line` arm: write, per-line, threshold and
time-based flush with the reset of the batch. `writer_flush` and `writer_ack` are
the `Flush` arm, in two steps because `ack.send` on a rendezvous channel blocks
until the flusher receives. `writer_timeout` is the `Timeout` arm. Whether the
batch is old enough is a choice here and computed in `WriterTimer`. The
`Disconnected` arm and the final flush have no action: the sender lives in a
static that is never dropped.

### WriterTimer

Ages count in ticks since the last reset of the batch, since `recv_timeout` began,
and since the oldest and newest buffered lines arrived. The writer handles
every job at once and stdout works, so the bounds are what the code's own timer
contributes, without scheduling delays or a slow pipe.

### ScopeContext

Per thread, `nest` lists what the thread is inside of: guards it built, scope
futures it is polling, emit closures it is running. Task-local storage is that
of the innermost scope polled, which is what tokio's `LocalKey::scope` sets for
the time of a poll. A scope may be polled by another thread next time. Drop of
a guard restores the cell, pops the hook and then runs the closure, since Rust
drops fields after the body. `Discipline` says how the program treats its guards:
`lexical` (locals, dropped in reverse order, not held across an await) is the
documented use and the assumption of the passing run; `same thread` drops them in any
order on their thread.

A request of the middleware goes through two more states: `calling` while the inner
service's own `call` runs, which is user code outside of any scope, and `future` until
the first poll. The layer's clone of the service, its preset and `poll_ready` keep no state.

### WideEvent

The tree is kept flat: `values` has a slot for every path the instance uses, `Object`
where a nested event stands, and `present_count` the cached count of every nested
event. A write at a path is `Stored` (each slot above becomes a nested event unless it
is one, what was inside of the old value is gone) with `Counted` (each event on the way
counts a slot that was empty). The four user operations differ in the value
they compute from the slot; a read that passes a scalar finds nothing, as in the
code, because the flat slots below a scalar hold `None`. `inc`, `dec` and `add_n` keep the
integer types and their limits: `+` wraps as it does in a release build, while in a build with
overflow checks it panics before the slot is written, which is no step. That the flat slots form a tree needs
no check of the code, whose events own their children; `Shape` in `WideEventProofs` says it for the proofs.

`phase` follows the builder: the schema's defaults one by one, the preset closure (any
number of user operations), the id, then user code, then the drop. The drop may also
come in phase `preset`: that is `build` unwinding from a panicking preset closure, and the line
it emits has no id. `drop_fast` and `drop_slow` are the two branches of
`ScopedGuard::drop`; which one runs depends on the length of the paths, so the schema's
`DURATION_PATH` is chosen in `Init`. `drop_fast` looks at both slots first (`Missing`), then makes the events
it found missing, then writes each leaf only if an event stands in its slot (`Leaf`); a wrong look loses a stamp, or
throws a user's object away. `FieldMap` knows only a map from paths to values and
which paths contain one another. `ImplementsFieldMap` says that every operation is one
write to that map and the drop two, so the fast branch does what the slow one does.

`SchemaAssumption`, which `GuardPathsApart` of `SchemaCompiler` says of the schemas the macro accepts (a theorem: `GuardPathsHold`), says that the paths of duration, timestamp and id do not contain one
another. The compiler does not refuse `"event": { "id": duration! }`, nor two overrides of one
name; these schemas are left out here as they are there.

### EventLine

Extends `WideEvent`, so its two properties speak of every state of every event, the
ones in the middle of an unwinding builder included. A line is a sequence of tokens.
`serialize_to` writes it as `write_event` does, each object between braces. `to_json` goes through
serde, whose `serialize_map` is told the number of entries in advance. That number is the
cached count, which the fast drop leaves too high (see below), and a serializer that is told zero
closes the object at once. That a count too high harms neither way, and is never zero when it
should not be, is what `SerializersAgree` rests on. `ReadLine` is a reader written without looking at
the writers, which keeps what is open around the next token and goes wrong at a token that JSON does not allow
there or a path it has read before. `LineReadsBack` says that at the end of the line nothing is open, nothing
went wrong, and every field has been read at its path and every entry of the log at its position.

### LogAppend

`frames` is the call stack of one thread: guards alive, and calls in the middle of
which user code runs. `generated` is a formatted macro of a schema crate, which
looks the event up and borrows `FMT_BUF` before its arguments are evaluated; `root arguments`
and `root` are the two halves of a crate-root macro, which evaluates first, tries
`LOG_FMT_BUF`, and finds the event last; `wl_set` computes its value between finding the event and
writing; `capture` is the layer while it renders a record; `emit` is the subscriber while an
event's line goes through it. Any call may be made from any frame. A buffer is borrowed as long as a
frame that `Holds` it is on the stack; a `borrow_mut` that fails panics, and `Unwind` takes the
stack down to any frame, since user code may catch a panic anywhere, emitting the
events of the guards it passes. Each piece of text carries the call it came from, so text in the wrong
entry shows.

### SchemaParser and SchemaCompiler

The parser is a state machine over what it expects next, with the groups it is inside of as
a stack; TLC so enumerates every text the grammar admits up to `MaxItems` overrides and
entries and `MaxParens` parentheses, with no text written down. The object is kept flat,
entries with paths in the order of the text. The compiler is the function `Generated` of those
entries, one operator per method of `GenContext`: the walk of the whole object, then the automatic
duration, then the automatic event, which walk their objects again. `validate` is the macro's own
check and `enum_def` what rustc says of the enum it emits. `Words` and `Variant` say how a name splits at
dots and what its PascalCase variant is, given by the instance because TLC has no strings to look into.

## Runs

| run | instance | shows |
|---|---|---|
| `flush` | 2 threads, 3 lines, unbounded or one slot, default or per-line policy, one failure | `FlushInv` (start-up once, drained prefix, tickets, awaited acknowledgements) is invariant; `FlushDurable`, `DropAccounting` hold; the module implements `LineLog` |
| `window` | 4 policies, line lengths around the buffer's, at most one failure | `LossWindow`, `TimerArmed` |
| `live` | 2 threads, `Bounded(0)`, `Bounded(2)` or unbounded, two policies, set at any moment and again, fair | `CallsReturn`, `LinesReachStdout`; `SettingsTakeEffect` |
| `bounds` | interval 4, 4 lines | `LossBound`, `ReaderBound` and their strengthening |
| `lexical` | 2 threads, 3 guards, a scope, 2 requests, 2 schemas; threads and the two guards of one schema are symmetric | `CurrentIsInnermostGuard`, `CurrentIsLive`, `HooksMirrorNesting`, `LinesReachInnermostSchema` |
| `event` | three-level paths, a schema per branch of the drop, integers -2..1 and 0..1, a payload that is not finite, logs of up to two entries | `CountsPresent`, `LineIsStamped`, `IdSurvives`, `SerializersAgree`, `LineReadsBack`; the event implements `FieldMap` |
| `append` | 4 calls, 2 guards, a stack of 5, both builds | `CallsAccounted`, `NoRecapture`, `BestEffort`; the macros implement `EntryLog` |
| `schema` | 3 overrides and entries, 8 names, one key spelled in two ways, 2 kinds of marker and number | `NumbersAsWritten`, `PathsResolve`, `DurationLeaf`, `GuardPathsApart`, `DefaultsIndependent` |

The other runs each refute a statement of the repository:

| run | the repository says | what happens |
|---|---|---|
| `failed_flush` | the timer flushes any buffered bytes when idle (`stdout_emit.rs` 368-369) | a failed flush resets `batch_lines`, so the timer ignores what is left |
| `reorder` | set on creation, cleared on drop (`context.rs` 15) | two guards dropped in building order leave a pointer to a freed event |
| `marker` | a `duration!` key is the duration (README 433) | without a duration object the automatic `duration.total_ms` takes its place |
| `reentrant` | a re-entrant format-arg call is skipped rather than panicking (README 525) | true of the crate-root macros; a generated one panics on `FMT_BUF` |

Divergences seen but without a run. In the writer: the policy is read when the writer thread
starts, so events submitted before a late `set_flush_policy` may be flushed under the new one
(`stdout_emit.rs` 200-202 says the old one); a line may wait almost twice `max_interval` where the
README (685-687) bounds the loss by one (`LossBound` is what holds); what `SettingsTakeEffect` shows is only that a
setting made in time stays in force;
`current_channel_capacity` returns a value set after
the channel was created; `Bounded(0)` is called a strict rendezvous
(334-336) but buffers one job; with `max_interval` zero and `max_lines` above one
nothing flushes an idle buffer, although the comment at 371-376 says so. In guards:
a guard built inside a scope is never `current()` there, which prefers the task
(`lib.rs` 286: the innermost active event); the emit closure of a guard runs after the cell is
restored, not before as `codegen.rs` 1071-1075 says (Rust drops fields after the
body of `Drop`; the model does the same). In events: the fast drop counts a slot it replaces
a second time (`guard.rs` 185, 190), so `len()` may be up to two too high after it, where `wide_event.rs` 41-42
calls the count exact (`CountsPresent` is what holds, and the lines are right); a dotted path
that no schema path matches resolves to the empty path, on which the write
operations panic (`wide_event.rs` 136-147), where the changelog speaks of a no-op. In schemas:
`"duration": { "secs": null }` makes `secs` the duration (`codegen.rs` 296-305) where README 455-459 and
`wide-log-strategy.md` 182-183 add `total_ms`, which is why `DurationLeaf` says nothing of a single other leaf; of two markers the last one wins (455: exactly one); a key with a
dot hides the nested path of the same spelling; a default under `event.id` passes `validate`, which looks only
for one at it, and is overwritten by the id; a marker at `event.id` or at `event.timestamp` passes, and
so do overrides that give two slots one name; a top-level key named like the log
gives a line with that key twice; the key `"type"` becomes the variant `Type`, not `Type_` (482).

**Bounds.** `MaxLines`, `MaxJobs`, `MaxFaults`, `Saturation` are named in the
modules. Two producers suffice for the races of initialisation and for a flush
overtaken by another thread's submit or flush; three lines fill a channel of one slot,
the writer's hand and a blocked producer. Lengths 1 and 4 with a buffer of 4
give a line that fits, one that spills, and one that bypasses. One fault separates
`durable` from `received`. In `lexical` each guard and scope is used once, so
the runs end: deadlock is not checked there. Three guards and three scopes are
enough for a guard between two scopes, a scope between two guards, the same
schema twice with another in between, and a scope that migrates between threads.

In `append` two calls show every pair of an outer and an inner call and the fourth a
call after both have ended; a stack of five is a guard, a call, a guard inside of it, a call and an
emission. In `schema` three entries are an object with two children, a key used on two levels, or
an object with a grandchild, each beside a marker anywhere. The names hold two that share a variant, one
with a dot that spells another's path, and one without a variant. Programs stop, so deadlock is not
checked in either.

In `event` a limit of one is enough for a counter to reach it from either side, for
`dec` to meet zero and for a count to change its type; the paths have three
levels, so a write can land above, at and below an object the guard needs, and the
slots of both parents can be empty, scalar or an object. One default is set, at a path
the guard overwrites. An emitted event is over, so deadlock is not checked.

**Fairness.** `FairSpec` assumes weak fairness of the writer and of each call
that has begun: the operating system schedules every thread that can run, and time
passes, so `recv_timeout` returns. Nothing obliges a program to make a call.
Blocking needs no strong fairness here because a producer waiting for a slot competes
with finitely many calls (`MaxLines`, `MaxJobs`); with endless
competition std's channel gives no such promise and the property would be false.

## Proofs

Assumptions: those on the constants, `ConstantsAssumption` (policies and capacities
have their types, lengths and buffer are positive), `TimedPolicy` (a positive interval),
`ContextAssumption` (guards and scopes are apart and have a schema, `Null` is none of them),
`PathsAssumption` (finitely many paths, each with those above it), `SchemaAssumption` (the
guard's paths do not contain one another), `NumbersAssumption` (the order of the integer
limits), `LineAssumption` (the enum lists each key once, and no field of the schema has the log's name; a schema
may have one, and then its line has that key twice), `ParserAssumption` and
`TokenAssumption` (a name is its words, and of no other name), `CompilerAssumption` (the
automatic keys are names of one word) and `LogAssumption`.

The provers have no induction. Three things stand in for it, all in `SequenceLemmas` and
`FoldLemmas`: a set of naturals without least element is empty (`LeastOf`, `NoneLeast`); a sum over a
finite set exists and adds up (`SumStep`, `SumAdd`, `SumMonotone`, proved of the fold that
defines it); and a `FoldLeft` is the end of a trace that starts at its base and takes one element
a step (`FoldTrace`), so what every step keeps holds of the fold (`FoldKeeps`), and folding two sequences one after
the other is folding their concatenation (`FoldConcat`). `NthIs` says that
`Picked` counts positions in their order.

`StdoutEmitProofs` holds for any set of threads and any bounds. `FlushDurable` is not
inductive: that a flush returns only when `durable` has passed its mark needs to know
where its job is in the channel, that the writer acknowledges only that
job, and that when it does the buffer has been drained. `FlushInv` says so in four parts.
`StartUp`: until the sender is published there is neither receiver nor writer, one
thread initialises, and without receiver there are no jobs. `Drained`: `durable <=
received <= Len(jobs)`, and between flush and acknowledgement `durable` equals `received`
unless stdout failed. `Tickets`: a waiting call's job lies after its mark.
`AckAwaited`: every pending flush job belongs to a call waiting for that very job. A
frame lemma says producers never touch the writer's state, `EnqueueJobs` that sends
only append, and `ProducerCall` what one producer's step does to all calls; each part
is then preserved step by step (`NextStartUp`, `NextDrained`, `NextTickets`), and
`FlushIsDurable` combines them.

`WriterTimerProofs`: `BatchShape` is the strengthening. A line joins an open
batch only while the batch is younger than the interval, and the last line
restarted the timeout; so age minus waiting stays below the interval. Both bounds follow.

`WideEventProofs` holds for any finite set of paths closed under prefixes, any schema
that fulfils `SchemaAssumption` and any limits of the integers. The inductive
invariant is `TypeOK`, `Shape`, `CountsPresent`, `LineIsStamped` and `IdSurvives`
together: `Shape`, that the slots form a tree, is a strengthening that no run checks; it is what makes the count of a dropped subtree zero
(`CountedTracks`) and what lets a write be described without looking at the
objects in between (`CoversStored`). A write is one fact about `Stored` and `Counted`
(`StoredTree`, `CountedTracks`), used for every user operation and default; the fast
drop first makes its objects (`ChildrenTree`, `ChildCountsTrack`, `ChildrenKeepId`), then
finds an event for either leaf (`FastDropEmits`) and writes like everyone else. `EventRefinesFieldMap` is the refinement: `PutStored` says
that `Stored` is the `Put` of `FieldMap`, and `PutChildren` that making
the objects first changes nothing of the result.

`ScopeContextProofs` holds for any threads, guards, scopes, requests and schema crates, under the
assumption `Lexical` that a program keeps its guards as locals, without which a cell may hold a freed pointer
(`reorder` shows one way). Under it every step changes only the end of what one thread is inside
of: it pushes an entry, pops one, or swaps one for the emission of its event (`Changes`). The invariant says of
each entry how it agrees with those below: `Roles` (its event is in the state its role asks for), `Once` (no event
is in two places, on any thread), `Previous` (a guard has saved the innermost guard of its schema below
it), `Cells` (the cell holds the innermost of all), `Mirror` (the entry's hook is at the depth it has in the
nest, and the stack ends where the nest does) and `Suspended` (a task between two polls has its own hook
only). `Previous` is what makes the restoring drop right, `Once` what keeps a push on one stack
from showing on another. `IsTop` is the last entry of a kind; five lemmas about it replace every reasoning about
`SelectLastInSeq`. One lemma per conjunct carries it through any `Changes` (`RolesStep`, `PreviousStep`,
`CellsStep`, `MirrorStep`, `SuspendedStep`), and one per action instantiates them.

`LogAppendProofs` holds for any events and calls, any depth of the stack, both builds. Its invariant is about one
frame at a time: `Sound(i)` relates a frame to those below it (who holds which buffer, which event was
current when its call was made, why an inner call may be skipped), so a step that changes the top keeps all the
others, which `Kept` and `Cutting` say once for pushes, returns and unwinding. The books of
entries and call outcomes are kept by `BooksKept` (nothing was added) and `BooksAdded` (one whole message was). `NextSimulates` maps each
step to one step of `EntryLog` or to a stutter and gives `EntryLogImplemented`.

`StdoutEmitProofs` also proves `DropAccounting`: `Books` adds that the calls in progress are a finite set, each
of which leaves it with its line in the channel or with the counter increased. `LossWindow` and `TimerArmed` rest on
`WindowInv`: as long as stdout has not failed the lines in the buffer are no more and no longer than the open batch
counts, the batch is below both thresholds of the policy, and whatever happens the buffer does not exceed
its capacity. One lemma bounds what the buffer holds after a step by any set of jobs it
lies within (`BufferWithin`), and the writer's arms are its instances: a step adds one line, lets
lines leave, leaves nothing, or leaves the line that was spilled for (`BufferGrows`, `BufferShrinks`,
`BufferEmpties`, `BufferIsLine`).

`SettingsHold` follows each setting from its cell to where it is read: `PolicyFixed` and `CapacityFixed` hold from the moment
the setting is made in time and are kept by every step (`PolicyStays`, `CapacityStays`), the second because only the one
thread that `StartUp` allows reads the capacity.

`WriterImplementsLineLog` maps the writer to `LineLog`. The log is the lines of `jobs`, so an accepted line appends
one element (`LogAppends`) and a flush job none (`LogSame`); what is written and what a flush waits for are counts of lines
in a prefix of `jobs`, which grow with the prefix (`LinesMonotone`) and do not change when jobs are
sent behind it (`CountsKept`). Every step of a producer is then an `Accept`, a `BeginFlush`, an `EndFlush`
or a stutter (`ProducerRefines`), every step of the writer a `Persist` or a stutter (`WriterRefines`), and for the
return of a flush `FlushInv` gives that its mark has been passed.

`SerializersAgreeAlways` proves of every state that `serialize_to` and `to_json` write the same line. Each is a recursion
over nested events, which ends because what lies inside of an event is less high (`HeightFalls`); both are solutions of
the same equation once `serialize_map` writes what `write_event` writes (`MapWritten`). That needs of the
cached count only that it is zero exactly when the event has no slot in use, which is what
`CountsPresent` leaves of exactness after a fast drop.

`LineReadsBackAlways` proves that the reader undoes the writer, one a fold over tokens, the other a recursion over
objects. `FoldConcat` lets the fold be cut where the recursion is: `Yields` says of a run of tokens that the reader,
started in any state that holds none of these paths yet, ends after it with nothing amiss and exactly these values more.
A scalar yields itself; a token that only opens, closes or separates yields nothing (`AfterToken`,
`BeforeToken`); parts with commas between them yield what they yield one by one (`SeparatedYields`), hence an object with
its keys (`BracedYields`) and the log (`LogYields`). That the parts do not repeat one another's paths, which the reader
would notice, is `SlotsApart` and `LogApart`; that together they are all there is, `SlotsCover`, which needs `Shape`.
`EventsRead` goes from the innermost event out, by height as above.

`SchemaProofs` holds for every text. `ParserInv` says where the parser is: `Ordered` (an entry below the top comes after
the object that contains it, with nothing between them that lies elsewhere), `Apart` (no path twice), `Nest` and `GroupsOpen` (the
groups around the next token lie inside of one another, and those in braces are objects still open) and `Place` (what is
expected next fits where it is). From it `Enclosing` gives that whatever lies around an entry is an object of the
text. `parse_literal_str` is cut into its forms (`LiteralIs`) for `NumbersAsWritten`. Of the compiler's operators it is
proved what each does to the context it is handed: `Grows` (keys and paths are only added, the paths from a given
set, no path twice, and the duration stays or becomes one of a given set) is kept by declaring
one key (`DeclareGrows`), by visiting an entry, and so by walking any entries (`WalkGrows`). `Walked`, `DurationAdded` and
`Stamped` say what is true after each of the three passes, and `GeneratedIs` puts them together; `DurationHolds`,
`GuardPathsHold` and `PathsHold` read their property off it, `DefaultsHold` off `DefaultsApart`, which needs the parser only.
`SchemaInv` adds that the schema is what `Generated` says of a text that no longer changes (`SameGenerated`).

What is only model-checked: liveness (`CallsReturn`, `LinesReachStdout`), which is beyond the prover. Every invariant
that a passing run checks is a theorem.

## Not modelled

The content of lines; memory ordering of the drop counter (a relaxed counter
nothing else depends on); process exit while the writer runs (a kill, see
above); `mem::forget` of a guard, which the source documents as unsound, and its
move to another thread, which `hook_registry.rs` 21 forbids; panics in user
closures other than the preset's and other than those a borrowed buffer causes; a `Display` that
fails; dropping a guard from inside a call that is about to write to its event; several threads in
`LogAppend`, whose buffers and cells are all thread-local; what `tracing` itself does inside a dispatch,
tower, tokio and sonic-rs beyond how the code uses them. Strings are whole: that
the two escapers agree (the direct one also escapes U+2028 and U+2029, which JSON does
not ask for) is not looked at. `key.rs` and `error.rs` hold a trait of constants and an
error type. Benchmarks, examples, fuzz targets and CI are not part of the program's logic.

## Plan

What a continuation would do next, in this order.

1. `ScopeContext` with the `tracing` feature, where a record is appended through the layer instead of a hook, and
   guards that user code drops in another order as far as anything still holds (`HooksMirrorNesting` by
   number instead of by order).
2. `LogAppend` and `ScopeContext` composed: which event a line of a suspended task reaches when its guards are
   those of two threads.
