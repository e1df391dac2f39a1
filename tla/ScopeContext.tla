----------------------------- MODULE ScopeContext -----------------------------
(***************************************************************************)
(* Which wide event is current, and who gets a log line: the thread-local  *)
(* and task-local cells of the generated guards and scopes                 *)
(* (src/wide-log-macros/src/codegen.rs, src/src/context.rs) with the hook  *)
(* stacks behind the crate-root level macros (src/src/hook_registry.rs),   *)
(* for the `tokio' feature without `tracing'.                              *)
(*                                                                         *)
(* Threads build and drop guards, poll the futures of scopes, and run emit *)
(* closures, which are user code and may do all of this again.  A scope    *)
(* future may be polled by any thread, by one at a time; a cancelled one   *)
(* is entered once more to drop what it holds and then ends like a         *)
(* finished one.  A future dropped before its first poll has no event.     *)
(*                                                                         *)
(* Several schema crates may live in one process: each has cells and a     *)
(* hook of its own, and all share the hook stacks.  A hook is named by its *)
(* schema.  An event is named by the guard or scope that owns it.          *)
(*                                                                         *)
(* Definitions named Slip_X_... are mistakes to put in the place of X.     *)
(***************************************************************************)
EXTENDS Integers, SequencesExt

CONSTANTS
  Thread, Guards, Scopes, Schema,
  Requests,     \* the scopes that a WideLogMiddleware makes
  SchemaOf,     \* the schema crate each guard and scope was generated for
  Null,         \* the null pointer
  Discipline    \* how the program treats its guards, see MayDrop

Event == Guards \cup Scopes

ASSUME ContextAssumption ==
  /\ Guards \cap Scopes = {} /\ Null \notin Event \cup Schema
  /\ Requests \subseteq Scopes
  /\ SchemaOf \in [Event -> Schema]
  /\ Discipline \in {"lexical", "same thread"}

VARIABLES
  CURRENT_EVENT,   \* per thread and schema: the event of a guard, or Null
  LOG_HOOKS,       \* per thread: the hooks of its guards
  TASK_LOG_HOOKS,  \* per scope: the hooks of its task
  prev,            \* per guard: the pointer it replaced
  state,           \* per event: "unborn", "calling", "future", "live",
                   \* "emitting", "freed"
  nest             \* per thread: what it is inside of, outermost first

vars == <<CURRENT_EVENT, LOG_HOOKS, TASK_LOG_HOOKS, prev, state, nest>>

\* An entry of nest: a guard alive that the thread built, a scope it is
\* polling, an event whose emit closure it is running, or a request whose
\* service it has called and which has no event yet.  The last three are
\* calls, which return in order; guards are values, which need not.
Entry == [role : {"guard", "poll", "emit", "call"}, event : Event]
Is(role, e) == [role |-> role, event |-> e]

Init ==
  /\ CURRENT_EVENT = [th \in Thread |-> [sc \in Schema |-> Null]]
  /\ LOG_HOOKS = [th \in Thread |-> <<>>]
  /\ TASK_LOG_HOOKS = [s \in Scopes |-> <<>>]
  /\ prev = [g \in Guards |-> Null]
  /\ state = [e \in Event |-> "unborn"]
  /\ nest = [th \in Thread |-> <<>>]
-------------------------------------------------------------------------------
(* The task-locals in force on a thread are those of the innermost scope   *)
(* it is polling; TASK_EVENT is kept per schema, TASK_LOG_HOOKS once.      *)

PolledOf(th, schemas) ==
  LET i == SelectLastInSeq(nest[th], LAMBDA n :
             n.role = "poll" /\ SchemaOf[n.event] \in schemas)
  IN  IF i = 0 THEN Null ELSE nest[th][i].event

TASK_EVENT(th, sc) == PolledOf(th, {sc})
Task(th) == PolledOf(th, Schema)

\* current(), task-local first.
current(th, sc) ==
  IF TASK_EVENT(th, sc) # Null THEN TASK_EVENT(th, sc) ELSE CURRENT_EVENT[th][sc]

\* append_log_entry: the last hook of the task, else of the thread.
InnermostHook(th) ==
  IF Task(th) # Null /\ TASK_LOG_HOOKS[Task(th)] # <<>>
  THEN Last(TASK_LOG_HOOKS[Task(th)])
  ELSE IF LOG_HOOKS[th] # <<>> THEN Last(LOG_HOOKS[th]) ELSE Null

\* The event that receives a line of a crate-root level macro: the hook
\* appends to the current() of its own schema.
append_log_entry(th) ==
  IF InnermostHook(th) = Null THEN Null ELSE current(th, InnermostHook(th))

Slip_push_log_hook_thread_only(th, h) ==
  /\ LOG_HOOKS' = [LOG_HOOKS EXCEPT ![th] = Append(@, h)]
  /\ UNCHANGED TASK_LOG_HOOKS

push_log_hook(th, h) ==
  IF Task(th) # Null
  THEN /\ TASK_LOG_HOOKS' = [TASK_LOG_HOOKS EXCEPT ![Task(th)] = Append(@, h)]
       /\ UNCHANGED LOG_HOOKS
  ELSE /\ LOG_HOOKS' = [LOG_HOOKS EXCEPT ![th] = Append(@, h)]
       /\ UNCHANGED TASK_LOG_HOOKS

Slip_remove_hook_first(hooks, h) ==
  IF Contains(hooks, h)
  THEN RemoveAt(hooks, SelectInSeq(hooks, LAMBDA k : k = h)) ELSE hooks

remove_hook(hooks, h) ==
  IF Contains(hooks, h)
  THEN RemoveAt(hooks, SelectLastInSeq(hooks, LAMBDA k : k = h)) ELSE hooks

\* The task's stack first, then the thread's; nothing to remove is ignored
\* (a debug build panics instead).
pop_log_hook(th, h) ==
  IF Task(th) # Null /\ Contains(TASK_LOG_HOOKS[Task(th)], h)
  THEN /\ TASK_LOG_HOOKS' =
            [TASK_LOG_HOOKS EXCEPT ![Task(th)] = remove_hook(@, h)]
       /\ UNCHANGED LOG_HOOKS
  ELSE /\ LOG_HOOKS' = [LOG_HOOKS EXCEPT ![th] = remove_hook(@, h)]
       /\ UNCHANGED TASK_LOG_HOOKS
-------------------------------------------------------------------------------
(* Guards.                                                                 *)

\* What the program does with guards: locals of synchronous code, dropped in
\* reverse order and never held across an await; or values dropped in any order
\* on the thread that built them.  (Nothing stops a program from moving a guard,
\* which is Send, to another thread; hook_registry.rs, line 21, forbids it.)
MayDrop(th, g) ==
  CASE Discipline = "lexical"     -> nest[th] # <<>> /\ Last(nest[th]) = Is("guard", g)
    [] Discipline = "same thread" -> Contains(nest[th], Is("guard", g))

\* Where an entry is in the nest of a thread; there is one of each.
At(th, n) == SelectLastInSeq(nest[th], LAMBDA m : m = n)

\* The end of the innermost call; lexical guards built in it are gone by then.
InnermostCall(th) == SelectLastInSeq(nest[th], LAMBDA n : n.role # "guard")
MayReturn(th, role) ==
  /\ InnermostCall(th) # 0
  /\ nest[th][InnermostCall(th)].role = role
  /\ Discipline = "lexical" => InnermostCall(th) = Len(nest[th])

Slip_build_forgets(th, g) ==
  LET sc == SchemaOf[g] IN
  /\ state[g] = "unborn"
  /\ state' = [state EXCEPT ![g] = "live"]
  /\ UNCHANGED prev
  /\ CURRENT_EVENT' = [CURRENT_EVENT EXCEPT ![th][sc] = g]
  /\ push_log_hook(th, sc)
  /\ nest' = [nest EXCEPT ![th] = Append(@, Is("guard", g))]

\* WideLogGuardBuilder::build.
build(th, g) ==
  LET sc == SchemaOf[g] IN
  /\ state[g] = "unborn"
  /\ state' = [state EXCEPT ![g] = "live"]
  /\ prev' = [prev EXCEPT ![g] = CURRENT_EVENT[th][sc]]
  /\ CURRENT_EVENT' = [CURRENT_EVENT EXCEPT ![th][sc] = g]
  /\ push_log_hook(th, sc)
  /\ nest' = [nest EXCEPT ![th] = Append(@, Is("guard", g))]

Slip_drop_guard_emits_first(th, g) ==
  /\ state[g] = "live" /\ MayDrop(th, g)
  /\ state' = [state EXCEPT ![g] = "emitting"]
  /\ pop_log_hook(th, SchemaOf[g])
  /\ nest' = [nest EXCEPT ![th] =
                Append(RemoveAt(@, At(th, Is("guard", g))), Is("emit", g))]
  /\ UNCHANGED <<prev, CURRENT_EVENT>>

\* Drop for WideLogGuard: the body restores the cell and pops the hook; the
\* field is dropped after the body, and its Drop runs the emit closure.
drop_guard(th, g) ==
  LET sc == SchemaOf[g] IN
  /\ state[g] = "live" /\ MayDrop(th, g)
  /\ state' = [state EXCEPT ![g] = "emitting"]
  /\ CURRENT_EVENT' = [CURRENT_EVENT EXCEPT ![th][sc] = prev[g]]
  /\ pop_log_hook(th, sc)
  /\ nest' = [nest EXCEPT ![th] =
                Append(RemoveAt(@, At(th, Is("guard", g))), Is("emit", g))]
  /\ UNCHANGED prev

\* The emit closure has returned, the event is freed.
emitted(th) ==
  /\ MayReturn(th, "emit")
  /\ state' = [state EXCEPT ![nest[th][InnermostCall(th)].event] = "freed"]
  /\ nest' = [nest EXCEPT ![th] = RemoveAt(@, InnermostCall(th))]
  /\ UNCHANGED <<CURRENT_EVENT, LOG_HOOKS, TASK_LOG_HOOKS, prev>>
-------------------------------------------------------------------------------
(* Scopes.                                                                 *)

BeingPolled(s) == \E th \in Thread : Contains(nest[th], Is("poll", s))

\* Service::call of the middleware: the inner service's call is user code and
\* runs before there is a scope.  What it returns is a future like scope()'s.
\* (poll_ready and the layer itself keep no state of their own.)
call(th, s) ==
  /\ s \in Requests /\ state[s] = "unborn"
  /\ state' = [state EXCEPT ![s] = "calling"]
  /\ nest' = [nest EXCEPT ![th] = Append(@, Is("call", s))]
  /\ UNCHANGED <<CURRENT_EVENT, LOG_HOOKS, TASK_LOG_HOOKS, prev>>

call_end(th) ==
  /\ MayReturn(th, "call")
  /\ state' = [state EXCEPT ![nest[th][InnermostCall(th)].event] = "future"]
  /\ nest' = [nest EXCEPT ![th] = RemoveAt(@, InnermostCall(th))]
  /\ UNCHANGED <<CURRENT_EVENT, LOG_HOOKS, TASK_LOG_HOOKS, prev>>

\* A future that is there, and no thread is polling it.
MayPoll(s) ==
  /\ state[s] \in {IF s \in Requests THEN "future" ELSE "unborn", "live"}
  /\ ~BeingPolled(s)

Slip_poll_thread_cell(th, s) ==
  /\ MayPoll(s)
  /\ state' = [state EXCEPT ![s] = "live"]
  /\ CURRENT_EVENT' = [CURRENT_EVENT EXCEPT ![th][SchemaOf[s]] = s]
  /\ push_log_hook(th, SchemaOf[s])
  /\ nest' = [nest EXCEPT ![th] = Append(@, Is("poll", s))]
  /\ UNCHANGED prev

\* A poll of the scope future: the first one creates the event and its cells.
poll(th, s) ==
  /\ MayPoll(s)
  /\ state' = [state EXCEPT ![s] = "live"]
  /\ TASK_LOG_HOOKS' = IF state[s] = "live" THEN TASK_LOG_HOOKS
                       ELSE [TASK_LOG_HOOKS EXCEPT ![s] = <<SchemaOf[s]>>]
  /\ nest' = [nest EXCEPT ![th] = Append(@, Is("poll", s))]
  /\ UNCHANGED <<CURRENT_EVENT, LOG_HOOKS, prev>>

\* The poll returns Pending.
pending(th) ==
  /\ MayReturn(th, "poll")
  /\ nest' = [nest EXCEPT ![th] = RemoveAt(@, InnermostCall(th))]
  /\ UNCHANGED <<CURRENT_EVENT, LOG_HOOKS, TASK_LOG_HOOKS, prev, state>>

\* It returns Ready, or the future is dropped: the task-locals are gone, then
\* the scope's ScopedGuard is dropped and emits.
ready(th) ==
  /\ MayReturn(th, "poll")
  /\ LET s == nest[th][InnermostCall(th)].event IN
     /\ state' = [state EXCEPT ![s] = "emitting"]
     /\ nest' = [nest EXCEPT ![th] =
                   Append(RemoveAt(@, InnermostCall(th)), Is("emit", s))]
  /\ UNCHANGED <<CURRENT_EVENT, LOG_HOOKS, TASK_LOG_HOOKS, prev>>
-------------------------------------------------------------------------------
Next ==
  \E th \in Thread :
    \/ \E g \in Guards : build(th, g) \/ drop_guard(th, g)
    \/ \E s \in Scopes : call(th, s) \/ poll(th, s)
    \/ call_end(th) \/ pending(th) \/ ready(th) \/ emitted(th)

Spec == Init /\ [][Next]_vars
-------------------------------------------------------------------------------
(* Properties.                                                             *)

TypeOK ==
  /\ CURRENT_EVENT \in [Thread -> [Schema -> Guards \cup {Null}]]
  /\ LOG_HOOKS \in [Thread -> Seq(Schema)]
  /\ TASK_LOG_HOOKS \in [Scopes -> Seq(Schema)]
  /\ prev \in [Guards -> Guards \cup {Null}]
  /\ state \in [Event -> {"unborn", "calling", "future", "live", "emitting", "freed"}]
  /\ nest \in [Thread -> Seq(Entry)]

\* The innermost thing a thread is inside of, among those of the given roles
\* and schemas.
Innermost(th, roles, schemas) ==
  LET i == SelectLastInSeq(nest[th], LAMBDA n :
             n.role \in roles /\ SchemaOf[n.event] \in schemas)
  IN  IF i = 0 THEN Null ELSE nest[th][i].event

\* The cell of a thread holds the innermost guard alive on it, so it is null
\* when there is none and never points at an event that was freed (context.rs,
\* lines 8-19).
CurrentIsInnermostGuard ==
  \A th \in Thread, sc \in Schema :
    CURRENT_EVENT[th][sc] = Innermost(th, {"guard"}, {sc})

\* What current() hands out is an event nobody has begun to emit: an emit
\* closure that logs never writes to the event it is serializing.
CurrentIsLive ==
  \A th \in Thread, sc \in Schema :
    current(th, sc) # Null => state[current(th, sc)] = "live"

\* The stack in use with the first k entries of a thread: that of the last
\* scope polled among them, else the thread's own.
HookStack(th, k) ==
  LET polls == {i \in 1..k : nest[th][i].role = "poll"}
  IN  IF polls = {} THEN LOG_HOOKS[th] ELSE TASK_LOG_HOOKS[nest[th][Max(polls)].event]

\* The entries that have a hook on it: that scope and the guards since.
Hooked(n, k) ==
  {j \in 1..k : /\ n[j].role \in {"guard", "poll"}
               /\ \A i \in j + 1..k : n[i].role # "poll"}
Depth(n, k) == Cardinality(Hooked(n, k))

\* "The hook-stack nesting mirrors the CURRENT_EVENT / TASK_EVENT nesting
\* exactly" (hook_registry.rs, lines 17-20): a thread's stack is that of its
\* guards outside any scope, a task's stack its scope's own hook and those of
\* the guards built in it, all in order and nothing else; a suspended task
\* has its own hook only.
HooksMirrorNesting ==
  /\ \A th \in Thread :
       LET n == nest[th] IN
       \A k \in 0..Len(n) :
         /\ k > 0 /\ n[k].role \in {"guard", "poll"} =>
              /\ Depth(n, k) <= Len(HookStack(th, k))
              /\ HookStack(th, k)[Depth(n, k)] = SchemaOf[n[k].event]
         /\ k = Len(n) \/ n[k + 1].role = "poll" =>
              Len(HookStack(th, k)) = Depth(n, k)
  /\ \A s \in Scopes :
       state[s] = "live" /\ ~BeingPolled(s) => TASK_LOG_HOOKS[s] = <<SchemaOf[s]>>

\* A line logged through a crate-root macro is never lost while anything is
\* active, and goes to the schema of the innermost guard or scope.
LinesReachInnermostSchema ==
  \A th \in Thread :
    LET inner == Innermost(th, {"guard", "poll"}, Schema)
        target == append_log_entry(th)
    IN  IF inner = Null THEN target = Null
        ELSE target # Null /\ SchemaOf[target] = SchemaOf[inner]
-------------------------------------------------------------------------------
(* What the comments say and the code does not do.                         *)

\* "The raw pointer stored in this cell is sound because: ... Set on creation,
\* cleared on drop" (context.rs, lines 10-17).
PointersAreLive ==
  \A th \in Thread, sc \in Schema :
    CURRENT_EVENT[th][sc] # Null => state[CURRENT_EVENT[th][sc]] # "freed"
===============================================================================
