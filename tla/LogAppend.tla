------------------------------- MODULE LogAppend -------------------------------
(***************************************************************************)
(* How a line reaches an event: the logging macros of a schema crate and   *)
(* of the crate root, the capture layer of the `tracing' feature, and the  *)
(* emission of an event, with the thread-local buffers they share          *)
(* (src/wide-log-macros/src/codegen.rs, src/src/hook_registry.rs).         *)
(*                                                                         *)
(* One thread.  `frames' is its call stack: guards alive, and calls in     *)
(* which user code is running, which may do all of this again: an argument *)
(* expression, a Display or Debug implementation, a layer of the           *)
(* subscriber.  Guards are locals, so the event that is current is that of *)
(* the innermost guard (CurrentIsInnermostGuard of ScopeContext); dropping *)
(* the guard of the event that a call is about to write to, from inside    *)
(* that call, is left out.  A buffer is borrowed as long as a frame that   *)
(* holds it is on the stack: unwinding releases it.                        *)
(*                                                                         *)
(* Definitions named Slip_X_... are mistakes to put in the place of X.     *)
(***************************************************************************)
EXTENDS Integers, SequencesExt

CONSTANTS
  Event,
  MaxCalls, MaxDepth,   \* bounds on the calls made and on the stack
  Null

ASSUME LogAssumption == MaxCalls \in Nat /\ MaxDepth \in Nat /\ Null \notin Event

Call == 1..MaxCalls

VARIABLES
  tracing,   \* the feature: on or off in a given build
  frames,    \* the call stack, innermost last
  buffer,    \* per thread-local buffer: the pieces of text in it
  effects,   \* per event: its log entries and field writes
  status,    \* per event: "unborn", "open", "emitted", "lost"
  fate,      \* per call: how it ended, "unmade", or "running"
  made       \* per call: the event current when it was made, whether another
             \* message was being rendered then, and the text it should add

vars == <<tracing, frames, buffer, effects, status, fate, made>>

Buffer == {"FMT_BUF", "LOG_FMT_BUF", "FIELDS_BUF", "EMIT_BUF"}

Slip_Holds_shared(role) ==
  CASE role = "generated" -> {"FMT_BUF"}
    [] role = "root"      -> {"LOG_FMT_BUF"}
    [] role = "capture"   -> {"FIELDS_BUF", "FMT_BUF"}
    [] role = "emit"      -> {"EMIT_BUF", "FMT_BUF"}
    [] OTHER              -> {}
Holds(role) ==
  CASE role = "generated" -> {"FMT_BUF"}
    [] role = "root"      -> {"LOG_FMT_BUF"}
    [] role = "capture"   -> {"FIELDS_BUF", "FMT_BUF"}
    [] role = "emit"      -> {"EMIT_BUF"}
    [] OTHER              -> {}   \* "guard", "root arguments", "wl_set"

Init ==
  /\ tracing \in BOOLEAN
  /\ frames = <<>>
  /\ buffer = [b \in Buffer |-> <<>>]
  /\ effects = [e \in Event |-> <<>>]
  /\ status = [e \in Event |-> "unborn"]
  /\ fate = [c \in Call |-> "unmade"]
  /\ made = [c \in Call |-> [event |-> Null, rendering |-> FALSE, text |-> <<>>]]
-------------------------------------------------------------------------------
Top(role) == frames # <<>> /\ Last(frames).role = role
Borrowed(b) == \E i \in 1..Len(frames) : b \in Holds(frames[i].role)
Rendering == \E i \in 1..Len(frames) : frames[i].role \in {"generated", "root", "capture"}

current ==
  LET i == SelectLastInSeq(frames, LAMBDA f : f.role = "guard")
  IN  IF i = 0 THEN Null ELSE frames[i].event

\* A new call, and the text it is meant to add.
New(c, text) ==
  /\ fate[c] = "unmade" /\ \A b \in 1..c - 1 : fate[b] # "unmade"
  /\ made' = [made EXCEPT ![c] = [event |-> current, rendering |-> Rendering,
                                  text |-> text]]
Outcome(c, how) == fate' = [fate EXCEPT ![c] = how]

Enter(role, c) ==
  /\ Len(frames) < MaxDepth
  /\ frames' = Append(frames, [role |-> role, event |-> current, call |-> c])

\* The innermost call ends, with an entry or without.
Return(how) ==
  /\ frames' = Front(frames)
  /\ Outcome(Last(frames).call, how)

append_log_entry(e, c, text) ==
  effects' = [effects EXCEPT ![e] = Append(@, [call |-> c, text |-> text])]

\* A panic on top of a stack: it unwinds to where user code catches it, in an
\* argument or further out, and ends every call on the way.  The guards it
\* passes emit their events, unless EMIT_BUF is borrowed then, which ends the
\* process and is no step.
Unwind(stack, call, lost) ==
  \E d \in 0..Len(stack) :
    LET gone == d + 1..Len(stack)
        guards == {i \in gone : stack[i].role = "guard"}
        calls == {stack[i].call : i \in gone \ guards} \cup call
    IN  /\ \A i \in guards : \A j \in 1..i : stack[j].role # "emit"
        /\ frames' = SubSeq(stack, 1, d)
        /\ fate' = [c \in Call |-> IF c \in calls THEN "panicked" ELSE fate[c]]
        /\ status' = [e \in Event |->
                        IF e \in lost THEN "lost"
                        ELSE IF \E i \in guards : stack[i].event = e THEN "emitted"
                        ELSE status[e]]
-------------------------------------------------------------------------------
(* Macros without user code in them: wl_inc, wl_dec, wl_null, the literal  *)
(* form of the level macros, and that of the crate root, whose hook asks   *)
(* for the current event too.                                              *)

add_directly(c) ==
  /\ New(c, <<c>>)
  /\ \/ current = Null /\ Outcome(c, "no event") /\ UNCHANGED effects
     \/ current # Null /\ Outcome(c, "added") /\ append_log_entry(current, c, <<c>>)
  /\ UNCHANGED <<tracing, frames, buffer, status>>

log_literal(c) == ~tracing /\ add_directly(c)
wl_inc(c) == add_directly(c)

(* wl_set and wl_add: the event is looked up before the value is computed. *)

wl_set(c) ==
  /\ New(c, <<c>>)
  /\ \/ current = Null /\ Outcome(c, "no event") /\ UNCHANGED frames
     \/ current # Null /\ Outcome(c, "running") /\ Enter("wl_set", c)
  /\ UNCHANGED <<tracing, buffer, effects, status>>

wl_set_end ==
  /\ Top("wl_set")
  /\ append_log_entry(Last(frames).event, Last(frames).call, <<Last(frames).call>>)
  /\ Return("added")
  /\ UNCHANGED <<tracing, buffer, status, made>>
-------------------------------------------------------------------------------
(* The formatted level macros of a schema crate: the event is looked up,   *)
(* FMT_BUF is borrowed, not tried, and cleared, all before the arguments   *)
(* are evaluated.  A message has a piece before what an argument says and  *)
(* one after it.                                                           *)

Slip_cleared_never(b, piece) == [buffer EXCEPT ![b] = @ \o piece]
cleared(b, piece) == [buffer EXCEPT ![b] = piece]

log_formatted(c) ==
  /\ ~tracing
  /\ New(c, <<c, c>>)
  /\ \/ /\ current = Null
        /\ Outcome(c, "no event")
        /\ UNCHANGED <<frames, buffer, status>>
     \/ /\ current # Null /\ ~Borrowed("FMT_BUF")
        /\ Outcome(c, "running") /\ Enter("generated", c)
        /\ buffer' = cleared("FMT_BUF", <<c>>)
        /\ UNCHANGED status
     \/ /\ current # Null /\ Borrowed("FMT_BUF")
        /\ Unwind(frames, {c}, {})
        /\ UNCHANGED buffer
  /\ UNCHANGED <<tracing, effects>>

log_formatted_end ==
  /\ Top("generated")
  /\ LET f == Last(frames)
         text == Append(buffer["FMT_BUF"], f.call)
     IN  /\ append_log_entry(f.event, f.call, text)
         /\ buffer' = [buffer EXCEPT !["FMT_BUF"] = text]
  /\ Return("added")
  /\ UNCHANGED <<tracing, status, made>>

(* Those of the crate root: the arguments are evaluated first, then the    *)
(* buffer is tried; the hook finds the event when the message is complete. *)

root_formatted(c) ==
  /\ ~tracing
  /\ New(c, <<c, c>>) /\ Outcome(c, "running") /\ Enter("root arguments", c)
  /\ UNCHANGED <<tracing, buffer, effects, status>>

Slip_append_log_entry_fmt_untried ==
  /\ Top("root arguments")
  /\ frames' = [frames EXCEPT ![Len(frames)].role = "root"]
  /\ buffer' = cleared("LOG_FMT_BUF", <<Last(frames).call>>)
  /\ UNCHANGED <<tracing, effects, status, fate, made>>
append_log_entry_fmt ==
  /\ Top("root arguments")
  /\ \/ /\ Borrowed("LOG_FMT_BUF")
        /\ Return("skipped")
        /\ UNCHANGED buffer
     \/ /\ ~Borrowed("LOG_FMT_BUF")
        /\ frames' = [frames EXCEPT ![Len(frames)].role = "root"]
        /\ buffer' = cleared("LOG_FMT_BUF", <<Last(frames).call>>)
        /\ UNCHANGED fate
  /\ UNCHANGED <<tracing, effects, status, made>>

root_formatted_end ==
  /\ Top("root")
  /\ LET c == Last(frames).call
         text == Append(buffer["LOG_FMT_BUF"], c)
     IN  /\ buffer' = [buffer EXCEPT !["LOG_FMT_BUF"] = text]
         /\ \/ current = Null /\ Return("no event") /\ UNCHANGED effects
            \/ current # Null /\ Return("added") /\ append_log_entry(current, c, text)
  /\ UNCHANGED <<tracing, status, made>>
-------------------------------------------------------------------------------
(* The capture layer.  A record has a message, other fields, both or none; *)
(* the message goes to FMT_BUF and the fields to FIELDS_BUF.               *)

Slip_Ignored_no_target(target, level) == level = "above the floor"
Ignored(target, level) == target = "wide_log" \/ level = "above the floor"

RecordBuffersFree == ~Borrowed("FIELDS_BUF") /\ ~Borrowed("FMT_BUF")

on_event(c, target, level, has) ==
  LET message == IF "message" \in has THEN <<c>> ELSE <<>>
      others == IF "fields" \in has THEN <<c>> ELSE <<>>
  IN  /\ tracing
      /\ New(c, message \o others)
      /\ \/ /\ Ignored(target, level)
            /\ Outcome(c, "ignored") /\ UNCHANGED <<frames, buffer>>
         \/ /\ ~Ignored(target, level) /\ current = Null
            /\ Outcome(c, "no event") /\ UNCHANGED <<frames, buffer>>
         \/ /\ ~Ignored(target, level) /\ current # Null /\ ~RecordBuffersFree
            /\ Outcome(c, "skipped") /\ UNCHANGED <<frames, buffer>>
         \/ /\ ~Ignored(target, level) /\ current # Null /\ RecordBuffersFree
            /\ buffer' = [cleared("FMT_BUF", message) EXCEPT !["FIELDS_BUF"] = others]
            /\ \/ has = {} /\ Outcome(c, "ignored") /\ UNCHANGED frames
               \/ has # {} /\ Outcome(c, "running") /\ Enter("capture", c)
      /\ UNCHANGED <<tracing, effects, status>>

on_event_end ==
  /\ Top("capture")
  /\ LET f == Last(frames)
         text == buffer["FMT_BUF"] \o buffer["FIELDS_BUF"]
     IN  /\ append_log_entry(f.event, f.call, text)
         /\ buffer' = [buffer EXCEPT !["FMT_BUF"] = text]
  /\ Return("added")
  /\ UNCHANGED <<tracing, status, made>>
-------------------------------------------------------------------------------
(* Guards, and the default emission: EMIT_BUF is borrowed while the event  *)
(* is serialized and handed on, to the writer's channel or, with the       *)
(* feature, to the subscriber as a record of the reserved target.          *)

guard_build(e) ==
  /\ status[e] = "unborn" /\ \A x \in Event : status[x] = "unborn" => x >= e
  /\ Len(frames) < MaxDepth
  /\ frames' = Append(frames, [role |-> "guard", event |-> e, call |-> 0])
  /\ status' = [status EXCEPT ![e] = "open"]
  /\ UNCHANGED <<tracing, buffer, effects, fate, made>>

default_emit ==
  /\ Top("guard")
  /\ LET e == Last(frames).event IN
     \/ /\ ~Borrowed("EMIT_BUF")
        /\ status' = [status EXCEPT ![e] = "emitted"]
        /\ frames' = IF tracing THEN Append(Front(frames),
                                       [role |-> "emit", event |-> e, call |-> 0])
                     ELSE Front(frames)
        /\ UNCHANGED fate
     \/ /\ Borrowed("EMIT_BUF")
        /\ Unwind(Front(frames), {}, {e})
  /\ UNCHANGED <<tracing, buffer, effects, made>>

\* What other layers do with the record is user code.  At last the record is
\* given to the capture layer, with the guard already gone.
default_emit_end ==
  /\ Top("emit")
  /\ frames' = Front(frames)
  /\ IF Ignored("wide_log", "captured") \/ current = Null \/ ~RecordBuffersFree
     THEN UNCHANGED effects
     ELSE append_log_entry(current, 0, <<Last(frames).event>>)
  /\ UNCHANGED <<tracing, buffer, status, fate, made>>

Next ==
  \/ \E c \in Call :
       \/ log_literal(c) \/ wl_inc(c) \/ wl_set(c) \/ log_formatted(c) \/ root_formatted(c)
       \/ \E target \in {"user", "wide_log"}, level \in {"above the floor", "captured"},
             has \in SUBSET {"message", "fields"} : on_event(c, target, level, has)
  \/ wl_set_end \/ log_formatted_end \/ append_log_entry_fmt \/ root_formatted_end
  \/ on_event_end \/ default_emit \/ default_emit_end
  \/ \E e \in Event : guard_build(e)

Spec == Init /\ [][Next]_vars
-------------------------------------------------------------------------------
\* The values of the variables; what a buffer holds is one message at most.
TypeOK ==
  /\ tracing \in BOOLEAN /\ Len(frames) <= MaxDepth
  /\ \A b \in Buffer : Len(buffer[b]) <= 2
  /\ status \in [Event -> {"unborn", "open", "emitted", "lost"}]
  /\ fate \in [Call -> {"unmade", "running", "added", "no event", "skipped",
                       "ignored", "panicked"}]

Unlogged(c) == \A e \in Event : \A i \in 1..Len(effects[e]) : effects[e][i].call # c
LoggedOnce(c) ==
  \E i \in 1..Len(effects[made[c].event]) :
    /\ effects[made[c].event][i] = [call |-> c, text |-> made[c].text]
    /\ \A e \in Event : \A j \in 1..Len(effects[e]) :
         effects[e][j].call = c => e = made[c].event /\ j = i

\* Whatever user code does inside of a call, a call that completes adds one
\* entry, with its own whole text, to the event that was current when it was
\* made, however late the event is looked up; a call that does not adds none,
\* and there was no event for it only if none was current.
CallsAccounted ==
  \A c \in Call :
    /\ fate[c] = "added" => made[c].event # Null /\ LoggedOnce(c)
    /\ fate[c] # "added" => Unlogged(c)
    /\ fate[c] = "no event" => made[c].event = Null

\* The line of a finished event is never captured into the event that is
\* current again when it is emitted.
NoRecapture ==
  \A e \in Event : \A i \in 1..Len(effects[e]) : effects[e][i].call \in Call

\* Nothing is dropped or panics but for a reason: a call is skipped only if it
\* was made while a message was being rendered, and every panic begins with
\* such a call, or with an emission inside of another one.
BestEffort ==
  \A c \in Call :
    /\ fate[c] = "skipped" => made[c].rendering
    /\ fate[c] = "panicked" =>
         \/ \E b \in c..MaxCalls : fate[b] = "panicked" /\ made[b].rendering
         \/ \E e \in Event : status[e] = "lost"

\* Whole: every piece is its own call's.
WholeMessages == UNION {[call : {c}, text : {<<c>>, <<c, c>>}] : c \in Call}
CallOf(m) == m.call

\* The buffers, the two paths and the calls inside of calls implement an event
\* that takes whole messages one at a time.
Entries == INSTANCE EntryLog WITH
  log <- effects,
  open <- {e \in Event : status[e] = "open"},
  closed <- {e \in Event : status[e] \in {"emitted", "lost"}},
  Message <- WholeMessages,
  Call <- CallOf
ImplementsEntryLog == Entries!Spec

\* lib.rs and the README: both macro paths append identically, and one that
\* finds the format buffer in use skips its entry and does not panic.
ReentrantCallsAreSkipped ==
  \A c \in Call : made[c].rendering => fate[c] # "panicked"
================================================================================
