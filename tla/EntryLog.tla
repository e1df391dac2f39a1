-------------------------------- MODULE EntryLog --------------------------------
(***************************************************************************)
(* What the logging macros promise, with neither buffers nor calls in      *)
(* progress: an open event takes whole messages, each at most once, and    *)
(* keeps them in their order; an event that is closed takes no more.       *)
(***************************************************************************)
EXTENDS Naturals, Sequences

CONSTANTS Event, Message, Call(_)

VARIABLES log, open, closed

vars == <<log, open, closed>>

Init ==
  /\ log = [e \in Event |-> <<>>]
  /\ open = {} /\ closed = {}

Begin(e) ==
  /\ e \notin open \cup closed
  /\ open' = open \cup {e}
  /\ UNCHANGED <<log, closed>>

IsLogged(m) ==
  \E e \in Event : \E i \in 1..Len(log[e]) : Call(log[e][i]) = Call(m)

Add(e, m) ==
  /\ e \in open /\ ~IsLogged(m)
  /\ log' = [log EXCEPT ![e] = Append(@, m)]
  /\ UNCHANGED <<open, closed>>

\* Several at once: unwinding passes all guards between a panic and its catch.
End(S) ==
  /\ S # {} /\ S \subseteq open
  /\ open' = open \ S /\ closed' = closed \cup S
  /\ UNCHANGED log

Next ==
  \/ \E e \in Event : Begin(e) \/ \E m \in Message : Add(e, m)
  \/ \E S \in SUBSET Event : End(S)

Spec == Init /\ [][Next]_vars
================================================================================
