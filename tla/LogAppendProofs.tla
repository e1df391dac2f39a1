---------------------------- MODULE LogAppendProofs ----------------------------
(***************************************************************************)
(* What holds of the logging macros for every number of events and calls,  *)
(* every depth of calls inside of calls, and both builds.  The inductive   *)
(* invariant is about each frame of the call stack and those below it: a   *)
(* frame on top can neither change a buffer that one below holds nor end   *)
(* its call or its event.                                                  *)
(***************************************************************************)
EXTENDS LogAppend, SequenceLemmas

Role == {"guard", "wl_set", "generated", "root arguments", "root", "capture", "emit"}
CallRole == Role \ {"guard", "emit"}
\* These look their event up when the call is made.
EarlyRole == {"wl_set", "generated", "capture"}
RenderingRole == {"generated", "root", "capture"}

Frame == [role : Role, event : Event \cup {Null}, call : Nat]
Text == Seq(Call)
LogEntry == [call : Call, text : Text]
Made == [event : Event \cup {Null}, rendering : BOOLEAN, text : Text]

Types ==
  /\ tracing \in BOOLEAN
  /\ frames \in Seq(Frame) /\ Len(frames) <= MaxDepth
  /\ buffer \in [Buffer -> Text] /\ \A b \in Buffer : Len(buffer[b]) <= 2
  /\ effects \in [Event -> Seq(LogEntry)]
  /\ status \in [Event -> {"unborn", "open", "emitted", "lost"}]
  /\ fate \in [Call -> {"unmade", "running", "added", "no event", "skipped",
                       "ignored", "panicked"}]
  /\ made \in [Call -> Made]

\* The event of the innermost guard among the first n frames.
CurrentIn(n) ==
  LET guards == {j \in 1..n : frames[j].role = "guard"}
  IN  IF guards = {} THEN Null ELSE frames[Max(guards)].event

\* The text of the call in a frame, and how much of it is in the buffers.
TextSound(role, c) ==
  /\ role = "wl_set" => made[c].text = <<c>>
  /\ role \in {"generated", "root arguments", "root"} => made[c].text = <<c, c>>
  /\ role = "generated" => buffer["FMT_BUF"] = <<c>>
  /\ role = "root" => buffer["LOG_FMT_BUF"] = <<c>>
  /\ role = "capture" => /\ made[c].text \in {<<c>>, <<c, c>>}
                         /\ made[c].text = buffer["FMT_BUF"] \o buffer["FIELDS_BUF"]

CallSound(i) ==
  LET c == frames[i].call IN
  /\ c \in Call /\ fate[c] = "running"
  /\ \A j \in 1..i - 1 : frames[j].role \in CallRole => frames[j].call # c
  /\ made[c].event = CurrentIn(i - 1)
  /\ (\E j \in 1..i - 1 : frames[j].role \in RenderingRole) => made[c].rendering
  /\ frames[i].role \in EarlyRole =>
       frames[i].event = made[c].event /\ frames[i].event # Null
  /\ TextSound(frames[i].role, c)

GuardSound(i) ==
  LET e == frames[i].event IN
  /\ e \in Event /\ status[e] = "open"
  /\ \A j \in 1..i - 1 : frames[j].role = "guard" => frames[j].event # e

\* A frame, given those below it.
Sound(i) ==
  /\ frames[i].role = "guard" => GuardSound(i)
  /\ frames[i].role \in CallRole => CallSound(i)
  /\ frames[i].role \notin CallRole => frames[i].call = 0
  /\ \A j \in 1..i - 1 : Holds(frames[j].role) \cap Holds(frames[i].role) = {}

\* Calls are numbered as they are made.
InOrder == \A b, c \in Call : b < c /\ fate[b] = "unmade" => fate[c] = "unmade"

IInv ==
  /\ Types
  /\ \A i \in 1..Len(frames) : Sound(i)
  /\ InOrder /\ CallsAccounted /\ BestEffort
-------------------------------------------------------------------------------
LEMMA TypesTypeOK == Types => TypeOK
  BY DEF Types, TypeOK

LEMMA InitInv == Init => IInv
<1> SUFFICES ASSUME Init PROVE IInv
  OBVIOUS
<1>1. Types
  BY LogAssumption DEF Init, Types, Text, LogEntry, Made
<1>2. Len(frames) = 0
  BY DEF Init
<1>3. InOrder /\ BestEffort
  BY DEF Init, InOrder, BestEffort
<1>4. CallsAccounted
  BY DEF Init, CallsAccounted, Unlogged
<1> QED BY <1>1, <1>2, <1>3, <1>4 DEF IInv
-------------------------------------------------------------------------------
(* What stays as it is below the top.                                      *)

LEMMA CurrentSame ==
  ASSUME NEW n \in Nat, \A j \in 1..n : frames'[j] = frames[j]
  PROVE  CurrentIn(n)' = CurrentIn(n)
<1> DEFINE guards == {j \in 1..n : frames[j].role = "guard"}
<1>1. guards = {j \in 1..n : frames'[j].role = "guard"}
  OBVIOUS
<1>2. CASE guards = {}
  BY <1>1, <1>2 DEF CurrentIn
<1>3. CASE guards # {}
  <2>1. Max(guards) \in guards
    BY <1>3, MaxOf
  <2>2. frames'[Max(guards)] = frames[Max(guards)]
    BY <2>1
  <2> QED BY <1>1, <1>3, <2>2 DEF CurrentIn
<1> QED BY <1>2, <1>3

\* The frames up to d, if the step leaves their events, their calls and their
\* buffers alone.
Untouched(d) ==
  \A i \in 1..d :
    /\ frames'[i] = frames[i]
    /\ frames[i].role = "guard" => status'[frames[i].event] = status[frames[i].event]
    /\ frames[i].role \in CallRole =>
         /\ fate'[frames[i].call] = fate[frames[i].call]
         /\ made'[frames[i].call] = made[frames[i].call]
    /\ \A b \in Holds(frames[i].role) : buffer'[b] = buffer[b]

LEMMA Kept ==
  ASSUME Types, NEW d \in 0..Len(frames), \A i \in 1..d : Sound(i), Untouched(d)
  PROVE  \A i \in 1..d : Sound(i)'
<1> SUFFICES ASSUME NEW i \in 1..d PROVE Sound(i)'
  OBVIOUS
<1> DEFINE f == frames[i]
<1>0. frames'[i] = f /\ \A j \in 1..i - 1 : j \in 1..d /\ frames'[j] = frames[j]
  BY DEF Untouched
<1>1. f.role = "guard" => GuardSound(i)'
  BY <1>0 DEF Sound, GuardSound, Untouched
<1>2. ASSUME f.role \in CallRole PROVE CallSound(i)'
  <2> DEFINE c == f.call
  <2>1. CallSound(i) /\ fate'[c] = fate[c] /\ made'[c] = made[c]
    BY <1>2 DEF Sound, Untouched
  <2>2. CurrentIn(i - 1)' = CurrentIn(i - 1)
    BY <1>0, CurrentSame
  <2>3. TextSound(frames[i].role, frames[i].call)'
    <3>1. f.role = "generated" => buffer'["FMT_BUF"] = buffer["FMT_BUF"]
      BY DEF Untouched, Holds
    <3>2. f.role = "root" => buffer'["LOG_FMT_BUF"] = buffer["LOG_FMT_BUF"]
      BY DEF Untouched, Holds
    <3>3. f.role = "capture" => /\ buffer'["FMT_BUF"] = buffer["FMT_BUF"]
                                /\ buffer'["FIELDS_BUF"] = buffer["FIELDS_BUF"]
      BY DEF Untouched, Holds
    <3>4. TextSound(f.role, c)
      BY <2>1 DEF CallSound
    <3> QED BY <1>0, <2>1, <3>1, <3>2, <3>3, <3>4 DEF TextSound
  <2>4. /\ c \in Call /\ fate'[c] = "running"
        /\ \A j \in 1..i - 1 : frames'[j].role \in CallRole => frames'[j].call # c
        /\ made'[c].event = CurrentIn(i - 1)'
    BY <1>0, <2>1, <2>2 DEF CallSound
  <2>5. (\E j \in 1..i - 1 : frames'[j].role \in RenderingRole) => made'[c].rendering
    BY <1>0, <2>1 DEF CallSound
  <2>6. f.role \in EarlyRole => f.event = made'[c].event /\ f.event # Null
    BY <2>1 DEF CallSound
  <2> HIDE DEF c
  <2> QED BY <1>0, <2>4, <2>5, <2>6, <2>3 DEF CallSound, c
<1>3. \A j \in 1..i - 1 : Holds(frames'[j].role) \cap Holds(frames'[i].role) = {}
  BY <1>0 DEF Sound
<1>4. f.role \notin CallRole => f.call = 0
  BY DEF Sound
<1> QED BY <1>0, <1>1, <1>2, <1>3, <1>4 DEF Sound
-------------------------------------------------------------------------------
(* The event that is current.                                              *)

LEMMA FrameTypes ==
  ASSUME Types PROVE frames \in Seq(Frame) /\ Len(frames) \in Nat
<1>1. frames \in Seq(Frame)
  BY DEF Types
<1> QED BY <1>1

LEMMA CurrentIs ==
  ASSUME Types PROVE current = CurrentIn(Len(frames))
<1> DEFINE guards == {j \in 1..Len(frames) : frames[j].role = "guard"}
<1>1. Len(frames) \in Nat
  BY FrameTypes
<1>2. CASE guards = {}
  BY <1>2 DEF current, SelectLastInSeq, CurrentIn
<1>3. CASE guards # {}
  <2>1. Max(guards) \in guards
    BY <1>1, <1>3, MaxOf
  <2>2. Max(guards) # 0
    BY <2>1
  <2> QED BY <1>3, <2>2 DEF current, SelectLastInSeq, CurrentIn
<1> QED BY <1>2, <1>3

\* It is that of a guard, and open.
LEMMA CurrentOpen ==
  ASSUME NEW n \in Nat, \A i \in 1..n : Sound(i), CurrentIn(n) # Null
  PROVE  /\ CurrentIn(n) \in Event /\ status[CurrentIn(n)] = "open"
         /\ \E j \in 1..n : frames[j].role = "guard" /\ frames[j].event = CurrentIn(n)
<1> DEFINE guards == {j \in 1..n : frames[j].role = "guard"}
<1>1. guards # {} /\ CurrentIn(n) = frames[Max(guards)].event
  BY DEF CurrentIn
<1>2. Max(guards) \in guards
  BY <1>1, MaxOf
<1>3. GuardSound(Max(guards))
  BY <1>2 DEF Sound
<1> QED BY <1>1, <1>2, <1>3 DEF GuardSound

LEMMA CurrentType ==
  ASSUME IInv PROVE current \in Event \cup {Null} /\ (current # Null => status[current] = "open")
<1>1. Types /\ Len(frames) \in Nat /\ \A i \in 1..Len(frames) : Sound(i)
  BY FrameTypes DEF IInv
<1> QED BY <1>1, CurrentIs, CurrentOpen
-------------------------------------------------------------------------------
(* The books, when an entry is added and when none is.                     *)

LEMMA BooksKept ==
  ASSUME Types, CallsAccounted, UNCHANGED effects,
         \A c \in Call :
           \/ fate'[c] = fate[c] /\ made'[c] = made[c]
           \/ /\ fate[c] # "added" /\ fate'[c] # "added"
              /\ fate'[c] = "no event" => made'[c].event = Null
  PROVE  CallsAccounted'
<1> SUFFICES ASSUME NEW c \in Call
             PROVE  /\ fate'[c] = "added" => made'[c].event # Null /\ LoggedOnce(c)'
                    /\ fate'[c] # "added" => Unlogged(c)'
                    /\ fate'[c] = "no event" => made'[c].event = Null
  BY DEF CallsAccounted
<1>1. Unlogged(c) => Unlogged(c)'
  BY DEF Unlogged
<1>2. ASSUME made'[c] = made[c], LoggedOnce(c) PROVE LoggedOnce(c)'
  <2> DEFINE e == made[c].event
  <2>1. PICK i \in 1..Len(effects[e]) :
          /\ effects[e][i] = [call |-> c, text |-> made[c].text]
          /\ \A x \in Event : \A j \in 1..Len(effects[x]) :
               effects[x][j].call = c => x = e /\ j = i
    BY <1>2 DEF LoggedOnce
  <2>2. effects' = effects /\ made'[c].event = e /\ made'[c].text = made[c].text
    BY <1>2
  <2> HIDE DEF e
  <2> QED BY <2>1, <2>2 DEF LoggedOnce
<1> QED BY <1>1, <1>2 DEF CallsAccounted

LEMMA BooksAdded ==
  ASSUME Types, CallsAccounted, NEW c \in Call, NEW e \in Event, NEW text \in Text,
         append_log_entry(e, c, text), fate[c] # "added", Outcome(c, "added"),
         \A b \in Call \ {c} : made'[b] = made[b],
         made'[c].event = e, made'[c].text = text
  PROVE  CallsAccounted' /\ effects' \in [Event -> Seq(LogEntry)]
<1> DEFINE m == [call |-> c, text |-> text]
<1>0. effects \in [Event -> Seq(LogEntry)] /\ m \in LogEntry /\ e # Null
  BY LogAssumption DEF Types, LogEntry
<1>1. effects' = [effects EXCEPT ![e] = Append(effects[e], m)]
  BY DEF append_log_entry
<1>2. effects' \in [Event -> Seq(LogEntry)]
  BY <1>0, <1>1
<1>3. /\ \A x \in Event \ {e} : effects'[x] = effects[x]
      /\ Len(effects[e]) \in Nat /\ Len(effects'[e]) = Len(effects[e]) + 1
      /\ \A j \in 1..Len(effects[e]) : effects'[e][j] = effects[e][j]
      /\ effects'[e][Len(effects[e]) + 1] = m
  BY <1>0, <1>1, Pushed
<1>4. ASSUME NEW x \in Event, NEW j \in 1..Len(effects'[x])
      PROVE  \/ j \in 1..Len(effects[x]) /\ effects'[x][j] = effects[x][j]
             \/ x = e /\ j = Len(effects[e]) + 1 /\ effects'[x][j] = m
  <2>1. CASE x = e
    BY <1>3, <2>1
  <2>2. CASE x # e
    BY <1>3, <2>2
  <2> QED BY <2>1, <2>2
<1>5. fate' = [fate EXCEPT ![c] = "added"] /\ fate \in [Call -> {"unmade", "running", "added",
                       "no event", "skipped", "ignored", "panicked"}]
  BY DEF Outcome, Types
<1>6. \A x \in Event : \A j \in 1..Len(effects[x]) : effects[x][j].call # c
  BY DEF CallsAccounted, Unlogged
<1>7. ASSUME NEW b \in Call \ {c} 
      PROVE  /\ fate'[b] = fate[b] /\ made'[b] = made[b]
             /\ \A x \in Event : \A j \in 1..Len(effects'[x]) :
                  effects'[x][j].call = b => j \in 1..Len(effects[x]) /\ effects[x][j].call = b
             /\ \A x \in Event : \A j \in 1..Len(effects[x]) :
                  j \in 1..Len(effects'[x]) /\ effects'[x][j] = effects[x][j]
  <2>1. \A x \in Event : \A j \in 1..Len(effects'[x]) :
          effects'[x][j].call = b => j \in 1..Len(effects[x]) /\ effects[x][j].call = b
    BY <1>4
  <2>2. ASSUME NEW x \in Event, NEW j \in 1..Len(effects[x])
        PROVE  j \in 1..Len(effects'[x]) /\ effects'[x][j] = effects[x][j]
    BY <1>3
  <2> QED BY <1>5, <2>1, <2>2
<1> SUFFICES ASSUME NEW b \in Call
             PROVE  /\ fate'[b] = "added" => made'[b].event # Null /\ LoggedOnce(b)'
                    /\ fate'[b] # "added" => Unlogged(b)'
                    /\ fate'[b] = "no event" => made'[b].event = Null
  BY <1>2 DEF CallsAccounted
<1>8. CASE b = c
  <2>1. fate'[c] = "added"
    BY <1>5
  <2>2. Len(effects[e]) + 1 \in 1..Len(effects'[e])
    BY <1>3
  <2>3. \A x \in Event : \A j \in 1..Len(effects'[x]) :
          effects'[x][j].call = c => x = e /\ j = Len(effects[e]) + 1
    BY <1>4, <1>6
  <2>4. LoggedOnce(c)'
    BY <1>3, <2>2, <2>3 DEF LoggedOnce
  <2> QED BY <1>0, <1>8, <2>1, <2>4
<1>9. CASE b # c
  <2>1. made[b] \in Made
    BY DEF Types
  <2>4. b \in Call \ {c}
    BY <1>9
  <2>5. /\ fate'[b] = fate[b] /\ made'[b] = made[b]
        /\ \A x \in Event : \A j \in 1..Len(effects'[x]) :
             effects'[x][j].call = b => j \in 1..Len(effects[x]) /\ effects[x][j].call = b
        /\ \A x \in Event : \A j \in 1..Len(effects[x]) :
             j \in 1..Len(effects'[x]) /\ effects'[x][j] = effects[x][j]
    BY <1>7, <2>4
  <2>2. CASE fate[b] = "added"
    <3>1. made[b].event \in Event /\ LoggedOnce(b)
      BY <2>1, <2>2 DEF CallsAccounted, Made
    <3>2. PICK i \in 1..Len(effects[made[b].event]) :
            /\ effects[made[b].event][i] = [call |-> b, text |-> made[b].text]
            /\ \A x \in Event : \A j \in 1..Len(effects[x]) :
                 effects[x][j].call = b => x = made[b].event /\ j = i
      BY <3>1 DEF LoggedOnce
    <3> DEFINE a == made[b].event
    <3>4. /\ made'[b].event = a /\ made'[b].text = made[b].text
          /\ i \in 1..Len(effects'[a]) /\ effects'[a][i] = effects[a][i]
      BY <2>5, <3>1
    <3>5. \A x \in Event : \A j \in 1..Len(effects'[x]) :
            effects'[x][j].call = b => x = a /\ j = i
      BY <2>5, <3>2
    <3> HIDE DEF a
    <3>6. effects[a][i] = [call |-> b, text |-> made[b].text]
      BY <3>2 DEF a
    <3>3. LoggedOnce(b)'
      BY <3>4, <3>5, <3>6 DEF LoggedOnce
    <3> QED BY <2>5, <2>2, <3>1, <3>3, LogAssumption
  <2>3. CASE fate[b] # "added"
    <3>1. Unlogged(b)'
      BY <2>5, <2>3 DEF CallsAccounted, Unlogged
    <3> QED BY <2>5, <2>3, <3>1 DEF CallsAccounted
  <2> QED BY <2>2, <2>3
<1> QED BY <1>8, <1>9

\* A call that was to come or was running ends in order; the others stay.
LEMMA ReasonsKept ==
  ASSUME BestEffort,
         \A e \in Event : status[e] = "lost" => status'[e] = "lost",
         \A c \in Call :
           \/ fate'[c] = fate[c] /\ made'[c] = made[c]
           \/ /\ fate[c] \in {"unmade", "running"} /\ fate'[c] # "panicked"
              /\ fate'[c] = "skipped" => made'[c].rendering
  PROVE  BestEffort'
<1> SUFFICES ASSUME NEW c \in Call
             PROVE  /\ fate'[c] = "skipped" => made'[c].rendering
                    /\ fate'[c] = "panicked" =>
                         \/ \E b \in c..MaxCalls : fate'[b] = "panicked" /\ made'[b].rendering
                         \/ \E e \in Event : status'[e] = "lost"
  BY DEF BestEffort
<1>1. fate'[c] = "skipped" => made'[c].rendering
  BY DEF BestEffort
<1>2. ASSUME fate'[c] = "panicked"
      PROVE  \/ \E b \in c..MaxCalls : fate'[b] = "panicked" /\ made'[b].rendering
             \/ \E e \in Event : status'[e] = "lost"
  <2>1. CASE \E e \in Event : status[e] = "lost"
    BY <2>1
  <2>2. CASE ~\E e \in Event : status[e] = "lost"
    <3>1. PICK b \in c..MaxCalls : fate[b] = "panicked" /\ made[b].rendering
      BY <1>2, <2>2 DEF BestEffort
    <3>2. b \in Call
      BY <3>1 DEF Call
    <3> QED BY <3>1, <3>2
  <2> QED BY <2>1, <2>2
<1> QED BY <1>1, <1>2

\* What a new call does not disturb.
LEMMA NewCall ==
  ASSUME IInv, NEW c \in Call, NEW text \in Text, New(c, text)
  PROVE  /\ made' \in [Call -> Made] /\ fate[c] = "unmade"
         /\ made'[c].event = current /\ made'[c].text = text
         /\ made'[c].rendering = Rendering
         /\ \A b \in Call \ {c} : made'[b] = made[b]
         /\ \A b \in Call : b < c => fate[b] # "unmade"
         /\ \A i \in 1..Len(frames) : frames[i].role \in CallRole =>
              /\ frames[i].call \in Call \ {c} /\ fate[frames[i].call] = "running"
              /\ frames[i].call < c
<1>1. made' = [made EXCEPT ![c] = [event |-> current, rendering |-> Rendering, text |-> text]]
  BY DEF New
<1>2. [event |-> current, rendering |-> Rendering, text |-> text] \in Made
  BY CurrentType DEF Made, Rendering
<1>3. made \in [Call -> Made]
  BY DEF IInv, Types
<1>4. fate[c] = "unmade" /\ \A b \in 1..c - 1 : fate[b] # "unmade"
  BY DEF New
<1>5. \A b \in Call : b < c => fate[b] # "unmade"
  BY <1>4 DEF Call
<1>6. ASSUME NEW i \in 1..Len(frames), frames[i].role \in CallRole
      PROVE  frames[i].call \in Call /\ fate[frames[i].call] = "running"
  BY <1>6 DEF IInv, Sound, CallSound
<1>7. InOrder
  BY DEF IInv
<1>8. ASSUME NEW i \in 1..Len(frames), frames[i].role \in CallRole
      PROVE  frames[i].call # c /\ ~(c < frames[i].call)
  BY <1>4, <1>6, <1>7, <1>8 DEF InOrder
<1>9. \A x \in Call : x \in Nat
  BY LogAssumption DEF Call
<1>10. made'[c] = [event |-> current, rendering |-> Rendering, text |-> text]
  BY <1>1, <1>3
<1>11. made'[c].event = current /\ made'[c].text = text /\ made'[c].rendering = Rendering
  <2>1. \A e, r, t : LET x == [event |-> e, rendering |-> r, text |-> t]
                     IN  x.event = e /\ x.text = t /\ x.rendering = r
    OBVIOUS
  <2> HIDE DEF Rendering
  <2>2. LET x == [event |-> current, rendering |-> Rendering, text |-> text]
        IN  x.event = current /\ x.text = text /\ x.rendering = Rendering
    BY <2>1, Zenon
  <2> QED BY <1>10, <2>2, Zenon
<1>12. \A i \in 1..Len(frames) : frames[i].role \in CallRole =>
         /\ frames[i].call \in Call \ {c} /\ fate[frames[i].call] = "running"
         /\ frames[i].call < c
  BY <1>6, <1>8, <1>9
<1>13. made' \in [Call -> Made] /\ \A b \in Call \ {c} : made'[b] = made[b]
  BY <1>1, <1>2, <1>3
<1> QED BY <1>4, <1>5, <1>11, <1>12, <1>13

LEMMA NewInOrder ==
  ASSUME IInv, NEW c \in Call, NEW text \in Text, New(c, text),
         NEW how, Outcome(c, how), how # "unmade"
  PROVE  InOrder'
<1>1. fate' = [fate EXCEPT ![c] = how] /\ DOMAIN fate = Call
  BY DEF Outcome, IInv, Types
<1>2. \A b \in Call : b < c => fate[b] # "unmade"
  BY NewCall
<1>3. InOrder
  BY DEF IInv
<1>4. \A x \in Call : x \in Nat
  BY LogAssumption DEF Call
<1> QED BY <1>1, <1>2, <1>3, <1>4 DEF InOrder

LEMMA StackKept ==
  ASSUME IInv, UNCHANGED <<frames, status>>, NEW c \in Call, NEW text \in Text, New(c, text),
         NEW how, Outcome(c, how),
         \A i \in 1..Len(frames) : \A b \in Holds(frames[i].role) : buffer'[b] = buffer[b]
  PROVE  \A i \in 1..Len(frames') : Sound(i)'
<1>1. Types /\ Len(frames) \in Nat /\ \A i \in 1..Len(frames) : Sound(i)
  BY FrameTypes DEF IInv
<1>2. fate' = [fate EXCEPT ![c] = how] /\ DOMAIN fate = Call
  BY <1>1 DEF Outcome, Types
<1>3. Untouched(Len(frames))
  BY <1>2, NewCall DEF Untouched
<1>4. \A i \in 1..Len(frames) : Sound(i)'
  BY <1>1, <1>3, Kept
<1> QED BY <1>4
-------------------------------------------------------------------------------
(* A call that is over at once.                                            *)

LEMMA Instant ==
  ASSUME IInv, NEW c \in Call, NEW text \in Text, New(c, text),
         NEW how \in {"added", "no event", "skipped", "ignored"}, Outcome(c, how),
         UNCHANGED <<tracing, frames, status>>,
         buffer' \in [Buffer -> Text], \A b \in Buffer : Len(buffer'[b]) <= 2,
         \A i \in 1..Len(frames) : \A b \in Holds(frames[i].role) : buffer'[b] = buffer[b],
         how = "no event" => current = Null,
         how = "skipped" => Rendering,
         IF how = "added" THEN current # Null /\ append_log_entry(current, c, text)
         ELSE UNCHANGED effects
  PROVE  IInv'
<1>1. Types /\ CallsAccounted /\ BestEffort
  BY DEF IInv
<1>2. /\ made' \in [Call -> Made] /\ fate[c] = "unmade"
      /\ made'[c].event = current /\ made'[c].text = text
      /\ made'[c].rendering = Rendering
      /\ \A b \in Call \ {c} : made'[b] = made[b]
  BY NewCall
<1>3. fate' = [fate EXCEPT ![c] = how]
  BY DEF Outcome
<1>4. /\ fate' \in [Call -> {"unmade", "running", "added", "no event", "skipped",
                             "ignored", "panicked"}]
      /\ fate'[c] = how /\ \A b \in Call \ {c} : fate'[b] = fate[b]
  BY <1>1, <1>3 DEF Types
<1>5. CallsAccounted' /\ effects' \in [Event -> Seq(LogEntry)]
  <2>1. CASE how = "added"
    <3>1. current \in Event
      BY <2>1, CurrentType
    <3> QED BY <1>1, <1>2, <2>1, <3>1, BooksAdded
  <2>2. CASE how # "added"
    <3>1. UNCHANGED effects
      BY <2>2
    <3>2. \A b \in Call :
            \/ fate'[b] = fate[b] /\ made'[b] = made[b]
            \/ /\ fate[b] # "added" /\ fate'[b] # "added"
               /\ fate'[b] = "no event" => made'[b].event = Null
      <4> SUFFICES ASSUME NEW b \in Call, b = c
                   PROVE  /\ fate[b] # "added" /\ fate'[b] # "added"
                          /\ fate'[b] = "no event" => made'[b].event = Null
        BY <1>2, <1>4
      <4>1. made'[b].event = current
        BY <1>2
      <4> QED BY <1>2, <1>4, <2>2, <4>1
    <3>3. effects' \in [Event -> Seq(LogEntry)]
      BY <1>1, <3>1 DEF Types
    <3> QED BY <1>1, <3>1, <3>2, <3>3, BooksKept
  <2> QED BY <2>1, <2>2
<1>6. BestEffort'
  <2>1. \A b \in Call :
          \/ fate'[b] = fate[b] /\ made'[b] = made[b]
          \/ /\ fate[b] \in {"unmade", "running"} /\ fate'[b] # "panicked"
             /\ fate'[b] = "skipped" => made'[b].rendering
    <3> SUFFICES ASSUME NEW b \in Call, b = c
                 PROVE  /\ fate[b] \in {"unmade", "running"} /\ fate'[b] # "panicked"
                        /\ fate'[b] = "skipped" => made'[b].rendering
      BY <1>2, <1>4
    <3>1. made'[b].rendering = Rendering
      BY <1>2
    <3> QED BY <1>2, <1>4, <3>1
  <2> QED BY <1>1, <2>1, ReasonsKept
<1>7. InOrder' /\ \A i \in 1..Len(frames') : Sound(i)'
  BY NewInOrder, StackKept
<1>8. Types'
  BY <1>1, <1>2, <1>4, <1>5 DEF Types
<1> QED BY <1>5, <1>6, <1>7, <1>8 DEF IInv
-------------------------------------------------------------------------------
(* A call in which user code runs begins.                                  *)

LEMMA Entering ==
  ASSUME IInv, NEW c \in Call, NEW text \in Text, New(c, text),
         NEW role \in CallRole, Outcome(c, "running"), Enter(role, c),
         UNCHANGED <<tracing, effects, status>>,
         buffer' \in [Buffer -> Text], \A b \in Buffer : Len(buffer'[b]) <= 2,
         \A i \in 1..Len(frames) : \A b \in Holds(frames[i].role) : buffer'[b] = buffer[b],
         \A i \in 1..Len(frames) : Holds(frames[i].role) \cap Holds(role) = {},
         role \in EarlyRole => current # Null,
         TextSound(role, c)'
  PROVE  IInv'
<1>0. PICK n \in Nat : n = Len(frames)
  BY FrameTypes DEF IInv
<1> DEFINE f == [role |-> role, event |-> current, call |-> c]
<1>1. Types /\ CallsAccounted /\ BestEffort /\ \A i \in 1..n : Sound(i)
  BY <1>0 DEF IInv
<1>2. n = Len(frames) /\ frames \in Seq(Frame)
  BY <1>0, <1>1, FrameTypes
<1>3. f \in Frame
  <2>1. c \in Nat /\ role \in Role
    BY LogAssumption DEF Call, CallRole
  <2> QED BY <2>1, CurrentType DEF Frame
<1>4. /\ frames' \in Seq(Frame) /\ Len(frames') = n + 1
      /\ frames'[n + 1] = f /\ \A i \in 1..n : frames'[i] = frames[i]
  BY <1>2, <1>3, Pushed DEF Enter
<1>5. n + 1 <= MaxDepth
  BY <1>2, LogAssumption DEF Enter
<1>6. /\ made' \in [Call -> Made] /\ fate[c] = "unmade"
      /\ made'[c].event = current /\ made'[c].text = text /\ made'[c].rendering = Rendering
      /\ \A b \in Call \ {c} : made'[b] = made[b]
      /\ \A i \in 1..n : frames[i].role \in CallRole =>
           frames[i].call \in Call \ {c} /\ fate[frames[i].call] = "running"
  BY <1>2, NewCall
<1>7. /\ fate' \in [Call -> {"unmade", "running", "added", "no event", "skipped",
                             "ignored", "panicked"}]
      /\ fate'[c] = "running" /\ \A b \in Call \ {c} : fate'[b] = fate[b]
  BY <1>1 DEF Outcome, Types
<1>8. \A i \in 1..n : Sound(i)'
  <2>1. Untouched(n)
    BY <1>2, <1>4, <1>6, <1>7 DEF Untouched
  <2> QED BY <1>1, <1>2, <2>1, Kept
<1>9. CallSound(n + 1)'
  <2>1. CurrentIn(n)' = current
    BY <1>1, <1>2, <1>4, CurrentSame, CurrentIs
  <2>2. \A j \in 1..n : frames'[j].role \in CallRole => frames'[j].call # c
    BY <1>4, <1>6
  <2>3. (\E j \in 1..n : frames'[j].role \in RenderingRole) => Rendering
    BY <1>2, <1>4 DEF Rendering, RenderingRole
  <2>4. n + 1 - 1 = n
    BY <1>2
  <2>5. frames'[n + 1].role = role /\ frames'[n + 1].event = current /\ frames'[n + 1].call = c
    BY <1>4
  <2>6. TextSound(frames[n + 1].role, frames[n + 1].call)'
    BY <2>5 DEF TextSound
  <2>7. /\ made'[c].event = CurrentIn(n + 1 - 1)'
        /\ \A j \in 1..n + 1 - 1 : frames'[j].role \in CallRole => frames'[j].call # c
        /\ (\E j \in 1..n + 1 - 1 : frames'[j].role \in RenderingRole) => made'[c].rendering
    BY <1>6, <2>1, <2>2, <2>3, <2>4
  <2>8. role \in EarlyRole => current = made'[c].event /\ current # Null
    BY <1>6
  <2>9. LET d == frames'[n + 1].call IN
        /\ d \in Call /\ fate'[d] = "running"
        /\ \A j \in 1..n + 1 - 1 : frames'[j].role \in CallRole => frames'[j].call # d
        /\ made'[d].event = CurrentIn(n + 1 - 1)'
        /\ frames'[n + 1].role \in EarlyRole =>
             frames'[n + 1].event = made'[d].event /\ frames'[n + 1].event # Null
    BY <1>7, <2>5, <2>7, <2>8
  <2>10. (\E j \in 1..n + 1 - 1 : frames'[j].role \in RenderingRole)
            => made'[frames'[n + 1].call].rendering
    BY <2>5, <2>7, Zenon
  <2> QED BY <2>6, <2>9, <2>10 DEF CallSound
<1>10. Sound(n + 1)'
  <2>1. \A j \in 1..n : Holds(frames'[j].role) \cap Holds(role) = {}
    BY <1>2, <1>4
  <2>2. role # "guard"
    BY DEF CallRole
  <2> QED BY <1>2, <1>4, <1>9, <2>1, <2>2 DEF Sound
<1>11. \A i \in 1..Len(frames') : Sound(i)'
  BY <1>2, <1>4, <1>8, <1>10
<1>12. CallsAccounted'
  <2>1. \A b \in Call :
          \/ fate'[b] = fate[b] /\ made'[b] = made[b]
          \/ /\ fate[b] # "added" /\ fate'[b] # "added"
             /\ fate'[b] = "no event" => made'[b].event = Null
    BY <1>6, <1>7
  <2> QED BY <1>1, <2>1, BooksKept
<1>13. BestEffort'
  <2>1. \A b \in Call :
          \/ fate'[b] = fate[b] /\ made'[b] = made[b]
          \/ /\ fate[b] \in {"unmade", "running"} /\ fate'[b] # "panicked"
             /\ fate'[b] = "skipped" => made'[b].rendering
    BY <1>6, <1>7
  <2> QED BY <1>1, <2>1, ReasonsKept
<1>14. InOrder'
  BY NewInOrder
<1>15. Types'
  BY <1>1, <1>4, <1>5, <1>6, <1>7 DEF Types
<1> QED BY <1>11, <1>12, <1>13, <1>14, <1>15 DEF IInv
-------------------------------------------------------------------------------
(* The innermost call ends.                                                *)

\* What its frame says of it.
LEMMA TopCall ==
  ASSUME IInv, frames # <<>>, Last(frames).role \in CallRole
  PROVE  /\ Len(frames) \in Nat \ {0} /\ Last(frames) = frames[Len(frames)]
         /\ Last(frames) \in Frame
         /\ Sound(Len(frames)) /\ CallSound(Len(frames))
         /\ Last(frames).call \in Call /\ fate[Last(frames).call] = "running"
         /\ made[Last(frames).call] \in Made
<1>1. /\ Len(frames) \in Nat \ {0} /\ Last(frames) = frames[Len(frames)]
      /\ Last(frames) \in Frame
  BY FrameTypes, Popped DEF IInv
<1>0. Len(frames) \in 1..Len(frames)
  BY <1>1
<1>2. Sound(Len(frames)) /\ CallSound(Len(frames))
  BY <1>0, <1>1 DEF IInv, Sound
<1>3. Last(frames).call \in Call /\ fate[Last(frames).call] = "running"
  BY <1>1, <1>2 DEF CallSound
<1>4. made[Last(frames).call] \in Made
  BY <1>3 DEF IInv, Types
<1> QED BY <1>1, <1>2, <1>3, <1>4

\* Arithmetic of the position below the top.
LEMMA OneLess ==
  ASSUME NEW k \in Nat \ {0}
  PROVE  \E n \in Nat : /\ n = k - 1 /\ k = n + 1 /\ n \in 0..k
                        /\ (\A i \in 1..n : i \in 1..k) /\ \A m \in Nat : k <= m => n <= m
  OBVIOUS

LEMMA Returning ==
  ASSUME IInv, frames # <<>>, Last(frames).role \in CallRole,
         NEW c, c = Last(frames).call,
         NEW how \in {"added", "no event", "skipped"}, Return(how),
         UNCHANGED <<tracing, status, made>>,
         buffer' \in [Buffer -> Text], \A b \in Buffer : Len(buffer'[b]) <= 2,
         \A i \in 1..Len(frames) - 1 : \A b \in Holds(frames[i].role) : buffer'[b] = buffer[b],
         how = "no event" => made[c].event = Null,
         how = "skipped" => made[c].rendering,
         IF how = "added"
         THEN made[c].event # Null /\ append_log_entry(made[c].event, c, made[c].text)
         ELSE UNCHANGED effects
  PROVE  IInv'
<1>1. Types /\ CallsAccounted /\ BestEffort /\ InOrder /\ \A i \in 1..Len(frames) : Sound(i)
  BY DEF IInv
<1>2. /\ Len(frames) \in Nat \ {0} /\ CallSound(Len(frames)) /\ c \in Call
      /\ Last(frames) = frames[Len(frames)] /\ fate[c] = "running" /\ made[c] \in Made
  BY TopCall
<1>0. Len(frames) \in Nat \ {0}
  BY TopCall
<1>3. PICK n \in Nat : /\ n = Len(frames) - 1 /\ Len(frames) = n + 1
                       /\ n \in 0..Len(frames) /\ (\A i \in 1..n : i \in 1..Len(frames))
                       /\ \A m \in Nat : Len(frames) <= m => n <= m
  BY <1>0, OneLess, Zenon
<1>4. /\ frames' \in Seq(Frame) /\ Len(frames') = n
      /\ \A i \in 1..n : frames'[i] = frames[i] /\ i \in 1..Len(frames)
  <2>1. frames \in Seq(Frame) /\ frames' = Front(frames)
    BY <1>1, FrameTypes DEF Return
  <2> QED BY <1>3, <2>1, Popped
<1>5. /\ fate' \in [Call -> {"unmade", "running", "added", "no event", "skipped",
                             "ignored", "panicked"}]
      /\ fate'[c] = how /\ \A b \in Call \ {c} : fate'[b] = fate[b]
  BY <1>1, <1>2 DEF Return, Outcome, Types
<1>6. \A i \in 1..n : frames[i].role \in CallRole => frames[i].call \in Call \ {c}
  <2>1. \A i \in 1..n : frames[i].role \in CallRole => CallSound(i)
    BY <1>1, <1>3 DEF Sound
  <2>2. \A i \in 1..n : frames[i].role \in CallRole => frames[i].call # c
    BY <1>2, <1>3 DEF CallSound
  <2> QED BY <2>1, <2>2 DEF CallSound
<1>7. \A i \in 1..n : Sound(i)'
  <2>1. Untouched(n)
    BY <1>3, <1>4, <1>5, <1>6 DEF Untouched
  <2>2. n \in 0..Len(frames) /\ \A i \in 1..n : Sound(i)
    BY <1>1, <1>3
  <2> QED BY <1>1, <2>1, <2>2, Kept
<1>8. CallsAccounted' /\ effects' \in [Event -> Seq(LogEntry)]
  <2>1. CASE how = "added"
    <3>1. made[c].event \in Event /\ made[c].text \in Text
      BY <1>2, <2>1 DEF Made
    <3>2. append_log_entry(made[c].event, c, made[c].text) /\ Outcome(c, "added")
      BY <2>1 DEF Return
    <3>3. fate[c] # "added" /\ made'[c].event = made[c].event /\ made'[c].text = made[c].text
      BY <1>2
    <3> QED BY <1>1, <1>2, <3>1, <3>2, <3>3, BooksAdded
  <2>2. CASE how # "added"
    <3>1. UNCHANGED effects
      BY <2>2
    <3>2. \A b \in Call :
            \/ fate'[b] = fate[b] /\ made'[b] = made[b]
            \/ /\ fate[b] # "added" /\ fate'[b] # "added"
               /\ fate'[b] = "no event" => made'[b].event = Null
      BY <1>2, <1>5, <2>2
    <3>3. effects' \in [Event -> Seq(LogEntry)]
      BY <1>1, <3>1 DEF Types
    <3> QED BY <1>1, <3>1, <3>2, <3>3, BooksKept
  <2> QED BY <2>1, <2>2
<1>9. BestEffort'
  <2>1. \A b \in Call :
          \/ fate'[b] = fate[b] /\ made'[b] = made[b]
          \/ /\ fate[b] \in {"unmade", "running"} /\ fate'[b] # "panicked"
             /\ fate'[b] = "skipped" => made'[b].rendering
    BY <1>2, <1>5
  <2> QED BY <1>1, <2>1, ReasonsKept
<1>10. InOrder'
  <2>1. \A b \in Call : fate'[b] = "unmade" <=> fate[b] = "unmade"
    BY <1>2, <1>5
  <2> QED BY <1>1, <2>1 DEF InOrder
<1>11. Types'
  <2>1. Len(frames') <= MaxDepth
    <3>1. Len(frames) <= MaxDepth
      BY <1>1 DEF Types
    <3>2. n <= MaxDepth
      BY <1>3, <3>1, LogAssumption, Zenon
    <3> QED BY <1>4, <3>2, Zenon
  <2> QED BY <1>1, <1>4, <1>5, <1>8, <2>1 DEF Types
<1>12. \A i \in 1..Len(frames') : Sound(i)'
  BY <1>4, <1>7
<1> QED BY <1>8, <1>9, <1>10, <1>11, <1>12 DEF IInv
-------------------------------------------------------------------------------
(* A panic: the stack is cut, and what was above ends.                     *)

\* Above a cut are calls that run, and events other than those below.
LEMMA AboveCut ==
  ASSUME IInv, NEW i \in 1..Len(frames)
  PROVE  /\ frames[i].role \notin CallRole => frames[i].call = 0
         /\ frames[i].role \in CallRole =>
              frames[i].call \in Call /\ fate[frames[i].call] = "running"
         /\ frames[i].role = "guard" =>
              frames[i].event \in Event /\ status[frames[i].event] = "open"
         /\ \A j \in 1..i - 1 :
              /\ frames[i].role \in CallRole /\ frames[j].role \in CallRole =>
                   frames[i].call # frames[j].call
              /\ frames[i].role = "guard" /\ frames[j].role = "guard" =>
                   frames[i].event # frames[j].event
<1>1. Sound(i)
  BY DEF IInv
<1> QED BY <1>1 DEF Sound, CallSound, GuardSound

LEMMA Cutting ==
  ASSUME IInv, NEW d \in 0..Len(frames),
         frames' \in Seq(Frame), Len(frames') = d, \A i \in 1..d : frames'[i] = frames[i],
         NEW ended, 0 \notin ended,
         fate' = [b \in Call |-> IF b \in ended THEN "panicked" ELSE fate[b]],
         \A b \in ended \cap Call : fate[b] \in {"running", "unmade"},
         \A i \in 1..d : frames[i].role \in CallRole =>
           frames[i].call \notin ended /\ made'[frames[i].call] = made[frames[i].call],
         \A i \in 1..d : frames[i].role = "guard" =>
           status'[frames[i].event] = status[frames[i].event],
         status' \in [Event -> {"unborn", "open", "emitted", "lost"}],
         made' \in [Call -> Made],
         \A b \in Call \ ended : made'[b] = made[b],
         UNCHANGED <<tracing, buffer, effects>>
  PROVE  Types' /\ CallsAccounted' /\ \A i \in 1..Len(frames') : Sound(i)'
<1>1. Types /\ CallsAccounted /\ \A i \in 1..Len(frames) : Sound(i)
  BY DEF IInv
<1>2. Len(frames) \in Nat /\ Len(frames) <= MaxDepth
  BY <1>1, FrameTypes DEF Types
<1>3. \A i \in 1..d : i \in 1..Len(frames)
  BY <1>2
<1>4. fate' \in [Call -> {"unmade", "running", "added", "no event", "skipped",
                          "ignored", "panicked"}]
  BY <1>1 DEF Types
<1>5. Types'
  <2>1. d <= MaxDepth
    BY <1>2, LogAssumption
  <2> QED BY <1>1, <1>4, <2>1 DEF Types
<1>6. CallsAccounted'
  <2>1. \A b \in Call :
          \/ fate'[b] = fate[b] /\ made'[b] = made[b]
          \/ /\ fate[b] # "added" /\ fate'[b] # "added"
             /\ fate'[b] = "no event" => made'[b].event = Null
    <3> SUFFICES ASSUME NEW b \in Call
                 PROVE  IF b \in ended THEN fate'[b] = "panicked" /\ fate[b] # "added"
                        ELSE fate'[b] = fate[b] /\ made'[b] = made[b]
      OBVIOUS
    <3> QED OBVIOUS
  <2> QED BY <1>1, <2>1, BooksKept
<1>7. \A i \in 1..d : Sound(i)'
  <2>1. ASSUME NEW i \in 1..d, frames[i].role \in CallRole
        PROVE  fate'[frames[i].call] = fate[frames[i].call]
    BY <1>3, <2>1, AboveCut
  <2>2. Untouched(d)
    BY <2>1 DEF Untouched
  <2> QED BY <1>1, <1>3, <2>2, Kept
<1> QED BY <1>5, <1>6, <1>7

\* What unwinding a stack means, for a stack that is the call stack or all of
\* it but its top.
LEMMA Unwinding ==
  ASSUME IInv, NEW n \in 0..Len(frames), NEW stack \in Seq(Frame), Len(stack) = n,
         \A i \in 1..n : stack[i] = frames[i],
         NEW call, 0 \notin call, NEW lost \in SUBSET Event,
         Unwind(stack, call, lost),
         \A i \in 1..n : frames[i].role \in CallRole => frames[i].call \notin call,
         \A i \in 1..n : frames[i].role = "guard" => frames[i].event \notin lost,
         \A b \in call \cap Call : fate[b] \in {"running", "unmade"},
         made' \in [Call -> Made], \A b \in Call \ call : made'[b] = made[b],
         UNCHANGED <<tracing, buffer, effects>>
  PROVE  /\ Types' /\ CallsAccounted' /\ \A i \in 1..Len(frames') : Sound(i)'
         /\ \A b \in Call : \/ fate'[b] = fate[b] /\ b \notin call
                            \/ /\ fate'[b] = "panicked"
                               /\ b \in call \/ fate[b] = "running"
         /\ \A e \in lost : status'[e] = "lost"
         /\ \A e \in Event : status[e] = "lost" => status'[e] = "lost"
<1>0. PICK d \in 0..Len(stack) :
        LET gone == d + 1..Len(stack)
            guards == {i \in gone : stack[i].role = "guard"}
            calls == {stack[i].call : i \in gone \ guards} \cup call
        IN  /\ frames' = SubSeq(stack, 1, d)
            /\ fate' = [c \in Call |-> IF c \in calls THEN "panicked" ELSE fate[c]]
            /\ status' = [e \in Event |->
                            IF e \in lost THEN "lost"
                            ELSE IF \E i \in guards : stack[i].event = e THEN "emitted"
                            ELSE status[e]]
  BY Zenon DEF Unwind
<1> DEFINE gone == d + 1..n
           guards == {i \in gone : stack[i].role = "guard"}
           calls == {stack[i].call : i \in gone \ guards} \cup call
           ended == calls \ {0}
<1>1. /\ d \in 0..n /\ frames' = SubSeq(stack, 1, d)
      /\ fate' = [c \in Call |-> IF c \in calls THEN "panicked" ELSE fate[c]]
      /\ status' = [e \in Event |-> IF e \in lost THEN "lost"
                                   ELSE IF \E i \in guards : stack[i].event = e THEN "emitted"
                                   ELSE status[e]]
  BY <1>0, Zenon
<1>2. Types /\ Len(frames) \in Nat /\ 0 \notin Call
  BY FrameTypes DEF IInv, Call
<1>3. /\ frames' \in Seq(Frame) /\ Len(frames') = d
      /\ \A i \in 1..d : frames'[i] = frames[i]
  <2> HIDE DEF gone, guards, calls, ended
  <2>1. frames' = SubSeq(stack, 1, d) /\ d \in 0..Len(stack)
    BY <1>1, Zenon
  <2>2. /\ SubSeq(stack, 1, d) \in Seq(Frame) /\ Len(SubSeq(stack, 1, d)) = d
        /\ \A i \in 1..d : SubSeq(stack, 1, d)[i] = stack[i]
    BY <2>1, Cut
  <2>3. \A i \in 1..d : i \in 1..n
    BY <1>1, SMT
  <2> QED BY <2>1, <2>2, <2>3, Zenon
<1>4. fate' = [c \in Call |-> IF c \in ended THEN "panicked" ELSE fate[c]]
  BY <1>1, <1>2
<1>5. \A i \in gone : i \in 1..Len(frames) /\ i \in 1..n /\ stack[i] = frames[i]
  BY <1>2
<1>6. ASSUME NEW b \in ended, b \notin call
      PROVE  b \in Call /\ fate[b] = "running" /\
             \E i \in gone : frames[i].role \in CallRole /\ frames[i].call = b
  <2>1. PICK i \in gone : stack[i].call = b
    BY <1>6
  <2>2. frames[i].call = b /\ i \in 1..Len(frames) /\ b # 0
    BY <1>5, <2>1
  <2> QED BY <2>2, AboveCut
<1>7. ASSUME NEW i \in 1..d
      PROVE  /\ frames[i].role \in CallRole => frames[i].call \notin ended
             /\ frames[i].role = "guard" => status'[frames[i].event] = status[frames[i].event]
  <2>1. i \in 1..n /\ i \in 1..Len(frames) /\ \A j \in gone : i \in 1..j - 1
    BY <1>2
  <2>2. ASSUME frames[i].role \in CallRole, frames[i].call \in ended PROVE FALSE
    <3>1. PICK j \in gone : frames[j].role \in CallRole /\ frames[j].call = frames[i].call
      BY <1>6, <2>1, <2>2
    <3> QED BY <1>5, <2>1, <2>2, <3>1, AboveCut
  <2>3. ASSUME frames[i].role = "guard"
        PROVE  status'[frames[i].event] = status[frames[i].event]
    <3>1. \A j \in guards : stack[j].event # frames[i].event
      BY <1>5, <2>1, <2>3, AboveCut
    <3>2. frames[i].event \in Event /\ frames[i].event \notin lost
      BY <2>1, <2>3, AboveCut
    <3> QED BY <1>1, <3>1, <3>2
  <2> QED BY <2>2, <2>3
<1>8. status \in [Event -> {"unborn", "open", "emitted", "lost"}]
  BY <1>2 DEF Types
<1>9. /\ status' \in [Event -> {"unborn", "open", "emitted", "lost"}]
      /\ \A e \in lost : status'[e] = "lost"
  BY <1>1, <1>8
<1>10. \A e \in Event : status[e] = "lost" => status'[e] = "lost"
  <2> SUFFICES ASSUME NEW e \in Event, status[e] = "lost" PROVE status'[e] = "lost"
    OBVIOUS
  <2>1. ~\E i \in guards : stack[i].event = e
    BY <1>5, AboveCut
  <2> QED BY <1>1, <2>1
<1>11. \A b \in Call : \/ fate'[b] = fate[b] /\ b \notin call
                       \/ /\ fate'[b] = "panicked"
                          /\ b \in call \/ fate[b] = "running"
  BY <1>2, <1>4, <1>6
<1>12. \A b \in ended \cap Call : fate[b] \in {"running", "unmade"}
  BY <1>6
<1>13. \A i \in 1..d : frames[i].role \in CallRole =>
         frames[i].call \notin ended /\ made'[frames[i].call] = made[frames[i].call]
  <2> SUFFICES ASSUME NEW i \in 1..d, frames[i].role \in CallRole
               PROVE  frames[i].call \notin ended /\ made'[frames[i].call] = made[frames[i].call]
    OBVIOUS
  <2>1. i \in 1..n /\ i \in 1..Len(frames)
    BY <1>2
  <2>2. frames[i].call \in Call \ call
    BY <2>1, AboveCut
  <2> QED BY <1>7, <2>2
<1>14. \A b \in Call \ ended : made'[b] = made[b]
  BY <1>2
<1>15. d \in 0..Len(frames) /\ 0 \notin ended
  BY <1>2
<1> HIDE DEF ended
<1>16. Types' /\ CallsAccounted' /\ \A i \in 1..Len(frames') : Sound(i)'
  BY <1>3, <1>4, <1>7, <1>9, <1>12, <1>13, <1>14, <1>15, Cutting
<1> QED BY <1>9, <1>10, <1>11, <1>16

\* The macro of a schema crate that finds FMT_BUF borrowed.
LEMMA CallPanics ==
  ASSUME IInv, NEW c \in Call, NEW text \in Text, New(c, text), Rendering,
         Unwind(frames, {c}, {}), UNCHANGED <<tracing, buffer, effects>>
  PROVE  IInv'
<1>1. frames \in Seq(Frame) /\ Len(frames) \in Nat /\ InOrder /\ BestEffort
  BY FrameTypes DEF IInv
<1>2. /\ made' \in [Call -> Made] /\ fate[c] = "unmade" /\ made'[c].rendering = Rendering
      /\ \A b \in Call \ {c} : made'[b] = made[b]
      /\ \A b \in Call : b < c => fate[b] # "unmade"
      /\ \A i \in 1..Len(frames) : frames[i].role \in CallRole => frames[i].call \in Call \ {c}
  BY NewCall
<1>3. \A x \in Call : x \in Nat \ {0}
  BY LogAssumption DEF Call
<1> DEFINE call == {c}
           lost == {}
<1>10. /\ 0 \notin call /\ Len(frames) \in 0..Len(frames) /\ lost \in SUBSET Event
       /\ \A i \in 1..Len(frames) : frames[i].role \in CallRole => frames[i].call \notin call
       /\ \A i \in 1..Len(frames) : frames[i].role = "guard" => frames[i].event \notin lost
       /\ \A b \in call \cap Call : fate[b] \in {"running", "unmade"}
       /\ \A b \in Call \ call : made'[b] = made[b]
  BY <1>1, <1>2, <1>3
<1>11. \A i \in 1..Len(frames) : frames[i] = frames[i]
  OBVIOUS
<1>12. Unwind(frames, call, lost) /\ UNCHANGED <<tracing, buffer, effects>>
  OBVIOUS
<1> HIDE DEF call, lost
<1>13. /\ Types' /\ CallsAccounted' /\ \A i \in 1..Len(frames') : Sound(i)'
       /\ \A b \in Call : \/ fate'[b] = fate[b] /\ b \notin call
                          \/ /\ fate'[b] = "panicked"
                             /\ b \in call \/ fate[b] = "running"
       /\ \A e \in Event : status[e] = "lost" => status'[e] = "lost"
  BY <1>1, <1>2, <1>10, <1>11, <1>12, Unwinding, Zenon
<1>4. /\ Types' /\ CallsAccounted' /\ \A i \in 1..Len(frames') : Sound(i)'
      /\ \A b \in Call : \/ fate'[b] = fate[b] /\ b \notin {c}
                         \/ /\ fate'[b] = "panicked"
                            /\ b \in {c} \/ fate[b] = "running"
      /\ \A e \in Event : status[e] = "lost" => status'[e] = "lost"
  BY <1>13 DEF call
<1>5. fate'[c] = "panicked"
  BY <1>4
<1>6. InOrder'
  <2> SUFFICES ASSUME NEW a \in Call, NEW b \in Call, a < b, fate'[a] = "unmade"
               PROVE  fate'[b] = "unmade"
    BY DEF InOrder
  <2>1. fate[a] = "unmade" /\ a # c
    BY <1>4
  <2>2. fate[b] = "unmade"
    BY <1>1, <2>1 DEF InOrder
  <2>3. b # c
    BY <1>2, <2>1
  <2> QED BY <1>4, <2>2, <2>3
<1>7. \A b \in Call : fate'[b] = "panicked" /\ fate[b] # "panicked" => b <= c
  <2> SUFFICES ASSUME NEW b \in Call, fate'[b] = "panicked", fate[b] # "panicked", b # c
               PROVE  b <= c
    BY <1>3
  <2>1. fate[b] = "running"
    BY <1>4
  <2>2. ~(c < b)
    BY <1>1, <1>2, <2>1 DEF InOrder
  <2> QED BY <1>3, <2>2
<1>8. made'[c].rendering
  BY <1>2, Zenon
<1>9. BestEffort'
  <2> SUFFICES ASSUME NEW b \in Call
               PROVE  /\ fate'[b] = "skipped" => made'[b].rendering
                      /\ fate'[b] = "panicked" =>
                           \/ \E a \in b..MaxCalls : fate'[a] = "panicked" /\ made'[a].rendering
                           \/ \E e \in Event : status'[e] = "lost"
    BY DEF BestEffort
  <2>1. fate'[b] = "skipped" => made'[b].rendering
    <3>1. fate'[b] = "skipped" => fate[b] = "skipped" /\ made'[b] = made[b]
      BY <1>2, <1>4
    <3> QED BY <1>1, <3>1 DEF BestEffort
  <2>2. ASSUME fate'[b] = "panicked", fate[b] # "panicked"
        PROVE  \E a \in b..MaxCalls : fate'[a] = "panicked" /\ made'[a].rendering
    <3>1. c \in b..MaxCalls
      BY <1>7, <2>2, LogAssumption DEF Call
    <3> QED BY <1>5, <1>8, <3>1
  <2>3. ASSUME fate[b] = "panicked", ~\E e \in Event : status'[e] = "lost"
        PROVE  \E a \in b..MaxCalls : fate'[a] = "panicked" /\ made'[a].rendering
    <3>1. PICK a \in b..MaxCalls : fate[a] = "panicked" /\ made[a].rendering
      BY <1>1, <1>4, <2>3 DEF BestEffort
    <3>2. a \in Call /\ a # c
      BY <1>2, <3>1, LogAssumption DEF Call
    <3>3. fate'[a] = "panicked" /\ made'[a] = made[a]
      BY <1>2, <1>4, <3>1, <3>2
    <3> QED BY <3>1, <3>3
  <2> QED BY <2>1, <2>2, <2>3
<1> QED BY <1>4, <1>6, <1>9 DEF IInv

\* What a guard on top of the stack says.
LEMMA TopGuard ==
  ASSUME IInv, frames # <<>>, Last(frames).role = "guard"
  PROVE  /\ Len(frames) \in Nat \ {0} /\ Last(frames) = frames[Len(frames)]
         /\ Last(frames).event \in Event /\ status[Last(frames).event] = "open"
         /\ \A j \in 1..Len(frames) - 1 :
              frames[j].role = "guard" => frames[j].event # Last(frames).event
<1>1. /\ Len(frames) \in Nat \ {0} /\ Last(frames) = frames[Len(frames)]
  BY FrameTypes, Popped DEF IInv
<1>2. Len(frames) \in 1..Len(frames)
  BY <1>1
<1>3. GuardSound(Len(frames))
  BY <1>1, <1>2 DEF IInv, Sound
<1> QED BY <1>1, <1>3 DEF GuardSound

\* The emission that finds EMIT_BUF borrowed.
LEMMA EmissionPanics ==
  ASSUME IInv, frames # <<>>, Last(frames).role = "guard",
         Unwind(Front(frames), {}, {Last(frames).event}),
         UNCHANGED <<tracing, buffer, effects, made>>
  PROVE  IInv'
<1> DEFINE e == Last(frames).event
<1>1. /\ Types /\ frames \in Seq(Frame) /\ InOrder /\ BestEffort
      /\ Len(frames) \in Nat \ {0} /\ e \in Event
      /\ \A j \in 1..Len(frames) - 1 : frames[j].role = "guard" => frames[j].event # e
  BY FrameTypes, TopGuard DEF IInv
<1>2. PICK n \in Nat : n = Len(frames) - 1 /\ n \in 0..Len(frames)
  BY <1>1, OneLess, Zenon
<1>3. /\ Front(frames) \in Seq(Frame) /\ Len(Front(frames)) = n
      /\ \A i \in 1..n : Front(frames)[i] = frames[i]
  BY <1>1, <1>2, Popped
<1>4. made' \in [Call -> Made]
  BY <1>1 DEF Types
<1> DEFINE call == {}
           lost == {e}
<1>5. /\ lost \in SUBSET Event /\ 0 \notin call
      /\ \A i \in 1..n : frames[i].role \in CallRole => frames[i].call \notin call
      /\ \A i \in 1..n : frames[i].role = "guard" => frames[i].event \notin lost
      /\ \A b \in call \cap Call : fate[b] \in {"running", "unmade"}
      /\ \A b \in Call \ call : made'[b] = made[b]
  BY <1>1, <1>2
<1>6. Unwind(Front(frames), call, lost) /\ UNCHANGED <<tracing, buffer, effects>>
  OBVIOUS
<1> HIDE DEF e, call, lost
<1>10. /\ Types' /\ CallsAccounted' /\ \A i \in 1..Len(frames') : Sound(i)'
       /\ \A b \in Call : \/ fate'[b] = fate[b] /\ b \notin call
                          \/ /\ fate'[b] = "panicked"
                             /\ b \in call \/ fate[b] = "running"
       /\ \A x \in lost : status'[x] = "lost"
  BY <1>2, <1>3, <1>4, <1>5, <1>6, Unwinding, SMTT(60)
<1>7. /\ Types' /\ CallsAccounted' /\ \A i \in 1..Len(frames') : Sound(i)'
      /\ \A b \in Call : \/ fate'[b] = fate[b]
                         \/ fate'[b] = "panicked" /\ fate[b] = "running"
      /\ status'[e] = "lost"
  BY <1>10 DEF call, lost
<1>8. InOrder'
  BY <1>1, <1>7 DEF InOrder
<1>9. BestEffort'
  <2>1. e \in Event /\ status'[e] = "lost"
    BY <1>1, <1>7
  <2>2. \A b \in Call : fate'[b] = "skipped" => fate[b] = "skipped" /\ made'[b] = made[b]
    BY <1>7
  <2> QED BY <1>1, <2>1, <2>2 DEF BestEffort
<1> QED BY <1>7, <1>8, <1>9 DEF IInv
-------------------------------------------------------------------------------
(* Steps that begin and end no call.                                       *)

LEMMA Quiet ==
  ASSUME IInv, UNCHANGED <<tracing, effects, fate, made>>,
         frames' \in Seq(Frame), Len(frames') <= MaxDepth,
         buffer' \in [Buffer -> Text], \A b \in Buffer : Len(buffer'[b]) <= 2,
         status' \in [Event -> {"unborn", "open", "emitted", "lost"}],
         \A e \in Event : status[e] = "lost" => status'[e] = "lost",
         \A i \in 1..Len(frames') : Sound(i)'
  PROVE  IInv'
<1>1. Types /\ CallsAccounted /\ BestEffort /\ InOrder
  BY DEF IInv
<1>2. Types'
  BY <1>1 DEF Types
<1>3. CallsAccounted'
  BY <1>1, BooksKept
<1>4. BestEffort'
  BY <1>1, ReasonsKept
<1>5. InOrder'
  BY <1>1 DEF InOrder
<1> QED BY <1>2, <1>3, <1>4, <1>5 DEF IInv

LEMMA GuardBuilt ==
  ASSUME IInv, NEW e \in Event, guard_build(e)
  PROVE  IInv'
<1> DEFINE f == [role |-> "guard", event |-> e, call |-> 0]
<1>1. Types /\ frames \in Seq(Frame) /\ f \in Frame
  BY FrameTypes DEF IInv, Frame, Role
<1>2. PICK n \in Nat : n = Len(frames) /\ n + 1 <= MaxDepth
  BY <1>1, FrameTypes, LogAssumption DEF guard_build
<1>3. /\ frames' \in Seq(Frame) /\ Len(frames') = n + 1
      /\ frames'[n + 1] = f /\ \A i \in 1..n : frames'[i] = frames[i]
  BY <1>1, <1>2, Pushed DEF guard_build
<1>4. /\ status[e] = "unborn" /\ status'[e] = "open"
      /\ \A x \in Event \ {e} : status'[x] = status[x]
      /\ status' \in [Event -> {"unborn", "open", "emitted", "lost"}]
  BY <1>1 DEF guard_build, Types
<1>5. \A i \in 1..n : frames[i].role = "guard" => frames[i].event \in Event \ {e}
  BY <1>2, <1>4, AboveCut
<1>6. UNCHANGED <<tracing, buffer, effects, fate, made>>
  BY DEF guard_build
<1>7. \A i \in 1..n : Sound(i)'
  <2>1. Untouched(n)
    BY <1>3, <1>4, <1>5, <1>6 DEF Untouched
  <2>2. \A i \in 1..n : Sound(i)
    BY <1>2 DEF IInv
  <2> QED BY <1>1, <1>2, <2>1, <2>2, Kept
<1>8. Sound(n + 1)'
  <2>1. \A j \in 1..n : frames'[j].role = "guard" => frames'[j].event # e
    BY <1>3, <1>5
  <2>2. GuardSound(n + 1)'
    BY <1>3, <1>4, <2>1 DEF GuardSound
  <2> QED BY <1>3, <2>2 DEF Sound, CallRole, Holds
<1>9. \A i \in 1..Len(frames') : Sound(i)'
  BY <1>3, <1>7, <1>8
<1>10. buffer' \in [Buffer -> Text] /\ \A b \in Buffer : Len(buffer'[b]) <= 2
  BY <1>1, <1>6 DEF Types
<1> QED BY <1>2, <1>3, <1>4, <1>6, <1>9, <1>10, Quiet

\* An emission that goes well; the frame of the guard becomes that of the
\* emission, or goes.
LEMMA Emitted ==
  ASSUME IInv, Top("guard"), default_emit, ~Borrowed("EMIT_BUF")
  PROVE  IInv'
<1> DEFINE e == Last(frames).event
           f == [role |-> "emit", event |-> e, call |-> 0]
<1>1. /\ Types /\ frames \in Seq(Frame) /\ Len(frames) \in Nat \ {0} /\ e \in Event /\ frames # <<>>
      /\ status[e] = "open"
      /\ \A j \in 1..Len(frames) - 1 : frames[j].role = "guard" => frames[j].event # e
  BY FrameTypes, TopGuard DEF IInv, Top
<1>2. PICK n \in Nat : /\ n = Len(frames) - 1 /\ Len(frames) = n + 1 /\ n \in 0..Len(frames)
                       /\ \A i \in 1..n : i \in 1..Len(frames)
                       /\ \A m \in Nat : Len(frames) <= m => n <= m
  BY <1>1, OneLess, Zenon
<1>3. /\ Front(frames) \in Seq(Frame) /\ Len(Front(frames)) = n
      /\ \A i \in 1..n : Front(frames)[i] = frames[i]
  BY <1>1, <1>2, Popped
<1>4. /\ status' = [status EXCEPT ![e] = "emitted"]
      /\ frames' = IF tracing THEN Append(Front(frames), f) ELSE Front(frames)
      /\ UNCHANGED <<tracing, buffer, effects, fate, made>>
  <2>1. \/ /\ status' = [status EXCEPT ![e] = "emitted"]
           /\ frames' = IF tracing THEN Append(Front(frames), f) ELSE Front(frames)
           /\ UNCHANGED fate
        \/ Borrowed("EMIT_BUF")
    BY DEF default_emit
  <2>2. UNCHANGED <<tracing, buffer, effects, made>>
    BY DEF default_emit
  <2> QED BY <2>1, <2>2
<1>5. status' \in [Event -> {"unborn", "open", "emitted", "lost"}]
      /\ \A x \in Event \ {e} : status'[x] = status[x]
  BY <1>1, <1>4 DEF Types
<1>6. f \in Frame /\ f.role = "emit" /\ f.call = 0
  BY <1>1 DEF Frame, Role
<1>7. /\ frames' \in Seq(Frame) /\ Len(frames') \in {n, n + 1}
      /\ \A i \in 1..n : frames'[i] = frames[i]
      /\ Len(frames') = n + 1 => frames'[n + 1] = f
  <2>1. CASE tracing
    <3> HIDE DEF f
    <3>1. frames' = Append(Front(frames), f)
      BY <1>4, <2>1
    <3> QED BY <1>3, <1>6, <3>1, Pushed
  <2>2. CASE ~tracing
    BY <1>2, <1>3, <1>4, <2>2
  <2> QED BY <2>1, <2>2
<1>8. \A i \in 1..n : Sound(i)'
  <2>1. \A i \in 1..n : frames[i].role = "guard" => frames[i].event \in Event \ {e}
    BY <1>1, <1>2, AboveCut
  <2>2. Untouched(n)
    BY <1>4, <1>5, <1>7, <2>1 DEF Untouched
  <2>3. \A i \in 1..n : Sound(i)
    BY <1>2 DEF IInv
  <2> QED BY <1>1, <1>2, <2>2, <2>3, Kept
<1>9. Len(frames') = n + 1 => Sound(n + 1)'
  <2>1. \A j \in 1..n : "EMIT_BUF" \notin Holds(frames'[j].role)
    BY <1>2, <1>7 DEF Borrowed
  <2> QED BY <1>6, <1>7, <2>1 DEF Sound, CallRole, Holds
<1>10. \A i \in 1..Len(frames') : Sound(i)'
  BY <1>7, <1>8, <1>9
<1>11. /\ buffer' \in [Buffer -> Text] /\ \A b \in Buffer : Len(buffer'[b]) <= 2
       /\ Len(frames') <= MaxDepth
  <2>1. Len(frames) <= MaxDepth
    BY <1>1 DEF Types
  <2>2. n <= MaxDepth /\ n + 1 <= MaxDepth
    BY <1>2, <2>1, LogAssumption, Zenon
  <2> QED BY <1>1, <1>4, <1>7, <2>2 DEF Types
<1>12. \A x \in Event : status[x] = "lost" => status'[x] = "lost"
  BY <1>1, <1>5
<1> QED BY <1>4, <1>5, <1>7, <1>10, <1>11, <1>12, Quiet

\* The capture layer ignores the record.
LEMMA EmissionOver ==
  ASSUME IInv, default_emit_end
  PROVE  IInv' /\ UNCHANGED <<effects, status>>
<1>1. /\ Types /\ frames \in Seq(Frame) /\ frames # <<>> /\ frames' = Front(frames)
      /\ Len(frames) \in Nat \ {0}
  BY FrameTypes, Popped DEF IInv, default_emit_end, Top
<1>2. PICK n \in Nat : /\ n = Len(frames) - 1 /\ n \in 0..Len(frames)
                       /\ \A i \in 1..n : i \in 1..Len(frames)
                       /\ \A m \in Nat : Len(frames) <= m => n <= m
  BY <1>1, OneLess, Zenon
<1>3. /\ frames' \in Seq(Frame) /\ Len(frames') = n
      /\ \A i \in 1..n : frames'[i] = frames[i]
  BY <1>1, <1>2, Popped
<1>4. UNCHANGED <<tracing, buffer, status, fate, made, effects>>
  <2>1. Ignored("wide_log", "captured")
    BY DEF Ignored
  <2> QED BY <2>1 DEF default_emit_end
<1>5. \A i \in 1..n : Sound(i)'
  <2>1. Untouched(n)
    BY <1>3, <1>4 DEF Untouched
  <2>2. \A i \in 1..n : Sound(i)
    BY <1>2 DEF IInv
  <2> QED BY <1>1, <1>2, <2>1, <2>2, Kept
<1>6. Len(frames') <= MaxDepth
  <2>1. Len(frames) <= MaxDepth
    BY <1>1 DEF Types
  <2> QED BY <1>2, <1>3, <2>1, LogAssumption, Zenon
<1>7. /\ buffer' \in [Buffer -> Text] /\ \A b \in Buffer : Len(buffer'[b]) <= 2
      /\ status' \in [Event -> {"unborn", "open", "emitted", "lost"}]
  BY <1>1, <1>4 DEF Types
<1> QED BY <1>3, <1>4, <1>5, <1>6, <1>7, Quiet

\* The texts that calls add.
LEMMA Pieces ==
  ASSUME NEW c \in Call
  PROVE  /\ <<>> \in Text /\ <<c>> \in Text /\ <<c, c>> \in Text
         /\ Len(<<>>) <= 2 /\ Len(<<c>>) <= 2 /\ Len(<<c, c>>) <= 2
         /\ Append(<<c>>, c) = <<c, c>> /\ <<c>> \o <<c>> = <<c, c>>
         /\ <<>> \o <<c>> = <<c>> /\ <<c>> \o <<>> = <<c>>
<1>1. <<>> \in Text /\ <<c>> \in Text /\ <<c, c>> \in Text
  BY DEF Text
<1>2. Len(<<>>) <= 2 /\ Len(<<c>>) <= 2 /\ Len(<<c, c>>) <= 2
  OBVIOUS
<1> QED BY <1>1, <1>2, Pair

\* A buffer that is overwritten, when no frame below holds it.
LEMMA Overwritten ==
  ASSUME Types, NEW b \in Buffer, NEW piece \in Text, Len(piece) <= 2,
         buffer' = [buffer EXCEPT ![b] = piece]
  PROVE  /\ buffer' \in [Buffer -> Text] /\ \A x \in Buffer : Len(buffer'[x]) <= 2
         /\ buffer'[b] = piece /\ \A x \in Buffer \ {b} : buffer'[x] = buffer[x]
  BY DEF Types

LEMMA HoldsBuffers == \A role : Holds(role) \in SUBSET Buffer
  BY DEF Holds, Buffer
-------------------------------------------------------------------------------
(* One lemma for each of the other actions.                                *)

LEMMA AddedDirectly ==
  ASSUME IInv, NEW c \in Call, add_directly(c) PROVE IInv'
<1>1. <<c>> \in Text /\ New(c, <<c>>) /\ UNCHANGED <<tracing, frames, buffer, status>>
  BY Pieces DEF add_directly
<1>2. buffer' \in [Buffer -> Text] /\ \A b \in Buffer : Len(buffer'[b]) <= 2
  BY <1>1 DEF IInv, Types
<1>3. \A i \in 1..Len(frames) : \A b \in Holds(frames[i].role) : buffer'[b] = buffer[b]
  BY <1>1
<1> DEFINE text == <<c>>
<1>4. New(c, text) /\ text \in Text
  BY <1>1
<1>5. CASE current = Null /\ Outcome(c, "no event") /\ UNCHANGED effects
  BY <1>1, <1>2, <1>3, <1>4, <1>5, Instant
<1>6. CASE current # Null /\ Outcome(c, "added") /\ append_log_entry(current, c, text)
  <2> HIDE DEF text
  <2> QED BY <1>1, <1>2, <1>3, <1>4, <1>6, Instant
<1> QED BY <1>5, <1>6 DEF add_directly

LEMMA SetBegun ==
  ASSUME IInv, NEW c \in Call, wl_set(c) PROVE IInv'
<1> DEFINE text == <<c>>
<1>1. /\ text \in Text /\ New(c, text) /\ UNCHANGED <<tracing, buffer, effects, status>>
  BY Pieces DEF wl_set
<1>2. buffer' \in [Buffer -> Text] /\ \A b \in Buffer : Len(buffer'[b]) <= 2
  BY <1>1 DEF IInv, Types
<1>3. \A i \in 1..Len(frames) : \A b \in Holds(frames[i].role) : buffer'[b] = buffer[b]
  BY <1>1
<1>4. CASE current = Null /\ Outcome(c, "no event") /\ UNCHANGED frames
  <2> HIDE DEF text
  <2> QED BY <1>1, <1>2, <1>3, <1>4, Instant
<1>5. CASE current # Null /\ Outcome(c, "running") /\ Enter("wl_set", c)
  <2>1. TextSound("wl_set", c)'
    <3>1. made'[c].text = <<c>>
      BY <1>1, NewCall
    <3> QED BY <3>1 DEF TextSound
  <2>2. \A i \in 1..Len(frames) : Holds(frames[i].role) \cap Holds("wl_set") = {}
    BY DEF Holds
  <2>3. "wl_set" \in CallRole
    BY DEF CallRole, Role
  <2> HIDE DEF text
  <2> QED BY <1>1, <1>2, <1>3, <1>5, <2>1, <2>2, <2>3, Entering
<1> QED BY <1>4, <1>5 DEF wl_set

LEMMA SetEnded ==
  ASSUME IInv, wl_set_end PROVE IInv'
<1> DEFINE c == Last(frames).call
<1>1. /\ frames # <<>> /\ Last(frames).role = "wl_set" /\ Return("added")
      /\ append_log_entry(Last(frames).event, c, <<c>>)
      /\ UNCHANGED <<tracing, buffer, status, made>>
  BY DEF wl_set_end, Top
<1>2. Last(frames).role \in CallRole /\ Last(frames).role \in EarlyRole
  BY <1>1 DEF CallRole, Role, EarlyRole
<1>3. Last(frames).event = made[c].event /\ Last(frames).event # Null /\ made[c].text = <<c>>
  BY <1>1, <1>2, TopCall DEF CallSound, TextSound
<1>4. buffer' \in [Buffer -> Text] /\ \A b \in Buffer : Len(buffer'[b]) <= 2
  BY <1>1 DEF IInv, Types
<1>5. made[c].event # Null /\ append_log_entry(made[c].event, c, made[c].text)
  BY <1>1, <1>3
<1>6. \A i \in 1..Len(frames) - 1 : \A b \in Holds(frames[i].role) : buffer'[b] = buffer[b]
  BY <1>1
<1> HIDE DEF c
<1>7. c = Last(frames).call
  BY DEF c
<1> QED BY <1>1, <1>2, <1>4, <1>5, <1>6, <1>7, Returning

\* What is borrowed is borrowed by a call that renders, FMT_BUF also by one.
LEMMA RenderingBelow ==
  ASSUME IInv, NEW b \in {"FMT_BUF", "LOG_FMT_BUF", "FIELDS_BUF"}, Borrowed(b)
  PROVE  Rendering
<1>1. PICK i \in 1..Len(frames) : b \in Holds(frames[i].role)
  BY DEF Borrowed
<1>2. frames[i].role \in {"generated", "root", "capture"}
  BY <1>1 DEF Holds
<1> QED BY <1>2 DEF Rendering

\* A buffer that is not borrowed is held by no frame.
LEMMA NotHeld ==
  ASSUME NEW b, ~Borrowed(b)
  PROVE  \A i \in 1..Len(frames) : b \notin Holds(frames[i].role)
  BY DEF Borrowed

LEMMA FormattedBegun ==
  ASSUME IInv, NEW c \in Call, log_formatted(c) PROVE IInv'
<1> DEFINE text == <<c, c>>
           piece == <<c>>
<1>1. /\ text \in Text /\ piece \in Text /\ Len(piece) <= 2
      /\ New(c, text) /\ UNCHANGED <<tracing, effects>>
  BY Pieces DEF log_formatted
<1>2. buffer \in [Buffer -> Text] /\ (\A b \in Buffer : Len(buffer[b]) <= 2) /\ Types
  BY <1>1 DEF IInv, Types
<1>3. CASE current = Null /\ Outcome(c, "no event") /\ UNCHANGED <<frames, buffer, status>>
  <2> HIDE DEF text
  <2>1. \A i \in 1..Len(frames) : \A b \in Holds(frames[i].role) : buffer'[b] = buffer[b]
    BY <1>3
  <2>2. buffer' \in [Buffer -> Text] /\ \A b \in Buffer : Len(buffer'[b]) <= 2
    BY <1>2, <1>3
  <2> QED BY <1>1, <1>3, <2>1, <2>2, Instant
<1>4. CASE /\ current # Null /\ ~Borrowed("FMT_BUF")
           /\ Outcome(c, "running") /\ Enter("generated", c)
           /\ buffer' = cleared("FMT_BUF", piece)
           /\ UNCHANGED status
  <2>1. /\ buffer' \in [Buffer -> Text] /\ (\A x \in Buffer : Len(buffer'[x]) <= 2)
        /\ buffer'["FMT_BUF"] = piece /\ \A x \in Buffer \ {"FMT_BUF"} : buffer'[x] = buffer[x]
    <3> HIDE DEF piece
    <3> QED BY <1>1, <1>2, <1>4, Overwritten DEF cleared, Buffer
  <2>2. \A i \in 1..Len(frames) : "FMT_BUF" \notin Holds(frames[i].role)
    BY <1>4, NotHeld
  <2>3. \A i \in 1..Len(frames) : \A b \in Holds(frames[i].role) : buffer'[b] = buffer[b]
    BY <2>1, <2>2, HoldsBuffers
  <2>4. \A i \in 1..Len(frames) : Holds(frames[i].role) \cap Holds("generated") = {}
    BY <2>2 DEF Holds
  <2>5. TextSound("generated", c)'
    <3>1. made'[c].text = <<c, c>>
      BY <1>1, NewCall
    <3> QED BY <2>1, <3>1 DEF TextSound
  <2>6. "generated" \in CallRole
    BY DEF CallRole, Role
  <2> HIDE DEF text, piece
  <2> QED BY <1>1, <1>4, <2>1, <2>3, <2>4, <2>5, <2>6, Entering
<1>5. CASE /\ current # Null /\ Borrowed("FMT_BUF")
           /\ Unwind(frames, {c}, {})
           /\ UNCHANGED buffer
  <2>1. Rendering
    BY <1>5, RenderingBelow
  <2> HIDE DEF text
  <2> QED BY <1>1, <1>5, <2>1, CallPanics
<1> QED BY <1>3, <1>4, <1>5 DEF log_formatted

\* A call whose message is complete: its own frame holds the buffers that
\* change.
LEMMA OwnBuffer ==
  ASSUME IInv, frames # <<>>, NEW b \in Buffer, b \in Holds(Last(frames).role),
         NEW text \in Text, Len(text) <= 2,
         buffer' = [buffer EXCEPT ![b] = text]
  PROVE  /\ buffer' \in [Buffer -> Text] /\ \A x \in Buffer : Len(buffer'[x]) <= 2
         /\ \A i \in 1..Len(frames) - 1 : \A x \in Holds(frames[i].role) : buffer'[x] = buffer[x]
<1>1. Types /\ \A i \in 1..Len(frames) : Sound(i)
  BY DEF IInv
<1>2. Len(frames) \in Nat \ {0} /\ Last(frames) = frames[Len(frames)]
  BY <1>1, FrameTypes, Popped
<1>3. Len(frames) \in 1..Len(frames)
  BY <1>2
<1>4. \A i \in 1..Len(frames) - 1 : Holds(frames[i].role) \cap Holds(Last(frames).role) = {}
  BY <1>1, <1>2, <1>3 DEF Sound
<1>5. \A i \in 1..Len(frames) - 1 : b \notin Holds(frames[i].role)
  BY <1>4
<1>6. /\ buffer' \in [Buffer -> Text] /\ \A x \in Buffer : Len(buffer'[x]) <= 2
      /\ \A x \in Buffer \ {b} : buffer'[x] = buffer[x]
  BY <1>1, Overwritten
<1>7. \A i \in 1..Len(frames) - 1 : \A x \in Holds(frames[i].role) : buffer'[x] = buffer[x]
  BY <1>5, <1>6, HoldsBuffers
<1> QED BY <1>6, <1>7

LEMMA FormattedEnded ==
  ASSUME IInv, log_formatted_end PROVE IInv'
<1> DEFINE c == Last(frames).call
           text == Append(buffer["FMT_BUF"], c)
<1>1. /\ frames # <<>> /\ Last(frames).role = "generated" /\ Return("added")
      /\ append_log_entry(Last(frames).event, c, text)
      /\ buffer' = [buffer EXCEPT !["FMT_BUF"] = text]
      /\ UNCHANGED <<tracing, status, made>>
  BY DEF log_formatted_end, Top
<1>2. Last(frames).role \in CallRole /\ Last(frames).role \in EarlyRole
  BY <1>1 DEF CallRole, Role, EarlyRole
<1>3. /\ c \in Call /\ made[c].event = Last(frames).event /\ Last(frames).event # Null
      /\ made[c].text = <<c, c>> /\ buffer["FMT_BUF"] = <<c>>
  BY <1>1, <1>2, TopCall DEF CallSound, TextSound
<1>4. text = <<c, c>> /\ text \in Text /\ Len(text) <= 2
  BY <1>3, Pieces
<1>5. made[c].event # Null /\ append_log_entry(made[c].event, c, made[c].text)
  BY <1>1, <1>3, <1>4
<1> HIDE DEF c, text
<1>6. /\ buffer' \in [Buffer -> Text] /\ \A x \in Buffer : Len(buffer'[x]) <= 2
      /\ \A i \in 1..Len(frames) - 1 : \A x \in Holds(frames[i].role) : buffer'[x] = buffer[x]
  BY <1>1, <1>4, OwnBuffer DEF Holds, Buffer
<1>7. c = Last(frames).call
  BY DEF c
<1> QED BY <1>1, <1>2, <1>5, <1>6, <1>7, Returning

LEMMA RootBegun ==
  ASSUME IInv, NEW c \in Call, root_formatted(c) PROVE IInv'
<1> DEFINE text == <<c, c>>
<1>1. /\ text \in Text /\ New(c, text) /\ Outcome(c, "running") /\ Enter("root arguments", c)
      /\ UNCHANGED <<tracing, buffer, effects, status>>
  BY Pieces DEF root_formatted
<1>2. buffer' \in [Buffer -> Text] /\ \A b \in Buffer : Len(buffer'[b]) <= 2
  BY <1>1 DEF IInv, Types
<1>3. \A i \in 1..Len(frames) : \A b \in Holds(frames[i].role) : buffer'[b] = buffer[b]
  BY <1>1
<1>4. \A i \in 1..Len(frames) : Holds(frames[i].role) \cap Holds("root arguments") = {}
  BY DEF Holds
<1>5. TextSound("root arguments", c)'
  <2>1. made'[c].text = <<c, c>>
    BY <1>1, NewCall
  <2> QED BY <2>1 DEF TextSound
<1>6. "root arguments" \in CallRole /\ "root arguments" \notin EarlyRole
  BY DEF CallRole, Role, EarlyRole
<1> HIDE DEF text
<1> QED BY <1>1, <1>2, <1>3, <1>4, <1>5, <1>6, Entering

\* Arithmetic of the positions around the top.
LEMMA Around ==
  ASSUME NEW k \in Nat \ {0}, NEW n \in Nat, n = k - 1
  PROVE  /\ n + 1 - 1 = n /\ n + 1 = k /\ n + 1 \in 1..k
         /\ (\A i \in 1..k : i # k => i \in 1..k - 1)
         /\ (\A i \in 1..n + 1 : i \in 1..n \/ i = n + 1)
  OBVIOUS

\* The top of the stack is exchanged for another frame.
LEMMA TopReplaced ==
  ASSUME frames \in Seq(Frame), NEW n \in Nat, n + 1 = Len(frames), NEW f \in Frame,
         frames' = [frames EXCEPT ![n + 1] = f]
  PROVE  /\ frames' \in Seq(Frame) /\ Len(frames') = n + 1 /\ frames'[n + 1] = f
         /\ \A i \in 1..n : frames'[i] = frames[i]
  OBVIOUS

\* The second branch of append_log_entry_fmt.
Renders ==
  /\ frames' = [frames EXCEPT ![Len(frames)].role = "root"]
  /\ buffer' = cleared("LOG_FMT_BUF", <<Last(frames).call>>)
  /\ UNCHANGED <<tracing, effects, status, fate, made>>

LEMMA RendersAsOne ==
  ASSUME Renders
  PROVE  /\ frames' = [frames EXCEPT ![Len(frames)] =
                         [frames[Len(frames)] EXCEPT !.role = "root"]]
         /\ buffer' = [buffer EXCEPT !["LOG_FMT_BUF"] = <<Last(frames).call>>]
         /\ UNCHANGED <<tracing, effects, status, fate, made>>
  BY DEF Renders, cleared

\* A top frame whose call does not look its event up early is sound.
LEMMA SoundNext ==
  ASSUME NEW n \in Nat, NEW k, k = n + 1, NEW c \in Call, NEW role \in CallRole,
         frames'[k].role = role, frames'[k].call = c, fate'[c] = "running",
         \A j \in 1..n : frames'[j].role \in CallRole => frames'[j].call # c,
         made'[c].event = CurrentIn(n)', role \notin EarlyRole,
         (\E j \in 1..n : frames'[j].role \in RenderingRole) => made'[c].rendering,
         TextSound(role, c)',
         \A j \in 1..n : Holds(frames'[j].role) \cap Holds(role) = {}
  PROVE  Sound(k)'
<1>1. k - 1 = n
  OBVIOUS
<1>2. TextSound(frames[k].role, frames[k].call)'
  BY DEF TextSound
<1>3. LET d == frames'[k].call IN
      /\ d \in Call /\ fate'[d] = "running"
      /\ \A j \in 1..k - 1 : frames'[j].role \in CallRole => frames'[j].call # d
      /\ made'[d].event = CurrentIn(k - 1)'
      /\ frames'[k].role \in EarlyRole =>
           frames'[k].event = made'[d].event /\ frames'[k].event # Null
  BY <1>1
<1>4. (\E j \in 1..k - 1 : frames'[j].role \in RenderingRole)
           => made'[frames'[k].call].rendering
  BY <1>1, Zenon
<1>5. CallSound(k)'
  BY <1>2, <1>3, <1>4 DEF CallSound
<1>6. frames'[k].role \in CallRole /\ frames'[k].role # "guard"
  BY DEF CallRole
<1>7. \A j \in 1..k - 1 : Holds(frames'[j].role) \cap Holds(frames'[k].role) = {}
  BY <1>1
<1> QED BY <1>5, <1>6, <1>7 DEF Sound

\* The arguments of a crate-root macro are evaluated: the frame begins to
\* render, and holds LOG_FMT_BUF.
LEMMA RenderingBegun ==
  ASSUME IInv, Top("root arguments"), ~Borrowed("LOG_FMT_BUF"),
         Renders
  PROVE  IInv'
<1>0. PICK c : c = Last(frames).call
  OBVIOUS
<1> DEFINE piece == <<c>>
<1>14. UNCHANGED <<tracing, effects, status, fate, made>>
  BY RendersAsOne
<1>1. /\ Types /\ frames \in Seq(Frame) /\ frames # <<>> /\ Len(frames) \in Nat \ {0}
      /\ Last(frames) = frames[Len(frames)] /\ Last(frames).role = "root arguments"
  BY FrameTypes, Popped DEF IInv, Top
<1>2. Last(frames).role \in CallRole
  BY <1>1 DEF CallRole, Role
<1>3. c \in Call /\ CallSound(Len(frames)) /\ Last(frames) \in Frame
  BY <1>0, <1>1, <1>2, TopCall
<1>4. PICK n \in Nat : /\ n = Len(frames) - 1 /\ Len(frames) = n + 1 /\ n \in 0..Len(frames)
                       /\ \A i \in 1..n : i \in 1..Len(frames)
  BY <1>1, OneLess, Zenon
<1>13. /\ n + 1 - 1 = n /\ n + 1 = Len(frames) /\ n + 1 \in 1..Len(frames)
       /\ \A i \in 1..n + 1 : i \in 1..n \/ i = n + 1
  BY <1>1, <1>4, Around, Zenon
<1> DEFINE f == [Last(frames) EXCEPT !.role = "root"]
<1>5. f \in Frame /\ f.role = "root" /\ f.call = c
  BY <1>0, <1>3 DEF Frame, Role
<1>6. /\ frames' \in Seq(Frame) /\ Len(frames') = n + 1
      /\ frames'[n + 1] = f /\ \A i \in 1..n : frames'[i] = frames[i]
  <2>1. frames' = [frames EXCEPT ![n + 1] = f]
    BY <1>1, <1>13, RendersAsOne, Zenon
  <2> HIDE DEF f
  <2> HIDE DEF f
  <2>2. n \in Nat /\ frames \in Seq(Frame) /\ n + 1 = Len(frames) /\ f \in Frame
    BY <1>1, <1>5, <1>13
  <2>3. PICK g \in Frame : g = f
    BY <2>2
  <2>4. frames' = [frames EXCEPT ![n + 1] = g]
    BY <2>1, <2>3
  <2>5. /\ frames' \in Seq(Frame) /\ Len(frames') = n + 1 /\ frames'[n + 1] = g
        /\ \A i \in 1..n : frames'[i] = frames[i]
    <3>1. frames \in Seq(Frame) /\ n \in Nat /\ n + 1 = Len(frames) /\ g \in Frame
      BY <2>2
    <3> QED BY <2>4, <3>1, TopReplaced, Zenon
  <2> QED BY <2>3, <2>5, Zenon
<1>7. /\ buffer' \in [Buffer -> Text] /\ \A x \in Buffer : Len(buffer'[x]) <= 2
      /\ buffer'["LOG_FMT_BUF"] = piece
      /\ \A x \in Buffer \ {"LOG_FMT_BUF"} : buffer'[x] = buffer[x]
  <2>1. piece \in Text /\ Len(piece) <= 2
    BY <1>3, Pieces
  <2>2. buffer' = [buffer EXCEPT !["LOG_FMT_BUF"] = piece]
    BY <1>0, RendersAsOne
  <2> HIDE DEF piece
  <2> QED BY <1>1, <2>1, <2>2, Overwritten DEF Buffer
<1>8. \A i \in 1..n : "LOG_FMT_BUF" \notin Holds(frames[i].role)
  BY <1>4, NotHeld
<1>9. \A i \in 1..n : Sound(i)'
  <2>1. \A i \in 1..n : \A b \in Holds(frames[i].role) : buffer'[b] = buffer[b]
    BY <1>7, <1>8, HoldsBuffers
  <2>2. Untouched(n)
    BY <1>6, <1>14, <2>1 DEF Untouched
  <2>3. \A i \in 1..n : Sound(i)
    BY <1>4 DEF IInv
  <2> QED BY <1>1, <1>4, <2>2, <2>3, Kept
<1>10. Sound(n + 1)'
  <2>1. CurrentIn(n)' = CurrentIn(n)
    BY <1>6, CurrentSame
  <2>2. n + 1 - 1 = n /\ Len(frames) - 1 = n
    BY <1>4, <1>13, Zenon
  <2>3. /\ fate[c] = "running" /\ made[c].event = CurrentIn(n)
        /\ \A j \in 1..n : frames[j].role \in CallRole => frames[j].call # c
    BY <1>0, <1>1, <1>3, <2>2 DEF CallSound
  <2>4. (\E j \in 1..n : frames[j].role \in RenderingRole) => made[c].rendering
    BY <1>0, <1>1, <1>3, <2>2 DEF CallSound
  <2>5. made[c].text = <<c, c>>
    BY <1>0, <1>1, <1>3 DEF CallSound, TextSound
  <2>6. TextSound("root", c)'
    BY <1>7, <1>14, <2>5 DEF TextSound
  <2>7. (\E j \in 1..n : frames'[j].role \in RenderingRole) => made'[c].rendering
    BY <1>6, <1>14, <2>4
  <2>8. frames'[n + 1].role = "root" /\ frames'[n + 1].call = c
    BY <1>5, <1>6
  <2> HIDE DEF f
  <2>9. /\ c \in Call /\ fate'[c] = "running" /\ made'[c].event = CurrentIn(n)'
        /\ \A j \in 1..n : frames'[j].role \in CallRole => frames'[j].call # c
    BY <1>3, <1>6, <1>14, <2>1, <2>3
  <2>10. "root" \notin EarlyRole /\ "root" \in CallRole
    BY DEF EarlyRole, CallRole, Role
  <2>11. \A j \in 1..n : Holds(frames'[j].role) \cap Holds("root") = {}
    BY <1>6, <1>8 DEF Holds
  <2> QED BY <2>6, <2>7, <2>8, <2>9, <2>10, <2>11, SoundNext, Zenon
<1>11. \A i \in 1..Len(frames') : Sound(i)'
  BY <1>6, <1>9, <1>10, <1>13, Zenon
<1>12. /\ Len(frames') <= MaxDepth
       /\ status' \in [Event -> {"unborn", "open", "emitted", "lost"}]
  <2>1. Len(frames) <= MaxDepth
    BY <1>1 DEF Types
  <2> QED BY <1>1, <1>4, <1>6, <1>14, <2>1 DEF Types
<1> QED BY <1>6, <1>7, <1>11, <1>12, <1>14, Quiet

LEMMA FmtSkipped ==
  ASSUME IInv, Top("root arguments"), Borrowed("LOG_FMT_BUF"), Return("skipped"),
         UNCHANGED <<tracing, buffer, effects, status, made>>
  PROVE  IInv'
<1> DEFINE c == Last(frames).call
<1>1. /\ Types /\ frames # <<>> /\ Len(frames) \in Nat \ {0}
      /\ Last(frames) = frames[Len(frames)] /\ Last(frames).role = "root arguments"
  BY FrameTypes, Popped DEF IInv, Top
<1>2. Last(frames).role \in CallRole
  BY <1>1 DEF CallRole, Role
<1>3. CallSound(Len(frames))
  BY <1>1, <1>2, TopCall
<1>4. PICK i \in 1..Len(frames) : "LOG_FMT_BUF" \in Holds(frames[i].role)
  BY DEF Borrowed
<1>5. frames[i].role = "root"
  BY <1>4 DEF Holds
<1>6. i \in 1..Len(frames) - 1
  <2>1. i # Len(frames)
    BY <1>1, <1>5
  <2>2. \E n \in Nat : n = Len(frames) - 1
    BY <1>1, OneLess, Zenon
  <2> QED BY <1>1, <2>1, <2>2, Around, Zenon
<1>7. made[c].rendering
  <2>1. \E j \in 1..Len(frames) - 1 : frames[j].role \in RenderingRole
    BY <1>5, <1>6 DEF RenderingRole
  <2>2. (\E j \in 1..Len(frames) - 1 : frames[j].role \in RenderingRole)
           => made[frames[Len(frames)].call].rendering
    BY <1>3, Zenon DEF CallSound
  <2> QED BY <1>1, <2>1, <2>2, Zenon
<1>8. buffer' \in [Buffer -> Text] /\ \A b \in Buffer : Len(buffer'[b]) <= 2
  BY <1>1 DEF Types
<1>9. \A j \in 1..Len(frames) - 1 : \A b \in Holds(frames[j].role) : buffer'[b] = buffer[b]
  OBVIOUS
<1>10. c = Last(frames).call
  OBVIOUS
<1> HIDE DEF c
<1> QED BY <1>1, <1>2, <1>7, <1>8, <1>9, <1>10, Returning

LEMMA FmtBegun ==
  ASSUME IInv, append_log_entry_fmt PROVE IInv'
  BY FmtSkipped, RenderingBegun DEF append_log_entry_fmt, Renders

LEMMA RootEnded ==
  ASSUME IInv, root_formatted_end PROVE IInv'
<1> DEFINE c == Last(frames).call
           text == Append(buffer["LOG_FMT_BUF"], c)
<1>1. /\ frames # <<>> /\ Last(frames).role = "root"
      /\ buffer' = [buffer EXCEPT !["LOG_FMT_BUF"] = text]
      /\ UNCHANGED <<tracing, status, made>>
      /\ \/ current = Null /\ Return("no event") /\ UNCHANGED effects
         \/ current # Null /\ Return("added") /\ append_log_entry(current, c, text)
  BY DEF root_formatted_end, Top
<1>2. Last(frames).role \in CallRole
  BY <1>1 DEF CallRole, Role
<1>3. /\ c \in Call /\ made[c].text = <<c, c>> /\ buffer["LOG_FMT_BUF"] = <<c>>
      /\ made[c].event = CurrentIn(Len(frames) - 1)
      /\ Len(frames) \in Nat \ {0} /\ frames[Len(frames)].role = "root"
  BY <1>1, <1>2, TopCall DEF CallSound, TextSound
<1>4. text = <<c, c>> /\ text \in Text /\ Len(text) <= 2
  BY <1>3, Pieces
\* The event is looked up late, but its guard is still the innermost.
<1>5. made[c].event = current
  <2>1. {j \in 1..Len(frames) : frames[j].role = "guard"}
          = {j \in 1..Len(frames) - 1 : frames[j].role = "guard"}
    BY <1>3
  <2>2. CurrentIn(Len(frames)) = CurrentIn(Len(frames) - 1)
    BY <2>1 DEF CurrentIn
  <2> QED BY <1>3, <2>2, CurrentIs DEF IInv
<1>6. \/ made[c].event = Null /\ Return("no event") /\ UNCHANGED effects
      \/ /\ made[c].event # Null /\ Return("added")
         /\ append_log_entry(made[c].event, c, made[c].text)
  BY <1>1, <1>3, <1>4, <1>5
<1>7. c = Last(frames).call
  OBVIOUS
<1> HIDE DEF c, text
<1>8. /\ buffer' \in [Buffer -> Text] /\ \A x \in Buffer : Len(buffer'[x]) <= 2
      /\ \A i \in 1..Len(frames) - 1 : \A x \in Holds(frames[i].role) : buffer'[x] = buffer[x]
  BY <1>1, <1>4, OwnBuffer DEF Holds, Buffer
<1>9. CASE made[c].event = Null /\ Return("no event") /\ UNCHANGED effects
  BY <1>1, <1>2, <1>7, <1>8, <1>9, Returning
<1>10. CASE /\ made[c].event # Null /\ Return("added")
            /\ append_log_entry(made[c].event, c, made[c].text)
  BY <1>1, <1>2, <1>7, <1>8, <1>10, Returning
<1> QED BY <1>6, <1>9, <1>10

\* What a record adds: its message, its fields, both or nothing.
LEMMA Parts ==
  ASSUME NEW c \in Call, NEW has \in SUBSET {"message", "fields"},
         NEW message, message = (IF "message" \in has THEN <<c>> ELSE <<>>),
         NEW others, others = (IF "fields" \in has THEN <<c>> ELSE <<>>)
  PROVE  /\ message \in Text /\ Len(message) <= 2 /\ others \in Text /\ Len(others) <= 2
         /\ message \o others \in Text
         /\ has # {} => message \o others \in {<<c>>, <<c, c>>}
<1>1. message \in Text /\ Len(message) <= 2 /\ others \in Text /\ Len(others) <= 2
  BY Pieces
<1>2. message \o others \in Text
  BY <1>1 DEF Text
<1>3. ASSUME has # {} PROVE message \o others \in {<<c>>, <<c, c>>}
  <2>1. CASE "message" \in has /\ "fields" \in has
    BY <2>1, Pieces
  <2>2. CASE "message" \in has /\ "fields" \notin has
    BY <2>2, Pieces
  <2>3. CASE "message" \notin has /\ "fields" \in has
    BY <2>3, Pieces
  <2>4. "message" \in has \/ "fields" \in has
    BY <1>3
  <2> QED BY <2>1, <2>2, <2>3, <2>4
<1> QED BY <1>1, <1>2, <1>3

\* The two buffers of the capture layer are free and overwritten.
LEMMA Recorded ==
  ASSUME IInv, RecordBuffersFree, NEW message \in Text, Len(message) <= 2,
         NEW others \in Text, Len(others) <= 2,
         buffer' = [cleared("FMT_BUF", message) EXCEPT !["FIELDS_BUF"] = others]
  PROVE  /\ buffer' \in [Buffer -> Text] /\ \A b \in Buffer : Len(buffer'[b]) <= 2
         /\ buffer'["FMT_BUF"] = message /\ buffer'["FIELDS_BUF"] = others
         /\ \A i \in 1..Len(frames) : \A b \in Holds(frames[i].role) : buffer'[b] = buffer[b]
         /\ \A i \in 1..Len(frames) : Holds(frames[i].role) \cap Holds("capture") = {}
<1>1. buffer \in [Buffer -> Text] /\ \A b \in Buffer : Len(buffer[b]) <= 2
  BY DEF IInv, Types
<1>2. buffer' = [[buffer EXCEPT !["FMT_BUF"] = message] EXCEPT !["FIELDS_BUF"] = others]
  BY DEF cleared
<1>3. /\ buffer' \in [Buffer -> Text] /\ \A b \in Buffer : Len(buffer'[b]) <= 2
      /\ buffer'["FMT_BUF"] = message /\ buffer'["FIELDS_BUF"] = others
      /\ \A b \in Buffer \ {"FMT_BUF", "FIELDS_BUF"} : buffer'[b] = buffer[b]
  BY <1>1, <1>2 DEF Buffer
<1>4. \A i \in 1..Len(frames) :
        "FMT_BUF" \notin Holds(frames[i].role) /\ "FIELDS_BUF" \notin Holds(frames[i].role)
  BY NotHeld DEF RecordBuffersFree
<1>5. \A i \in 1..Len(frames) : \A b \in Holds(frames[i].role) :
        b \in Buffer \ {"FMT_BUF", "FIELDS_BUF"}
  BY <1>4, HoldsBuffers
<1>6. \A i \in 1..Len(frames) : Holds(frames[i].role) \cap Holds("capture") = {}
  BY <1>4 DEF Holds
<1> QED BY <1>3, <1>5, <1>6

LEMMA RecordBegun ==
  ASSUME IInv, NEW c \in Call, NEW target, NEW level,
         NEW has \in SUBSET {"message", "fields"}, on_event(c, target, level, has)
  PROVE  IInv'
<1>0. PICK message, others :
        /\ message = (IF "message" \in has THEN <<c>> ELSE <<>>)
        /\ others = (IF "fields" \in has THEN <<c>> ELSE <<>>)
  OBVIOUS
<1>1. PICK text : text = message \o others
  OBVIOUS
<1>2. /\ message \in Text /\ Len(message) <= 2 /\ others \in Text /\ Len(others) <= 2
      /\ text \in Text /\ (has # {} => text \in {<<c>>, <<c, c>>})
  BY <1>0, <1>1, Parts
<1>3. /\ New(c, text) /\ UNCHANGED <<tracing, effects, status>>
      /\ \/ Outcome(c, "ignored") /\ UNCHANGED <<frames, buffer>>
         \/ current = Null /\ Outcome(c, "no event") /\ UNCHANGED <<frames, buffer>>
         \/ ~RecordBuffersFree /\ Outcome(c, "skipped") /\ UNCHANGED <<frames, buffer>>
         \/ /\ current # Null /\ RecordBuffersFree
            /\ buffer' = [cleared("FMT_BUF", message) EXCEPT !["FIELDS_BUF"] = others]
            /\ \/ Outcome(c, "ignored") /\ UNCHANGED frames
               \/ has # {} /\ Outcome(c, "running") /\ Enter("capture", c)
  BY <1>0, <1>1 DEF on_event
<1>4. buffer \in [Buffer -> Text] /\ \A b \in Buffer : Len(buffer[b]) <= 2
  BY DEF IInv, Types
<1>5. ASSUME NEW how \in {"no event", "skipped", "ignored"}, Outcome(c, how),
             UNCHANGED <<frames, buffer>>, how = "no event" => current = Null,
             how = "skipped" => Rendering
      PROVE  IInv'
  <2>1. \A i \in 1..Len(frames) : \A b \in Holds(frames[i].role) : buffer'[b] = buffer[b]
    BY <1>5
  <2>2. buffer' \in [Buffer -> Text] /\ \A b \in Buffer : Len(buffer'[b]) <= 2
    BY <1>4, <1>5
  <2> QED BY <1>2, <1>3, <1>5, <2>1, <2>2, Instant
<1>6. ~RecordBuffersFree => Rendering
  BY RenderingBelow DEF RecordBuffersFree
<1>7. ASSUME current # Null, RecordBuffersFree,
             buffer' = [cleared("FMT_BUF", message) EXCEPT !["FIELDS_BUF"] = others],
             \/ Outcome(c, "ignored") /\ UNCHANGED frames
             \/ has # {} /\ Outcome(c, "running") /\ Enter("capture", c)
      PROVE  IInv'
  <2>1. /\ buffer' \in [Buffer -> Text] /\ \A b \in Buffer : Len(buffer'[b]) <= 2
        /\ buffer'["FMT_BUF"] = message /\ buffer'["FIELDS_BUF"] = others
        /\ \A i \in 1..Len(frames) : \A b \in Holds(frames[i].role) : buffer'[b] = buffer[b]
        /\ \A i \in 1..Len(frames) : Holds(frames[i].role) \cap Holds("capture") = {}
    BY <1>2, <1>7, Recorded
  <2>2. CASE Outcome(c, "ignored") /\ UNCHANGED frames
    BY <1>2, <1>3, <2>1, <2>2, Instant
  <2>3. CASE has # {} /\ Outcome(c, "running") /\ Enter("capture", c)
    <3>1. TextSound("capture", c)'
      <4>1. made'[c].text = text
        BY <1>2, <1>3, NewCall
      <4> QED BY <1>1, <1>2, <2>1, <2>3, <4>1 DEF TextSound
    <3>2. "capture" \in CallRole
      BY DEF CallRole, Role
    <3> QED BY <1>2, <1>3, <1>7, <2>1, <2>3, <3>1, <3>2, Entering
  <2> QED BY <1>7, <2>2, <2>3
<1> QED BY <1>3, <1>5, <1>6, <1>7

LEMMA RecordEnded ==
  ASSUME IInv, on_event_end PROVE IInv'
<1> DEFINE c == Last(frames).call
           text == buffer["FMT_BUF"] \o buffer["FIELDS_BUF"]
<1>1. /\ frames # <<>> /\ Last(frames).role = "capture" /\ Return("added")
      /\ append_log_entry(Last(frames).event, c, text)
      /\ buffer' = [buffer EXCEPT !["FMT_BUF"] = text]
      /\ UNCHANGED <<tracing, status, made>>
  BY DEF on_event_end, Top
<1>2. Last(frames).role \in CallRole /\ Last(frames).role \in EarlyRole
  BY <1>1 DEF CallRole, Role, EarlyRole
<1>3. /\ c \in Call /\ made[c].event = Last(frames).event /\ Last(frames).event # Null
      /\ made[c].text \in {<<c>>, <<c, c>>} /\ made[c].text = text
  BY <1>1, <1>2, TopCall DEF CallSound, TextSound
<1>4. text \in Text /\ Len(text) <= 2
  BY <1>3, Pieces
<1>5. made[c].event # Null /\ append_log_entry(made[c].event, c, made[c].text)
  BY <1>1, <1>3
<1>7. c = Last(frames).call
  OBVIOUS
<1> HIDE DEF c, text
<1>6. /\ buffer' \in [Buffer -> Text] /\ \A x \in Buffer : Len(buffer'[x]) <= 2
      /\ \A i \in 1..Len(frames) - 1 : \A x \in Holds(frames[i].role) : buffer'[x] = buffer[x]
  BY <1>1, <1>4, OwnBuffer DEF Holds, Buffer
<1> QED BY <1>1, <1>2, <1>5, <1>6, <1>7, Returning

LEMMA EmissionBegun ==
  ASSUME IInv, default_emit PROVE IInv'
<1>1. /\ Top("guard") /\ frames # <<>> /\ Last(frames).role = "guard"
      /\ UNCHANGED <<tracing, buffer, effects, made>>
  BY DEF default_emit, Top
<1>2. Borrowed("EMIT_BUF") => Unwind(Front(frames), {}, {Last(frames).event})
  BY DEF default_emit
<1> QED BY <1>1, <1>2, Emitted, EmissionPanics
-------------------------------------------------------------------------------
LEMMA NextInv == IInv /\ [Next]_vars => IInv'
<1> SUFFICES ASSUME IInv, [Next]_vars PROVE IInv'
  OBVIOUS
<1>1. ASSUME NEW c \in Call,
             log_literal(c) \/ wl_inc(c) \/ wl_set(c) \/ log_formatted(c) \/ root_formatted(c)
      PROVE  IInv'
  BY <1>1, AddedDirectly, SetBegun, FormattedBegun, RootBegun DEF log_literal, wl_inc
<1>2. ASSUME NEW c \in Call, NEW target, NEW level, NEW has \in SUBSET {"message", "fields"},
             on_event(c, target, level, has)
      PROVE  IInv'
  BY <1>2, RecordBegun
<1>3. CASE \/ wl_set_end \/ log_formatted_end \/ append_log_entry_fmt \/ root_formatted_end
           \/ on_event_end \/ default_emit \/ default_emit_end
  BY <1>3, SetEnded, FormattedEnded, FmtBegun, RootEnded, RecordEnded, EmissionBegun,
     EmissionOver
<1>4. ASSUME NEW e \in Event, guard_build(e) PROVE IInv'
  BY <1>4, GuardBuilt
<1>5. CASE UNCHANGED vars
  <2>1. UNCHANGED <<tracing, frames, buffer, effects, status, fate, made>>
    BY <1>5 DEF vars
  <2>2. Types /\ Len(frames) \in Nat /\ \A i \in 1..Len(frames) : Sound(i)
    BY FrameTypes DEF IInv
  <2>3. Untouched(Len(frames))
    BY <2>1 DEF Untouched
  <2>4. \A i \in 1..Len(frames) : Sound(i)'
    BY <2>2, <2>3, Kept
  <2>5. /\ frames' \in Seq(Frame) /\ Len(frames') <= MaxDepth
        /\ buffer' \in [Buffer -> Text] /\ \A b \in Buffer : Len(buffer'[b]) <= 2
        /\ status' \in [Event -> {"unborn", "open", "emitted", "lost"}]
    BY <2>1, <2>2 DEF Types
  <2>6. /\ \A i \in 1..Len(frames') : Sound(i)'
        /\ \A e \in Event : status[e] = "lost" => status'[e] = "lost"
    BY <2>1, <2>4
  <2> QED BY <2>1, <2>5, <2>6, Quiet
<1> QED BY <1>1, <1>2, <1>3, <1>4, <1>5 DEF Next
-------------------------------------------------------------------------------
LEMMA Invariance == Spec => []IInv
  BY InitInv, NextInv, PTL DEF Spec

\* For every number of events and calls and every depth of the stack, the
\* buffers hold one message at most and each call ends in one of the known ways.
THEOREM TypeCorrect == Spec => []TypeOK
<1>1. IInv => TypeOK
  BY TypesTypeOK DEF IInv
<1> QED BY <1>1, Invariance, PTL

\* Whatever arguments, Display implementations and layers do inside of a call,
\* and wherever a panic is caught: a call that completes has added its own whole
\* text once, to the event that was current when it was made, and the others
\* have added nothing.
THEOREM CallsAreAccounted == Spec => []CallsAccounted
<1>1. IInv => CallsAccounted
  BY DEF IInv
<1> QED BY <1>1, Invariance, PTL

\* A call is skipped only when it was made while a message was being rendered,
\* and every panic of a macro begins at such a call or at an emission inside of
\* another one.
THEOREM OnlyReentrantCallsFail == Spec => []BestEffort
<1>1. IInv => BestEffort
  BY DEF IInv
<1> QED BY <1>1, Invariance, PTL

\* The default emission never finds its own line in the event that is current
\* again: every entry is that of a call.
THEOREM NothingRecaptured == Spec => []NoRecapture
<1>1. IInv => NoRecapture
  <2> SUFFICES ASSUME IInv, NEW e \in Event, NEW i \in 1..Len(effects[e])
               PROVE  effects[e][i].call \in Call
    BY DEF NoRecapture
  <2>1. effects[e] \in Seq(LogEntry)
    BY DEF IInv, Types
  <2>2. effects[e][i] \in LogEntry
    BY <2>1
  <2> QED BY <2>2 DEF LogEntry
<1> QED BY <1>1, Invariance, PTL
-------------------------------------------------------------------------------
(* Every step is one of the abstract specification, or a stutter of it.    *)

opened == {e \in Event : status[e] = "open"}
ended == {e \in Event : status[e] \in {"emitted", "lost"}}
EntryStep == [Entries!Next]_<<effects, opened, ended>>

LEMMA EntryInit == Init => Entries!Init
  BY DEF Init, Entries!Init

\* An entry of a call whose entry has not been added yet, to an open event.
LEMMA Logged ==
  ASSUME IInv, NEW e \in Event, status[e] = "open", NEW c \in Call, fate[c] # "added",
         NEW text, text \in {<<c>>, <<c, c>>}, append_log_entry(e, c, text), UNCHANGED status
  PROVE  EntryStep
<1> DEFINE m == [call |-> c, text |-> text]
<1>1. m \in WholeMessages
  <2>1. m \in [call : {c}, text : {<<c>>, <<c, c>>}]
    OBVIOUS
  <2> QED BY <2>1 DEF WholeMessages
<1>2. Unlogged(c)
  BY DEF IInv, CallsAccounted
<1>3. effects' = [effects EXCEPT ![e] = Append(@, m)]
  BY DEF append_log_entry
<1>4. ~Entries!IsLogged(m)
  <2>1. m.call = c
    OBVIOUS
  <2> HIDE DEF m
  <2> QED BY <1>2, <2>1 DEF Entries!IsLogged, CallOf, Unlogged
<1>5. e \in opened /\ opened' = opened /\ ended' = ended
  BY DEF opened, ended
<1> HIDE DEF m
<1>6. Entries!Add(e, m)
  BY <1>3, <1>4, <1>5 DEF Entries!Add, opened, ended
<1> QED BY <1>1, <1>6 DEF Entries!Next, EntryStep

LEMMA NothingLogged ==
  ASSUME UNCHANGED <<effects, status>>
  PROVE  EntryStep
  BY DEF EntryStep, opened, ended

\* Events end, and none is taken back.
LEMMA Ended ==
  ASSUME UNCHANGED effects, Types,
         \A e \in Event : \/ status'[e] = status[e]
                          \/ status[e] = "open" /\ status'[e] \in {"emitted", "lost"}
  PROVE  EntryStep
<1> DEFINE S == {e \in Event : status'[e] # status[e]}
<1>1. S \subseteq opened /\ opened' = opened \ S /\ ended' = ended \cup S /\ S \in SUBSET Event
  BY DEF opened, ended
<1>2. CASE S = {}
  BY <1>1, <1>2 DEF EntryStep
<1>3. CASE S # {}
  <2> HIDE DEF S
  <2>1. \E T \in SUBSET Event : /\ T # {} /\ T \subseteq opened
                                /\ opened' = opened \ T /\ ended' = ended \cup T
                                /\ UNCHANGED effects
    BY <1>1, <1>3
  <2>2. Entries!Next
    BY <2>1 DEF Entries!Next, Entries!End, opened, ended
  <2> QED BY <2>2, Zenon DEF EntryStep
<1> QED BY <1>2, <1>3

LEMMA UnwindingEnds ==
  ASSUME IInv, NEW n \in 0..Len(frames), NEW stack \in Seq(Frame), Len(stack) = n,
         \A i \in 1..n : stack[i] = frames[i],
         NEW call, NEW lost, \A e \in lost : status[e] = "open",
         Unwind(stack, call, lost), UNCHANGED effects
  PROVE  EntryStep
<1>0. PICK d \in 0..Len(stack) :
        LET gone == d + 1..Len(stack)
            guards == {i \in gone : stack[i].role = "guard"}
            calls == {stack[i].call : i \in gone \ guards} \cup call
        IN  status' = [e \in Event |->
                         IF e \in lost THEN "lost"
                         ELSE IF \E i \in guards : stack[i].event = e THEN "emitted"
                         ELSE status[e]]
  BY Zenon DEF Unwind
<1>1. /\ d \in 0..n
      /\ status' = [e \in Event |->
                      IF e \in lost THEN "lost"
                      ELSE IF \E i \in {j \in d + 1..n : stack[j].role = "guard"} :
                                stack[i].event = e THEN "emitted"
                      ELSE status[e]]
  BY <1>0, Zenon
<1>2. \A i \in d + 1..n : i \in 1..Len(frames) /\ stack[i] = frames[i]
  BY FrameTypes DEF IInv
<1>3. \A i \in d + 1..n : stack[i].role = "guard" => status[stack[i].event] = "open"
  BY <1>2, AboveCut
<1>4. \A e \in Event : \/ status'[e] = status[e]
                       \/ status[e] = "open" /\ status'[e] \in {"emitted", "lost"}
  BY <1>1, <1>3
<1>5. Types
  BY DEF IInv
<1> QED BY <1>4, <1>5, Ended

\* The calls that look the event up when they are made: at their end it is
\* still open, for its guard is below them.
LEMMA EarlyEvent ==
  ASSUME IInv, frames # <<>>, Last(frames).role \in EarlyRole
  PROVE  /\ Last(frames).event \in Event /\ status[Last(frames).event] = "open"
         /\ Last(frames).call \in Call /\ fate[Last(frames).call] # "added"
         /\ TextSound(Last(frames).role, Last(frames).call)
<1>1. Last(frames).role \in CallRole
  BY DEF EarlyRole, CallRole, Role
<1>2. /\ Len(frames) \in Nat \ {0} /\ Last(frames) = frames[Len(frames)]
      /\ CallSound(Len(frames)) /\ \A i \in 1..Len(frames) : Sound(i)
  BY <1>1, TopCall DEF IInv
<1>3. PICK n \in Nat : n = Len(frames) - 1 /\ (\A i \in 1..n : i \in 1..Len(frames))
  BY <1>2, OneLess, Zenon
<1>4. Last(frames).event = CurrentIn(n) /\ CurrentIn(n) # Null
  BY <1>2, <1>3 DEF CallSound
<1>5. CurrentIn(n) \in Event /\ status[CurrentIn(n)] = "open"
  BY <1>2, <1>3, <1>4, CurrentOpen
<1>6. /\ Last(frames).call \in Call /\ fate[Last(frames).call] # "added"
      /\ TextSound(Last(frames).role, Last(frames).call)
  BY <1>2 DEF CallSound
<1> QED BY <1>4, <1>5, <1>6

LEMMA DirectStep ==
  ASSUME IInv, NEW c \in Call, add_directly(c) PROVE EntryStep
<1>1. New(c, <<c>>) /\ UNCHANGED status
  BY DEF add_directly
<1>2. fate[c] # "added"
  BY <1>1 DEF New
<1>3. CASE UNCHANGED effects
  BY <1>1, <1>3, NothingLogged
<1>4. CASE current # Null /\ append_log_entry(current, c, <<c>>)
  <2>1. current \in Event /\ status[current] = "open"
    BY <1>4, CurrentType
  <2> DEFINE text == <<c>>
  <2>2. text \in {<<c>>, <<c, c>>} /\ append_log_entry(current, c, text)
    BY <1>4
  <2> HIDE DEF text
  <2> QED BY <1>1, <1>2, <2>1, <2>2, Logged
<1> QED BY <1>3, <1>4 DEF add_directly

LEMMA EarlyStep ==
  ASSUME IInv, wl_set_end \/ log_formatted_end \/ on_event_end PROVE EntryStep
<1> DEFINE f == Last(frames)
<1>1. PICK text :
        /\ append_log_entry(f.event, f.call, text) /\ UNCHANGED status
        /\ Top("wl_set") \/ Top("generated") \/ Top("capture")
        /\ Top("wl_set") => text = <<f.call>>
        /\ Top("generated") => text = Append(buffer["FMT_BUF"], f.call)
        /\ Top("capture") => text = buffer["FMT_BUF"] \o buffer["FIELDS_BUF"]
  <2>1. CASE wl_set_end
    BY <2>1 DEF wl_set_end, Top
  <2>2. CASE log_formatted_end
    BY <2>2 DEF log_formatted_end, Top
  <2>3. CASE on_event_end
    BY <2>3 DEF on_event_end, Top
  <2> QED BY <2>1, <2>2, <2>3
<1>2. frames # <<>> /\ f.role \in EarlyRole /\ f.role \in {"wl_set", "generated", "capture"}
  BY <1>1 DEF Top, EarlyRole
<1>3. /\ f.event \in Event /\ status[f.event] = "open" /\ f.call \in Call
      /\ fate[f.call] # "added" /\ TextSound(f.role, f.call)
  BY <1>2, EarlyEvent
<1>4. text \in {<<f.call>>, <<f.call, f.call>>}
  <2>1. CASE f.role = "wl_set"
    BY <1>1, <1>2, <2>1 DEF Top
  <2>2. CASE f.role = "generated"
    <3>1. buffer["FMT_BUF"] = <<f.call>>
      BY <1>3, <2>2 DEF TextSound
    <3> QED BY <1>1, <1>2, <1>3, <2>2, <3>1, Pieces DEF Top
  <2>3. CASE f.role = "capture"
    BY <1>1, <1>2, <1>3, <2>3 DEF Top, TextSound
  <2> QED BY <1>2, <2>1, <2>2, <2>3
<1> HIDE DEF f
<1> QED BY <1>1, <1>3, <1>4, Logged

LEMMA RootStep ==
  ASSUME IInv, root_formatted_end PROVE EntryStep
<1> DEFINE c == Last(frames).call
           text == Append(buffer["LOG_FMT_BUF"], c)
<1>1. /\ frames # <<>> /\ Last(frames).role = "root" /\ UNCHANGED status
      /\ \/ UNCHANGED effects
         \/ current # Null /\ append_log_entry(current, c, text)
  BY DEF root_formatted_end, Top
<1>2. Last(frames).role \in CallRole
  BY <1>1 DEF CallRole, Role
<1>3. c \in Call /\ fate[c] # "added" /\ buffer["LOG_FMT_BUF"] = <<c>>
  BY <1>1, <1>2, TopCall DEF CallSound, TextSound
<1>4. text \in {<<c>>, <<c, c>>}
  BY <1>3, Pieces
<1>5. current # Null => current \in Event /\ status[current] = "open"
  BY CurrentType
<1> HIDE DEF c, text
<1> QED BY <1>1, <1>3, <1>4, <1>5, Logged, NothingLogged

LEMMA GuardStep ==
  ASSUME IInv, NEW e \in Event, guard_build(e) PROVE EntryStep
<1>1. /\ status[e] = "unborn" /\ status' = [status EXCEPT ![e] = "open"] /\ UNCHANGED effects
      /\ status \in [Event -> {"unborn", "open", "emitted", "lost"}]
  BY DEF guard_build, IInv, Types
<1>2. e \notin opened \cup ended /\ opened' = opened \cup {e} /\ ended' = ended
  BY <1>1 DEF opened, ended
<1>3. Entries!Begin(e)
  BY <1>1, <1>2 DEF Entries!Begin, opened, ended
<1> QED BY <1>3 DEF Entries!Next, EntryStep

LEMMA EmitStep ==
  ASSUME IInv, default_emit PROVE EntryStep
<1> DEFINE e == Last(frames).event
<1>1. frames # <<>> /\ Last(frames).role = "guard" /\ UNCHANGED effects
  BY DEF default_emit, Top
<1>2. /\ frames \in Seq(Frame) /\ Len(frames) \in Nat \ {0}
      /\ e \in Event /\ status[e] = "open" /\ Types
  BY <1>1, TopGuard, FrameTypes DEF IInv
<1>3. CASE status' = [status EXCEPT ![e] = "emitted"]
  <2>1. \A x \in Event : \/ status'[x] = status[x]
                         \/ status[x] = "open" /\ status'[x] \in {"emitted", "lost"}
    BY <1>2, <1>3 DEF Types
  <2> QED BY <1>1, <1>2, <2>1, Ended
<1>4. CASE Unwind(Front(frames), {}, {e})
  <2>1. PICK n \in Nat : n = Len(frames) - 1 /\ n \in 0..Len(frames)
    BY <1>2, OneLess, Zenon
  <2>2. /\ Front(frames) \in Seq(Frame) /\ Len(Front(frames)) = n
        /\ \A i \in 1..n : Front(frames)[i] = frames[i]
    BY <1>1, <1>2, <2>1, Popped
  <2> DEFINE lost == {e}
             call == {}
  <2>3. (\A x \in lost : status[x] = "open") /\ Unwind(Front(frames), call, lost)
    BY <1>2, <1>4
  <2> HIDE DEF lost, call
  <2> QED BY <1>1, <2>1, <2>2, <2>3, UnwindingEnds
<1> QED BY <1>3, <1>4 DEF default_emit

LEMMA FormattedStep ==
  ASSUME IInv, NEW c \in Call, log_formatted(c) PROVE EntryStep
<1>1. UNCHANGED effects /\ (UNCHANGED status \/ Unwind(frames, {c}, {}))
  BY DEF log_formatted
<1>2. frames \in Seq(Frame) /\ Len(frames) \in 0..Len(frames)
  BY FrameTypes DEF IInv
<1> DEFINE lost == {}
           call == {c}
<1>3. \A x \in lost : status[x] = "open"
  OBVIOUS
<1>4. UNCHANGED status \/ Unwind(frames, call, lost)
  BY <1>1
<1>5. \A i \in 1..Len(frames) : frames[i] = frames[i]
  OBVIOUS
<1> HIDE DEF lost, call
<1> QED BY <1>1, <1>2, <1>3, <1>4, <1>5, UnwindingEnds, NothingLogged

LEMMA NextSimulates == IInv /\ [Next]_vars => EntryStep
<1> SUFFICES ASSUME IInv, [Next]_vars PROVE EntryStep
  OBVIOUS
<1>1. ASSUME NEW c \in Call, log_literal(c) \/ wl_inc(c) \/ log_formatted(c)
      PROVE  EntryStep
  BY <1>1, DirectStep, FormattedStep DEF log_literal, wl_inc
<1>2. ASSUME NEW c \in Call, NEW target, NEW level, NEW has,
             wl_set(c) \/ root_formatted(c) \/ on_event(c, target, level, has)
      PROVE  EntryStep
  <2>1. UNCHANGED <<effects, status>>
    BY <1>2 DEF wl_set, root_formatted, on_event
  <2> QED BY <2>1, NothingLogged
<1>3. CASE append_log_entry_fmt \/ default_emit_end \/ UNCHANGED vars
  <2>1. UNCHANGED <<effects, status>>
    <3>1. default_emit_end => UNCHANGED <<effects, status>>
      BY EmissionOver
    <3>2. append_log_entry_fmt => UNCHANGED <<effects, status>>
      BY DEF append_log_entry_fmt
    <3> QED BY <1>3, <3>1, <3>2 DEF vars
  <2> QED BY <2>1, NothingLogged
<1>4. CASE \/ wl_set_end \/ log_formatted_end \/ root_formatted_end
           \/ on_event_end \/ default_emit
  BY <1>4, EarlyStep, RootStep, EmitStep
<1>5. ASSUME NEW e \in Event, guard_build(e) PROVE EntryStep
  BY <1>5, GuardStep
<1> QED BY <1>1, <1>2, <1>3, <1>4, <1>5 DEF Next

\* The macros, the capture layer and the buffers together are an event that takes
\* whole messages one at a time, each once, and only while it is open.
THEOREM EntryLogImplemented == Spec => ImplementsEntryLog
<1>1. IInv /\ [Next]_vars => [Entries!Next]_(Entries!vars)
  BY NextSimulates DEF EntryStep, Entries!vars, opened, ended
<1> QED BY <1>1, EntryInit, Invariance, PTL DEF Spec, ImplementsEntryLog, Entries!Spec
===============================================================================
