--------------------------- MODULE ScopeContextProofs ---------------------------
(***************************************************************************)
(* What holds of the current event and of the hook stacks for every number *)
(* of threads, guards, scopes and schema crates, however they are nested,  *)
(* when a program keeps its guards as locals (Discipline = "lexical").     *)
(*                                                                         *)
(* Every step then changes only the end of what one thread is inside of.   *)
(* The invariant says of each entry how it agrees with the entries below,  *)
(* so most of it survives a step because nothing below moves.              *)
(***************************************************************************)
EXTENDS ScopeContext, SequenceLemmas, FiniteSetTheorems
-------------------------------------------------------------------------------
(* The last entry of a kind among the first k of a sequence.               *)

\* e is the event of the last of s[1..k] that is in M, Null if none is.
IsTop(s, k, M, e) ==
  \/ e = Null /\ \A i \in 1..k : s[i] \notin M
  \/ \E i \in 1..k : /\ s[i] \in M /\ s[i].event = e
                     /\ \A j \in i + 1..k : s[j] \notin M

GuardsOf(sc) == {n \in Entry : n.role = "guard" /\ SchemaOf[n.event] = sc}
Polls        == {n \in Entry : n.role = "poll"}

LEMMA EntryTypes ==
  ASSUME NEW n \in Entry
  PROVE  /\ n.role \in {"guard", "poll", "emit", "call"}
         /\ n.event \in Event /\ n.event # Null /\ SchemaOf[n.event] \in Schema
         /\ n = Is(n.role, n.event)
  BY ContextAssumption DEF Entry, Event, Is

LEMMA EntryOf ==
  ASSUME NEW e \in Event, NEW r \in {"guard", "poll", "emit", "call"}
  PROVE  Is(r, e) \in Entry /\ Is(r, e).role = r /\ Is(r, e).event = e
  BY DEF Entry, Is

\* It depends on the first k entries only, ...
LEMMA TopLocal ==
  ASSUME NEW s, NEW r, NEW k \in Nat, \A i \in 1..k : s[i] = r[i],
         NEW M, NEW e, IsTop(s, k, M, e)
  PROVE  IsTop(r, k, M, e)
<1>1. CASE e = Null /\ \A i \in 1..k : s[i] \notin M
  BY <1>1 DEF IsTop
<1>2. ASSUME NEW i \in 1..k, s[i] \in M, s[i].event = e,
             \A j \in i + 1..k : s[j] \notin M
      PROVE  IsTop(r, k, M, e)
  <2>1. \A j \in i + 1..k : r[j] \notin M
    BY <1>2
  <2>2. r[i] \in M /\ r[i].event = e
    BY <1>2
  <2> QED BY <2>1, <2>2 DEF IsTop
<1> QED BY <1>1, <1>2 DEF IsTop

\* ... and on the last of them alone if that is in M.
LEMMA TopHit ==
  ASSUME NEW s, NEW k \in Nat, NEW M, s[k + 1] \in M
  PROVE  IsTop(s, k + 1, M, s[k + 1].event)
<1>1. k + 1 \in 1..k + 1 /\ \A j \in (k + 1) + 1..k + 1 : s[j] \notin M
  OBVIOUS
<1> QED BY <1>1 DEF IsTop

LEMMA TopMiss ==
  ASSUME NEW s, NEW k \in Nat, NEW M, NEW e, s[k + 1] \notin M
  PROVE  IsTop(s, k + 1, M, e) <=> IsTop(s, k, M, e)
<1>1. ASSUME IsTop(s, k, M, e) PROVE IsTop(s, k + 1, M, e)
  <2>1. CASE e = Null /\ \A i \in 1..k : s[i] \notin M
    BY <2>1 DEF IsTop
  <2>2. ASSUME NEW i \in 1..k, s[i] \in M, s[i].event = e,
               \A j \in i + 1..k : s[j] \notin M
        PROVE  IsTop(s, k + 1, M, e)
    <3>1. i \in 1..k + 1 /\ \A j \in i + 1..k + 1 : s[j] \notin M
      BY <2>2
    <3> QED BY <2>2, <3>1 DEF IsTop
  <2> QED BY <1>1, <2>1, <2>2 DEF IsTop
<1>2. ASSUME IsTop(s, k + 1, M, e) PROVE IsTop(s, k, M, e)
  <2>1. CASE e = Null /\ \A i \in 1..k + 1 : s[i] \notin M
    BY <2>1 DEF IsTop
  <2>2. ASSUME NEW i \in 1..k + 1, s[i] \in M, s[i].event = e,
               \A j \in i + 1..k + 1 : s[j] \notin M
        PROVE  IsTop(s, k, M, e)
    <3>1. i \in 1..k /\ \A j \in i + 1..k : s[j] \notin M
      BY <2>2
    <3> QED BY <2>2, <3>1 DEF IsTop
  <2> QED BY <1>2, <2>1, <2>2 DEF IsTop
<1> QED BY <1>1, <1>2

LEMMA TopOfNothing ==
  ASSUME NEW s, NEW M, NEW e
  PROVE  IsTop(s, 0, M, e) <=> e = Null
  BY DEF IsTop

\* There is one such event.
LEMMA TopUnique ==
  ASSUME NEW s \in Seq(Entry), NEW k \in 0..Len(s), NEW M, NEW e, NEW f,
         IsTop(s, k, M, e), IsTop(s, k, M, f)
  PROVE  e = f
<1>1. \A i \in 1..k : s[i].event # Null
  BY EntryTypes
<1>2. CASE e = Null
  BY <1>1, <1>2 DEF IsTop
<1>3. CASE f = Null
  BY <1>1, <1>3 DEF IsTop
<1>4. CASE e # Null /\ f # Null
  <2>1. PICK i \in 1..k : s[i] \in M /\ s[i].event = e /\ \A j \in i + 1..k : s[j] \notin M
    BY <1>4 DEF IsTop
  <2>2. PICK h \in 1..k : s[h] \in M /\ s[h].event = f /\ \A j \in h + 1..k : s[j] \notin M
    BY <1>4 DEF IsTop
  <2>3. i = h
    BY <2>1, <2>2
  <2> QED BY <2>1, <2>2, <2>3
<1> QED BY <1>2, <1>3, <1>4

\* SelectLastInSeq finds it.
LEMMA TopSelected ==
  ASSUME NEW s \in Seq(Entry), NEW k \in 0..Len(s), NEW M, NEW I,
         I = {i \in 1..k : s[i] \in M}
  PROVE  IsTop(s, k, M, IF I # {} THEN s[Max(I)].event ELSE Null)
<1>1. CASE I = {}
  BY <1>1 DEF IsTop
<1>2. CASE I # {}
  <2>1. Max(I) \in I /\ \A y \in I : y <= Max(I)
    <3>1. k \in Nat /\ I \in SUBSET (1..k)
      OBVIOUS
    <3> QED BY <1>2, <3>1, MaxOf
  <2>2. \A j \in Max(I) + 1..k : s[j] \notin M
    BY <2>1
  <2> QED BY <1>2, <2>1, <2>2 DEF IsTop
<1> QED BY <1>1, <1>2
-------------------------------------------------------------------------------
(* How many hooks the first k entries put on the stack in use.             *)

LEMMA DepthOfNothing ==
  ASSUME NEW s PROVE Depth(s, 0) = 0
<1>1. Hooked(s, 0) = {}
  BY DEF Hooked
<1> QED BY <1>1, FS_EmptySet DEF Depth

LEMMA HookedFinite ==
  ASSUME NEW s, NEW k \in Nat
  PROVE  IsFiniteSet(Hooked(s, k)) /\ Depth(s, k) \in Nat
<1>1. IsFiniteSet(1..k)
  BY FS_Interval
<1>2. Hooked(s, k) \in SUBSET (1..k)
  BY DEF Hooked
<1>3. IsFiniteSet(Hooked(s, k))
  BY <1>1, <1>2, FS_Subset
<1> QED BY <1>3, FS_CardinalityType DEF Depth

LEMMA DepthLocal ==
  ASSUME NEW s, NEW r, NEW k \in Nat, \A i \in 1..k : s[i] = r[i]
  PROVE  Depth(s, k) = Depth(r, k)
<1>1. Hooked(s, k) = Hooked(r, k)
  BY DEF Hooked
<1> QED BY <1>1 DEF Depth

LEMMA DepthStep ==
  ASSUME NEW s, NEW k \in Nat
  PROVE  /\ s[k + 1].role = "guard" => Depth(s, k + 1) = Depth(s, k) + 1
         /\ s[k + 1].role = "poll" => Depth(s, k + 1) = 1
         /\ s[k + 1].role \notin {"guard", "poll"} => Depth(s, k + 1) = Depth(s, k)
<1>0. k + 1 \notin Hooked(s, k)
  BY DEF Hooked
<1>1. ASSUME s[k + 1].role = "guard" PROVE Depth(s, k + 1) = Depth(s, k) + 1
  <2>1. Hooked(s, k + 1) = Hooked(s, k) \cup {k + 1}
    BY <1>1 DEF Hooked
  <2> QED BY <1>0, <2>1, HookedFinite, FS_AddElement DEF Depth
<1>2. ASSUME s[k + 1].role = "poll" PROVE Depth(s, k + 1) = 1
  <2>1. Hooked(s, k + 1) = {} \cup {k + 1}
    BY <1>2 DEF Hooked
  <2> QED BY <2>1, FS_EmptySet, FS_AddElement DEF Depth
<1>3. ASSUME s[k + 1].role \notin {"guard", "poll"} PROVE Depth(s, k + 1) = Depth(s, k)
  <2>1. Hooked(s, k + 1) = Hooked(s, k)
    BY <1>3 DEF Hooked
  <2> QED BY <2>1 DEF Depth
<1> QED BY <1>1, <1>2, <1>3

\* Without a poll in between it only grows.
LEMMA DepthGrows ==
  ASSUME NEW s, NEW k \in Nat, NEW m \in Nat, k <= m,
         \A i \in k + 1..m : s[i].role # "poll"
  PROVE  Depth(s, k) <= Depth(s, m)
<1>1. Hooked(s, k) \in SUBSET Hooked(s, m)
  BY DEF Hooked
<1> QED BY <1>1, HookedFinite, FS_Subset DEF Depth
-------------------------------------------------------------------------------
(* What a step does to a nest.                                             *)

Lexical == Discipline = "lexical"

\* Of what th is inside of, the first m entries stay, and there are k now.
Changes(th, m, k) ==
  /\ nest' \in [Thread -> Seq(Entry)]
  /\ m \in 0..Len(nest[th]) /\ k \in {m, m + 1} /\ Len(nest'[th]) = k
  /\ \A i \in 1..m : nest'[th][i] = nest[th][i]
  /\ \A u \in Thread \ {th} : nest'[u] = nest[u]

\* All m entries stay.
Whole(th, m) == m = Len(nest[th])

LEMMA NestTypes ==
  ASSUME TypeOK, NEW th \in Thread
  PROVE  /\ nest \in [Thread -> Seq(Entry)] /\ nest[th] \in Seq(Entry)
         /\ Len(nest[th]) \in Nat
         /\ \A i \in 1..Len(nest[th]) : nest[th][i] \in Entry
  BY DEF TypeOK

LEMMA PushChanges ==
  ASSUME TypeOK, NEW th \in Thread, NEW n \in Entry, NEW m, Whole(th, m),
         nest' = [nest EXCEPT ![th] = Append(@, n)]
  PROVE  Changes(th, m, m + 1) /\ nest'[th][m + 1] = n
<1> USE DEF Whole
<1>1. nest'[th] = Append(nest[th], n) /\ \A u \in Thread \ {th} : nest'[u] = nest[u]
  BY NestTypes
<1>2. /\ Append(nest[th], n) \in Seq(Entry) /\ Len(Append(nest[th], n)) = m + 1
      /\ Append(nest[th], n)[m + 1] = n
      /\ \A i \in 1..m : Append(nest[th], n)[i] = nest[th][i]
  BY NestTypes, Pushed
<1>3. nest' \in [Thread -> Seq(Entry)]
  BY <1>2, NestTypes
<1> QED BY <1>1, <1>2, <1>3, NestTypes DEF Changes

LEMMA RemoveLast ==
  ASSUME NEW S, NEW s \in Seq(S), s # <<>>
  PROVE  RemoveAt(s, Len(s)) = Front(s)
<1>1. Len(s) \in Nat \ {0}
  OBVIOUS
<1>2. SubSeq(s, Len(s) + 1, Len(s)) = <<>>
  BY <1>1
<1>3. Front(s) \in Seq(S)
  BY Popped
<1> QED BY <1>2, <1>3, ConcatEmptySeq DEF RemoveAt, Front

LEMMA PopChanges ==
  ASSUME TypeOK, NEW th \in Thread, NEW m \in Nat, m + 1 = Len(nest[th]),
         nest' = [nest EXCEPT ![th] = RemoveAt(@, m + 1)]
  PROVE  Changes(th, m, m)
<1>0. nest[th] # <<>> /\ nest[th] \in Seq(Entry)
  BY NestTypes
<1>1. nest'[th] = Front(nest[th]) /\ \A u \in Thread \ {th} : nest'[u] = nest[u]
  BY <1>0, NestTypes, RemoveLast
<1>2. /\ Front(nest[th]) \in Seq(Entry) /\ Len(Front(nest[th])) = m
      /\ \A i \in 1..m : Front(nest[th])[i] = nest[th][i]
  BY <1>0, Popped
<1>3. nest' \in [Thread -> Seq(Entry)]
  BY <1>0, <1>2, NestTypes, RemoveLast
<1> QED BY <1>1, <1>2, <1>3, NestTypes DEF Changes

LEMMA SwapChanges ==
  ASSUME TypeOK, NEW th \in Thread, NEW m \in Nat, m + 1 = Len(nest[th]),
         NEW n \in Entry,
         nest' = [nest EXCEPT ![th] = Append(RemoveAt(@, m + 1), n)]
  PROVE  Changes(th, m, m + 1) /\ nest'[th][m + 1] = n
<1> DEFINE below == Front(nest[th])
<1>0. nest[th] # <<>> /\ nest[th] \in Seq(Entry)
  BY NestTypes
<1>1. nest'[th] = Append(below, n) /\ \A u \in Thread \ {th} : nest'[u] = nest[u]
  BY <1>0, NestTypes, RemoveLast
<1>2. /\ below \in Seq(Entry) /\ Len(below) = m
      /\ \A i \in 1..m : below[i] = nest[th][i]
  BY <1>0, Popped
<1> HIDE DEF below
<1>3. /\ Append(below, n) \in Seq(Entry) /\ Len(Append(below, n)) = m + 1
      /\ Append(below, n)[m + 1] = n
      /\ \A i \in 1..m : Append(below, n)[i] = below[i]
  BY <1>2, Pushed
<1>4. nest' \in [Thread -> Seq(Entry)]
  BY <1>0, <1>1, <1>3, NestTypes
<1> QED BY <1>1, <1>2, <1>3, <1>4, NestTypes DEF Changes

\* A lexical call that returns, and a lexical guard that is dropped, is the
\* innermost thing.
LEMMA LexicalReturn ==
  ASSUME Lexical, TypeOK, NEW th \in Thread, NEW role, MayReturn(th, role)
  PROVE  \E m \in Nat : /\ m + 1 = Len(nest[th]) /\ InnermostCall(th) = m + 1
                        /\ nest[th][m + 1].role = role /\ nest[th][m + 1] \in Entry
<1>1. /\ InnermostCall(th) = Len(nest[th]) /\ Len(nest[th]) # 0
      /\ nest[th][Len(nest[th])].role = role
  BY DEF MayReturn, Lexical
<1>2. Len(nest[th]) \in Nat
  BY NestTypes
<1>3. Len(nest[th]) - 1 \in Nat /\ Len(nest[th]) - 1 + 1 = Len(nest[th])
  BY <1>1, <1>2
<1>4. nest[th][Len(nest[th])] \in Entry
  BY <1>1, <1>2, NestTypes
<1> QED BY <1>1, <1>3, <1>4

LEMMA LexicalDrop ==
  ASSUME Lexical, TypeOK, NEW th \in Thread, NEW g \in Guards, MayDrop(th, g)
  PROVE  \E m \in Nat : /\ m + 1 = Len(nest[th]) /\ At(th, Is("guard", g)) = m + 1
                        /\ nest[th][m + 1] = Is("guard", g)
<1>1. nest[th] # <<>> /\ Last(nest[th]) = Is("guard", g)
  BY DEF MayDrop, Lexical
<1>2. nest[th] \in Seq(Entry)
  BY NestTypes
<1>3. Len(nest[th]) \in Nat \ {0} /\ nest[th][Len(nest[th])] = Is("guard", g)
  BY <1>1, <1>2, Popped
<1>4. PICK m \in Nat : m + 1 = Len(nest[th])
  <2>1. Len(nest[th]) - 1 \in Nat
    BY <1>3
  <2>2. Len(nest[th]) - 1 + 1 = Len(nest[th])
    BY <1>3
  <2> QED BY <2>1, <2>2
<1>5. At(th, Is("guard", g)) = m + 1
  <2> DEFINE I == {i \in 1..Len(nest[th]) : nest[th][i] = Is("guard", g)}
  <2>1. m + 1 \in I /\ I \in SUBSET (1..m + 1) /\ m + 1 \in Nat
    BY <1>3, <1>4
  <2>2. At(th, Is("guard", g)) = IF I # {} THEN Max(I) ELSE 0
    BY DEF At, SelectLastInSeq
  <2> HIDE DEF I
  <2>3. Max(I) \in I /\ \A y \in I : y <= Max(I)
    BY <2>1, MaxOf
  <2>4. Max(I) \in 1..m + 1 /\ m + 1 <= Max(I)
    BY <2>1, <2>3
  <2>5. Max(I) = m + 1
    BY <2>4
  <2> QED BY <2>1, <2>2, <2>5
<1> QED BY <1>3, <1>4, <1>5
-------------------------------------------------------------------------------
(* The invariant: each entry agrees with the state of its event, ...       *)

Fits(n, st) ==
  /\ n.role = "guard" => n.event \in Guards /\ st[n.event] = "live"
  /\ n.role = "poll" => n.event \in Scopes /\ st[n.event] = "live"
  /\ n.role = "emit" => st[n.event] = "emitting"
  /\ n.role = "call" => n.event \in Scopes /\ st[n.event] = "calling"

Roles == \A th \in Thread : \A i \in 1..Len(nest[th]) : Fits(nest[th][i], state)

\* ... no event is in two places, ...
Once ==
  \A th, u \in Thread : \A i \in 1..Len(nest[th]), j \in 1..Len(nest[u]) :
    nest[th][i].event = nest[u][j].event => th = u /\ i = j

\* ... a guard has saved the innermost guard below it, ...
Previous ==
  \A th \in Thread : \A i \in 1..Len(nest[th]) :
    LET n == nest[th][i] IN
    n.role = "guard" => IsTop(nest[th], i - 1, GuardsOf(SchemaOf[n.event]), prev[n.event])

\* ... and the cell holds the innermost of all.
Cells ==
  \A th \in Thread, sc \in Schema :
    IsTop(nest[th], Len(nest[th]), GuardsOf(sc), CURRENT_EVENT[th][sc])

\* The entries that a step leaves where they are do not name this event.
Apart(th, m, e) ==
  \A u \in Thread : \A i \in 1..Len(nest[u]) :
    (u = th => i <= m) => nest[u][i].event # e

\* Popping the last entry, its event is in no other.
LEMMA ApartFromTop ==
  ASSUME TypeOK, Once, NEW th \in Thread, NEW m \in Nat, m + 1 = Len(nest[th])
  PROVE  Apart(th, m, nest[th][m + 1].event)
<1> SUFFICES ASSUME NEW u \in Thread, NEW i \in 1..Len(nest[u]), u = th => i <= m,
                    nest[u][i].event = nest[th][m + 1].event
             PROVE  FALSE
  BY DEF Apart
<1>1. m + 1 \in 1..Len(nest[th])
  OBVIOUS
<1>2. u = th /\ i = m + 1
  BY <1>1 DEF Once
<1> QED BY <1>2

\* An event outside of its life is nowhere.
LEMMA ApartUnborn ==
  ASSUME TypeOK, Roles, NEW th \in Thread, NEW e \in Event,
         state[e] \in {"unborn", "future", "freed"}
  PROVE  Apart(th, Len(nest[th]), e)
<1> SUFFICES ASSUME NEW u \in Thread, NEW i \in 1..Len(nest[u]), nest[u][i].event = e
             PROVE  FALSE
  BY DEF Apart
<1>1. nest[u][i] \in Entry /\ Fits(nest[u][i], state)
  BY NestTypes DEF Roles
<1> QED BY <1>1, EntryTypes DEF Fits

\* Nor is a scope that waits for its next poll.
LEMMA ApartPending ==
  ASSUME TypeOK, Roles, NEW th \in Thread, NEW s \in Scopes, MayPoll(s)
  PROVE  Apart(th, Len(nest[th]), s)
<1>1. s \in Event
  BY DEF Event
<1>2. CASE state[s] = "live"
  <2> SUFFICES ASSUME NEW u \in Thread, NEW i \in 1..Len(nest[u]), nest[u][i].event = s
               PROVE  FALSE
    BY DEF Apart
  <2>1. nest[u][i] \in Entry /\ Fits(nest[u][i], state)
    BY NestTypes DEF Roles
  <2>2. nest[u][i].role = "poll"
    BY <1>2, <2>1, EntryTypes, ContextAssumption DEF Fits
  <2>3. nest[u][i] = Is("poll", s)
    BY <2>1, <2>2, EntryTypes
  <2> QED BY <2>3 DEF MayPoll, BeingPolled, Contains
<1>3. CASE state[s] \in {"unborn", "future"}
  BY <1>1, <1>3, ApartUnborn
<1> QED BY <1>2, <1>3 DEF MayPoll

\* Where an entry of the new nest comes from.
LEMMA OldOrNew ==
  ASSUME TypeOK, NEW th \in Thread, NEW m, NEW k, Changes(th, m, k),
         NEW u \in Thread, NEW i \in 1..Len(nest'[u])
  PROVE  \/ /\ i \in 1..Len(nest[u]) /\ (u = th => i <= m)
            /\ nest'[u][i] = nest[u][i]
         \/ u = th /\ k = m + 1 /\ i = k
  BY NestTypes DEF Changes

\* A step changes the state of one event, which it takes from the end of a
\* nest or from nowhere, and leaves it at the end of the nest or nowhere.
LEMMA RolesStep ==
  ASSUME TypeOK, Roles, Once, NEW th \in Thread, NEW m, NEW k, Changes(th, m, k),
         NEW e, Apart(th, m, e), \A f \in Event \ {e} : state'[f] = state[f],
         k = m + 1 => nest'[th][k].event = e /\ Fits(nest'[th][k], state')
  PROVE  Roles' /\ Once'
<1>1. ASSUME NEW u \in Thread, NEW i \in 1..Len(nest'[u])
      PROVE  Fits(nest'[u][i], state')
  <2>1. CASE /\ i \in 1..Len(nest[u]) /\ (u = th => i <= m)
             /\ nest'[u][i] = nest[u][i]
    <3>1. nest[u][i].event # e
      BY <2>1 DEF Apart
    <3>2. nest[u][i] \in Entry /\ Fits(nest[u][i], state)
      BY <2>1, NestTypes DEF Roles
    <3>3. state'[nest[u][i].event] = state[nest[u][i].event]
      BY <3>1, <3>2, EntryTypes
    <3> QED BY <2>1, <3>2, <3>3 DEF Fits
  <2>2. CASE u = th /\ k = m + 1 /\ i = k
    BY <2>2
  <2> QED BY <2>1, <2>2, OldOrNew
<1>2. ASSUME NEW u \in Thread, NEW v \in Thread,
             NEW i \in 1..Len(nest'[u]), NEW j \in 1..Len(nest'[v]),
             nest'[u][i].event = nest'[v][j].event
      PROVE  u = v /\ i = j
  <2>1. \/ /\ i \in 1..Len(nest[u]) /\ (u = th => i <= m)
           /\ nest'[u][i] = nest[u][i]
        \/ u = th /\ k = m + 1 /\ i = k
    BY OldOrNew
  <2>2. \/ /\ j \in 1..Len(nest[v]) /\ (v = th => j <= m)
           /\ nest'[v][j] = nest[v][j]
        \/ v = th /\ k = m + 1 /\ j = k
    BY OldOrNew
  <2> QED BY <1>2, <2>1, <2>2 DEF Once, Apart
<1> QED BY <1>1, <1>2 DEF Roles, Once

\* What the guards that stay have saved is still right.
LEMMA PreviousStep ==
  ASSUME TypeOK, Previous, NEW th \in Thread, NEW m, NEW k, Changes(th, m, k),
         NEW e, Apart(th, m, e), \A g \in Guards \ {e} : prev'[g] = prev[g], Roles,
         k = m + 1 /\ nest'[th][k].role = "guard" =>
           IsTop(nest[th], m, GuardsOf(SchemaOf[nest'[th][k].event]),
                 prev'[nest'[th][k].event])
  PROVE  Previous'
<1> SUFFICES ASSUME NEW u \in Thread, NEW i \in 1..Len(nest'[u]),
                    nest'[u][i].role = "guard"
             PROVE  IsTop(nest'[u], i - 1, GuardsOf(SchemaOf[nest'[u][i].event]),
                          prev'[nest'[u][i].event])
  BY DEF Previous
<1>0. PICK h \in Nat : h = i - 1
  BY DEF Changes
<1>1. CASE /\ i \in 1..Len(nest[u]) /\ (u = th => i <= m)
           /\ nest'[u][i] = nest[u][i]
  <2>1. nest[u][i].event \in Guards \ {e}
    BY <1>1 DEF Apart, Roles, Fits
  <2>2. prev'[nest[u][i].event] = prev[nest[u][i].event]
    BY <2>1
  <2>3. IsTop(nest[u], h, GuardsOf(SchemaOf[nest[u][i].event]), prev[nest[u][i].event])
    BY <1>0, <1>1 DEF Previous
  <2>4. \A j \in 1..h : nest[u][j] = nest'[u][j]
    BY <1>0, <1>1, NestTypes DEF Changes
  <2>5. IsTop(nest'[u], h, GuardsOf(SchemaOf[nest[u][i].event]), prev[nest[u][i].event])
    BY <1>0, <2>3, <2>4, TopLocal
  <2>6. IsTop(nest'[u], h, GuardsOf(SchemaOf[nest'[u][i].event]), prev'[nest'[u][i].event])
    BY <1>1, <2>2, <2>5
  <2> QED BY <1>0, <2>6
<1>2. CASE u = th /\ k = m + 1 /\ i = k
  <2>0. PICK M, p : M = GuardsOf(SchemaOf[nest'[u][i].event]) /\ p = prev'[nest'[u][i].event]
    OBVIOUS
  <2>1. IsTop(nest[th], m, M, p)
    BY <1>2, <2>0
  <2>2. m \in Nat /\ h = m /\ \A j \in 1..m : nest[th][j] = nest'[th][j]
    BY <1>0, <1>2 DEF Changes
  <2>3. IsTop(nest'[th], m, M, p)
    BY <2>1, <2>2, TopLocal
  <2> QED BY <1>0, <1>2, <2>0, <2>2, <2>3
<1> QED BY <1>1, <1>2, OldOrNew

\* The cells follow the nest.
LEMMA CellsStep ==
  ASSUME TypeOK, Cells, NEW th \in Thread, NEW m, NEW k, Changes(th, m, k),
         \A u \in Thread \ {th} : CURRENT_EVENT'[u] = CURRENT_EVENT[u],
         \A sc \in Schema :
           IF k = m + 1 /\ nest'[th][k] \in GuardsOf(sc)
           THEN CURRENT_EVENT'[th][sc] = nest'[th][k].event
           ELSE IsTop(nest[th], m, GuardsOf(sc), CURRENT_EVENT'[th][sc])
  PROVE  Cells'
<1> SUFFICES ASSUME NEW u \in Thread, NEW sc \in Schema
             PROVE  IsTop(nest'[u], Len(nest'[u]), GuardsOf(sc), CURRENT_EVENT'[u][sc])
  BY DEF Cells
<1>1. CASE u # th
  BY <1>1 DEF Cells, Changes
<1>2. CASE u = th
  <2>1. m \in Nat /\ Len(nest'[th]) = k /\ \A i \in 1..m : nest[th][i] = nest'[th][i]
    BY NestTypes DEF Changes
  <2>2. CASE k = m + 1 /\ nest'[th][k] \in GuardsOf(sc)
    BY <1>2, <2>1, <2>2, TopHit
  <2>3. CASE ~(k = m + 1 /\ nest'[th][k] \in GuardsOf(sc))
    <3>1. IsTop(nest[th], m, GuardsOf(sc), CURRENT_EVENT'[th][sc])
      BY <2>3
    <3>2. IsTop(nest'[th], m, GuardsOf(sc), CURRENT_EVENT'[th][sc])
      BY <2>1, <3>1, TopLocal
    <3>3. CASE k = m
      BY <1>2, <2>1, <3>2, <3>3
    <3>4. CASE k = m + 1
      BY <1>2, <2>1, <2>3, <3>2, <3>4, TopMiss
    <3> QED BY <3>3, <3>4 DEF Changes
  <2> QED BY <2>2, <2>3
<1> QED BY <1>1, <1>2
-------------------------------------------------------------------------------
(* The hook stacks.  HooksMirrorNesting is taken apart by the event that   *)
(* owns the stack, which is what tells a stack that a step changes from    *)
(* those it does not.                                                      *)

Owner == Scopes \cup {Null}
Stack(th, e) == IF e = Null THEN LOG_HOOKS[th] ELSE TASK_LOG_HOOKS[e]

HasHook(th, k, e) ==
  k > 0 /\ nest[th][k].role \in {"guard", "poll"} =>
    /\ Depth(nest[th], k) \in 1..Len(Stack(th, e))
    /\ Stack(th, e)[Depth(nest[th], k)] = SchemaOf[nest[th][k].event]

NothingElse(th, k, e) ==
  k = Len(nest[th]) \/ nest[th][k + 1].role = "poll" =>
    Len(Stack(th, e)) = Depth(nest[th], k)

Mirror ==
  \A th \in Thread : \A k \in 0..Len(nest[th]), e \in Owner :
    IsTop(nest[th], k, Polls, e) => HasHook(th, k, e) /\ NothingElse(th, k, e)

Suspended ==
  \A s \in Scopes : state[s] = "live" /\ ~BeingPolled(s) =>
                      TASK_LOG_HOOKS[s] = <<SchemaOf[s]>>

\* Between two places with the same owner nothing is polled.
LEMMA SameOwner ==
  ASSUME TypeOK, Once, NEW th \in Thread, NEW m \in 0..Len(nest[th]),
         NEW k \in 0..m, NEW e,
         IsTop(nest[th], k, Polls, e), IsTop(nest[th], m, Polls, e)
  PROVE  \A i \in k + 1..m : nest[th][i].role # "poll"
<1> SUFFICES ASSUME NEW i \in k + 1..m, nest[th][i].role = "poll" PROVE FALSE
  OBVIOUS
<1>0. \A j \in 1..m : j \in 1..Len(nest[th]) /\ nest[th][j] \in Entry
  BY NestTypes
<1>1. i \in 1..m /\ nest[th][i] \in Polls
  BY <1>0 DEF Polls
<1>2. PICK j \in 1..m : /\ nest[th][j] \in Polls /\ nest[th][j].event = e
                        /\ \A h \in j + 1..m : nest[th][h] \notin Polls
  BY <1>1 DEF IsTop
<1>3. j > k
  BY <1>1, <1>2
<1>4. e # Null
  BY <1>0, <1>2, EntryTypes
<1>5. PICK h \in 1..k : nest[th][h].event = e
  BY <1>4 DEF IsTop
<1>6. h = j
  BY <1>0, <1>2, <1>5 DEF Once
<1> QED BY <1>3, <1>6

\* Two threads do not share an owner.
LEMMA OtherOwner ==
  ASSUME TypeOK, Once, NEW th \in Thread, NEW u \in Thread \ {th},
         NEW k \in 0..Len(nest[th]), NEW m \in 0..Len(nest[u]), NEW e, e # Null,
         IsTop(nest[th], k, Polls, e)
  PROVE  ~IsTop(nest[u], m, Polls, e)
<1> SUFFICES ASSUME IsTop(nest[u], m, Polls, e) PROVE FALSE
  OBVIOUS
<1>1. PICK i \in 1..k : nest[th][i].event = e
  BY DEF IsTop
<1>2. PICK j \in 1..m : nest[u][j].event = e
  BY DEF IsTop
<1>3. i \in 1..Len(nest[th]) /\ j \in 1..Len(nest[u])
  BY NestTypes
<1> QED BY <1>1, <1>2, <1>3 DEF Once

\* Every place has an owner.
LEMMA OwnerOf ==
  ASSUME TypeOK, Roles, NEW th \in Thread, NEW k \in 0..Len(nest[th])
  PROVE  \E e \in Owner : /\ IsTop(nest[th], k, Polls, e)
                          /\ HookStack(th, k) = Stack(th, e)
<1> DEFINE I == {i \in 1..k : nest[th][i].role = "poll"}
           e == IF I # {} THEN nest[th][Max(I)].event ELSE Null
<1>1. \A i \in 1..k : i \in 1..Len(nest[th]) /\ nest[th][i] \in Entry
  BY NestTypes
<1>2. I = {i \in 1..k : nest[th][i] \in Polls}
  BY <1>1 DEF Polls
<1>3. IsTop(nest[th], k, Polls, e)
  <2>1. nest[th] \in Seq(Entry)
    BY NestTypes
  <2> HIDE DEF I
  <2> QED BY <1>2, <2>1, TopSelected
<1>4. e \in Owner /\ HookStack(th, k) = Stack(th, e)
  <2>0. HookStack(th, k) = IF I = {} THEN LOG_HOOKS[th]
                           ELSE TASK_LOG_HOOKS[nest[th][Max(I)].event]
    BY DEF HookStack
  <2>1. CASE I = {}
    BY <2>0, <2>1 DEF Owner, Stack
  <2>2. CASE I # {}
    <3>1. Max(I) \in I
      <4>1. k \in Nat /\ I \in SUBSET (1..k)
        BY NestTypes
      <4> HIDE DEF I
      <4> QED BY <2>2, <4>1, MaxOf
    <3>2. nest[th][Max(I)] \in Entry /\ nest[th][Max(I)].event \in Scopes
      BY <1>1, <3>1 DEF Roles, Fits
    <3>3. nest[th][Max(I)].event # Null
      BY <3>2, EntryTypes
    <3> QED BY <2>0, <2>2, <3>2, <3>3 DEF Owner, Stack
  <2> QED BY <2>1, <2>2
<1> QED BY <1>3, <1>4

\* The task of a thread owns the stack in use.
LEMMA TaskIsOwner ==
  ASSUME TypeOK, Roles, NEW th \in Thread
  PROVE  Task(th) \in Owner /\ IsTop(nest[th], Len(nest[th]), Polls, Task(th))
<1> DEFINE I == {i \in 1..Len(nest[th]) :
                   nest[th][i].role = "poll" /\ SchemaOf[nest[th][i].event] \in Schema}
<1>1. \A i \in 1..Len(nest[th]) : nest[th][i] \in Entry
  BY NestTypes
<1>2. I = {i \in 1..Len(nest[th]) : nest[th][i] \in Polls}
  BY <1>1, EntryTypes DEF Polls
<1>3. Task(th) = LET i == IF I # {} THEN Max(I) ELSE 0
                 IN  IF i = 0 THEN Null ELSE nest[th][i].event
  BY DEF Task, PolledOf, SelectLastInSeq
<1>4. I # {} => Max(I) \in I /\ Max(I) # 0
  <2>1. Len(nest[th]) \in Nat /\ I \in SUBSET (1..Len(nest[th]))
    BY NestTypes
  <2>2. \A i \in I : i # 0
    OBVIOUS
  <2> HIDE DEF I
  <2> QED BY <2>1, <2>2, MaxOf
<1>5. Task(th) = IF I # {} THEN nest[th][Max(I)].event ELSE Null
  BY <1>3, <1>4
<1>6. IsTop(nest[th], Len(nest[th]), Polls, Task(th))
  <2>1. nest[th] \in Seq(Entry) /\ Len(nest[th]) \in 0..Len(nest[th])
    BY NestTypes
  <2> HIDE DEF I
  <2> QED BY <1>2, <1>5, <2>1, TopSelected
<1>7. Task(th) \in Owner
  <2>1. CASE I = {}
    BY <1>5, <2>1 DEF Owner
  <2>2. CASE I # {}
    BY <1>1, <1>4, <1>5, <2>2 DEF Owner, Roles, Fits
  <2> QED BY <2>1, <2>2
<1> QED BY <1>6, <1>7
\* The stacks of other owners than e, and of other threads, stay.
OnlyStack(th, e) ==
  \A u \in Thread, f \in Owner :
    f # e \/ (f = Null /\ u # th) => Stack(u, f)' = Stack(u, f)

\* Every owner met below the change keeps its stack, but e keeps only the hooks
\* of the entries that stay, and gets one more for a guard that comes.
LEMMA MirrorStep ==
  ASSUME TypeOK, Roles, Once, Mirror,
         NEW th \in Thread, NEW m, NEW k, Changes(th, m, k),
         NEW e \in Owner, IsTop(nest[th], m, Polls, e),
         NEW d \in Nat, d = Depth(nest[th], m),
         \A u \in Thread, f \in Owner : \A h \in 0..Len(nest[u]) :
           (u = th => h <= m) /\ IsTop(nest[u], h, Polls, f) /\ (u # th \/ f # e)
             => Stack(u, f)' = Stack(u, f),
         \A i \in 1..d : Stack(th, e)'[i] = Stack(th, e)[i],
         Len(Stack(th, e)') = IF k = m + 1 /\ nest'[th][k].role = "guard"
                              THEN d + 1 ELSE d,
         k = m + 1 /\ nest'[th][k].role = "guard" =>
           Stack(th, e)'[d + 1] = SchemaOf[nest'[th][k].event],
         k = m + 1 /\ nest'[th][k].role = "poll" =>
           \A f \in Owner : f = nest'[th][k].event =>
             Stack(th, f)' = <<SchemaOf[nest'[th][k].event]>>
  PROVE  Mirror'
<1>0. /\ m \in Nat /\ m \in 0..Len(nest[th]) /\ k \in {m, m + 1}
      /\ Len(nest'[th]) = k
      /\ \A i \in 1..m : nest'[th][i] = nest[th][i]
      /\ \A u \in Thread : nest'[u] \in Seq(Entry)
      /\ \A u \in Thread \ {th} : nest'[u] = nest[u]
  BY NestTypes DEF Changes
<1> SUFFICES ASSUME NEW u \in Thread, NEW h \in 0..Len(nest'[u]), NEW f \in Owner,
                    IsTop(nest'[u], h, Polls, f)
             PROVE  HasHook(u, h, f)' /\ NothingElse(u, h, f)'
  BY DEF Mirror
<1>1. CASE u # th
  <2>1. nest'[u] = nest[u]
    BY <1>0, <1>1
  <2>2. HasHook(u, h, f) /\ NothingElse(u, h, f) /\ Stack(u, f)' = Stack(u, f)
    BY <1>1, <2>1 DEF Mirror
  <2> QED BY <2>1, <2>2 DEF HasHook, NothingElse
<1>2. CASE u = th /\ h <= m
  <2>1. /\ h \in Nat /\ h \in 0..m /\ h \in 0..Len(nest[th])
        /\ \A i \in 1..h : nest'[th][i] = nest[th][i]
    BY <1>0, <1>2
  <2>2. IsTop(nest[th], h, Polls, f)
    BY <1>2, <2>1, TopLocal
  <2>3. Depth(nest'[th], h) = Depth(nest[th], h)
    BY <2>1, DepthLocal
  <2>4. HasHook(th, h, f) /\ NothingElse(th, h, f)
    BY <2>1, <2>2 DEF Mirror
  <2>5. Depth(nest[th], h) \in Nat
    BY <2>1, HookedFinite
  <2>6. h > 0 => nest'[th][h] = nest[th][h]
    BY <2>1
  <2>7. h < m => nest'[th][h + 1] = nest[th][h + 1]
    BY <1>0, <2>1
  <2>8. CASE f # e
    <3>1. h # m
      BY <1>0, <2>2, <2>8, NestTypes, TopUnique
    <3>2. h < m /\ h # k /\ h # Len(nest[th])
      BY <1>0, <2>1, <3>1
    <3>3. Stack(th, f)' = Stack(th, f)
      BY <1>2, <2>1, <2>2, <2>8
    <3> QED BY <1>0, <1>2, <2>3, <2>4, <2>6, <2>7, <3>2, <3>3 DEF HasHook, NothingElse
  <2>9. CASE f = e
    <3>1. \A i \in h + 1..m : nest[th][i].role # "poll"
      BY <1>0, <2>1, <2>2, <2>9, SameOwner
    <3>2. Depth(nest[th], h) <= d
      <4>1. h \in Nat /\ m \in Nat /\ h <= m
        BY <1>0, <1>2
      <4>2. Depth(nest[th], h) <= Depth(nest[th], m)
        BY <3>1, <4>1, DepthGrows
      <4> QED BY <4>2
    <3>3. Len(Stack(th, e)') >= d
      OBVIOUS
    <3>4. HasHook(th, h, f)'
      <4> SUFFICES ASSUME h > 0, nest'[th][h].role \in {"guard", "poll"}
                   PROVE  /\ Depth(nest'[th], h) \in 1..Len(Stack(th, f)')
                          /\ Stack(th, f)'[Depth(nest'[th], h)]
                               = SchemaOf[nest'[th][h].event]
        BY DEF HasHook
      <4>1. PICK c \in Nat : c = Depth(nest[th], h)
        BY <2>5
      <4>2. c >= 1 /\ Stack(th, e)[c] = SchemaOf[nest[th][h].event]
        BY <2>4, <2>6, <2>9, <4>1 DEF HasHook
      <4>3. c \in 1..d
        BY <3>2, <4>1, <4>2
      <4>4. Stack(th, e)'[c] = Stack(th, e)[c]
        BY <4>3
      <4>5. c \in 1..Len(Stack(th, e)')
        BY <4>3
      <4> QED BY <2>3, <2>6, <2>9, <4>1, <4>2, <4>4, <4>5
    <3>5. NothingElse(th, h, f)'
      <4> SUFFICES ASSUME h = k \/ nest'[th][h + 1].role = "poll"
                   PROVE  Len(Stack(th, f)') = Depth(nest'[th], h)
        BY <1>0 DEF NothingElse
      <4>1. h = m
        <5>1. CASE h < m
          <6>1. h + 1 \in h + 1..m /\ h # k
            BY <1>0, <2>1, <5>1
          <6> QED BY <2>7, <3>1, <5>1, <6>1
        <5>2. h = m \/ h < m
          BY <1>0, <2>1
        <5> QED BY <5>1, <5>2
      <4>2. ~(k = m + 1 /\ nest'[th][k].role = "guard")
        BY <1>0, <4>1
      <4> QED BY <2>3, <2>9, <4>1, <4>2
    <3> QED BY <1>2, <3>4, <3>5
  <2> QED BY <2>8, <2>9
<1>3. CASE u = th /\ h > m
  <2>1. h = k /\ k = m + 1
    BY <1>0, <1>3
  <2> DEFINE n == nest'[th][k]
  <2>2. n \in Entry
    BY <1>0, <2>1
  <2>3. Depth(nest'[th], m) = d
    BY <1>0, DepthLocal
  <2>4. Len(nest'[th]) = k
    BY <1>0
  <2>5. CASE n.role = "poll"
    <3>1. n \in Polls
      BY <2>2, <2>5 DEF Polls
    <3>2. IsTop(nest'[th], k, Polls, n.event)
      BY <1>0, <2>1, <3>1, TopHit
    <3>3. k \in 0..Len(nest'[th])
      BY <1>0, <2>1
    <3>4. f = n.event
      BY <1>0, <1>3, <2>1, <3>2, <3>3, TopUnique
    <3>5. Depth(nest'[th], k) = 1
      <4>1. m \in Nat /\ nest'[th][m + 1].role = "poll"
        BY <1>0, <2>1, <2>5
      <4>2. Depth(nest'[th], m + 1) = 1
        BY <4>1, DepthStep
      <4> QED BY <2>1, <4>2
    <3>6. Stack(th, f)' = <<SchemaOf[n.event]>>
      BY <2>1, <2>5, <3>4
    <3>7. /\ Len(<<SchemaOf[n.event]>>) = 1 /\ 1 \in 1..1
          /\ <<SchemaOf[n.event]>>[1] = SchemaOf[n.event]
      OBVIOUS
    <3> HIDE DEF n
    <3>8. /\ Depth(nest'[th], k) \in 1..Len(Stack(th, f)')
          /\ Stack(th, f)'[Depth(nest'[th], k)] = SchemaOf[n.event]
          /\ Len(Stack(th, f)') = Depth(nest'[th], k)
      BY <3>5, <3>6, <3>7
    <3> QED BY <1>3, <2>1, <2>4, <3>8 DEF HasHook, NothingElse, n
  <2>6. CASE n.role # "poll"
    <3>1. IsTop(nest'[th], m, Polls, f)
      <4>1. nest'[th][m + 1] \notin Polls
        BY <2>1, <2>6 DEF Polls
      <4> QED BY <1>0, <1>3, <2>1, <4>1, TopMiss
    <3>2. IsTop(nest[th], m, Polls, f)
      BY <1>0, <3>1, TopLocal
    <3>3. f = e
      BY <1>0, <3>2, NestTypes, TopUnique
    <3>4. CASE n.role = "guard"
      <4>1. Depth(nest'[th], k) = d + 1
        BY <1>0, <2>1, <2>3, <3>4, DepthStep
      <4>2. /\ Len(Stack(th, e)') = d + 1 /\ d + 1 \in 1..d + 1
            /\ Stack(th, e)'[d + 1] = SchemaOf[n.event]
        BY <2>1, <3>4
      <4> QED BY <1>3, <2>1, <2>4, <3>3, <4>1, <4>2 DEF HasHook, NothingElse
    <3>5. CASE n.role # "guard"
      <4>1. Depth(nest'[th], k) = d
        BY <1>0, <2>1, <2>3, <2>6, <3>5, DepthStep
      <4>2. Len(Stack(th, e)') = d
        BY <3>5
      <4> QED BY <1>3, <2>1, <2>4, <2>6, <3>3, <3>5, <4>1, <4>2 DEF HasHook, NothingElse
    <3> QED BY <3>4, <3>5
  <2> QED BY <2>5, <2>6
<1>4. h <= m \/ h > m
  BY <1>0
<1> QED BY <1>1, <1>2, <1>3, <1>4
-------------------------------------------------------------------------------
(* Pushing and popping a hook change one stack, that of the task.          *)

LEMMA PushHook ==
  ASSUME TypeOK, Roles, NEW th \in Thread, NEW h \in Schema, push_log_hook(th, h),
         NEW e, e = Task(th)
  PROVE  /\ Stack(th, e)' = Append(Stack(th, e), h)
         /\ Stack(th, e) \in Seq(Schema)
         /\ OnlyStack(th, e)
         /\ LOG_HOOKS' \in [Thread -> Seq(Schema)]
         /\ TASK_LOG_HOOKS' \in [Scopes -> Seq(Schema)]
<1>0. e \in Owner /\ Null \notin Scopes
  BY TaskIsOwner, ContextAssumption DEF Event
<1>1. /\ LOG_HOOKS \in [Thread -> Seq(Schema)]
      /\ TASK_LOG_HOOKS \in [Scopes -> Seq(Schema)]
  BY DEF TypeOK
<1>2. CASE e = Null
  <2>1. /\ LOG_HOOKS' = [LOG_HOOKS EXCEPT ![th] = Append(@, h)]
        /\ TASK_LOG_HOOKS' = TASK_LOG_HOOKS
    BY <1>2 DEF push_log_hook
  <2> QED BY <1>0, <1>1, <1>2, <2>1 DEF Stack, OnlyStack, Owner
<1>3. CASE e # Null
  <2>1. /\ TASK_LOG_HOOKS' = [TASK_LOG_HOOKS EXCEPT ![e] = Append(@, h)]
        /\ LOG_HOOKS' = LOG_HOOKS
    BY <1>3 DEF push_log_hook
  <2>2. e \in Scopes
    BY <1>0, <1>3 DEF Owner
  <2> QED BY <1>0, <1>1, <1>3, <2>1, <2>2 DEF Stack, OnlyStack, Owner
<1> QED BY <1>2, <1>3

LEMMA RemovesLast ==
  ASSUME NEW s \in Seq(Schema), NEW h, s # <<>>, s[Len(s)] = h
  PROVE  Contains(s, h) /\ remove_hook(s, h) = Front(s)
<1>1. Len(s) \in Nat \ {0} /\ Len(s) \in 1..Len(s)
  OBVIOUS
<1>2. Contains(s, h)
  BY <1>1 DEF Contains
<1>3. SelectLastInSeq(s, LAMBDA k : k = h) = Len(s)
  <2> DEFINE I == {i \in 1..Len(s) : s[i] = h}
  <2>1. Len(s) \in I /\ I \in SUBSET (1..Len(s)) /\ Len(s) \in Nat
    BY <1>1
  <2>2. SelectLastInSeq(s, LAMBDA k : k = h) = IF I # {} THEN Max(I) ELSE 0
    BY DEF SelectLastInSeq
  <2> HIDE DEF I
  <2>3. Max(I) \in I /\ \A y \in I : y <= Max(I)
    BY <2>1, MaxOf
  <2>4. Max(I) \in 1..Len(s) /\ Len(s) <= Max(I)
    BY <2>1, <2>3
  <2>5. Max(I) = Len(s)
    BY <2>4
  <2> QED BY <2>1, <2>2, <2>5
<1> QED BY <1>2, <1>3, RemoveLast DEF remove_hook

LEMMA PopHook ==
  ASSUME TypeOK, Roles, NEW th \in Thread, NEW h \in Schema, pop_log_hook(th, h),
         NEW e, e = Task(th),
         Stack(th, e) # <<>>, Stack(th, e)[Len(Stack(th, e))] = h
  PROVE  /\ Stack(th, e)' = Front(Stack(th, e))
         /\ Stack(th, e) \in Seq(Schema)
         /\ OnlyStack(th, e)
         /\ LOG_HOOKS' \in [Thread -> Seq(Schema)]
         /\ TASK_LOG_HOOKS' \in [Scopes -> Seq(Schema)]
<1>0. e \in Owner /\ Null \notin Scopes
  BY TaskIsOwner, ContextAssumption DEF Event
<1>1. /\ LOG_HOOKS \in [Thread -> Seq(Schema)]
      /\ TASK_LOG_HOOKS \in [Scopes -> Seq(Schema)]
  BY DEF TypeOK
<1>2. Stack(th, e) \in Seq(Schema)
  BY <1>0, <1>1 DEF Stack, Owner
<1>3. /\ Contains(Stack(th, e), h) /\ remove_hook(Stack(th, e), h) = Front(Stack(th, e))
      /\ Front(Stack(th, e)) \in Seq(Schema)
  BY <1>2, RemovesLast, Popped
<1>4. CASE e = Null
  <2>1. /\ LOG_HOOKS' = [LOG_HOOKS EXCEPT ![th] = remove_hook(@, h)]
        /\ TASK_LOG_HOOKS' = TASK_LOG_HOOKS
    BY <1>4 DEF pop_log_hook
  <2>2. Stack(th, e) = LOG_HOOKS[th]
    BY <1>4 DEF Stack
  <2> QED BY <1>0, <1>1, <1>2, <1>3, <1>4, <2>1, <2>2 DEF Stack, OnlyStack, Owner
<1>5. CASE e # Null
  <2>0. Stack(th, e) = TASK_LOG_HOOKS[e] /\ e \in Scopes
    BY <1>0, <1>5 DEF Stack, Owner
  <2>1. /\ TASK_LOG_HOOKS' = [TASK_LOG_HOOKS EXCEPT ![e] = remove_hook(@, h)]
        /\ LOG_HOOKS' = LOG_HOOKS
    BY <1>3, <1>5, <2>0 DEF pop_log_hook
  <2> QED BY <1>0, <1>1, <1>2, <1>3, <1>5, <2>0, <2>1 DEF Stack, OnlyStack, Owner
<1> QED BY <1>2, <1>4, <1>5

\* What MirrorStep asks of the stacks that a step does not touch.
LEMMA OthersKept ==
  ASSUME TypeOK, Once, NEW th \in Thread, NEW m \in 0..Len(nest[th]),
         NEW e \in Owner, IsTop(nest[th], m, Polls, e), OnlyStack(th, e)
  PROVE  \A u \in Thread, f \in Owner : \A h \in 0..Len(nest[u]) :
           (u = th => h <= m) /\ IsTop(nest[u], h, Polls, f) /\ (u # th \/ f # e)
             => Stack(u, f)' = Stack(u, f)
<1> SUFFICES ASSUME NEW u \in Thread, NEW f \in Owner, NEW h \in 0..Len(nest[u]),
                    IsTop(nest[u], h, Polls, f), u # th \/ f # e
             PROVE  Stack(u, f)' = Stack(u, f)
  OBVIOUS
<1>1. CASE f # e
  BY <1>1 DEF OnlyStack
<1>2. CASE f = e /\ u # th
  <2>1. f = Null
    BY <1>2, OtherOwner
  <2> QED BY <1>2, <2>1 DEF OnlyStack
<1> QED BY <1>1, <1>2

\* Below the last entry, whatever that is, the stack is as deep as the nest.
LEMMA DepthBelow ==
  ASSUME TypeOK, Roles, Mirror, NEW th \in Thread, NEW m \in Nat,
         m + 1 = Len(nest[th]), NEW e \in Owner, IsTop(nest[th], m, Polls, e)
  PROVE  /\ nest[th][m + 1].role = "guard" =>
              /\ IsTop(nest[th], m + 1, Polls, e)
              /\ Len(Stack(th, e)) = Depth(nest[th], m) + 1
              /\ Stack(th, e)[Depth(nest[th], m) + 1] = SchemaOf[nest[th][m + 1].event]
         /\ nest[th][m + 1].role # "guard" =>
              Len(Stack(th, e)) = Depth(nest[th], m)
<1>0. m \in 0..Len(nest[th]) /\ m + 1 \in 0..Len(nest[th])
  OBVIOUS
<1>1. CASE nest[th][m + 1].role = "poll"
  BY <1>0, <1>1 DEF Mirror, NothingElse
<1>2. CASE nest[th][m + 1].role # "poll"
  <2>1. nest[th][m + 1] \notin Polls
    BY <1>2 DEF Polls
  <2>2. IsTop(nest[th], m + 1, Polls, e)
    BY <2>1, TopMiss
  <2>3. HasHook(th, m + 1, e) /\ NothingElse(th, m + 1, e)
    BY <1>0, <2>2 DEF Mirror
  <2>4. /\ nest[th][m + 1].role = "guard" => Depth(nest[th], m + 1) = Depth(nest[th], m) + 1
        /\ nest[th][m + 1].role # "guard" => Depth(nest[th], m + 1) = Depth(nest[th], m)
    BY <1>2, DepthStep
  <2> QED BY <2>2, <2>3, <2>4 DEF HasHook, NothingElse
<1> QED BY <1>1, <1>2
-------------------------------------------------------------------------------
(* The steps.                                                              *)

IInv == Lexical /\ TypeOK /\ Roles /\ Once /\ Previous /\ Cells /\ Mirror /\ Suspended

\* A scope being polled stays so unless its entry is the one that is popped.
LEMMA PolledKept ==
  ASSUME TypeOK, NEW th \in Thread, NEW m, NEW k, Changes(th, m, k),
         NEW s \in Scopes, BeingPolled(s),
         \A i \in m + 1..Len(nest[th]) : nest[th][i] # Is("poll", s)
  PROVE  BeingPolled(s)'
<1>1. PICK u \in Thread : \E i \in 1..Len(nest[u]) : nest[u][i] = Is("poll", s)
  BY DEF BeingPolled, Contains
<1>2. PICK i \in 1..Len(nest[u]) : nest[u][i] = Is("poll", s)
  BY <1>1
<1>3. i \in 1..Len(nest'[u]) /\ nest'[u][i] = Is("poll", s)
  BY <1>2, NestTypes DEF Changes
<1> QED BY <1>3 DEF BeingPolled, Contains

LEMMA SuspendedStep ==
  ASSUME TypeOK, Suspended, NEW th \in Thread, NEW m, NEW k, Changes(th, m, k),
         \A s \in Scopes :
           \/ state'[s] # "live" \/ BeingPolled(s)'
           \/ TASK_LOG_HOOKS'[s] = <<SchemaOf[s]>>
           \/ /\ state'[s] = state[s] /\ TASK_LOG_HOOKS'[s] = TASK_LOG_HOOKS[s]
              /\ \A i \in m + 1..Len(nest[th]) : nest[th][i] # Is("poll", s)
  PROVE  Suspended'
<1> SUFFICES ASSUME NEW s \in Scopes, state'[s] = "live", ~BeingPolled(s)'
             PROVE  TASK_LOG_HOOKS'[s] = <<SchemaOf[s]>>
  BY DEF Suspended
<1>1. CASE /\ state'[s] = state[s] /\ TASK_LOG_HOOKS'[s] = TASK_LOG_HOOKS[s]
           /\ \A i \in m + 1..Len(nest[th]) : nest[th][i] # Is("poll", s)
  BY <1>1, PolledKept DEF Suspended
<1> QED BY <1>1

\* A step that pops no guard and pushes none leaves the cells as they are, ...
LEMMA QuietCells ==
  ASSUME TypeOK, Cells, NEW th \in Thread, NEW m, NEW k, Changes(th, m, k),
         UNCHANGED CURRENT_EVENT,
         \/ Whole(th, m)
         \/ m + 1 = Len(nest[th]) /\ nest[th][m + 1].role # "guard",
         k = m + 1 => nest'[th][k].role # "guard"
  PROVE  Cells'
<1> USE DEF Whole
<1>1. m \in Nat
  BY NestTypes DEF Changes
<1>2. ASSUME NEW sc \in Schema
      PROVE  IsTop(nest[th], m, GuardsOf(sc), CURRENT_EVENT[th][sc])
  <2>1. IsTop(nest[th], Len(nest[th]), GuardsOf(sc), CURRENT_EVENT[th][sc])
    BY DEF Cells
  <2>2. CASE m = Len(nest[th])
    BY <2>1, <2>2
  <2>3. CASE m + 1 = Len(nest[th]) /\ nest[th][m + 1].role # "guard"
    <3>1. nest[th][m + 1] \notin GuardsOf(sc)
      BY <2>3 DEF GuardsOf
    <3>2. IsTop(nest[th], m + 1, GuardsOf(sc), CURRENT_EVENT[th][sc])
      BY <2>1, <2>3
    <3> QED BY <1>1, <3>1, <3>2, TopMiss
  <2> QED BY <2>2, <2>3
<1>3. \A sc \in Schema : k = m + 1 => nest'[th][k] \notin GuardsOf(sc)
  BY DEF GuardsOf
<1> QED BY <1>2, <1>3, CellsStep

\* ... and one that leaves the hooks alone, too, keeps them in order.
LEMMA QuietMirror ==
  ASSUME TypeOK, Roles, Once, Mirror, NEW th \in Thread, NEW m, NEW k, Changes(th, m, k),
         UNCHANGED <<LOG_HOOKS, TASK_LOG_HOOKS>>,
         \/ Whole(th, m)
         \/ m + 1 = Len(nest[th]) /\ nest[th][m + 1].role # "guard",
         k = m + 1 => nest'[th][k].role \notin {"guard", "poll"}
  PROVE  Mirror'
<1> USE DEF Whole
<1>0. m \in Nat /\ m \in 0..Len(nest[th])
  BY NestTypes DEF Changes
<1>1. PICK e \in Owner : IsTop(nest[th], m, Polls, e)
  BY <1>0, OwnerOf
<1>2. PICK d \in Nat : d = Depth(nest[th], m)
  BY <1>0, HookedFinite
<1>3. Len(Stack(th, e)) = d
  <2>1. CASE m = Len(nest[th])
    BY <1>0, <1>1, <1>2, <2>1 DEF Mirror, NothingElse
  <2>2. CASE m + 1 = Len(nest[th]) /\ nest[th][m + 1].role # "guard"
    BY <1>0, <1>1, <1>2, <2>2, DepthBelow
  <2> QED BY <2>1, <2>2
<1>4. \A u \in Thread, f \in Owner : Stack(u, f)' = Stack(u, f)
  BY DEF Stack
<1>5. Stack(th, e)' = Stack(th, e)
  BY <1>4
<1>6. /\ ~(k = m + 1 /\ nest'[th][k].role = "guard")
      /\ ~(k = m + 1 /\ nest'[th][k].role = "poll")
  OBVIOUS
<1> QED BY <1>1, <1>2, <1>3, <1>4, <1>5, <1>6, MirrorStep

LEMMA PreviousQuiet ==
  ASSUME TypeOK, Roles, Previous, NEW th \in Thread, NEW m, NEW k, Changes(th, m, k),
         NEW e, Apart(th, m, e), UNCHANGED prev,
         k = m + 1 => nest'[th][k].role # "guard"
  PROVE  Previous'
<1>1. /\ \A g \in Guards \ {e} : prev'[g] = prev[g]
      /\ ~(k = m + 1 /\ nest'[th][k].role = "guard")
  OBVIOUS
<1> QED BY <1>1, PreviousStep

LEMMA emittedKeeps ==
  ASSUME IInv, NEW th \in Thread, emitted(th) PROVE IInv'
<1> USE DEF IInv
<1>1. PICK m \in Nat : /\ m + 1 = Len(nest[th]) /\ InnermostCall(th) = m + 1
                       /\ nest[th][m + 1].role = "emit" /\ nest[th][m + 1] \in Entry
  BY LexicalReturn DEF emitted
<1>2. PICK e \in Event : e = nest[th][m + 1].event
  BY <1>1, EntryTypes
<1>3. /\ state' = [state EXCEPT ![e] = "freed"]
      /\ nest' = [nest EXCEPT ![th] = RemoveAt(@, m + 1)]
      /\ UNCHANGED <<CURRENT_EVENT, LOG_HOOKS, TASK_LOG_HOOKS, prev>>
  BY <1>1, <1>2 DEF emitted
<1>4. Changes(th, m, m)
  BY <1>1, <1>3, PopChanges
<1>5. Apart(th, m, e)
  BY <1>1, <1>2, ApartFromTop
<1>6. m # m + 1
  BY <1>1
<1>7. TypeOK'
  BY <1>3, <1>4 DEF TypeOK, Changes
<1>8. Roles' /\ Once'
  <2>1. \A f \in Event \ {e} : state'[f] = state[f]
    BY <1>3 DEF TypeOK
  <2> QED BY <1>4, <1>5, <1>6, <2>1, RolesStep
<1>9. Previous' /\ Cells' /\ Mirror'
  BY <1>1, <1>3, <1>4, <1>5, <1>6, PreviousQuiet, QuietCells, QuietMirror
<1>10. Suspended'
  <2>1. \A s \in Scopes : \/ state'[s] # "live"
                          \/ /\ state'[s] = state[s] /\ TASK_LOG_HOOKS'[s] = TASK_LOG_HOOKS[s]
                             /\ \A i \in m + 1..Len(nest[th]) : nest[th][i] # Is("poll", s)
    BY <1>1, <1>3 DEF TypeOK, Event, Is
  <2> QED BY <1>4, <2>1, SuspendedStep
<1>11. Lexical'
  BY DEF Lexical
<1> QED BY <1>7, <1>8, <1>9, <1>10, <1>11
LEMMA call_endKeeps ==
  ASSUME IInv, NEW th \in Thread, call_end(th) PROVE IInv'
<1> USE DEF IInv
<1>1. PICK m \in Nat : /\ m + 1 = Len(nest[th]) /\ InnermostCall(th) = m + 1
                       /\ nest[th][m + 1].role = "call" /\ nest[th][m + 1] \in Entry
  BY LexicalReturn DEF call_end
<1>2. PICK e \in Event : e = nest[th][m + 1].event
  BY <1>1, EntryTypes
<1>3. /\ state' = [state EXCEPT ![e] = "future"]
      /\ nest' = [nest EXCEPT ![th] = RemoveAt(@, m + 1)]
      /\ UNCHANGED <<CURRENT_EVENT, LOG_HOOKS, TASK_LOG_HOOKS, prev>>
  BY <1>1, <1>2 DEF call_end
<1>4. Changes(th, m, m)
  BY <1>1, <1>3, PopChanges
<1>5. Apart(th, m, e)
  BY <1>1, <1>2, ApartFromTop
<1>6. m # m + 1
  BY <1>1
<1>7. TypeOK'
  BY <1>3, <1>4 DEF TypeOK, Changes
<1>8. Roles' /\ Once'
  <2>1. \A f \in Event \ {e} : state'[f] = state[f]
    BY <1>3 DEF TypeOK
  <2> QED BY <1>4, <1>5, <1>6, <2>1, RolesStep
<1>9. Previous' /\ Cells' /\ Mirror'
  BY <1>1, <1>3, <1>4, <1>5, <1>6, PreviousQuiet, QuietCells, QuietMirror
<1>10. Suspended'
  <2>1. \A s \in Scopes : \/ state'[s] # "live"
                          \/ /\ state'[s] = state[s] /\ TASK_LOG_HOOKS'[s] = TASK_LOG_HOOKS[s]
                             /\ \A i \in m + 1..Len(nest[th]) : nest[th][i] # Is("poll", s)
    BY <1>1, <1>3 DEF TypeOK, Event, Is
  <2> QED BY <1>4, <2>1, SuspendedStep
<1>11. Lexical'
  BY DEF Lexical
<1> QED BY <1>7, <1>8, <1>9, <1>10, <1>11

LEMMA callKeeps ==
  ASSUME IInv, NEW th \in Thread, NEW s \in Scopes, call(th, s) PROVE IInv'
<1> USE DEF IInv
<1>1. PICK m \in Nat : Whole(th, m)
  BY NestTypes DEF Whole
<1>2. s \in Event /\ Is("call", s) \in Entry
      /\ Is("call", s).role = "call" /\ Is("call", s).event = s
  BY EntryOf DEF Event
<1>3. /\ state[s] = "unborn" /\ state' = [state EXCEPT ![s] = "calling"]
      /\ nest' = [nest EXCEPT ![th] = Append(@, Is("call", s))]
      /\ UNCHANGED <<CURRENT_EVENT, LOG_HOOKS, TASK_LOG_HOOKS, prev>>
  BY DEF call
<1>4. Changes(th, m, m + 1) /\ nest'[th][m + 1] = Is("call", s)
  <2>1. TypeOK /\ Is("call", s) \in Entry
    BY <1>2
  <2>2. nest' = [nest EXCEPT ![th] = Append(@, Is("call", s))]
    BY <1>3
  <2> QED BY <1>1, <2>1, <2>2, PushChanges
<1>5. Apart(th, m, s)
  BY <1>1, <1>2, <1>3, ApartUnborn DEF Whole
<1>7. TypeOK'
  BY <1>3, <1>4 DEF TypeOK, Changes
<1>8. Roles' /\ Once'
  <2>1. \A f \in Event \ {s} : state'[f] = state[f]
    BY <1>3 DEF TypeOK
  <2>2. nest'[th][m + 1].event = s /\ Fits(nest'[th][m + 1], state')
    BY <1>2, <1>3, <1>4 DEF Fits, TypeOK
  <2> QED BY <1>4, <1>5, <2>1, <2>2, RolesStep
<1>9. Previous' /\ Cells' /\ Mirror'
  <2>1. nest'[th][m + 1].role \notin {"guard", "poll"}
    BY <1>2, <1>4
  <2>2. UNCHANGED CURRENT_EVENT /\ UNCHANGED prev /\ UNCHANGED <<LOG_HOOKS, TASK_LOG_HOOKS>>
    BY <1>3
  <2>3. Previous'
    BY <1>4, <1>5, <2>1, <2>2, PreviousQuiet
  <2>4. Cells'
    BY <1>1, <1>4, <2>1, <2>2, QuietCells
  <2>5. Mirror'
    BY <1>1, <1>4, <2>1, <2>2, QuietMirror
  <2> QED BY <2>3, <2>4, <2>5
<1>10. Suspended'
  <2>1. \A t \in Scopes : \/ state'[t] # "live"
                          \/ /\ state'[t] = state[t] /\ TASK_LOG_HOOKS'[t] = TASK_LOG_HOOKS[t]
                             /\ \A i \in m + 1..Len(nest[th]) : nest[th][i] # Is("poll", t)
    BY <1>1, <1>3 DEF TypeOK, Event, Whole
  <2> QED BY <1>4, <2>1, SuspendedStep
<1>11. Lexical'
  BY DEF Lexical
<1> QED BY <1>7, <1>8, <1>9, <1>10, <1>11

\* A poll that is over leaves its task with its own hook.
LEMMA PollEnds ==
  ASSUME IInv, NEW th \in Thread, NEW m \in Nat, m + 1 = Len(nest[th]),
         NEW s \in Scopes, nest[th][m + 1] = Is("poll", s)
  PROVE  TASK_LOG_HOOKS[s] = <<SchemaOf[s]>>
<1> USE DEF IInv
<1>1. /\ Is("poll", s) \in Entry /\ Is("poll", s).role = "poll"
      /\ Is("poll", s).event = s /\ Is("poll", s) \in Polls /\ s # Null
  BY EntryOf, ContextAssumption DEF Event, Polls
<1>2. IsTop(nest[th], m + 1, Polls, s)
  BY <1>1, TopHit
<1>3. m + 1 \in 0..Len(nest[th]) /\ s \in Owner
  BY DEF Owner
<1>4. HasHook(th, m + 1, s) /\ NothingElse(th, m + 1, s)
  BY <1>2, <1>3 DEF Mirror
<1>5. Depth(nest[th], m + 1) = 1
  BY <1>1, DepthStep
<1>6. Stack(th, s) = TASK_LOG_HOOKS[s]
  BY <1>1 DEF Stack
<1>7. Len(TASK_LOG_HOOKS[s]) = 1 /\ TASK_LOG_HOOKS[s][1] = SchemaOf[s]
  <2>1. m + 1 > 0 /\ nest[th][m + 1].role \in {"guard", "poll"}
        /\ nest[th][m + 1].event = s
    BY <1>1
  <2>2. Stack(th, s)[Depth(nest[th], m + 1)] = SchemaOf[s]
    BY <1>4, <2>1 DEF HasHook
  <2>3. Len(Stack(th, s)) = Depth(nest[th], m + 1)
    BY <1>4 DEF NothingElse
  <2> QED BY <1>5, <1>6, <2>2, <2>3
<1>8. TASK_LOG_HOOKS[s] \in Seq(Schema) /\ SchemaOf[s] \in Schema
  BY ContextAssumption DEF TypeOK, Event
<1>9. /\ <<SchemaOf[s]>> \in Seq(Schema) /\ Len(<<SchemaOf[s]>>) = 1
      /\ <<SchemaOf[s]>>[1] = SchemaOf[s]
  BY <1>8
<1> QED BY <1>7, <1>8, <1>9, SeqEqual

LEMMA pendingKeeps ==
  ASSUME IInv, NEW th \in Thread, pending(th) PROVE IInv'
<1> USE DEF IInv
<1>1. PICK m \in Nat : /\ m + 1 = Len(nest[th]) /\ InnermostCall(th) = m + 1
                       /\ nest[th][m + 1].role = "poll" /\ nest[th][m + 1] \in Entry
  BY LexicalReturn DEF pending
<1>2. PICK e \in Scopes : e = nest[th][m + 1].event
  BY <1>1 DEF Roles, Fits
<1>3. /\ nest' = [nest EXCEPT ![th] = RemoveAt(@, m + 1)]
      /\ UNCHANGED <<CURRENT_EVENT, LOG_HOOKS, TASK_LOG_HOOKS, prev, state>>
  BY <1>1 DEF pending
<1>4. Changes(th, m, m)
  BY <1>1, <1>3, PopChanges
<1>5. Apart(th, m, e)
  BY <1>1, <1>2, ApartFromTop
<1>6. m # m + 1
  BY <1>1
<1>7. TypeOK'
  BY <1>3, <1>4 DEF TypeOK, Changes
<1>8. Roles' /\ Once'
  <2>1. \A f \in Event \ {e} : state'[f] = state[f]
    BY <1>3
  <2> QED BY <1>4, <1>5, <1>6, <2>1, RolesStep
<1>9. Previous' /\ Cells' /\ Mirror'
  BY <1>1, <1>3, <1>4, <1>5, <1>6, PreviousQuiet, QuietCells, QuietMirror
<1>10. Suspended'
  <2>0. nest[th][m + 1] = Is("poll", e)
    BY <1>1, <1>2, EntryTypes
  <2>1. TASK_LOG_HOOKS[e] = <<SchemaOf[e]>>
    BY <1>1, <2>0, PollEnds
  <2>2. \A s \in Scopes \ {e} : \A i \in m + 1..Len(nest[th]) : nest[th][i] # Is("poll", s)
    BY <1>1, <2>0 DEF Is
  <2>3. \A s \in Scopes : \/ TASK_LOG_HOOKS'[s] = <<SchemaOf[s]>>
                          \/ /\ state'[s] = state[s] /\ TASK_LOG_HOOKS'[s] = TASK_LOG_HOOKS[s]
                             /\ \A i \in m + 1..Len(nest[th]) : nest[th][i] # Is("poll", s)
    BY <1>3, <2>1, <2>2
  <2> QED BY <1>4, <2>3, SuspendedStep
<1>11. Lexical'
  BY DEF Lexical
<1> QED BY <1>7, <1>8, <1>9, <1>10, <1>11

LEMMA readyKeeps ==
  ASSUME IInv, NEW th \in Thread, ready(th) PROVE IInv'
<1> USE DEF IInv
<1>1. PICK m \in Nat : /\ m + 1 = Len(nest[th]) /\ InnermostCall(th) = m + 1
                       /\ nest[th][m + 1].role = "poll" /\ nest[th][m + 1] \in Entry
  BY LexicalReturn DEF ready
<1>2. PICK s \in Scopes : s = nest[th][m + 1].event
  BY <1>1 DEF Roles, Fits
<1>3. /\ s \in Event /\ Is("emit", s) \in Entry
      /\ Is("emit", s).role = "emit" /\ Is("emit", s).event = s
  BY EntryOf DEF Event
<1>4. /\ state' = [state EXCEPT ![s] = "emitting"]
      /\ nest' = [nest EXCEPT ![th] = Append(RemoveAt(@, m + 1), Is("emit", s))]
      /\ UNCHANGED <<CURRENT_EVENT, LOG_HOOKS, TASK_LOG_HOOKS, prev>>
  BY <1>1, <1>2 DEF ready
<1>5. Changes(th, m, m + 1) /\ nest'[th][m + 1] = Is("emit", s)
  BY <1>1, <1>3, <1>4, SwapChanges
<1>6. Apart(th, m, s)
  BY <1>1, <1>2, ApartFromTop
<1>7. TypeOK'
  BY <1>4, <1>5 DEF TypeOK, Changes
<1>8. Roles' /\ Once'
  <2>1. \A f \in Event \ {s} : state'[f] = state[f]
    BY <1>4 DEF TypeOK
  <2>2. nest'[th][m + 1].event = s /\ Fits(nest'[th][m + 1], state')
    BY <1>3, <1>4, <1>5 DEF Fits, TypeOK
  <2> QED BY <1>5, <1>6, <2>1, <2>2, RolesStep
<1>9. Previous' /\ Cells' /\ Mirror'
  <2>1. nest'[th][m + 1].role \notin {"guard", "poll"}
    BY <1>3, <1>5
  <2> QED BY <1>1, <1>4, <1>5, <1>6, <2>1, PreviousQuiet, QuietCells, QuietMirror
<1>10. Suspended'
  <2>0. nest[th][m + 1] = Is("poll", s)
    BY <1>1, <1>2, EntryTypes
  <2>1. \A t \in Scopes \ {s} : \A i \in m + 1..Len(nest[th]) : nest[th][i] # Is("poll", t)
    BY <1>1, <2>0 DEF Is
  <2>2. state'[s] = "emitting" /\ \A t \in Scopes \ {s} : state'[t] = state[t]
    BY <1>3, <1>4 DEF TypeOK, Event
  <2>3. \A t \in Scopes : \/ state'[t] # "live"
                          \/ /\ state'[t] = state[t] /\ TASK_LOG_HOOKS'[t] = TASK_LOG_HOOKS[t]
                             /\ \A i \in m + 1..Len(nest[th]) : nest[th][i] # Is("poll", t)
    BY <1>4, <2>1, <2>2
  <2> QED BY <1>5, <2>3, SuspendedStep
<1>11. Lexical'
  BY DEF Lexical
<1> QED BY <1>7, <1>8, <1>9, <1>10, <1>11
LEMMA pollKeeps ==
  ASSUME IInv, NEW th \in Thread, NEW s \in Scopes, poll(th, s) PROVE IInv'
<1> USE DEF IInv
<1>1. PICK m \in Nat : Whole(th, m)
  BY NestTypes DEF Whole
<1>2. /\ s \in Event /\ Is("poll", s) \in Entry /\ SchemaOf[s] \in Schema
      /\ Is("poll", s).role = "poll" /\ Is("poll", s).event = s
      /\ s \in Owner /\ s # Null
  BY EntryOf, ContextAssumption DEF Event, Owner
<1>3. /\ MayPoll(s) /\ state' = [state EXCEPT ![s] = "live"]
      /\ TASK_LOG_HOOKS' = IF state[s] = "live" THEN TASK_LOG_HOOKS
                           ELSE [TASK_LOG_HOOKS EXCEPT ![s] = <<SchemaOf[s]>>]
      /\ nest' = [nest EXCEPT ![th] = Append(@, Is("poll", s))]
      /\ UNCHANGED <<CURRENT_EVENT, LOG_HOOKS, prev>>
  BY DEF poll
<1>4. Changes(th, m, m + 1) /\ nest'[th][m + 1] = Is("poll", s)
  <2>1. TypeOK /\ Is("poll", s) \in Entry
    BY <1>2
  <2>2. nest' = [nest EXCEPT ![th] = Append(@, Is("poll", s))]
    BY <1>3
  <2> QED BY <1>1, <2>1, <2>2, PushChanges
<1>5. Apart(th, m, s)
  <2>1. Apart(th, Len(nest[th]), s)
    BY <1>3, ApartPending
  <2> QED BY <1>1, <2>1 DEF Whole
\* The first poll makes the stack of the task, later ones find it as it was.
<1>6. /\ TASK_LOG_HOOKS' \in [Scopes -> Seq(Schema)]
      /\ TASK_LOG_HOOKS'[s] = <<SchemaOf[s]>>
      /\ \A t \in Scopes \ {s} : TASK_LOG_HOOKS'[t] = TASK_LOG_HOOKS[t]
  <2>1. CASE state[s] = "live"
    BY <1>3, <2>1 DEF MayPoll, Suspended, TypeOK
  <2>2. CASE state[s] # "live"
    <3>1. <<SchemaOf[s]>> \in Seq(Schema)
      BY <1>2
    <3> QED BY <1>3, <2>2, <3>1 DEF TypeOK
  <2> QED BY <2>1, <2>2
<1>7. TypeOK'
  BY <1>3, <1>4, <1>6 DEF TypeOK, Changes
<1>8. Roles' /\ Once'
  <2>1. \A f \in Event \ {s} : state'[f] = state[f]
    BY <1>3 DEF TypeOK
  <2>2. nest'[th][m + 1].event = s /\ Fits(nest'[th][m + 1], state')
    BY <1>2, <1>3, <1>4 DEF Fits, TypeOK
  <2> QED BY <1>4, <1>5, <2>1, <2>2, RolesStep
<1>9. Previous' /\ Cells'
  <2>1. nest'[th][m + 1].role # "guard"
    BY <1>2, <1>4
  <2>2. UNCHANGED CURRENT_EVENT /\ UNCHANGED prev
    BY <1>3
  <2>3. Previous'
    BY <1>4, <1>5, <2>1, <2>2, PreviousQuiet
  <2>4. Cells'
    BY <1>1, <1>4, <2>1, <2>2, QuietCells
  <2> QED BY <2>3, <2>4
<1>10. Mirror'
  <2>0. m \in 0..Len(nest[th])
    BY <1>1 DEF Whole
  <2>1. PICK e \in Owner : IsTop(nest[th], m, Polls, e)
    BY <2>0, OwnerOf
  <2>2. PICK d \in Nat : d = Depth(nest[th], m)
    BY HookedFinite
  <2>3. Len(Stack(th, e)) = d
    BY <1>1, <2>0, <2>1, <2>2 DEF Mirror, NothingElse, Whole
  \* The scope polled owns nothing on any thread yet.
  <2>4. ASSUME NEW u \in Thread, NEW h \in 0..Len(nest[u]), IsTop(nest[u], h, Polls, s)
        PROVE  FALSE
    <3>1. PICK i \in 1..h : nest[u][i].event = s
      BY <1>2, <2>4 DEF IsTop
    <3>2. i \in 1..Len(nest[u])
      BY NestTypes
    <3>3. u = th => i <= m
      BY <1>1, <3>2, NestTypes DEF Whole
    <3> QED BY <1>5, <3>1, <3>2, <3>3 DEF Apart
  <2>5. \A u \in Thread, f \in Owner \ {s} : Stack(u, f)' = Stack(u, f)
    BY <1>3, <1>6 DEF Stack, Owner
  <2>6. e # s
    BY <2>0, <2>1, <2>4
  <2>7. Stack(th, e)' = Stack(th, e)
    BY <2>5, <2>6
  <2>8. Stack(th, s)' = <<SchemaOf[s]>>
    BY <1>2, <1>6 DEF Stack
  <2>9. \A u \in Thread, f \in Owner : \A h \in 0..Len(nest[u]) :
          (u = th => h <= m) /\ IsTop(nest[u], h, Polls, f) /\ (u # th \/ f # e)
            => Stack(u, f)' = Stack(u, f)
    BY <2>4, <2>5
  <2>10. /\ nest'[th][m + 1].role = "poll" /\ nest'[th][m + 1].event = s
         /\ nest'[th][m + 1].role # "guard"
    BY <1>2, <1>4
  <2>11. \A f \in Owner : f = nest'[th][m + 1].event =>
           Stack(th, f)' = <<SchemaOf[nest'[th][m + 1].event]>>
    BY <2>8, <2>10
  <2> QED BY <1>4, <2>1, <2>2, <2>3, <2>7, <2>9, <2>10, <2>11, MirrorStep
<1>11. Suspended'
  <2>1. \A t \in Scopes : \/ TASK_LOG_HOOKS'[t] = <<SchemaOf[t]>>
                          \/ /\ state'[t] = state[t] /\ TASK_LOG_HOOKS'[t] = TASK_LOG_HOOKS[t]
                             /\ \A i \in m + 1..Len(nest[th]) : nest[th][i] # Is("poll", t)
    BY <1>1, <1>3, <1>6 DEF TypeOK, Event, Whole
  <2> QED BY <1>4, <2>1, SuspendedStep
<1>12. Lexical'
  BY DEF Lexical
<1> QED BY <1>7, <1>8, <1>9, <1>10, <1>11, <1>12

LEMMA buildKeeps ==
  ASSUME IInv, NEW th \in Thread, NEW g \in Guards, build(th, g) PROVE IInv'
<1> USE DEF IInv
<1>1. PICK m \in Nat : Whole(th, m)
  BY NestTypes DEF Whole
<1>2. PICK sc \in Schema : sc = SchemaOf[g]
  BY ContextAssumption DEF Event
<1>3. /\ g \in Event /\ Is("guard", g) \in Entry /\ g \notin Scopes
      /\ Is("guard", g).role = "guard" /\ Is("guard", g).event = g
  BY EntryOf, ContextAssumption DEF Event
<1>4. /\ state[g] = "unborn" /\ state' = [state EXCEPT ![g] = "live"]
      /\ prev' = [prev EXCEPT ![g] = CURRENT_EVENT[th][sc]]
      /\ CURRENT_EVENT' = [CURRENT_EVENT EXCEPT ![th][sc] = g]
      /\ push_log_hook(th, sc)
      /\ nest' = [nest EXCEPT ![th] = Append(@, Is("guard", g))]
  BY <1>2 DEF build
<1>5. Changes(th, m, m + 1) /\ nest'[th][m + 1] = Is("guard", g)
  <2>1. TypeOK /\ Is("guard", g) \in Entry
    BY <1>3
  <2>2. nest' = [nest EXCEPT ![th] = Append(@, Is("guard", g))]
    BY <1>4
  <2> QED BY <1>1, <2>1, <2>2, PushChanges
<1>6. Apart(th, m, g)
  BY <1>1, <1>3, <1>4, ApartUnborn DEF Whole
<1>7. PICK e : e = Task(th)
  OBVIOUS
<1>8. /\ Stack(th, e)' = Append(Stack(th, e), sc)
      /\ Stack(th, e) \in Seq(Schema)
      /\ OnlyStack(th, e)
      /\ LOG_HOOKS' \in [Thread -> Seq(Schema)]
      /\ TASK_LOG_HOOKS' \in [Scopes -> Seq(Schema)]
  BY <1>4, <1>7, PushHook
<1>9. e \in Owner /\ IsTop(nest[th], m, Polls, e)
  BY <1>1, <1>7, TaskIsOwner DEF Whole
<1>10. TypeOK'
  <2>1. CURRENT_EVENT[th][sc] \in Guards \cup {Null}
    BY DEF TypeOK
  <2>2. prev' \in [Guards -> Guards \cup {Null}]
    BY <1>4, <2>1 DEF TypeOK
  <2>3. CURRENT_EVENT' \in [Thread -> [Schema -> Guards \cup {Null}]]
    BY <1>4 DEF TypeOK
  <2> QED BY <1>4, <1>5, <1>8, <2>2, <2>3 DEF TypeOK, Changes
<1>11. Roles' /\ Once'
  <2>1. \A f \in Event \ {g} : state'[f] = state[f]
    BY <1>4 DEF TypeOK
  <2>2. nest'[th][m + 1].event = g /\ Fits(nest'[th][m + 1], state')
    BY <1>3, <1>4, <1>5 DEF Fits, TypeOK
  <2> QED BY <1>5, <1>6, <2>1, <2>2, RolesStep
\* The guard saves the cell, which holds the innermost guard below.
<1>12. Previous'
  <2>1. \A f \in Guards \ {g} : prev'[f] = prev[f]
    BY <1>4 DEF TypeOK
  <2>2. prev'[g] = CURRENT_EVENT[th][sc]
    BY <1>4 DEF TypeOK
  <2>3. IsTop(nest[th], m, GuardsOf(sc), CURRENT_EVENT[th][sc])
    BY <1>1 DEF Cells, Whole
  <2>4. nest'[th][m + 1].event = g
    BY <1>3, <1>5
  <2>5. IsTop(nest[th], m, GuardsOf(SchemaOf[nest'[th][m + 1].event]),
              prev'[nest'[th][m + 1].event])
    BY <1>2, <2>2, <2>3, <2>4
  <2> QED BY <1>5, <1>6, <2>1, <2>5, PreviousStep
<1>13. Cells'
  <2>1. \A u \in Thread \ {th} : CURRENT_EVENT'[u] = CURRENT_EVENT[u]
    BY <1>4 DEF TypeOK
  <2>2. ASSUME NEW sd \in Schema
        PROVE  IF m + 1 = m + 1 /\ nest'[th][m + 1] \in GuardsOf(sd)
               THEN CURRENT_EVENT'[th][sd] = nest'[th][m + 1].event
               ELSE IsTop(nest[th], m, GuardsOf(sd), CURRENT_EVENT'[th][sd])
    <3>1. nest'[th][m + 1] \in GuardsOf(sd) <=> sd = sc
      BY <1>2, <1>3, <1>5 DEF GuardsOf
    <3>2. CASE sd = sc
      BY <1>3, <1>4, <1>5, <3>1, <3>2 DEF TypeOK
    <3>3. CASE sd # sc
      <4>1. CURRENT_EVENT'[th][sd] = CURRENT_EVENT[th][sd]
        BY <1>4, <3>3 DEF TypeOK
      <4>2. IsTop(nest[th], m, GuardsOf(sd), CURRENT_EVENT[th][sd])
        BY <1>1 DEF Cells, Whole
      <4> QED BY <3>1, <3>3, <4>1, <4>2
    <3> QED BY <3>2, <3>3
  <2> QED BY <1>5, <2>1, <2>2, CellsStep
<1>14. Mirror'
  <2>0. m \in 0..Len(nest[th])
    BY <1>1 DEF Whole
  <2>1. PICK d \in Nat : d = Depth(nest[th], m)
    BY HookedFinite
  <2>2. Len(Stack(th, e)) = d
    BY <1>1, <1>9, <2>0, <2>1 DEF Mirror, NothingElse, Whole
  <2>3. /\ Len(Stack(th, e)') = d + 1 /\ Stack(th, e)'[d + 1] = sc
        /\ \A i \in 1..d : Stack(th, e)'[i] = Stack(th, e)[i]
    <3>1. /\ Len(Append(Stack(th, e), sc)) = Len(Stack(th, e)) + 1
          /\ Append(Stack(th, e), sc)[Len(Stack(th, e)) + 1] = sc
          /\ \A i \in 1..Len(Stack(th, e)) : Append(Stack(th, e), sc)[i] = Stack(th, e)[i]
      BY <1>8, Pushed
    <3> QED BY <1>8, <2>2, <3>1
  <2>4. \A u \in Thread, f \in Owner : \A h \in 0..Len(nest[u]) :
          (u = th => h <= m) /\ IsTop(nest[u], h, Polls, f) /\ (u # th \/ f # e)
            => Stack(u, f)' = Stack(u, f)
    BY <1>8, <1>9, <2>0, OthersKept
  <2>5. /\ nest'[th][m + 1].role = "guard" /\ nest'[th][m + 1].role # "poll"
        /\ SchemaOf[nest'[th][m + 1].event] = sc
    BY <1>2, <1>3, <1>5
  <2> QED BY <1>5, <1>9, <2>1, <2>3, <2>4, <2>5, MirrorStep
<1>15. Suspended'
  <2>1. \A s \in Scopes : state'[s] = state[s]
    BY <1>3, <1>4 DEF TypeOK, Event
  <2>2. \A s \in Scopes \ {e} : TASK_LOG_HOOKS'[s] = TASK_LOG_HOOKS[s]
    <3>1. \A s \in Scopes : s # Null
      BY ContextAssumption DEF Event
    <3> QED BY <1>8, <3>1 DEF OnlyStack, Owner, Stack
  <2>3. \A i \in m + 1..Len(nest[th]) : FALSE
    BY <1>1 DEF Whole
  <2>4. e \in Scopes => BeingPolled(e)'
    <3> SUFFICES ASSUME e \in Scopes PROVE BeingPolled(e)'
      OBVIOUS
    <3>1. e # Null
      BY ContextAssumption DEF Event
    <3>2. PICK i \in 1..m : nest[th][i] \in Polls /\ nest[th][i].event = e
      BY <1>9, <3>1 DEF IsTop
    <3>3. nest[th][i] = Is("poll", e)
      BY <3>2, EntryTypes DEF Polls
    <3>4. BeingPolled(e)
      BY <1>1, <3>3 DEF BeingPolled, Contains, Whole
    <3> QED BY <1>5, <2>3, <3>4, PolledKept
  <2> QED BY <1>5, <2>1, <2>2, <2>3, <2>4, SuspendedStep
<1>16. Lexical'
  BY DEF Lexical
<1> QED BY <1>10, <1>11, <1>12, <1>13, <1>14, <1>15, <1>16
LEMMA drop_guardKeeps ==
  ASSUME IInv, NEW th \in Thread, NEW g \in Guards, drop_guard(th, g) PROVE IInv'
<1> USE DEF IInv
<1>1. PICK m \in Nat : /\ m + 1 = Len(nest[th]) /\ At(th, Is("guard", g)) = m + 1
                       /\ nest[th][m + 1] = Is("guard", g)
  BY LexicalDrop DEF drop_guard
<1>2. PICK sc \in Schema : sc = SchemaOf[g]
  BY ContextAssumption DEF Event
<1>3. /\ g \in Event /\ g \notin Scopes
      /\ Is("guard", g) \in Entry /\ Is("emit", g) \in Entry
      /\ Is("guard", g).role = "guard" /\ Is("guard", g).event = g
      /\ Is("emit", g).role = "emit" /\ Is("emit", g).event = g
  BY EntryOf, ContextAssumption DEF Event
<1>4. /\ state' = [state EXCEPT ![g] = "emitting"]
      /\ CURRENT_EVENT' = [CURRENT_EVENT EXCEPT ![th][sc] = prev[g]]
      /\ pop_log_hook(th, sc)
      /\ nest' = [nest EXCEPT ![th] = Append(RemoveAt(@, m + 1), Is("emit", g))]
      /\ UNCHANGED prev
  BY <1>1, <1>2 DEF drop_guard
<1>5. Changes(th, m, m + 1) /\ nest'[th][m + 1] = Is("emit", g)
  BY <1>1, <1>3, <1>4, SwapChanges
<1>6. Apart(th, m, g)
  BY <1>1, <1>3, ApartFromTop
<1>7. m \in 0..Len(nest[th]) /\ m + 1 \in 1..Len(nest[th])
  BY <1>1
<1>8. PICK e \in Owner : IsTop(nest[th], m, Polls, e)
  BY <1>7, OwnerOf
<1>9. PICK d \in Nat : d = Depth(nest[th], m)
  BY HookedFinite
\* The hook of the guard is the last of the stack in use.
<1>10. /\ IsTop(nest[th], m + 1, Polls, e)
       /\ Len(Stack(th, e)) = d + 1 /\ Stack(th, e)[d + 1] = sc
  BY <1>1, <1>2, <1>3, <1>8, <1>9, DepthBelow
<1>11. e = Task(th)
  <2>1. IsTop(nest[th], m + 1, Polls, Task(th))
    BY <1>1, TaskIsOwner
  <2>2. nest[th] \in Seq(Entry) /\ m + 1 \in 0..Len(nest[th])
    BY <1>1, NestTypes
  <2> QED BY <1>10, <2>1, <2>2, TopUnique
<1>12. /\ Stack(th, e)' = Front(Stack(th, e))
       /\ Stack(th, e) \in Seq(Schema) /\ Stack(th, e) # <<>>
       /\ OnlyStack(th, e)
       /\ LOG_HOOKS' \in [Thread -> Seq(Schema)]
       /\ TASK_LOG_HOOKS' \in [Scopes -> Seq(Schema)]
  <2>1. Stack(th, e) # <<>> /\ Stack(th, e)[Len(Stack(th, e))] = sc
    BY <1>9, <1>10
  <2> QED BY <1>4, <1>11, <2>1, PopHook
<1>13. TypeOK'
  <2>1. prev[g] \in Guards \cup {Null}
    BY DEF TypeOK
  <2>2. CURRENT_EVENT' \in [Thread -> [Schema -> Guards \cup {Null}]]
    BY <1>4, <2>1 DEF TypeOK
  <2> QED BY <1>4, <1>5, <1>12, <2>2 DEF TypeOK, Changes
<1>14. Roles' /\ Once'
  <2>1. \A f \in Event \ {g} : state'[f] = state[f]
    BY <1>4 DEF TypeOK
  <2>2. nest'[th][m + 1].event = g /\ Fits(nest'[th][m + 1], state')
    BY <1>3, <1>4, <1>5 DEF Fits, TypeOK
  <2> QED BY <1>5, <1>6, <2>1, <2>2, RolesStep
<1>15. nest'[th][m + 1].role \notin {"guard", "poll"}
  BY <1>3, <1>5
<1>16. Previous'
  BY <1>4, <1>5, <1>6, <1>15, PreviousQuiet
\* The cell gets back what the guard saved: the innermost guard below.
<1>17. Cells'
  <2>1. \A u \in Thread \ {th} : CURRENT_EVENT'[u] = CURRENT_EVENT[u]
    BY <1>4 DEF TypeOK
  <2>2. ASSUME NEW sd \in Schema
        PROVE  IsTop(nest[th], m, GuardsOf(sd), CURRENT_EVENT'[th][sd])
    <3>1. CASE sd = sc
      <4>1. CURRENT_EVENT'[th][sd] = prev[g]
        BY <1>4, <3>1 DEF TypeOK
      <4>2. IsTop(nest[th], m + 1 - 1, GuardsOf(sc), prev[g])
        BY <1>1, <1>2, <1>3, <1>7 DEF Previous
      <4>3. m + 1 - 1 = m
        OBVIOUS
      <4> QED BY <3>1, <4>1, <4>2, <4>3
    <3>2. CASE sd # sc
      <4>1. CURRENT_EVENT'[th][sd] = CURRENT_EVENT[th][sd]
        BY <1>4, <3>2 DEF TypeOK
      <4>2. IsTop(nest[th], m + 1, GuardsOf(sd), CURRENT_EVENT[th][sd])
        BY <1>1 DEF Cells
      <4>3. nest[th][m + 1] \notin GuardsOf(sd)
        BY <1>1, <1>2, <1>3, <3>2 DEF GuardsOf
      <4> QED BY <4>1, <4>2, <4>3, TopMiss
    <3> QED BY <3>1, <3>2
  <2>3. \A sd \in Schema : nest'[th][m + 1] \notin GuardsOf(sd)
    BY <1>15 DEF GuardsOf
  <2> QED BY <1>5, <2>1, <2>2, <2>3, CellsStep
<1>18. Mirror'
  <2>1. /\ Len(Stack(th, e)') = d
        /\ \A i \in 1..d : Stack(th, e)'[i] = Stack(th, e)[i]
    <3>1. /\ Len(Front(Stack(th, e))) = Len(Stack(th, e)) - 1
          /\ \A i \in 1..Len(Stack(th, e)) - 1 : Front(Stack(th, e))[i] = Stack(th, e)[i]
      BY <1>12, Popped
    <3>2. Len(Stack(th, e)) - 1 = d
      BY <1>10
    <3> QED BY <1>12, <3>1, <3>2
  <2>2. \A u \in Thread, f \in Owner : \A h \in 0..Len(nest[u]) :
          (u = th => h <= m) /\ IsTop(nest[u], h, Polls, f) /\ (u # th \/ f # e)
            => Stack(u, f)' = Stack(u, f)
    BY <1>7, <1>8, <1>12, OthersKept
  <2>3. /\ ~(m + 1 = m + 1 /\ nest'[th][m + 1].role = "guard")
        /\ ~(m + 1 = m + 1 /\ nest'[th][m + 1].role = "poll")
    BY <1>15
  <2> QED BY <1>5, <1>8, <1>9, <2>1, <2>2, <2>3, MirrorStep
<1>19. Suspended'
  <2>1. \A s \in Scopes : state'[s] = state[s]
    BY <1>3, <1>4 DEF TypeOK, Event
  <2>2. \A s \in Scopes \ {e} : TASK_LOG_HOOKS'[s] = TASK_LOG_HOOKS[s]
    <3>1. \A s \in Scopes : s # Null
      BY ContextAssumption DEF Event
    <3> QED BY <1>12, <3>1 DEF OnlyStack, Owner, Stack
  <2>3. \A s \in Scopes : \A i \in m + 1..Len(nest[th]) : nest[th][i] # Is("poll", s)
    BY <1>1 DEF Is
  <2>4. e \in Scopes => BeingPolled(e)'
    <3> SUFFICES ASSUME e \in Scopes PROVE BeingPolled(e)'
      OBVIOUS
    <3>1. e # Null
      BY ContextAssumption DEF Event
    <3>2. PICK i \in 1..m : nest[th][i] \in Polls /\ nest[th][i].event = e
      BY <1>8, <3>1 DEF IsTop
    <3>3. nest[th][i] = Is("poll", e) /\ i \in 1..Len(nest[th])
      BY <1>1, <3>2, EntryTypes DEF Polls
    <3>4. BeingPolled(e)
      BY <3>3 DEF BeingPolled, Contains
    <3> QED BY <1>5, <2>3, <3>4, PolledKept
  <2> QED BY <1>5, <2>1, <2>2, <2>3, <2>4, SuspendedStep
<1>20. Lexical'
  BY DEF Lexical
<1> QED BY <1>13, <1>14, <1>16, <1>17, <1>18, <1>19, <1>20

LEMMA InitInv == Lexical /\ Init => IInv
<1> SUFFICES ASSUME Lexical, Init PROVE IInv
  OBVIOUS
<1>0. \A th \in Thread : nest[th] = <<>> /\ Len(nest[th]) = 0
  BY DEF Init
<1>1. TypeOK
  BY DEF Init, TypeOK
<1>2. Roles /\ Once /\ Previous
  BY <1>0 DEF Roles, Once, Previous
<1>3. Cells
  BY <1>0, TopOfNothing DEF Init, Cells
<1>4. Mirror
  <2> SUFFICES ASSUME NEW th \in Thread, NEW k \in 0..Len(nest[th]), NEW e \in Owner,
                      IsTop(nest[th], k, Polls, e)
               PROVE  HasHook(th, k, e) /\ NothingElse(th, k, e)
    BY DEF Mirror
  <2>1. k = 0
    BY <1>0
  <2>2. e = Null
    BY <2>1, TopOfNothing
  <2>3. Len(Stack(th, e)) = 0
    BY <2>2 DEF Init, Stack
  <2>4. Depth(nest[th], k) = 0
    BY <2>1, DepthOfNothing
  <2> QED BY <2>1, <2>3, <2>4 DEF HasHook, NothingElse
<1>5. Suspended
  BY DEF Init, Suspended, Event
<1> QED BY <1>1, <1>2, <1>3, <1>4, <1>5 DEF IInv

LEMMA NextInv == IInv /\ [Next]_vars => IInv'
<1> SUFFICES ASSUME IInv, [Next]_vars PROVE IInv'
  OBVIOUS
<1>1. CASE Next
  BY <1>1, buildKeeps, drop_guardKeeps, callKeeps, pollKeeps, call_endKeeps,
     pendingKeeps, readyKeeps, emittedKeeps DEF Next
<1>2. CASE UNCHANGED vars
  <2> USE <1>2 DEF vars
  <2>1. Lexical' /\ TypeOK' /\ Roles' /\ Once' /\ Previous' /\ Cells'
    BY DEF IInv, Lexical, TypeOK, Roles, Once, Previous, Cells
  <2>2. \A th \in Thread, e \in Owner : Stack(th, e)' = Stack(th, e)
    BY DEF Stack
  <2>3. Mirror'
    BY <2>2 DEF IInv, Mirror, HasHook, NothingElse
  <2>4. Suspended'
    BY DEF IInv, Suspended, BeingPolled
  <2> QED BY <2>1, <2>3, <2>4 DEF IInv
<1> QED BY <1>1, <1>2

LEMMA Invariance == Lexical /\ Spec => []IInv
  BY InitInv, NextInv, PTL DEF Spec
-------------------------------------------------------------------------------
(* What follows from it.                                                   *)

LEMMA InnermostIsTop ==
  ASSUME TypeOK, NEW th \in Thread, NEW roles, NEW schemas, NEW M,
         M = {n \in Entry : n.role \in roles /\ SchemaOf[n.event] \in schemas}
  PROVE  IsTop(nest[th], Len(nest[th]), M, Innermost(th, roles, schemas))
<1> DEFINE I == {i \in 1..Len(nest[th]) :
                   nest[th][i].role \in roles /\ SchemaOf[nest[th][i].event] \in schemas}
<1>1. I = {i \in 1..Len(nest[th]) : nest[th][i] \in M}
  BY NestTypes
<1>2. Innermost(th, roles, schemas) = LET i == IF I # {} THEN Max(I) ELSE 0
                                      IN  IF i = 0 THEN Null ELSE nest[th][i].event
  BY DEF Innermost, SelectLastInSeq
<1>3. I # {} => Max(I) # 0
  <2>1. Len(nest[th]) \in Nat /\ I \in SUBSET (1..Len(nest[th])) /\ 0 \notin I
    BY NestTypes
  <2> HIDE DEF I
  <2> QED BY <2>1, MaxOf
<1>4. Innermost(th, roles, schemas) = IF I # {} THEN nest[th][Max(I)].event ELSE Null
  BY <1>2, <1>3
<1> HIDE DEF I
<1>5. nest[th] \in Seq(Entry) /\ Len(nest[th]) \in 0..Len(nest[th])
  BY NestTypes
<1>6. IsTop(nest[th], Len(nest[th]), M, IF I # {} THEN nest[th][Max(I)].event ELSE Null)
  BY <1>1, <1>5, TopSelected
<1> QED BY <1>4, <1>6

LEMMA TaskEventIsTop ==
  ASSUME TypeOK, NEW th \in Thread, NEW sc, NEW M,
         M = {n \in Entry : n.role = "poll" /\ SchemaOf[n.event] = sc}
  PROVE  IsTop(nest[th], Len(nest[th]), M, TASK_EVENT(th, sc))
<1> DEFINE I == {i \in 1..Len(nest[th]) :
                   nest[th][i].role = "poll" /\ SchemaOf[nest[th][i].event] \in {sc}}
<1>1. I = {i \in 1..Len(nest[th]) : nest[th][i] \in M}
  BY NestTypes
<1>2. TASK_EVENT(th, sc) = LET i == IF I # {} THEN Max(I) ELSE 0
                           IN  IF i = 0 THEN Null ELSE nest[th][i].event
  BY DEF TASK_EVENT, PolledOf, SelectLastInSeq
<1>3. I # {} => Max(I) # 0
  <2>1. Len(nest[th]) \in Nat /\ I \in SUBSET (1..Len(nest[th])) /\ 0 \notin I
    BY NestTypes
  <2> HIDE DEF I
  <2> QED BY <2>1, MaxOf
<1>4. TASK_EVENT(th, sc) = IF I # {} THEN nest[th][Max(I)].event ELSE Null
  BY <1>2, <1>3
<1> HIDE DEF I
<1>5. nest[th] \in Seq(Entry) /\ Len(nest[th]) \in 0..Len(nest[th])
  BY NestTypes
<1>6. IsTop(nest[th], Len(nest[th]), M, IF I # {} THEN nest[th][Max(I)].event ELSE Null)
  BY <1>1, <1>5, TopSelected
<1> QED BY <1>4, <1>6

\* The event that current() finds is that of a guard alive or of a scope being
\* polled, of the schema asked for; there is one if the thread is in any.
LEMMA CurrentIs ==
  ASSUME IInv, NEW th \in Thread, NEW sc \in Schema
  PROVE  /\ current(th, sc) # Null =>
              /\ state[current(th, sc)] = "live"
              /\ SchemaOf[current(th, sc)] = sc
         /\ \A i \in 1..Len(nest[th]) :
              nest[th][i].role \in {"guard", "poll"} /\ SchemaOf[nest[th][i].event] = sc
                => current(th, sc) # Null
<1> USE DEF IInv
<1> DEFINE P == {n \in Entry : n.role = "poll" /\ SchemaOf[n.event] = sc}
           task == TASK_EVENT(th, sc)
           cell == CURRENT_EVENT[th][sc]
<1>1. \A i \in 1..Len(nest[th]) : nest[th][i] \in Entry /\ Fits(nest[th][i], state)
  BY NestTypes DEF Roles
<1>2. IsTop(nest[th], Len(nest[th]), P, task)
  BY TaskEventIsTop
<1>3. IsTop(nest[th], Len(nest[th]), GuardsOf(sc), cell)
  BY DEF Cells
<1>4. current(th, sc) = IF task # Null THEN task ELSE cell
  BY DEF current
<1> HIDE DEF task, cell
<1>5. task # Null => state[task] = "live" /\ SchemaOf[task] = sc
  BY <1>1, <1>2 DEF IsTop, Fits
<1>6. cell # Null => state[cell] = "live" /\ SchemaOf[cell] = sc
  BY <1>1, <1>3 DEF IsTop, Fits, GuardsOf
<1>7. ASSUME NEW i \in 1..Len(nest[th]),
             nest[th][i].role \in {"guard", "poll"}, SchemaOf[nest[th][i].event] = sc
      PROVE  task # Null \/ cell # Null
  <2>1. \A j \in 1..Len(nest[th]) : nest[th][j].event # Null
    BY <1>1, EntryTypes
  <2>2. CASE nest[th][i].role = "poll"
    <3>1. nest[th][i] \in P
      BY <1>1, <1>7, <2>2
    <3> QED BY <1>2, <2>1, <3>1 DEF IsTop
  <2>3. CASE nest[th][i].role = "guard"
    <3>1. nest[th][i] \in GuardsOf(sc)
      BY <1>1, <1>7, <2>3 DEF GuardsOf
    <3> QED BY <1>3, <2>1, <3>1 DEF IsTop
  <2> QED BY <1>7, <2>2, <2>3
<1> QED BY <1>4, <1>5, <1>6, <1>7

LEMMA LinesFollow == IInv => LinesReachInnermostSchema
<1> SUFFICES ASSUME IInv, NEW th \in Thread,
                    NEW inner, inner = Innermost(th, {"guard", "poll"}, Schema),
                    NEW target, target = append_log_entry(th)
             PROVE  IF inner = Null THEN target = Null
                    ELSE target # Null /\ SchemaOf[target] = SchemaOf[inner]
  BY DEF LinesReachInnermostSchema
<1> USE DEF IInv
<1> DEFINE M == {n \in Entry : n.role \in {"guard", "poll"} /\ SchemaOf[n.event] \in Schema}
<1>0. PICK m \in Nat : Whole(th, m)
  BY NestTypes DEF Whole
<1>1. \A i \in 1..m : /\ nest[th][i] \in Entry
                      /\ nest[th][i] \in M <=> nest[th][i].role \in {"guard", "poll"}
  BY <1>0, NestTypes, EntryTypes DEF Whole
<1>2. IsTop(nest[th], m, M, inner)
  BY <1>0, InnermostIsTop DEF Whole
<1> HIDE DEF M
<1>3. PICK e \in Owner : e = Task(th)
  BY TaskIsOwner
<1>4. IsTop(nest[th], m, Polls, e)
  BY <1>0, <1>3, TaskIsOwner DEF Whole
<1>5. Len(Stack(th, e)) = Depth(nest[th], m) /\ m \in 0..Len(nest[th])
  BY <1>0, <1>4 DEF Mirror, NothingElse, Whole
<1>6. Stack(th, e) \in Seq(Schema)
  BY DEF Stack, Owner, TypeOK
<1>7. CASE inner = Null
  <2>1. \A i \in 1..m : nest[th][i].role \notin {"guard", "poll"}
    <3>1. \A i \in 1..m : nest[th][i].event # Null
      BY <1>1, EntryTypes
    <3> QED BY <1>1, <1>2, <1>7, <3>1 DEF IsTop
  <2>2. e = Null
    BY <1>4, <2>1 DEF IsTop, Polls
  <2>3. Hooked(nest[th], m) = {}
    BY <2>1 DEF Hooked
  <2>4. Stack(th, e) = <<>>
    BY <1>5, <1>6, <2>3, FS_EmptySet DEF Depth
  <2>5. LOG_HOOKS[th] = <<>>
    BY <2>2, <2>4 DEF Stack
  <2> QED BY <1>3, <1>7, <2>2, <2>5 DEF append_log_entry, InnermostHook
<1>8. CASE inner # Null
  <2>1. PICK i \in 1..m : /\ nest[th][i] \in M /\ nest[th][i].event = inner
                          /\ \A j \in i + 1..m : nest[th][j] \notin M
    BY <1>2, <1>8 DEF IsTop
  <2>2. nest[th][i].role \in {"guard", "poll"}
    BY <1>1, <2>1
  <2>3. \A j \in i + 1..m : nest[th][j].role \notin {"guard", "poll"}
    BY <1>1, <2>1
  <2>4. PICK sc \in Schema : sc = SchemaOf[inner]
    BY <1>1, <2>1, EntryTypes
  <2>5. i \in 0..Len(nest[th]) /\ i \in 1..Len(nest[th]) /\ i > 0
    BY <1>0 DEF Whole
  \* No scope begins after the innermost entry, so the stack is the same ...
  <2>6. IsTop(nest[th], i, Polls, e)
    <3>1. \A j \in i + 1..m : nest[th][j] \notin Polls
      BY <2>3 DEF Polls
    <3>2. CASE e = Null /\ \A j \in 1..m : nest[th][j] \notin Polls
      BY <3>2 DEF IsTop
    <3>3. ASSUME NEW h \in 1..m, nest[th][h] \in Polls, nest[th][h].event = e,
                 \A j \in h + 1..m : nest[th][j] \notin Polls
          PROVE  IsTop(nest[th], i, Polls, e)
      <4>1. h \in 1..i /\ \A j \in h + 1..i : nest[th][j] \notin Polls
        BY <3>1, <3>3
      <4> QED BY <3>3, <4>1 DEF IsTop
    <3> QED BY <1>4, <3>2, <3>3 DEF IsTop
  \* ... and no guard either, so its hook is the last.
  <2>7. Depth(nest[th], i) = Depth(nest[th], m)
    <3>1. Hooked(nest[th], i) = Hooked(nest[th], m)
      BY <2>3 DEF Hooked
    <3> QED BY <3>1 DEF Depth
  <2>8. PICK c \in Nat : c = Depth(nest[th], i)
    BY HookedFinite
  <2>9. c \in 1..Len(Stack(th, e)) /\ Stack(th, e)[c] = sc
    <3>1. HasHook(th, i, e)
      BY <2>5, <2>6 DEF Mirror
    <3> QED BY <2>1, <2>2, <2>4, <2>5, <2>8, <3>1 DEF HasHook
  <2>10. Stack(th, e) # <<>> /\ Last(Stack(th, e)) = sc
    <3>1. Len(Stack(th, e)) = c
      BY <1>5, <2>7, <2>8
    <3> QED BY <2>9, <3>1 DEF Last
  <2>11. InnermostHook(th) = sc
    <3>1. CASE e = Null
      BY <1>3, <2>10, <3>1 DEF InnermostHook, Stack
    <3>2. CASE e # Null
      BY <1>3, <2>10, <3>2 DEF InnermostHook, Stack
    <3> QED BY <3>1, <3>2
  <2>12. target = current(th, sc)
    <3>1. sc # Null
      BY ContextAssumption
    <3> QED BY <2>11, <3>1 DEF append_log_entry
  <2>13. target # Null /\ SchemaOf[target] = sc
    BY <2>1, <2>2, <2>4, <2>5, <2>12, CurrentIs
  <2> QED BY <1>8, <2>4, <2>13
<1> QED BY <1>7, <1>8

LEMMA HooksFollow == IInv => HooksMirrorNesting
<1> SUFFICES ASSUME IInv PROVE HooksMirrorNesting
  OBVIOUS
<1>1. ASSUME NEW th \in Thread, NEW k \in 0..Len(nest[th])
      PROVE  /\ k > 0 /\ nest[th][k].role \in {"guard", "poll"} =>
                  /\ Depth(nest[th], k) <= Len(HookStack(th, k))
                  /\ HookStack(th, k)[Depth(nest[th], k)] = SchemaOf[nest[th][k].event]
             /\ k = Len(nest[th]) \/ nest[th][k + 1].role = "poll" =>
                  Len(HookStack(th, k)) = Depth(nest[th], k)
  <2>1. PICK e \in Owner : IsTop(nest[th], k, Polls, e) /\ HookStack(th, k) = Stack(th, e)
    BY OwnerOf DEF IInv
  <2>2. HasHook(th, k, e) /\ NothingElse(th, k, e)
    BY <2>1 DEF IInv, Mirror
  <2>3. Depth(nest[th], k) \in 1..Len(Stack(th, e)) =>
          Depth(nest[th], k) <= Len(Stack(th, e))
    OBVIOUS
  <2> QED BY <2>1, <2>2, <2>3 DEF HasHook, NothingElse
<1> QED BY <1>1 DEF HooksMirrorNesting, IInv, Suspended
-------------------------------------------------------------------------------
\* Cells and stacks hold guards' events and hooks of schemas, and nests what
\* they are made of.
THEOREM TypeCorrect == Lexical /\ Spec => []TypeOK
<1>1. IInv => TypeOK
  BY DEF IInv
<1> QED BY <1>1, Invariance, PTL

\* With lexical guards the cell of a thread holds the innermost guard alive on
\* it, whatever scopes, requests and emit closures the guards are mixed with.
THEOREM CellIsInnermostGuard == Lexical /\ Spec => []CurrentIsInnermostGuard
<1>1. IInv => CurrentIsInnermostGuard
  <2> SUFFICES ASSUME IInv, NEW th \in Thread, NEW sc \in Schema
               PROVE  CURRENT_EVENT[th][sc] = Innermost(th, {"guard"}, {sc})
    BY DEF CurrentIsInnermostGuard
  <2>1. GuardsOf(sc) = {n \in Entry : n.role \in {"guard"} /\ SchemaOf[n.event] \in {sc}}
    BY DEF GuardsOf
  <2>2. PICK e : e = Innermost(th, {"guard"}, {sc})
    OBVIOUS
  <2>3. IsTop(nest[th], Len(nest[th]), GuardsOf(sc), e)
    BY <2>1, <2>2, InnermostIsTop DEF IInv
  <2>4. IsTop(nest[th], Len(nest[th]), GuardsOf(sc), CURRENT_EVENT[th][sc])
    BY DEF IInv, Cells
  <2>5. nest[th] \in Seq(Entry) /\ Len(nest[th]) \in 0..Len(nest[th])
    BY NestTypes DEF IInv
  <2> QED BY <2>2, <2>3, <2>4, <2>5, TopUnique
<1> QED BY <1>1, Invariance, PTL

\* With lexical guards current() never hands out an event that is being emitted
\* or has been freed: the pointers of context.rs are sound under this discipline.
THEOREM CurrentEventIsLive == Lexical /\ Spec => []CurrentIsLive
<1>1. IInv => CurrentIsLive
  BY CurrentIs DEF CurrentIsLive
<1> QED BY <1>1, Invariance, PTL

\* With lexical guards the hook stacks nest as the guards and scopes do: each
\* pop takes the hook of its own guard, on the stack it was pushed on.
THEOREM HooksAreMirrored == Lexical /\ Spec => []HooksMirrorNesting
  BY HooksFollow, Invariance, PTL

\* With lexical guards a line logged through a crate-root macro reaches the
\* schema of the innermost guard or scope, and is not lost while there is one.
THEOREM LinesReachTheirSchema == Lexical /\ Spec => []LinesReachInnermostSchema
  BY LinesFollow, Invariance, PTL
===============================================================================
