-------------------------- MODULE LuaEventProofs --------------------------
(***************************************************************************)
(* Theorems about LuaEvent, for all events and listeners and any bound on  *)
(* dispatches within dispatches.                                           *)
(***************************************************************************)
EXTENDS LuaEvent, TLAPS

\* The listeners of a list that are still ahead of position i.
AheadIn(list, i) == {list[j] : j \in i + 1 .. Len(list)}

\* What holds of a dispatch d that walks list: it remembers only listeners that
\* are still in the list, and EachOnce.
Sound(list, d) ==
    /\ d.called \subseteq ToSet(list)
    /\ ~d.cut => d.owed \subseteq AheadIn(list, d.i) /\ d.called \cap AheadIn(list, d.i) = {}

\* No listener is in a list twice.
NoneTwice(list) == \A i, j \in DOMAIN list : list[i] = list[j] => i = j

IInv ==
    /\ TypeOK
    /\ \A e \in Events : NoneTwice(mEvents[e])
    /\ \A n \in DOMAIN stack : Sound(mEvents[stack[n].ev], stack[n])

-----------------------------------------------------------------------------
(* Lists *)

\* What a list holds when an element is appended.
LEMMA AppendFacts ==
    ASSUME NEW S, NEW s \in Seq(S), NEW x \in S
    PROVE  /\ Append(s, x) \in Seq(S)
           /\ Len(Append(s, x)) = Len(s) + 1 /\ Len(s) \in Nat
           /\ DOMAIN s = 1 .. Len(s) /\ DOMAIN Append(s, x) = 1 .. Len(s) + 1
           /\ \A i \in 1 .. Len(s) : Append(s, x)[i] = s[i]
           /\ Append(s, x)[Len(s) + 1] = x
OBVIOUS

\* What two lists, one after the other, hold.
LEMMA ConcatFacts ==
    ASSUME NEW S, NEW a \in Seq(S), NEW b \in Seq(S)
    PROVE  /\ a \o b \in Seq(S) /\ Len(a \o b) = Len(a) + Len(b)
           /\ \A i \in 1 .. Len(a) + Len(b) : (a \o b)[i] = IF i <= Len(a) THEN a[i] ELSE b[i - Len(a)]
OBVIOUS

\* What a list holds when the element at position k is taken out.
LEMMA RemoveAtFacts ==
    ASSUME NEW S, NEW s \in Seq(S), NEW k \in 1 .. Len(s)
    PROVE  /\ RemoveAt(s, k) \in Seq(S)
           /\ Len(s) \in Nat /\ Len(RemoveAt(s, k)) = Len(s) - 1
           /\ \A i \in 1 .. Len(s) - 1 : RemoveAt(s, k)[i] = IF i < k THEN s[i] ELSE s[i + 1]
<1> DEFINE a == SubSeq(s, 1, k - 1)
           b == SubSeq(s, k + 1, Len(s))
<1>1. /\ a \in Seq(S) /\ Len(a) = k - 1
      /\ \A i \in 1 .. k - 1 : a[i] = s[i]
  OBVIOUS
<1>2. /\ b \in Seq(S) /\ Len(b) = Len(s) - k
      /\ \A i \in 1 .. Len(s) - k : b[i] = s[k + i]
  OBVIOUS
<1>3. RemoveAt(s, k) = a \o b
  BY DEF RemoveAt
<1> HIDE DEF a, b
<1>4. /\ a \o b \in Seq(S) /\ Len(a \o b) = Len(a) + Len(b)
      /\ \A i \in 1 .. Len(a) + Len(b) : (a \o b)[i] = IF i <= Len(a) THEN a[i] ELSE b[i - Len(a)]
  BY <1>1, <1>2, ConcatFacts
<1>5. ASSUME NEW i \in 1 .. Len(s) - 1
      PROVE  (a \o b)[i] = IF i < k THEN s[i] ELSE s[i + 1]
  <2>1. CASE i < k
    BY <1>1, <1>2, <1>4, <2>1
  <2>2. CASE ~(i < k)
    <3>1. i - (k - 1) \in 1 .. Len(s) - k
      BY <2>2
    <3>2. (a \o b)[i] = b[i - (k - 1)]
      BY <1>1, <1>2, <1>4, <2>2
    <3>3. b[i - (k - 1)] = s[k + (i - (k - 1))]
      BY <1>2, <3>1
    <3>4. k + (i - (k - 1)) = i + 1
      OBVIOUS
    <3> QED BY <2>2, <3>2, <3>3, <3>4
  <2> QED BY <2>1, <2>2
<1> QED BY <1>1, <1>2, <1>3, <1>4, <1>5

-----------------------------------------------------------------------------
(* What each operation does to a list and to a dispatch that walks it *)

\* A listener that is not in the list comes last.
LEMMA Adding ==
    ASSUME NEW list \in Seq(Listeners), NEW l \in Listeners, l \notin ToSet(list), NoneTwice(list)
    PROVE  /\ NoneTwice(Append(list, l))
           /\ \A d \in Dispatches : Sound(list, d) => Sound(Append(list, l), d)
<1> DEFINE new == Append(list, l)
<1>1. /\ Len(new) = Len(list) + 1 /\ Len(list) \in Nat
      /\ DOMAIN list = 1 .. Len(list) /\ DOMAIN new = 1 .. Len(list) + 1
      /\ \A i \in 1 .. Len(list) : new[i] = list[i]
      /\ new[Len(list) + 1] = l
  BY AppendFacts
<1> HIDE DEF new
<1>2. \A i \in 1 .. Len(list) : list[i] # l
  BY <1>1 DEF ToSet
<1>3. NoneTwice(new)
  BY <1>1, <1>2 DEF NoneTwice
<1>4. ToSet(list) \subseteq ToSet(new)
  BY <1>1 DEF ToSet
<1>5. ASSUME NEW d \in Dispatches, Sound(list, d)
      PROVE  Sound(new, d)
  <2>1. d.i \in Nat
    BY DEF Dispatches
  <2>2. AheadIn(list, d.i) \subseteq AheadIn(new, d.i)
    BY <1>1, <2>1 DEF AheadIn
  <2>3. AheadIn(new, d.i) \subseteq AheadIn(list, d.i) \cup {l}
    BY <1>1, <2>1 DEF AheadIn
  <2>4. l \notin d.called
    BY <1>5 DEF Sound
  <2> QED BY <1>4, <1>5, <2>2, <2>3, <2>4 DEF Sound
<1> QED BY <1>3, <1>5 DEF new

\* The listener at position k is taken out.
LEMMA Removing ==
    ASSUME NEW list \in Seq(Listeners), NEW k \in DOMAIN list, NoneTwice(list)
    PROVE  /\ RemoveAt(list, k) \in Seq(Listeners)
           /\ NoneTwice(RemoveAt(list, k))
           /\ ToSet(list) \ {list[k]} \subseteq ToSet(RemoveAt(list, k))
<1> DEFINE new == RemoveAt(list, k)
<1>0. DOMAIN list = 1 .. Len(list)
  OBVIOUS
<1>1. /\ new \in Seq(Listeners)
      /\ Len(list) \in Nat /\ Len(new) = Len(list) - 1
      /\ \A i \in 1 .. Len(list) - 1 : new[i] = IF i < k THEN list[i] ELSE list[i + 1]
  BY <1>0, RemoveAtFacts
<1> HIDE DEF new
<1>2. DOMAIN new = 1 .. Len(list) - 1
  BY <1>1
<1>3. NoneTwice(new)
  <2> SUFFICES ASSUME NEW i \in DOMAIN new, NEW j \in DOMAIN new, new[i] = new[j] PROVE i = j
    BY DEF NoneTwice
  <2> DEFINE p(n) == IF n < k THEN n ELSE n + 1
  <2>1. p(i) \in DOMAIN list /\ p(j) \in DOMAIN list
    BY <1>0, <1>1, <1>2
  <2>2. new[i] = list[p(i)] /\ new[j] = list[p(j)]
    BY <1>1, <1>2
  <2>3. p(i) = p(j)
    BY <2>1, <2>2 DEF NoneTwice
  <2> QED BY <1>0, <1>2, <2>3
<1>4. ASSUME NEW l \in ToSet(list), l # list[k]
      PROVE  l \in ToSet(new)
  <2>1. PICK i \in DOMAIN list : list[i] = l
    BY DEF ToSet
  <2>2. CASE i < k
    <3>1. i \in DOMAIN new /\ new[i] = l
      BY <1>0, <1>1, <1>2, <2>1, <2>2
    <3> QED BY <3>1 DEF ToSet
  <2>3. CASE i > k
    <3>1. i - 1 \in DOMAIN new /\ new[i - 1] = l
      BY <1>0, <1>1, <1>2, <2>1, <2>3
    <3> QED BY <3>1 DEF ToSet
  <2> QED BY <1>0, <1>4, <2>1, <2>2, <2>3
<1> QED BY <1>1, <1>3, <1>4 DEF new

\* The listener after the position of a dispatch is called.
LEMMA Calling ==
    ASSUME NEW list \in Seq(Listeners), NoneTwice(list),
           NEW d \in Dispatches, Sound(list, d), d.i < Len(list)
    PROVE  /\ Called(d, list[d.i + 1]) \in Dispatches
           /\ Sound(list, Called(d, list[d.i + 1]))
<1> DEFINE l == list[d.i + 1]
           new == Called(d, l)
<1>1. d.i \in Nat /\ DOMAIN list = 1 .. Len(list) /\ Len(list) \in Nat
  BY DEF Dispatches
<1>2. d.i + 1 \in DOMAIN list /\ l \in Listeners /\ l \in ToSet(list)
  BY <1>1 DEF ToSet
<1>3. AheadIn(list, d.i) = AheadIn(list, d.i + 1) \cup {l}
  <2>1. d.i + 1 .. Len(list) = (d.i + 1 + 1 .. Len(list)) \cup {d.i + 1}
    BY <1>1, <1>2
  <2> QED BY <2>1 DEF AheadIn
<1>4. l \notin AheadIn(list, d.i + 1)
  BY <1>1, <1>2 DEF AheadIn, NoneTwice
<1> HIDE DEF l
<1>5. /\ new \in Dispatches /\ new.i = d.i + 1 /\ new.cut = d.cut
      /\ new.owed = d.owed \ {l} /\ new.called = d.called \cup {l}
  BY <1>1, <1>2 DEF Dispatches, Called
<1> HIDE DEF new
<1>6. Sound(list, new)
  BY <1>2, <1>3, <1>4, <1>5 DEF Sound
<1> QED BY <1>5, <1>6 DEF new, l

-----------------------------------------------------------------------------
(* The invariant *)

LEMMA InitStep == Init => IInv
BY DEF Init, IInv, TypeOK, NoneTwice

\* A dispatch that begins owes the whole list.
LEMMA StartStep ==
    ASSUME IInv, NEW e \in Events, Start(e)
    PROVE  /\ stack' \in Seq(Dispatches)
           /\ \A n \in DOMAIN stack' : Sound(mEvents[stack'[n].ev], stack'[n])
<1> DEFINE d == [ev |-> e, i |-> 0, owed |-> ToSet(mEvents[e]), called |-> {}, cut |-> FALSE]
<1>1. mEvents[e] \in Seq(Listeners) /\ stack \in Seq(Dispatches)
  BY DEF IInv, TypeOK
<1>2. ToSet(mEvents[e]) = AheadIn(mEvents[e], 0) /\ ToSet(mEvents[e]) \subseteq Listeners
  <2>1. DOMAIN mEvents[e] = 0 + 1 .. Len(mEvents[e])
    BY <1>1
  <2> QED BY <1>1, <2>1 DEF ToSet, AheadIn
<1>3. d \in Dispatches /\ Sound(mEvents[d.ev], d)
  BY <1>2 DEF Dispatches, Sound
<1>4. stack' = Append(stack, d)
  BY DEF Start
<1> HIDE DEF d
<1>5. /\ stack' \in Seq(Dispatches)
      /\ DOMAIN stack = 1 .. Len(stack) /\ DOMAIN stack' = 1 .. Len(stack) + 1 /\ Len(stack) \in Nat
      /\ \A n \in 1 .. Len(stack) : stack'[n] = stack[n]
      /\ stack'[Len(stack) + 1] = d
  BY <1>1, <1>3, <1>4, AppendFacts
<1>6. ASSUME NEW n \in DOMAIN stack' PROVE Sound(mEvents[stack'[n].ev], stack'[n])
  <2>1. CASE n = Len(stack) + 1
    BY <1>3, <1>5, <2>1
  <2>2. CASE n \in 1 .. Len(stack)
    BY <1>5, <2>2 DEF IInv
  <2> QED BY <1>5, <2>1, <2>2
<1> QED BY <1>5, <1>6

\* Every step keeps the invariant.
LEMMA NextStep == IInv /\ [Next]_vars => IInv'
<1> SUFFICES ASSUME IInv, [Next]_vars PROVE IInv'
  OBVIOUS
<1>t. /\ mEvents \in [Events -> Seq(Listeners)] /\ mCmds \in Seq(Events) /\ stack \in Seq(Dispatches)
      /\ DOMAIN stack = 1 .. Len(stack) /\ Len(stack) \in Nat
      /\ \A n \in DOMAIN stack : stack[n] \in Dispatches /\ stack[n].ev \in Events
  <2>1. mEvents \in [Events -> Seq(Listeners)] /\ mCmds \in Seq(Events) /\ stack \in Seq(Dispatches)
    BY DEF IInv, TypeOK
  <2>2. \A d \in Dispatches : d.ev \in Events
    BY DEF Dispatches
  <2> QED BY <2>1, <2>2
<1>s. \A n \in DOMAIN stack : Sound(mEvents[stack[n].ev], stack[n])
  BY DEF IInv
<1>1. CASE Call
  <2> DEFINE l == mEvents[Top.ev][Top.i + 1]
  <2>1. Len(stack) \in DOMAIN stack /\ Top \in Dispatches /\ Top.ev \in Events
    BY <1>1, <1>t DEF Call, Top
  <2>2. Top.i < Len(mEvents[Top.ev]) /\ mEvents[Top.ev] \in Seq(Listeners) /\ NoneTwice(mEvents[Top.ev])
    BY <1>1, <1>t, <2>1 DEF Call, More, IInv
  <2>3. Sound(mEvents[Top.ev], Top)
    BY <1>s, <2>1 DEF Top
  <2>4. Called(Top, l) \in Dispatches /\ Sound(mEvents[Top.ev], Called(Top, l)) /\ Called(Top, l).ev = Top.ev
    BY <2>1, <2>2, <2>3, Calling DEF Called
  <2>5. stack' = [stack EXCEPT ![Len(stack)] = Called(Top, l)] /\ mEvents' = mEvents /\ mCmds' = mCmds
    BY <1>1 DEF Call, Top
  <2> HIDE DEF l
  <2>6. /\ stack' \in Seq(Dispatches) /\ DOMAIN stack' = DOMAIN stack
        /\ stack'[Len(stack)] = Called(Top, l)
        /\ \A n \in DOMAIN stack : n # Len(stack) => stack'[n] = stack[n]
    BY <1>t, <2>1, <2>4, <2>5
  <2>7. ASSUME NEW n \in DOMAIN stack' PROVE Sound(mEvents[stack'[n].ev], stack'[n])
    BY <1>s, <2>4, <2>6
  <2> QED BY <2>5, <2>6, <2>7 DEF IInv, TypeOK
<1>2. CASE Return
  <2>1. /\ stack' \in Seq(Dispatches) /\ mEvents' = mEvents /\ mCmds' = mCmds
        /\ \A n \in DOMAIN stack' : n \in DOMAIN stack /\ stack'[n] = stack[n]
    <3>1. stack # <<>> /\ stack' = SubSeq(stack, 1, Len(stack) - 1) /\ mEvents' = mEvents /\ mCmds' = mCmds
      BY <1>2 DEF Return, Front
    <3> QED BY <1>t, <3>1
  <2> QED BY <1>s, <2>1 DEF IInv, TypeOK
<1>3. CASE Fail
  BY <1>3 DEF Fail, IInv, TypeOK
<1>4. CASE Update
  <2>1. Head(mCmds) \in Events /\ Tail(mCmds) \in Seq(Events) /\ mCmds' = Tail(mCmds)
        /\ Start(Head(mCmds)) /\ mEvents' = mEvents
    BY <1>4, <1>t DEF Update
  <2> QED BY <2>1, StartStep DEF IInv, TypeOK
<1>5. ASSUME NEW e \in Events, DispatchEvent(e) PROVE IInv'
  <2>1. Start(e) /\ mEvents' = mEvents /\ mCmds' = mCmds
    BY <1>5 DEF DispatchEvent
  <2> QED BY <2>1, StartStep DEF IInv, TypeOK
<1>6. ASSUME NEW e \in Events, DispatchLater(e) PROVE IInv'
  BY <1>6, <1>t DEF DispatchLater, IInv, TypeOK
<1>7. ASSUME NEW e \in Events, NEW l \in Listeners, AddEventListener(e, l) PROVE IInv'
  <2>1. /\ l \notin ToSet(mEvents[e]) /\ mEvents' = [mEvents EXCEPT ![e] = Append(mEvents[e], l)]
        /\ mCmds' = mCmds /\ stack' = stack
    BY <1>7 DEF AddEventListener, Added
  <2>2. mEvents[e] \in Seq(Listeners) /\ NoneTwice(mEvents[e])
    BY <1>t DEF IInv
  <2>3. /\ NoneTwice(Append(mEvents[e], l))
        /\ \A d \in Dispatches : Sound(mEvents[e], d) => Sound(Append(mEvents[e], l), d)
    BY <2>1, <2>2, Adding
  <2>4. mEvents' \in [Events -> Seq(Listeners)] /\ mEvents'[e] = Append(mEvents[e], l)
        /\ \A f \in Events : f # e => mEvents'[f] = mEvents[f]
    BY <1>t, <2>1, <2>2, AppendFacts
  <2>5. \A f \in Events : NoneTwice(mEvents'[f])
    BY <2>3, <2>4 DEF IInv
  <2>6. \A n \in DOMAIN stack : Sound(mEvents'[stack[n].ev], stack[n])
    BY <1>t, <1>s, <2>3, <2>4
  <2> QED BY <1>t, <2>1, <2>4, <2>5, <2>6 DEF IInv, TypeOK
<1>8. ASSUME NEW e \in Events, NEW k \in DOMAIN mEvents[e], RemoveEventListener(e, k) PROVE IInv'
  <2> DEFINE l == mEvents[e][k]
             new == RemoveAt(mEvents[e], k)
  <2>1. /\ mEvents' = [mEvents EXCEPT ![e] = new] /\ mCmds' = mCmds
        /\ stack' = [n \in DOMAIN stack |-> IF stack[n].ev = e THEN Cut(stack[n], l) ELSE stack[n]]
    BY <1>8 DEF RemoveEventListener
  <2>2. mEvents[e] \in Seq(Listeners) /\ NoneTwice(mEvents[e])
    BY <1>t DEF IInv
  <2>3. new \in Seq(Listeners) /\ NoneTwice(new) /\ ToSet(mEvents[e]) \ {l} \subseteq ToSet(new)
    BY <2>2, Removing
  <2> HIDE DEF l, new
  <2>4. /\ mEvents' \in [Events -> Seq(Listeners)] /\ mEvents'[e] = new
        /\ \A f \in Events : f # e => mEvents'[f] = mEvents[f]
    BY <1>t, <2>1, <2>3
  <2>5. \A f \in Events : NoneTwice(mEvents'[f])
    BY <2>3, <2>4 DEF IInv
  <2>6. ASSUME NEW n \in DOMAIN stack, stack[n].ev = e
        PROVE  Cut(stack[n], l) \in Dispatches /\ Cut(stack[n], l).ev = e /\ Sound(new, Cut(stack[n], l))
    <3>1. stack[n] \in Dispatches /\ stack[n].called \subseteq ToSet(mEvents[e])
      BY <1>t, <1>s, <2>6 DEF Sound
    <3>2. /\ Cut(stack[n], l) \in Dispatches /\ Cut(stack[n], l).ev = e /\ Cut(stack[n], l).cut = TRUE
          /\ Cut(stack[n], l).called = stack[n].called \ {l}
      BY <2>6, <3>1 DEF Cut, Dispatches
    <3> QED BY <2>3, <3>1, <3>2 DEF Sound
  <2>7. DOMAIN stack' = 1 .. Len(stack) /\ \A n \in 1 .. Len(stack) : stack'[n] \in Dispatches
    BY <1>t, <2>1, <2>6
  <2>8. stack' \in Seq(Dispatches)
    BY <1>t, <2>1, <2>7
  <2>9. \A n \in DOMAIN stack' : Sound(mEvents'[stack'[n].ev], stack'[n])
    BY <1>t, <1>s, <2>1, <2>4, <2>6
  <2> QED BY <1>t, <2>1, <2>4, <2>5, <2>8, <2>9 DEF IInv, TypeOK
<1>9. CASE UNCHANGED vars
  BY <1>9 DEF vars, IInv, TypeOK
<1> QED BY <1>1, <1>2, <1>3, <1>4, <1>5, <1>6, <1>7, <1>8, <1>9 DEF Next

-----------------------------------------------------------------------------
(* Theorems *)

\* The invariant: lists hold a listener once, and every dispatch in progress is
\* sound for the list as it is now.
THEOREM Inductive == Spec => []IInv
BY InitStep, NextStep, PTL DEF Spec

\* Every method of LuaEvent keeps the lists, the events put off and the
\* dispatches in their types.
THEOREM EventTypeCorrect == Spec => []TypeOK
<1>1. IInv => TypeOK
  BY DEF IInv
<1> QED BY <1>1, Inductive, PTL

\* Whatever listeners add, remove and dispatch while they are called, a dispatch
\* calls each listener of its start once, unless one is removed under it.
THEOREM EachOnceAlways == Spec => []EachOnce
<1>1. IInv => EachOnce
  BY DEF IInv, EachOnce, Sound, Ahead, AheadIn
<1> QED BY <1>1, Inductive, PTL

\* A dispatch that comes to its end leaves out none that it found at its start.
THEOREM NoneMissedAlways == Spec => NoneMissed
<1>1. IInv /\ [Next]_vars => [Return => Top.owed = {} \/ Top.cut]_vars
  <2> SUFFICES ASSUME IInv, Return PROVE Top.owed = {} \/ Top.cut
    OBVIOUS
  <2>1. stack \in Seq(Dispatches) /\ stack # <<>>
    BY DEF IInv, TypeOK, Return
  <2>2. Len(stack) \in DOMAIN stack /\ Top \in Dispatches
    BY <2>1 DEF Top
  <2>3. Top.i \in Nat /\ Top.cut \in BOOLEAN /\ mEvents[Top.ev] \in Seq(Listeners)
    BY <2>2 DEF Dispatches, IInv, TypeOK
  <2>4. AheadIn(mEvents[Top.ev], Top.i) = {}
    <3>1. Top.i + 1 .. Len(mEvents[Top.ev]) = {}
      BY <2>3 DEF Return, More
    <3> QED BY <3>1 DEF AheadIn
  <2>5. Sound(mEvents[Top.ev], Top)
    BY <2>2 DEF IInv, Top
  <2> QED BY <2>3, <2>4, <2>5 DEF Sound
<1> QED BY <1>1, Inductive, PTL DEF Spec, NoneMissed
=============================================================================
