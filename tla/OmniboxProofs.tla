---------------------------- MODULE OmniboxProofs ----------------------------
(***************************************************************************)
(* What the omnibox promises, for every set of entries, types and texts,   *)
(* and any number of goroutines.                                           *)
(***************************************************************************)
EXTENDS Omnibox, FiniteSetTheorems, WellFoundedInduction, TLAPS

-----------------------------------------------------------------------------
\* The views, the bars and the focus ring.

\* Which steps change the view, and how the others leave it alone.
LEMMA ViewSteps ==
  ASSUME [Next]_vars
  PROVE  \/ ClickMode \/ \E cat \in Types \cup {All} : ChooseCategory(cat)
         \/ SwitchToSearch
         \/ \E id \in {Head(idle).id} : SwitchToDetail(id) /\ UNCHANGED category
         \/ UNCHANGED <<viewVars, category>>
BY Zenon DEF Next, User, Goroutines, Callbacks, Escape, Leave, Quit, UseSearch, Pick, Save,
   TaskEnds, TaskFails, Dispatch, DispatchList, SetText, Select, ListAnswered, LoadFails, LoadEnds,
   SearchChanged, TimerFires, FilterAndShow, searchVars, listVars, viewVars, barVars, vars

\* What each of them does, the list apart.
LEMMA Adding ==
  ASSUME ShowAdd, TabsAgree
  PROVE  /\ mode' = "add"
         /\ shown' = (shown \ {"detail", "allTab", "search"}) \cup {"modeBar", "add"}
         /\ category' = tab' /\ tab' # All /\ form' = tab'
         /\ ring' = [view |-> "add", form |-> form']
<1>1. category' = tab' /\ tab' # All
  BY LoginAssumption, TypesAssumption
     DEF ShowAdd, ChangeCategory, FilterAndShow, KeepCategory, TabsAgree
<1> QED
  BY <1>1 DEF ShowAdd, RebuildFocusRing

LEMMA Choosing ==
  ASSUME NEW cat, ChooseCategory(cat)
  PROVE  /\ UNCHANGED <<mode, modeTab, shown>>
         /\ category' = cat /\ tab' = cat
         /\ mode = "add" => cat # All /\ form' = cat /\ ring' = [view |-> "add", form |-> cat]
         /\ mode # "add" => UNCHANGED <<form, ring>>
BY DEF ChooseCategory, ChangeCategory, FilterAndShow, RebuildFocusRing

LEMMA Searching ==
  ASSUME ShowSearch, KeepCategory
  PROVE  /\ mode' = "search" /\ UNCHANGED <<tab, category>>
         /\ shown' = (shown \ {"detail", "add"}) \cup {"modeBar", "allTab", "search"}
         /\ ring'.view = "search"
BY DEF ShowSearch, KeepCategory, RebuildFocusRing

ViewsOK == OneView /\ TabsAgree /\ RingFresh

LEMMA ViewsStep ==
  ASSUME ViewsOK, [Next]_vars
  PROVE  ViewsOK'
<1> USE DEF ViewsOK
<1>1. ASSUME ShowAdd, modeTab' = "add" PROVE ViewsOK'
  <2>1. OneView'
    BY <1>1, Adding DEF OneView, Views
  <2>2. TabsAgree' /\ RingFresh'
    BY <1>1, Adding DEF TabsAgree, RingFresh
  <2> QED
    BY <2>1, <2>2
<1>2. ASSUME ShowSearch, KeepCategory, modeTab' = "search" PROVE ViewsOK'
  <2>1. OneView'
    BY <1>2, Searching DEF OneView, Views
  <2>2. TabsAgree' /\ RingFresh'
    BY <1>2, Searching DEF TabsAgree, RingFresh
  <2> QED
    BY <2>1, <2>2
<1>3. CASE ClickMode
  BY <1>1, <1>2, <1>3 DEF ClickMode
<1>4. ASSUME NEW cat \in Types \cup {All}, ChooseCategory(cat) PROVE ViewsOK'
  <2>1. OneView'
    BY <1>4, Choosing DEF OneView
  <2>2. TabsAgree' /\ RingFresh'
    BY <1>4, Choosing DEF TabsAgree, RingFresh
  <2> QED
    BY <2>1, <2>2
<1>5. CASE SwitchToSearch
  BY <1>2, <1>5 DEF SwitchToSearch
<1>6. ASSUME NEW id, SwitchToDetail(id), UNCHANGED category PROVE ViewsOK'
  <2>1. mode' = "detail" /\ UNCHANGED <<modeTab, tab>> /\ ring'.view = "detail"
        /\ shown' = (shown \ {"search", "add", "modeBar", "categoryBar"}) \cup {"detail"}
    BY <1>6 DEF SwitchToDetail, RebuildFocusRing, barVars
  <2> QED
    BY <1>6, <2>1 DEF OneView, TabsAgree, RingFresh, Views
<1>7. CASE UNCHANGED <<viewVars, category>>
  BY <1>7 DEF viewVars, barVars, OneView, TabsAgree, RingFresh
<1> QED
  BY <1>3, <1>4, <1>5, <1>6, <1>7, ViewSteps

LEMMA ViewsInvariant == Spec => []ViewsOK
<1>1. Init => ViewsOK
  BY DEF Init, SearchInit, ViewsOK, OneView, TabsAgree, RingFresh, Views
<1> QED
  BY <1>1, ViewsStep, PTL DEF Spec

\* One view is visible at a time, with the bars that go with it, whichever callback switched
\* to it and from where.
THEOREM OmniboxOneView == Spec => []OneView
<1>1. ViewsOK => OneView
  BY DEF ViewsOK
<1> QED
  BY <1>1, ViewsInvariant, PTL

\* The list is filtered by the active tab, the mode bar shows the mode, and the add form is
\* the one of the active tab, which is then a type.
THEOREM OmniboxTabsAgree == Spec => []TabsAgree
<1>1. ViewsOK => TabsAgree
  BY DEF ViewsOK
<1> QED
  BY <1>1, ViewsInvariant, PTL

\* The focus ring holds the widgets of the view, and of the form, that are shown.
THEOREM OmniboxRingFresh == Spec => []RingFresh
<1>1. ViewsOK => RingFresh
  BY DEF ViewsOK
<1> QED
  BY <1>1, ViewsInvariant, PTL

-----------------------------------------------------------------------------
\* Sets of numbers, and functions of which each value is given by the one before: the provers
\* have no induction to offer, so it is derived from a smallest set of numbers.

\* A nonempty set of finite sets has one that contains no other.
LEMMA Smallest ==
  ASSUME NEW T, \A t \in T : IsFiniteSet(t), T # {}
  PROVE  \E m \in T : \A t \in T : t \subseteq m => t = m
<1> DEFINE U == UNION T
<1>1. IsWellFoundedOn(StrictSubsetOrdering(U), FiniteSubsetsOf(U))
  BY FS_StrictSubsetOrderingWellFounded
<1>2. T \subseteq FiniteSubsetsOf(U)
  BY DEF FiniteSubsetsOf
<1>3. PICK m \in T : \A t \in T : ~(<<t, m>> \in StrictSubsetOrdering(U))
  BY <1>1, <1>2, WFMin
<1>4. ASSUME NEW t \in T, t \subseteq m PROVE t = m
  <2>1. t \in SUBSET U /\ m \in SUBSET U
    OBVIOUS
  <2> QED
    BY <1>3, <1>4, <2>1 DEF StrictSubsetOrdering
<1> QED
  BY <1>4

\* A nonempty set of numbers has a least one.
LEMMA Least ==
  ASSUME NEW T \in SUBSET Nat, T # {}
  PROVE  \E m \in T : \A k \in T : m <= k
<1> DEFINE I == {1..k : k \in T}
<1>1. I # {} /\ \A t \in I : IsFiniteSet(t)
  <2>1. \A k \in Nat : IsFiniteSet(1..k)
    BY FS_Interval
  <2> QED
    BY <2>1
<1>2. PICK s \in I : \A t \in I : t \subseteq s => t = s
  <2> HIDE DEF I
  <2> QED
    BY <1>1, Smallest
<1>3. PICK m \in T : s = 1..m
  OBVIOUS
<1>4. ASSUME NEW k \in T, ~(m <= k) PROVE FALSE
  <2>1. 1..k \subseteq 1..m /\ m \in 1..m /\ m \notin 1..k
    BY <1>4
  <2>2. 1..k \in I
    OBVIOUS
  <2> QED
    BY <2>1, <2>2, <1>2, <1>3
<1> QED
  BY <1>4

\* Induction, with the numbers it is about given as a set.
LEMMA Induction ==
  ASSUME NEW T, 0 \in T, \A n \in Nat : n \in T => n + 1 \in T
  PROVE  Nat \subseteq T
<1> SUFFICES ASSUME Nat \ T # {} PROVE FALSE
  OBVIOUS
<1>1. PICK m \in Nat \ T : \A k \in Nat \ T : m <= k
  BY Least
<1>2. m - 1 \in Nat /\ m - 1 \notin Nat \ T
  BY <1>1
<1> QED
  BY <1>2

\* Values of which each is computed from the one before.
Iterates(f, N, first, step) == f[0] = first /\ \A n \in 1..N : f[n] = step[n][f[n - 1]]

\* A sequence of values, each given by the one before, exists.
LEMMA Iteration ==
  ASSUME NEW N \in Nat, NEW D, NEW first \in D, NEW step \in [1..N -> [D -> D]]
  PROVE  \E f \in [0..N -> D] : Iterates(f, N, first, step)
<1> USE DEF Iterates
<1> DEFINE To(n) == \E f \in [0..n -> D] : Iterates(f, n, first, step)
           T == {n \in Nat : n <= N => To(n)}
<1>1. 0 \in T
  <2> DEFINE f == [k \in 0..0 |-> first]
  <2>1. f \in [0..0 -> D] /\ f[0] = first
    OBVIOUS
  <2>2. To(0)
    <3> HIDE DEF f
    <3> QED
      BY <2>1
  <2> HIDE DEF To
  <2> QED
    BY <2>2
<1>2. ASSUME NEW n \in Nat, n \in T PROVE n + 1 \in T
  <2>1. SUFFICES ASSUME n + 1 <= N PROVE To(n + 1)
    OBVIOUS
  <2>2. PICK f \in [0..n -> D] : f[0] = first /\ \A k \in 1..n : f[k] = step[k][f[k - 1]]
    BY <1>2, <2>1
  <2> DEFINE g == [k \in 0..(n + 1) |-> IF k = n + 1 THEN step[n + 1][f[n]] ELSE f[k]]
  <2>3. n \in 0..n /\ n + 1 \in 1..N
    BY <2>1
  <2>4. step[n + 1][f[n]] \in D
    BY <2>3
  <2>5. g \in [0..(n + 1) -> D]
    BY <2>4
  <2>6. g[0] = first
    BY <2>2
  <2>7. ASSUME NEW k \in 1..(n + 1) PROVE g[k] = step[k][g[k - 1]]
    <3>1. CASE k = n + 1
      BY <3>1
    <3>2. CASE k \in 1..n
      BY <3>2, <2>2
    <3> QED
      BY <3>1, <3>2
  <2> QED
    BY <2>5, <2>6, <2>7
<1>3. N \in T
  <2> HIDE DEF T
  <2> QED
    BY <1>1, <1>2, Induction
<1> QED
  BY <1>3

-----------------------------------------------------------------------------
\* The loop of Score, and what its score tells.

\* The loop's variables before its first turn.
Begun == [qi |-> 1, consecutive |-> 0, score |-> 0]

\* The loop's variables: the score counts every character matched.
LoopState(q) ==
  {s \in [qi : 1..(Len(q) + 1), consecutive : Nat, score : Nat] : s.score >= s.qi - 1}

\* The body of the loop with its condition.
After(q, target, s, ti) == IF s.qi > Len(q) THEN s ELSE Turn(q, target, s, ti)

\* A turn of the loop keeps the types of its variables, and that the score is no less than
\* the characters matched.
LEMMA TurnType ==
  ASSUME NEW q \in Text, NEW target \in Text, NEW ti \in 1..Len(target),
         NEW s \in LoopState(q)
  PROVE  After(q, target, s, ti) \in LoopState(q)
<1>1. \A c \in BOOLEAN, p \in Nat : Bonus(c, p) \in Nat
  BY DEF Bonus
<1>2. CASE s.qi > Len(q)
  BY <1>2 DEF After
<1>3. CASE s.qi <= Len(q) /\ target[ti] # q[s.qi]
  <2>1. After(q, target, s, ti) = [qi |-> s.qi, consecutive |-> 0, score |-> s.score]
    <3>1. After(q, target, s, ti) = [s EXCEPT !.consecutive = 0]
      BY <1>3 DEF After, Turn, LoopState, Text
    <3> QED
      BY <3>1 DEF LoopState
  <2> QED
    BY <2>1 DEF LoopState
<1>4. CASE s.qi <= Len(q) /\ target[ti] = q[s.qi]
  <2>1. PICK p \in Nat : After(q, target, s, ti)
                         = [qi |-> s.qi + 1, consecutive |-> s.consecutive + 1,
                            score |-> s.score + 1 + p]
    <3> DEFINE b1 == Bonus(AtBoundary(target, ti), 10)
               b2 == Bonus(s.qi = 1 /\ ti = 1, 20)
               b3 == Bonus(s.consecutive > 0, 5)
    <3>1. b1 \in Nat /\ b2 \in Nat /\ b3 \in Nat
      BY DEF Bonus
    <3>2. After(q, target, s, ti)
          = [qi |-> s.qi + 1, consecutive |-> s.consecutive + 1,
             score |-> s.score + 1 + b1 + b2 + b3]
      BY <1>4 DEF After, Turn, LoopState
    <3> HIDE DEF b1, b2, b3
    <3>3. s.score + 1 + b1 + b2 + b3 = s.score + 1 + (b1 + b2 + b3)
      BY <3>1 DEF LoopState
    <3> QED
      BY <3>1, <3>2, <3>3
  <2> QED
    <3>1. /\ Len(q) \in Nat /\ s.qi \in 1..(Len(q) + 1) /\ s.consecutive \in Nat
          /\ s.score \in Nat /\ s.score >= s.qi - 1
      BY DEF LoopState, Text
    <3>2. s.qi + 1 \in 1..(Len(q) + 1) /\ s.consecutive + 1 \in Nat
      BY <1>4, <3>1
    <3>3. p \in Nat
      BY <2>1
    <3>4. s.score + 1 + p \in Nat /\ s.score + 1 + p >= (s.qi + 1) - 1
      BY <3>1, <3>3
    <3> QED
      BY <2>1, <3>2, <3>4 DEF LoopState
<1> QED
  BY <1>2, <1>3, <1>4 DEF LoopState

\* The loop satisfies its equation.
LEMMA LoopRuns ==
  ASSUME NEW q \in Text, NEW target \in Text
  PROVE  /\ Loop(q, target) \in [0..Len(target) -> LoopState(q)]
         /\ Loop(q, target)[0] = Begun
         /\ \A ti \in 1..Len(target) :
              Loop(q, target)[ti] = After(q, target, Loop(q, target)[ti - 1], ti)
<1> DEFINE N == Len(target)
           D == LoopState(q)
           step == [ti \in 1..N |-> [s \in D |-> After(q, target, s, ti)]]
           Runs(f) == f = [ti \in 0..N |-> IF ti = 0 THEN Begun
                                           ELSE After(q, target, f[ti - 1], ti)]
<1>1. N \in Nat
  BY DEF Text
<1>2. Begun \in D
  BY DEF Begun, LoopState, Text
<1>3. step \in [1..N -> [D -> D]]
  <2>1. \A ti \in 1..N : [s \in D |-> After(q, target, s, ti)] \in [D -> D]
    BY TurnType
  <2> QED
    BY <2>1
<1>4. \E f \in [0..N -> D] : Iterates(f, N, Begun, step)
  <2> HIDE DEF N, D, step
  <2> QED
    BY <1>1, <1>2, <1>3, Iteration
<1>5. PICK f \in [0..N -> D] : f[0] = Begun /\ \A n \in 1..N : f[n] = step[n][f[n - 1]]
  BY <1>4 DEF Iterates
<1>6. \A n \in 1..N : f[n] = After(q, target, f[n - 1], n)
  <2>1. \A n \in 1..N : f[n - 1] \in D
    <3> HIDE DEF N, D
    <3> QED
      BY <1>1
  <2> HIDE DEF N, D
  <2> QED
    BY <1>5, <2>1
<1>7. Runs(f)
  <2>1. \A ti \in 0..N : f[ti] = IF ti = 0 THEN Begun ELSE After(q, target, f[ti - 1], ti)
    BY <1>1, <1>5, <1>6
  <2> QED
    BY <2>1, <1>5
<1>8. Loop(q, target) = CHOOSE g : Runs(g)
  BY DEF Loop, After, Begun
<1> DEFINE g == Loop(q, target)
<1>9. Runs(g)
  <2> HIDE DEF Runs
  <2> QED
    BY <1>7, <1>8
<1>10. \A ti \in 0..N : g[ti] = IF ti = 0 THEN Begun ELSE After(q, target, g[ti - 1], ti)
  BY <1>9
<1>11. \A ti \in 0..N : g[ti] \in D
  <2> DEFINE T == {n \in Nat : n <= N => g[n] \in D}
  <2>1. 0 \in T
    BY <1>2, <1>10
  <2>2. ASSUME NEW n \in Nat, n \in T PROVE n + 1 \in T
    BY <1>10, <2>2, TurnType
  <2>3. Nat \subseteq T
    <3> HIDE DEF T
    <3> QED
      BY <2>1, <2>2, Induction
  <2> QED
    BY <2>3
<1> QED
  BY <1>9, <1>10, <1>11

\* The first j characters of the query occur in this order among the first n of the target.
Embeds(q, target, j, n) ==
  \E at \in [1..j -> 1..n] :
    /\ \A i \in 1..j : target[at[i]] = q[i]
    /\ \A i, k \in 1..j : i < k => at[i] < at[k]

\* The empty beginning of a query occurs in every target.
LEMMA EmbedsNone ==
  ASSUME NEW q, NEW target, NEW n \in Nat
  PROVE  Embeds(q, target, 0, n)
<1> DEFINE at == [i \in 1..0 |-> i]
<1>1. at \in [1..0 -> 1..n]
  OBVIOUS
<1>2. /\ \A i \in 1..0 : target[at[i]] = q[i]
      /\ \A i, k \in 1..0 : i < k => at[i] < at[k]
  OBVIOUS
<1> HIDE DEF at
<1> QED
  BY <1>1, <1>2 DEF Embeds

\* What occurs in a target occurs in a longer one.
LEMMA EmbedsLonger ==
  ASSUME NEW q, NEW target, NEW j \in Nat, NEW n \in Nat, Embeds(q, target, j, n)
  PROVE  Embeds(q, target, j, n + 1)
<1>1. PICK at \in [1..j -> 1..n] :
        /\ \A i \in 1..j : target[at[i]] = q[i]
        /\ \A i, k \in 1..j : i < k => at[i] < at[k]
  BY DEF Embeds
<1>2. at \in [1..j -> 1..(n + 1)]
  OBVIOUS
<1> QED
  BY <1>1, <1>2 DEF Embeds

\* One more character of the query occurs when the next of the target is that character.
LEMMA EmbedsMore ==
  ASSUME NEW q, NEW target, NEW j \in Nat, NEW n \in Nat, Embeds(q, target, j, n),
         target[n + 1] = q[j + 1]
  PROVE  Embeds(q, target, j + 1, n + 1)
<1>1. PICK at \in [1..j -> 1..n] :
        /\ \A i \in 1..j : target[at[i]] = q[i]
        /\ \A i, k \in 1..j : i < k => at[i] < at[k]
  BY DEF Embeds
<1> DEFINE to == [i \in 1..(j + 1) |-> IF i = j + 1 THEN n + 1 ELSE at[i]]
<1>2. to \in [1..(j + 1) -> 1..(n + 1)]
  OBVIOUS
<1>3. \A i \in 1..(j + 1) : target[to[i]] = q[i]
  BY <1>1
<1>4. \A i, k \in 1..(j + 1) : i < k => to[i] < to[k]
  BY <1>1
<1> HIDE DEF to
<1> QED
  BY <1>2, <1>3, <1>4 DEF Embeds

\* The last character of an embedding is at its end, or it is embedded before.
LEMMA EmbedsBefore ==
  ASSUME NEW q, NEW target, NEW j \in Nat, NEW n \in Nat, Embeds(q, target, j + 1, n + 1)
  PROVE  \/ Embeds(q, target, j + 1, n)
         \/ target[n + 1] = q[j + 1] /\ Embeds(q, target, j, n)
<1>1. PICK at \in [1..(j + 1) -> 1..(n + 1)] :
        /\ \A i \in 1..(j + 1) : target[at[i]] = q[i]
        /\ \A i, k \in 1..(j + 1) : i < k => at[i] < at[k]
  BY DEF Embeds
<1>2. j + 1 \in 1..(j + 1) /\ \A i \in 1..j : at[i] \in 1..n
  BY <1>1
<1>3. CASE at[j + 1] = n + 1
  <2> DEFINE to == [i \in 1..j |-> at[i]]
  <2>1. to \in [1..j -> 1..n]
    BY <1>2
  <2>2. /\ \A i \in 1..j : target[to[i]] = q[i]
        /\ \A i, k \in 1..j : i < k => to[i] < to[k]
    BY <1>1
  <2> HIDE DEF to
  <2>3. Embeds(q, target, j, n)
    BY <2>1, <2>2 DEF Embeds
  <2>4. target[n + 1] = q[j + 1]
    BY <1>1, <1>2, <1>3
  <2> QED
    BY <2>3, <2>4
<1>4. CASE at[j + 1] # n + 1
  <2>1. at \in [1..(j + 1) -> 1..n]
    BY <1>2, <1>4
  <2> QED
    BY <1>1, <2>1 DEF Embeds
<1> QED
  BY <1>3, <1>4

\* The loop matches as much of the query as there is in the target so far.
Greedy(q, target, n) ==
  LET matched == Loop(q, target)[n].qi - 1 IN
  /\ Embeds(q, target, matched, n)
  /\ \A j \in 0..Len(q) : Embeds(q, target, j, n) => j <= matched

\* A turn keeps that, whether its character matches or not.
LEMMA GreedyStep ==
  ASSUME NEW q \in Text, NEW target \in Text, NEW n \in Nat, n + 1 <= Len(target),
         Greedy(q, target, n)
  PROVE  Greedy(q, target, n + 1)
<1> DEFINE s == Loop(q, target)[n]
           t == Loop(q, target)[n + 1]
<1>1. s \in LoopState(q) /\ t \in LoopState(q) /\ t = After(q, target, s, n + 1)
  BY LoopRuns
<1> DEFINE k == s.qi - 1
<1>2. /\ k \in 0..Len(q) /\ Len(q) \in Nat
      /\ s.qi \in Nat /\ s.qi = k + 1
  <2>1. Len(q) \in Nat /\ s.qi \in 1..(Len(q) + 1)
    BY <1>1 DEF LoopState, Text
  <2> HIDE DEF s
  <2> QED
    BY <2>1
<1>3. /\ Embeds(q, target, k, n)
      /\ \A j \in 0..Len(q) : Embeds(q, target, j, n) => j <= k
  BY DEF Greedy
<1>4. CASE k < Len(q) /\ target[n + 1] = q[k + 1]
  <2>1. t.qi - 1 = k + 1
    <3>1. s.qi = k + 1 /\ s.qi \in Nat /\ ~(s.qi > Len(q)) /\ target[n + 1] = q[s.qi]
      <4> HIDE DEF s, k
      <4> QED
        BY <1>2, <1>4
    <3>2. t.qi = s.qi + 1
      BY <1>1, <3>1 DEF After, Turn
    <3> QED
      BY <3>1, <3>2
  <2>2. Embeds(q, target, k + 1, n + 1)
    BY <1>2, <1>3, <1>4, EmbedsMore
  <2>3. ASSUME NEW j \in 0..Len(q), Embeds(q, target, j, n + 1) PROVE j <= k + 1
    <3>1. CASE j = 0
      BY <3>1, <1>2
    <3>2. CASE j > 0
      <4>1. j - 1 \in Nat /\ (j - 1) + 1 = j
        BY <3>2
      <4>2. Embeds(q, target, j, n) \/ Embeds(q, target, j - 1, n)
        BY <4>1, <2>3, EmbedsBefore
      <4>3. j <= k \/ j - 1 <= k
        <5>1. j - 1 \in 0..Len(q)
          BY <1>2, <3>2
        <5> HIDE DEF k
        <5> QED
          BY <4>2, <5>1, <1>3
      <4> HIDE DEF k
      <4> QED
        BY <4>3, <1>2
    <3> QED
      BY <3>1, <3>2
  <2> QED
    BY <2>1, <2>2, <2>3 DEF Greedy
<1>5. CASE k = Len(q) \/ target[n + 1] # q[k + 1]
  <2>1. t.qi - 1 = k
    <3>1. s.qi \in Nat /\ (s.qi > Len(q) \/ target[n + 1] # q[s.qi])
      <4> HIDE DEF s, k
      <4> QED
        BY <1>2, <1>5
    <3>2. t.qi = s.qi
      BY <1>1, <3>1 DEF After, Turn, LoopState
    <3> QED
      BY <3>1, <3>2
  <2>2. Embeds(q, target, k, n + 1)
    BY <1>2, <1>3, EmbedsLonger
  <2>3. ASSUME NEW j \in 0..Len(q), Embeds(q, target, j, n + 1) PROVE j <= k
    <3>1. CASE j = 0
      BY <3>1, <1>2
    <3>2. CASE j > 0
      <4>1. j - 1 \in Nat /\ (j - 1) + 1 = j
        BY <3>2
      <4>2. \/ Embeds(q, target, j, n)
            \/ target[n + 1] = q[j] /\ Embeds(q, target, j - 1, n)
        BY <4>1, <2>3, EmbedsBefore
      <4>3. CASE Embeds(q, target, j, n)
        BY <4>3, <1>3
      <4>4. CASE target[n + 1] = q[j] /\ Embeds(q, target, j - 1, n)
        <5>1. j - 1 <= k
          BY <4>1, <4>4, <1>3
        <5> QED
          BY <5>1, <4>1, <4>4, <1>2, <1>5
      <4> QED
        BY <4>2, <4>3, <4>4
    <3> QED
      BY <3>1, <3>2
  <2> QED
    BY <2>1, <2>2, <2>3 DEF Greedy
<1> QED
  BY <1>2, <1>4, <1>5

\* So it has at the end of the target.
LEMMA LoopGreedy ==
  ASSUME NEW q \in Text, NEW target \in Text
  PROVE  Greedy(q, target, Len(target))
<1> DEFINE T == {n \in Nat : n <= Len(target) => Greedy(q, target, n)}
<1>1. Len(target) \in Nat
  BY DEF Text
<1>2. 0 \in T
  <2>1. Loop(q, target)[0].qi - 1 = 0
    BY LoopRuns DEF Begun
  <2>2. Embeds(q, target, 0, 0)
    BY EmbedsNone
  <2>3. ASSUME NEW j \in 0..Len(q), Embeds(q, target, j, 0) PROVE j <= 0
    BY <2>3 DEF Embeds
  <2> QED
    BY <2>1, <2>2, <2>3 DEF Greedy
<1>3. ASSUME NEW n \in Nat, n \in T PROVE n + 1 \in T
  BY <1>1, <1>3, GreedyStep
<1>4. Nat \subseteq T
  <2> HIDE DEF T
  <2> QED
    BY <1>2, <1>3, Induction
<1> QED
  BY <1>1, <1>4

\* Whatever the bonuses, Score (fuzzysearch.go:21-68) is positive for a word whose characters
\* occur in the target in their order, and for no other: the loop, which takes the first
\* character that matches and never goes back, misses no match.
THEOREM ScoreTells ==
  ASSUME NEW q \in Text, NEW target \in Text, q # <<>>
  PROVE  /\ Score(q, target) \in Nat
         /\ Score(q, target) > 0 <=> Subsequence(q, target)
<1> DEFINE end == Loop(q, target)[Len(target)]
<1>1. end \in LoopState(q)
  BY LoopRuns DEF Text
<1>2. Len(q) \in Nat /\ Len(q) > 0 /\ DOMAIN q = 1..Len(q)
      /\ DOMAIN target = 1..Len(target)
  BY DEF Text
<1>3. Subsequence(q, target) <=> Embeds(q, target, Len(q), Len(target))
  BY <1>2, Zenon DEF Subsequence, Embeds
<1>4. Embeds(q, target, Len(q), Len(target)) <=> end.qi > Len(q)
  <2>1. /\ Embeds(q, target, end.qi - 1, Len(target))
        /\ \A j \in 0..Len(q) : Embeds(q, target, j, Len(target)) => j <= end.qi - 1
    BY LoopGreedy DEF Greedy
  <2>2. end.qi \in 1..(Len(q) + 1)
    BY <1>1 DEF LoopState
  <2>3. CASE end.qi = Len(q) + 1
    BY <2>1, <2>3, <1>2
  <2>4. CASE end.qi <= Len(q)
    BY <2>1, <2>2, <2>4, <1>2
  <2> QED
    BY <2>2, <2>3, <2>4, <1>2
<1>5. CASE q = target
  <2>1. Subsequence(q, target)
    <3>1. [i \in DOMAIN q |-> i] \in [DOMAIN q -> DOMAIN target]
      BY <1>5
    <3> QED
      BY <1>2, <1>5, <3>1 DEF Subsequence
  <2> QED
    <3>1. Score(q, target) = 1000
      BY <1>5 DEF Score
    <3> QED
      BY <2>1, <3>1
<1>6. CASE q # target
  <2>1. Score(q, target) = IF end.qi <= Len(q) THEN 0 ELSE end.score
    BY <1>6 DEF Score
  <2>2. end.score \in Nat /\ end.qi \in Nat /\ end.score >= end.qi - 1
    BY <1>1 DEF LoopState
  <2> HIDE DEF end
  <2> QED
    BY <2>1, <2>2, <1>2, <1>3, <1>4
<1> QED
  BY <1>5, <1>6

-----------------------------------------------------------------------------
\* Ordered, Ascending and Parts.

\* A strict linear order.
IsOrder(S, before) ==
  /\ \A x \in S : <<x, x>> \notin before
  /\ \A x, y \in S : x # y => <<x, y>> \in before \/ <<y, x>> \in before
  /\ \A x, y, z \in S : <<x, y>> \in before /\ <<y, z>> \in before => <<x, z>> \in before

\* Ordered lists the elements of the set in the order, each once.
LEMMA OrderedSorts ==
  ASSUME NEW S, IsFiniteSet(S), NEW before, IsOrder(S, before)
  PROVE  /\ Cardinality(S) \in Nat
         /\ Ordered(S, before) \in [1..Cardinality(S) -> S]
         /\ \A a, b \in 1..Cardinality(S) :
              a < b => <<Ordered(S, before)[a], Ordered(S, before)[b]>> \in before
         /\ \A x \in S : \E a \in 1..Cardinality(S) : Ordered(S, before)[a] = x
<1> DEFINE n == Cardinality(S)
           Below(x) == {y \in S : <<y, x>> \in before}
           rank == [x \in S |-> Cardinality(Below(x)) + 1]
           f == Ordered(S, before)
<1>1. n \in Nat
  BY FS_CardinalityType
<1>2. ASSUME NEW x \in S PROVE rank[x] \in 1..n /\ Cardinality(Below(x)) \in Nat
  <2>1. Below(x) \in SUBSET (S \ {x})
    BY DEF IsOrder
  <2>2. IsFiniteSet(S \ {x}) /\ Cardinality(S \ {x}) = n - 1
    BY FS_RemoveElement
  <2>3. IsFiniteSet(Below(x)) /\ Cardinality(Below(x)) <= n - 1
    <3> HIDE DEF Below, n
    <3> QED
      BY <2>1, <2>2, FS_Subset
  <2>4. Cardinality(Below(x)) \in Nat
    BY <2>3, FS_CardinalityType
  <2> HIDE DEF Below
  <2> QED
    BY <1>1, <2>3, <2>4
<1>3. ASSUME NEW x \in S, NEW z \in S, <<x, z>> \in before PROVE rank[x] < rank[z]
  <2>1. Below(x) \in SUBSET Below(z) /\ x \in Below(z) /\ x \notin Below(x)
    BY <1>3 DEF IsOrder
  <2>2. IsFiniteSet(Below(z))
    BY FS_Subset
  <2>3. Cardinality(Below(x)) <= Cardinality(Below(z))
        /\ Cardinality(Below(x)) # Cardinality(Below(z))
    <3> HIDE DEF Below
    <3> QED
      BY <2>1, <2>2, FS_Subset
  <2> HIDE DEF Below
  <2> QED
    BY <1>2, <2>3
<1>4. ASSUME NEW x \in S, NEW z \in S, x # z PROVE rank[x] # rank[z]
  <2>1. rank[x] \in Nat /\ rank[z] \in Nat
    BY <1>2
  <2>2. rank[x] < rank[z] \/ rank[z] < rank[x]
    BY <1>3, <1>4 DEF IsOrder
  <2> HIDE DEF rank
  <2> QED
    BY <2>1, <2>2
<1>5. rank \in Surjection(S, 1..n)
  <2>1. rank \in Injection(S, 1..n)
    <3>1. rank \in [S -> 1..n]
      BY <1>2
    <3> HIDE DEF rank
    <3> QED
      BY <3>1, <1>4 DEF Injection, IsInjective
  <2>2. IsFiniteSet(1..n) /\ Cardinality(1..n) = n
    BY <1>1, FS_Interval
  <2> HIDE DEF rank, n
  <2> QED
    BY <2>1, <2>2, FS_Injection DEF n
<1>6. ASSUME NEW a \in 1..n PROVE f[a] \in S /\ rank[f[a]] = a
  <2>1. PICK x \in S : rank[x] = a
    BY <1>5 DEF Surjection
  <2>2. Cardinality(Below(x)) = a - 1
    BY <2>1, <1>2
  <2>3. f[a] = CHOOSE y \in S : Cardinality(Below(y)) = a - 1
    BY DEF Ordered
  <2>4. f[a] \in S /\ Cardinality(Below(f[a])) = a - 1
    <3> HIDE DEF Below, f
    <3> QED
      BY <2>2, <2>3
  <2> HIDE DEF Below, f
  <2> QED
    BY <2>4, <1>1
<1>7. f \in [1..n -> S]
  <2> DEFINE at(r) == CHOOSE x \in S : Cardinality(Below(x)) = r - 1
  <2>1. f = [r \in 1..n |-> at(r)]
    BY DEF Ordered
  <2> HIDE DEF f, at
  <2>2. \A r \in 1..n : at(r) \in S
    BY <2>1, <1>6
  <2> QED
    BY <2>1, <2>2
<1> HIDE DEF rank, f, Below
<1>8. ASSUME NEW a \in 1..n, NEW b \in 1..n, a < b PROVE <<f[a], f[b]>> \in before
  <2>1. f[a] # f[b] /\ ~(rank[f[b]] < rank[f[a]])
    BY <1>6, <1>8
  <2> QED
    BY <2>1, <1>3, <1>6 DEF IsOrder
<1>9. ASSUME NEW x \in S PROVE \E a \in 1..n : f[a] = x
  <2>1. rank[x] \in 1..n
    BY <1>2
  <2>2. rank[f[rank[x]]] = rank[x]
    BY <2>1, <1>6
  <2> QED
    BY <2>1, <2>2, <1>4, <1>6
<1> QED
  BY <1>1, <1>7, <1>8, <1>9 DEF f

\* Ascending lists a set of numbers from the smallest, each once.
LEMMA AscendingSorts ==
  ASSUME NEW S \in SUBSET Nat, IsFiniteSet(S)
  PROVE  /\ Cardinality(S) \in Nat
         /\ Ascending(S) \in [1..Cardinality(S) -> S]
         /\ \A a, b \in 1..Cardinality(S) : a < b => Ascending(S)[a] < Ascending(S)[b]
         /\ \A x \in S : \E a \in 1..Cardinality(S) : Ascending(S)[a] = x
<1> DEFINE before == {p \in S \X S : p[1] < p[2]}
<1>1. \A x, y \in S : <<x, y>> \in before <=> x < y
  OBVIOUS
<1>2. IsOrder(S, before)
  <2> HIDE DEF before
  <2> QED
    BY <1>1 DEF IsOrder
<1>3. Ascending(S) = Ordered(S, before)
  BY DEF Ascending
<1> HIDE DEF before
<1>4. /\ Cardinality(S) \in Nat
      /\ Ascending(S) \in [1..Cardinality(S) -> S]
      /\ \A a, b \in 1..Cardinality(S) : a < b => <<Ascending(S)[a], Ascending(S)[b]>> \in before
      /\ \A x \in S : \E a \in 1..Cardinality(S) : Ascending(S)[a] = x
  BY <1>2, <1>3, OrderedSorts
<1> QED
  BY <1>1, <1>4

\* What Parts takes, and that it takes nothing twice.
LEMMA PartsTakes ==
  ASSUME NEW D, NEW s \in Seq(D), NEW at \in SUBSET DOMAIN s
  PROVE  /\ Parts(s, at) \in Seq(D)
         /\ Len(Parts(s, at)) = Cardinality(at) /\ Cardinality(at) \in Nat
         /\ \A r \in DOMAIN Parts(s, at) : \E i \in at : Parts(s, at)[r] = s[i]
         /\ \A i \in at : \E r \in DOMAIN Parts(s, at) : Parts(s, at)[r] = s[i]
         /\ IsInjective(s) => IsInjective(Parts(s, at))
<1> DEFINE n == Cardinality(at)
           k == Ascending(at)
           t == Parts(s, at)
<1>1. at \in SUBSET Nat /\ IsFiniteSet(at)
  <2>1. DOMAIN s = 1..Len(s) /\ Len(s) \in Nat
    OBVIOUS
  <2>2. IsFiniteSet(1..Len(s))
    BY <2>1, FS_Interval
  <2> QED
    BY <2>1, <2>2, FS_Subset
<1>2. /\ n \in Nat /\ k \in [1..n -> at]
      /\ \A a, b \in 1..n : a < b => k[a] < k[b]
      /\ \A x \in at : \E a \in 1..n : k[a] = x
  BY <1>1, AscendingSorts
<1>3. t = [r \in 1..n |-> s[k[r]]]
  BY <1>2 DEF Parts
<1> HIDE DEF n, k, t
<1>4. t \in [1..n -> D]
  BY <1>2, <1>3
<1>5. t \in Seq(D) /\ Len(t) = n /\ DOMAIN t = 1..n
  BY <1>2, <1>4
<1>6. ASSUME IsInjective(s) PROVE IsInjective(t)
  <2> SUFFICES ASSUME NEW a \in 1..n, NEW b \in 1..n, s[k[a]] = s[k[b]] PROVE a = b
    BY <1>3, <1>5 DEF IsInjective
  <2>1. k[a] = k[b] /\ k[a] \in Nat /\ k[b] \in Nat
    BY <1>1, <1>2, <1>6 DEF IsInjective
  <2> QED
    BY <2>1, <1>2
<1> QED
  BY <1>2, <1>3, <1>5, <1>6 DEF n, t

-----------------------------------------------------------------------------
\* Search.

\* The words of a query are not empty.
LEMMA Words ==
  ASSUME NEW q \in Seq(Text)
  PROVE  /\ Fields(q) \in Seq(Text)
         /\ \A n \in DOMAIN Fields(q) : Fields(q)[n] # <<>>
<1> DEFINE at == {i \in DOMAIN q : q[i] # <<>>}
<1>1. at \in SUBSET DOMAIN q /\ Fields(q) = Parts(q, at)
  BY DEF Fields
<1>2. /\ Fields(q) \in Seq(Text)
      /\ \A r \in DOMAIN Fields(q) : \E i \in at : Fields(q)[r] = q[i]
  <2> HIDE DEF at
  <2> QED
    BY <1>1, PartsTakes
<1> QED
  BY <1>2

\* The recursion of Total is well founded, and what it adds up are numbers.
LEMMA TotalType ==
  ASSUME NEW scores \in Seq(Nat)
  PROVE  Total(scores) \in Nat /\ (Len(scores) = 0 => Total(scores) = 0)
<1> DEFINE N == Len(scores)
           more(n, v) == v + scores[n]
           step == [n \in 1..N |-> [v \in Nat |-> more(n, v)]]
           Runs(f) == f = [n \in 0..N |-> IF n = 0 THEN 0 ELSE f[n - 1] + scores[n]]
<1>1. N \in Nat /\ DOMAIN scores = 1..N
  OBVIOUS
<1>2. \A n \in 1..N : scores[n] \in Nat
  BY <1>1
<1>3. step \in [1..N -> [Nat -> Nat]]
  <2>1. \A n \in 1..N : [v \in Nat |-> more(n, v)] \in [Nat -> Nat]
    BY <1>2
  <2> QED
    BY <2>1
<1>4. \E f \in [0..N -> Nat] : Iterates(f, N, 0, step)
  <2> HIDE DEF N, step
  <2> QED
    BY <1>1, <1>3, Iteration
<1>5. PICK f \in [0..N -> Nat] : f[0] = 0 /\ \A n \in 1..N : f[n] = step[n][f[n - 1]]
  BY <1>4 DEF Iterates
<1>6. Runs(f)
  <2>1. \A n \in 1..N : f[n - 1] \in Nat
    BY <1>1
  <2>2. \A n \in 1..N : f[n] = f[n - 1] + scores[n]
    BY <2>1, <1>5
  <2>3. \A n \in 0..N : f[n] = IF n = 0 THEN 0 ELSE f[n - 1] + scores[n]
    <3> HIDE DEF N
    <3> QED
      BY <2>2, <1>1, <1>5
  <2> HIDE DEF N
  <2> QED
    BY <2>3, <1>5
<1> DEFINE g == CHOOSE h : Runs(h)
<1>7. Total(scores) = g[N]
  BY DEF Total
<1>8. Runs(g)
  <2> HIDE DEF Runs
  <2> QED
    BY <1>6
<1>9. \A n \in 0..N : g[n] = IF n = 0 THEN 0 ELSE g[n - 1] + scores[n]
  BY <1>8
<1>10. \A n \in 0..N : g[n] \in Nat
  <2> DEFINE T == {n \in Nat : n <= N => g[n] \in Nat}
  <2> HIDE DEF g, N
  <2>1. 0 \in T
    BY <1>1, <1>9
  <2>2. ASSUME NEW n \in Nat, n \in T PROVE n + 1 \in T
    <3> SUFFICES ASSUME n + 1 <= N PROVE g[n + 1] \in Nat
      OBVIOUS
    <3>1. g[n + 1] = g[n] + scores[n + 1] /\ g[n] \in Nat
      <4>1. n + 1 \in 0..N /\ n + 1 # 0 /\ (n + 1) - 1 = n /\ n <= N
        BY <1>1
      <4>2. g[n + 1] = g[n] + scores[n + 1]
        BY <4>1, <1>9
      <4> QED
        BY <4>1, <4>2, <2>2
    <3>2. scores[n + 1] \in Nat
      BY <1>1, <1>2
    <3> QED
      BY <3>1, <3>2
  <2>3. Nat \subseteq T
    <3> HIDE DEF T
    <3> QED
      BY <2>1, <2>2, Induction
  <2> QED
    BY <2>3, <1>1
<1>11. g[0] = 0
  BY <1>1, <1>9
<1> HIDE DEF g, N
<1> QED
  BY <1>1, <1>7, <1>10, <1>11 DEF N

\* The scores of the words are numbers, one for each.
LEMMA ScoresType ==
  ASSUME NEW words \in Seq(Text), \A n \in DOMAIN words : words[n] # <<>>, NEW item \in Text
  PROVE  /\ Scores(words, item) \in Seq(Nat) /\ DOMAIN Scores(words, item) = DOMAIN words
         /\ Len(Scores(words, item)) = Len(words)
         /\ \A n \in DOMAIN words : Scores(words, item)[n] = Score(words[n], item)
<1>1. \A n \in DOMAIN words : Score(words[n], item) \in Nat
  BY ScoreTells
<1>2. DOMAIN words = 1..Len(words) /\ Len(words) \in Nat
  OBVIOUS
<1>3. Scores(words, item) = [n \in DOMAIN words |-> Score(words[n], item)]
  BY DEF Scores
<1>4. Scores(words, item) \in [1..Len(words) -> Nat]
  BY <1>1, <1>2, <1>3
<1> QED
  BY <1>2, <1>3, <1>4

\* What Search ranks by is a number.
LEMMA ScoreAllType ==
  ASSUME NEW q \in Seq(Text), NEW item \in Text
  PROVE  ScoreAll(q, item) \in Nat
<1>1. Scores(Fields(q), item) \in Seq(Nat)
  BY Words, ScoresType
<1> QED
  BY <1>1, TotalType DEF ScoreAll

\* The items a query fits.
Hits(q, items) == {i \in DOMAIN items : Fits(q, items[i])}

\* The matches are those of the items the query fits, though Search looks at scores only.
LEMMA MatchesAre ==
  ASSUME NEW q \in Seq(Text), NEW items \in Seq(Text)
  PROVE  Matches(q, items) =
           {[Index |-> i, Score |-> ScoreAll(q, items[i])] : i \in Hits(q, items)}
<1> DEFINE words == Fields(q)
           scores == [i \in DOMAIN items |-> Scores(words, items[i])]
           IsHit(i) == scores[i] # <<>> /\ \A n \in DOMAIN scores[i] : scores[i][n] > 0
           hits == {i \in DOMAIN scores : IsHit(i)}
<1>1. words \in Seq(Text) /\ \A n \in DOMAIN words : words[n] # <<>>
  BY Words
<1>2. ASSUME NEW i \in DOMAIN items
      PROVE  /\ IsHit(i) <=> Fits(q, items[i])
             /\ Total(scores[i]) = ScoreAll(q, items[i])
  <2> DEFINE s == scores[i]
  <2>1. s = Scores(words, items[i]) /\ items[i] \in Text
    OBVIOUS
  <2> HIDE DEF s, scores, words
  <2>2. /\ s \in Seq(Nat) /\ DOMAIN s = DOMAIN words /\ Len(s) = Len(words)
        /\ \A n \in DOMAIN words : s[n] = Score(words[n], items[i])
    BY <1>1, <2>1, ScoresType
  <2>3. s # <<>> <=> words # <<>>
    BY <1>1, <2>2
  <2>4. \A n \in DOMAIN words : s[n] > 0 <=> Subsequence(words[n], items[i])
    BY <1>1, <2>1, <2>2, ScoreTells
  <2>5. Fits(q, items[i]) <=>
          words # <<>> /\ \A n \in DOMAIN words : Subsequence(words[n], items[i])
    BY DEF Fits, ToSet, words
  <2>6. Total(s) = ScoreAll(q, items[i])
    BY <2>1 DEF ScoreAll, words
  <2> QED
    BY <2>2, <2>3, <2>4, <2>5, <2>6 DEF s
<1>3. Matches(q, items) = {[Index |-> i, Score |-> Total(scores[i])] : i \in hits}
  BY DEF Matches
<1>4. hits = Hits(q, items)
  BY <1>2 DEF Hits
<1>5. \A i \in Hits(q, items) : Total(scores[i]) = ScoreAll(q, items[i])
  BY <1>2 DEF Hits
<1> HIDE DEF hits, scores
<1> QED
  BY <1>3, <1>4, <1>5

\* They are items, hence finitely many.
LEMMA HitsFinite ==
  ASSUME NEW q \in Seq(Text), NEW items \in Seq(Text)
  PROVE  IsFiniteSet(Hits(q, items)) /\ Hits(q, items) \in SUBSET DOMAIN items
<1>1. DOMAIN items = 1..Len(items) /\ Len(items) \in Nat
  OBVIOUS
<1>2. IsFiniteSet(DOMAIN items)
  BY <1>1, FS_Interval
<1>3. Hits(q, items) \in SUBSET DOMAIN items
  BY DEF Hits
<1> QED
  BY <1>2, <1>3, FS_Subset

\* There is a match for each hit, and Better orders them.
LEMMA MatchesOrdered ==
  ASSUME NEW q \in Seq(Text), NEW items \in Seq(Text)
  PROVE  LET M == Matches(q, items) IN
         /\ IsFiniteSet(M) /\ Cardinality(M) = Cardinality(Hits(q, items))
         /\ \A m \in M : m.Index \in Hits(q, items) /\ m.Score = ScoreAll(q, items[m.Index])
         /\ \A i \in Hits(q, items) : \E m \in M : m.Index = i
         /\ \A m, k \in M : m.Index = k.Index => m = k
         /\ IsOrder(M, Better(M))
<1> DEFINE H == Hits(q, items)
           M == Matches(q, items)
           match == [i \in H |-> [Index |-> i, Score |-> ScoreAll(q, items[i])]]
<1>1. M = {[Index |-> i, Score |-> ScoreAll(q, items[i])] : i \in H}
  BY MatchesAre
<1>2. match \in Bijection(H, M)
  <2>1. match \in [H -> M]
    BY <1>1
  <2>2. \A i, j \in H : match[i] = match[j] => i = j
    <3>1. \A i \in H : match[i].Index = i
      OBVIOUS
    <3> HIDE DEF match
    <3> QED
      BY <3>1
  <2>3. \A m \in M : \E i \in H : match[i] = m
    BY <1>1
  <2> HIDE DEF match, M, H
  <2> QED
    BY <2>1, <2>2, <2>3 DEF Bijection, Injection, Surjection, IsInjective
<1>3. IsFiniteSet(M) /\ Cardinality(M) = Cardinality(H)
  <2> HIDE DEF match, M, H
  <2>1. ExistsBijection(H, M)
    BY <1>2 DEF ExistsBijection
  <2>2. IsFiniteSet(H)
    BY HitsFinite DEF H
  <2> QED
    BY <2>1, <2>2, FS_Bijection
<1>4. ASSUME NEW m \in M
      PROVE  m.Index \in H /\ m.Score = ScoreAll(q, items[m.Index])
  <2>1. PICK i \in H : m = [Index |-> i, Score |-> ScoreAll(q, items[i])]
    BY <1>1
  <2>2. m.Index = i /\ m.Score = ScoreAll(q, items[i])
    BY <2>1
  <2> QED
    BY <2>2
<1>5. ASSUME NEW i \in H PROVE \E m \in M : m.Index = i
  <2> DEFINE m == [Index |-> i, Score |-> ScoreAll(q, items[i])]
  <2>1. m \in M /\ m.Index = i
    BY <1>1
  <2> HIDE DEF m, M
  <2> QED
    BY <2>1
<1>6. \A m, k \in M : m.Index = k.Index => m = k
  BY <1>1
<1>7. \A m \in M : m.Index \in Nat /\ m.Score \in Nat
  <2>1. \A i \in H : i \in Nat /\ items[i] \in Text
    BY HitsFinite
  <2> HIDE DEF H
  <2> QED
    BY <2>1, <1>4, ScoreAllType
<1>8. \A m, k \in M : <<m, k>> \in Better(M) <=>
        m.Score > k.Score \/ (m.Score = k.Score /\ m.Index < k.Index)
  BY DEF Better
<1>9. IsOrder(M, Better(M))
  <2> HIDE DEF M
  <2>1. \A m \in M : <<m, m>> \notin Better(M)
    BY <1>7, <1>8
  <2>2. ASSUME NEW m \in M, NEW k \in M, m # k
        PROVE  <<m, k>> \in Better(M) \/ <<k, m>> \in Better(M)
    <3>1. m.Index # k.Index
      BY <1>6, <2>2
    <3>2. m.Index \in Nat /\ k.Index \in Nat /\ m.Score \in Nat /\ k.Score \in Nat
      BY <1>7
    <3> QED
      BY <3>1, <3>2, <1>8
  <2>3. ASSUME NEW m \in M, NEW k \in M, NEW l \in M,
               <<m, k>> \in Better(M), <<k, l>> \in Better(M)
        PROVE  <<m, l>> \in Better(M)
    <3>1. /\ m.Index \in Nat /\ k.Index \in Nat /\ l.Index \in Nat
          /\ m.Score \in Nat /\ k.Score \in Nat /\ l.Score \in Nat
      BY <1>7
    <3>2. m.Score > k.Score \/ (m.Score = k.Score /\ m.Index < k.Index)
      BY <2>3, <1>8
    <3>3. k.Score > l.Score \/ (k.Score = l.Score /\ k.Index < l.Index)
      BY <2>3, <1>8
    <3>4. m.Score > l.Score \/ (m.Score = l.Score /\ m.Index < l.Index)
      BY <3>1, <3>2, <3>3
    <3> QED
      BY <3>4, <1>8
  <2> QED
    BY <2>1, <2>2, <2>3 DEF IsOrder
<1> QED
  BY <1>3, <1>4, <1>5, <1>6, <1>9

\* What Search returns (fuzzysearch.go:73-104): none but items the query fits, none twice, as
\* many as the limit takes, and none left out scores higher.
THEOREM SearchFinds ==
  ASSUME NEW q \in Seq(Text), NEW items \in Seq(Text), NEW limit \in Nat \ {0}
  PROVE  LET found == Search(q, items, limit)
             fit   == {i \in DOMAIN items : Fits(q, items[i])}
             size  == Cardinality(fit)
         IN  /\ found \in Seq(DOMAIN items) /\ IsInjective(found)
             /\ Len(found) = IF size < limit THEN size ELSE limit
             /\ \A r \in DOMAIN found : found[r] \in fit
             /\ \A r \in DOMAIN found : \A i \in fit :
                  i \notin ToSet(found) =>
                    ScoreAll(q, items[i]) <= ScoreAll(q, items[found[r]])
<1> DEFINE H == Hits(q, items)
           M == Matches(q, items)
           n == Cardinality(M)
           sorted == Ordered(M, Better(M))
           size == IF n < limit THEN n ELSE limit
           found == Search(q, items, limit)
<1>1. /\ IsFiniteSet(M) /\ n = Cardinality(H)
      /\ \A m \in M : m.Index \in H /\ m.Score = ScoreAll(q, items[m.Index])
      /\ \A i \in H : \E m \in M : m.Index = i
      /\ \A m, k \in M : m.Index = k.Index => m = k
      /\ IsOrder(M, Better(M))
  BY MatchesOrdered
<1>2. /\ n \in Nat /\ sorted \in [1..n -> M]
      /\ \A a, b \in 1..n : a < b => <<sorted[a], sorted[b]>> \in Better(M)
      /\ \A m \in M : \E a \in 1..n : sorted[a] = m
  BY <1>1, OrderedSorts
<1>3. size \in 0..n /\ size <= limit /\ found = [r \in 1..size |-> sorted[r].Index]
  <2>1. Len(sorted) = n
    BY <1>2
  <2>2. (IF limit > 0 /\ Len(sorted) > limit THEN limit ELSE Len(sorted)) = size
    BY <2>1, <1>2
  <2> QED
    BY <1>2, <2>2 DEF Search
<1>4. \A i \in H : i \in DOMAIN items
  BY HitsFinite
<1> HIDE DEF H, M, n, sorted, size, found
<1>5. \A r \in 1..size : sorted[r] \in M /\ found[r] = sorted[r].Index /\ found[r] \in H
  BY <1>1, <1>2, <1>3
<1>6. found \in [1..size -> H] /\ found \in [1..size -> DOMAIN items]
  BY <1>3, <1>4, <1>5
<1>7. found \in Seq(DOMAIN items) /\ Len(found) = size /\ DOMAIN found = 1..size
  BY <1>3, <1>6
<1>8. IsInjective(found)
  <2> SUFFICES ASSUME NEW a \in 1..size, NEW b \in 1..size, found[a] = found[b] PROVE a = b
    BY <1>7 DEF IsInjective
  <2>1. sorted[a] = sorted[b] /\ a \in 1..n /\ b \in 1..n
    <3>1. sorted[a].Index = sorted[b].Index /\ sorted[a] \in M /\ sorted[b] \in M
      BY <1>5
    <3>2. sorted[a] = sorted[b]
      BY <3>1, <1>1
    <3> QED
      BY <3>2, <1>2, <1>3
  <2>2. <<sorted[a], sorted[a]>> \notin Better(M)
    BY <1>1, <1>5 DEF IsOrder
  <2> QED
    BY <2>1, <2>2, <1>2
<1>9. ASSUME NEW r \in 1..size, NEW i \in H, i \notin ToSet(found)
      PROVE  ScoreAll(q, items[i]) <= ScoreAll(q, items[found[r]])
  <2>1. PICK m \in M : m.Index = i
    BY <1>1
  <2>2. PICK a \in 1..n : sorted[a] = m
    BY <1>2
  <2>3. a \notin 1..size
    BY <1>5, <1>7, <1>9, <2>1, <2>2 DEF ToSet
  <2>4. r \in 1..n /\ r < a
    BY <1>2, <1>3, <2>3
  <2>5. <<sorted[r], m>> \in Better(M)
    BY <1>2, <2>2, <2>4
  <2>6. m.Score = ScoreAll(q, items[i]) /\ sorted[r].Score = ScoreAll(q, items[found[r]])
    BY <1>1, <1>5, <2>1
  <2>7. items[i] \in Text /\ items[found[r]] \in Text
    BY <1>4, <1>5
  <2>8. m.Score \in Nat /\ sorted[r].Score \in Nat
    BY <2>6, <2>7, ScoreAllType
  <2>9. sorted[r].Score > m.Score \/ sorted[r].Score = m.Score
    BY <2>5 DEF Better
  <2> QED
    BY <2>6, <2>8, <2>9
<1> QED
  <2>1. H = {i \in DOMAIN items : Fits(q, items[i])}
    BY DEF H, Hits
  <2>2. size = IF Cardinality(H) < limit THEN Cardinality(H) ELSE limit
    BY <1>1 DEF size
  <2>3. /\ found \in Seq(DOMAIN items) /\ IsInjective(found)
        /\ Len(found) = IF Cardinality(H) < limit THEN Cardinality(H) ELSE limit
        /\ \A r \in DOMAIN found : found[r] \in H
        /\ \A r \in DOMAIN found : \A i \in H :
             i \notin ToSet(found) =>
               ScoreAll(q, items[i]) <= ScoreAll(q, items[found[r]])
    BY <1>5, <1>7, <1>8, <1>9, <2>2
  <2> QED
    BY <2>1, <2>3 DEF found

-----------------------------------------------------------------------------
\* The list: what it holds, finds and shows.

\* No entry is listed twice.
Listing == {list \in Seq(Entry) : IsInjective(list)}

\* What the list finds and shows for a query.
FoundFor(q, list) == IF q = <<>> THEN <<>> ELSE Search(q, Names(list), MaxResults)
ShownFor(q, list) ==
  IF q = <<>> THEN Limited(list)
  ELSE [i \in DOMAIN FoundFor(q, list) |-> list[FoundFor(q, list)[i]]]

\* The rows stand for the matches or, when there are none, for the first entries: even
\* those of a query that has changed since.
Stand(list, found, shownRows) ==
  \/ found = <<>> /\ shownRows \in {<<>>, Limited(list)}
  \/ found # <<>> /\ shownRows = [r \in DOMAIN found |-> list[found[r]]]

\* Search is called with one name for each entry.
LEMMA NamesType ==
  ASSUME NEW list \in Seq(Entry)
  PROVE  Names(list) \in Seq(Text) /\ DOMAIN Names(list) = DOMAIN list
         /\ \A i \in DOMAIN list : Names(list)[i] = NameOf[list[i].id]
<1>1. \A i \in 1..Len(list) : NameOf[list[i].id] \in Text
  <2>1. \A i \in 1..Len(list) : list[i] \in Entry
    OBVIOUS
  <2>2. \A e \in Entry : e.id \in Ids
    BY DEF Entry
  <2> QED
    BY <2>1, <2>2, TypesAssumption
<1>2. Names(list) \in [1..Len(list) -> Text]
  BY <1>1 DEF Names
<1> QED
  BY <1>2 DEF Names

\* A category keeps a list without duplicates.
LEMMA CategoryType ==
  ASSUME NEW list \in Listing, NEW cat
  PROVE  OfCategory(list, cat) \in Listing
<1> DEFINE at == {i \in DOMAIN list : cat = All \/ list[i].type = cat}
<1>1. at \in SUBSET DOMAIN list /\ OfCategory(list, cat) = Parts(list, at)
  BY DEF OfCategory
<1>2. list \in Seq(Entry) /\ IsInjective(list)
  BY DEF Listing
<1> HIDE DEF at
<1>3. Parts(list, at) \in Seq(Entry) /\ IsInjective(Parts(list, at))
  BY <1>1, <1>2, PartsTakes
<1> QED
  BY <1>1, <1>3 DEF Listing

\* The first entries of a list are its own.
LEMMA LimitedType ==
  ASSUME NEW list \in Seq(Entry)
  PROVE  /\ Limited(list) \in Seq(Entry)
         /\ Len(Limited(list)) = IF Len(list) < MaxResults THEN Len(list) ELSE MaxResults
         /\ \A r \in DOMAIN Limited(list) : r \in DOMAIN list /\ Limited(list)[r] = list[r]
<1> DEFINE n == IF Len(list) < MaxResults THEN Len(list) ELSE MaxResults
<1>1. n \in 0..Len(list)
  BY LimitsAssumption
<1>2. Limited(list) = SubSeq(list, 1, n)
  BY DEF Limited
<1>3. Limited(list) = [r \in 1..n |-> list[r]]
  <2> HIDE DEF n
  <2> QED
    BY <1>1, <1>2
<1> HIDE DEF n
<1>4. Limited(list) \in [1..n -> Entry]
  BY <1>1, <1>3
<1>5. Limited(list) \in Seq(Entry) /\ Len(Limited(list)) = n
  BY <1>1, <1>4
<1> QED
  BY <1>1, <1>3, <1>5 DEF n

\* Matches are indices of the list, and the rows stand for them.
LEMMA FoundType ==
  ASSUME NEW q \in Queries, NEW list \in Seq(Entry)
  PROVE  /\ FoundFor(q, list) \in Seq(DOMAIN list)
         /\ ShownFor(q, list) \in Seq(Entry)
         /\ Stand(list, FoundFor(q, list), ShownFor(q, list))
<1>1. FoundFor(q, list) \in Seq(DOMAIN list)
  <2>1. q \in Seq(Text)
    BY QueriesAssumption
  <2>2. Search(q, Names(list), MaxResults) \in Seq(DOMAIN Names(list))
    BY <2>1, NamesType, LimitsAssumption, SearchFinds
  <2>3. Search(q, Names(list), MaxResults) \in Seq(DOMAIN list)
    BY <2>2, NamesType
  <2>4. <<>> \in Seq(DOMAIN list)
    OBVIOUS
  <2> QED
    BY <2>3, <2>4 DEF FoundFor
<1>2. CASE q = <<>>
  BY <1>1, <1>2, LimitedType DEF FoundFor, ShownFor, Stand
<1>3. CASE q # <<>>
  <2> DEFINE found == FoundFor(q, list)
  <2>1. ShownFor(q, list) = [i \in DOMAIN found |-> list[found[i]]]
    BY <1>3 DEF ShownFor
  <2>2. DOMAIN found = 1..Len(found) /\ Len(found) \in Nat
        /\ \A i \in 1..Len(found) : found[i] \in DOMAIN list
    BY <1>1
  <2>3. ShownFor(q, list) \in [1..Len(found) -> Entry]
    <3> HIDE DEF found
    <3> QED
      BY <2>1, <2>2
  <2>4. ShownFor(q, list) \in Seq(Entry)
    BY <2>2, <2>3
  <2>5. found = <<>> => ShownFor(q, list) = <<>>
    <3> SUFFICES ASSUME found = <<>> PROVE ShownFor(q, list) = <<>>
      OBVIOUS
    <3>1. Len(found) = 0
      OBVIOUS
    <3> HIDE DEF found
    <3> QED
      BY <2>3, <3>1
  <2> HIDE DEF found
  <2>6. Stand(list, found, ShownFor(q, list))
    BY <2>1, <2>5 DEF Stand
  <2> QED
    BY <1>1, <2>4, <2>6 DEF found
<1> QED
  BY <1>2, <1>3

\* The server lists no entry twice.
LEMMA VaultListed ==
  ASSUME vault \subseteq Ids
  PROVE  VaultList \in Listing
<1> DEFINE n == Cardinality(vault)
           ids == Ascending(vault)
<1>1. vault \in SUBSET Nat /\ IsFiniteSet(vault)
  BY LimitsAssumption, FS_Subset
<1>2. /\ n \in Nat /\ ids \in [1..n -> vault]
      /\ \A a, b \in 1..n : a < b => ids[a] < ids[b]
  BY <1>1, AscendingSorts
<1>3. VaultList = [i \in 1..n |-> [id |-> ids[i], type |-> TypeOf[ids[i]]]]
  BY <1>2 DEF VaultList
<1> HIDE DEF ids, n
<1>4. \A i \in 1..n : ids[i] \in Ids /\ ids[i] \in Nat
                      /\ [id |-> ids[i], type |-> TypeOf[ids[i]]] \in Entry
  BY <1>1, <1>2, TypesAssumption DEF Entry
<1>5. VaultList \in [1..n -> Entry]
  BY <1>3, <1>4
<1>6. IsInjective(VaultList)
  <2> SUFFICES ASSUME NEW a \in 1..n, NEW b \in 1..n, VaultList[a] = VaultList[b] PROVE a = b
    BY <1>5 DEF IsInjective
  <2>1. VaultList[a].id = ids[a] /\ VaultList[b].id = ids[b]
    BY <1>3
  <2>2. ids[a] = ids[b]
    BY <2>1
  <2>3. ids[a] \in Nat /\ ids[b] \in Nat
    BY <1>4
  <2> QED
    BY <1>2, <2>2, <2>3
<1> QED
  BY <1>2, <1>5, <1>6 DEF Listing

-----------------------------------------------------------------------------
\* Which steps change the list and what is under way for it.
LEMMA SearchSteps ==
  ASSUME [Next]_vars
  PROVE  \/ \E cat \in Types \cup {All} :
              FilterAndShow(cat) /\ UNCHANGED <<load, allEntries, query, timers, idle>>
         \/ DispatchList
         \/ \E s \in Loads :
              \/ /\ LoadEntries(s) /\ UNCHANGED <<listVars, query, timers>>
                 /\ UNCHANGED idle \/ DispatchNext("done")
              \/ ListAnswered(s, VaultList) \/ LoadFails(s) \/ LoadEnds(s)
         \/ \E q \in Queries : SetText(q)
         \/ SearchChanged \/ TimerFires \/ Select
         \/ /\ \E t \in Tasks : task[t] # Idle /\ IdleAddOnce(Callback(t))
            /\ UNCHANGED <<load, listVars, query, timers>>
         \/ /\ DispatchNext("show") \/ DispatchNext("quit")
            /\ UNCHANGED <<load, listVars, query, timers>>
         \/ UNCHANGED searchVars
<1> USE DEF searchVars, listVars
<1>1. ASSUME KeepCategory, UNCHANGED <<load, allEntries, query, timers, idle>>
      PROVE  UNCHANGED searchVars
  BY <1>1 DEF KeepCategory
<1>2. CASE ClickMode
  <2>1. CASE ShowSearch /\ KeepCategory
    BY <1>1, <1>2, <2>1 DEF ClickMode
  <2>2. CASE ShowAdd
    <3>1. CASE KeepCategory
      BY <1>1, <1>2, <3>1 DEF ClickMode
    <3>2. CASE ChangeCategory(Login)
      BY <1>2, <3>2, LoginAssumption DEF ClickMode, ChangeCategory
    <3> QED
      BY <2>2, <3>1, <3>2 DEF ShowAdd
  <2> QED
    BY <1>2, <2>1, <2>2 DEF ClickMode
<1>3. ASSUME NEW cat \in Types \cup {All}, ChooseCategory(cat)
      PROVE  FilterAndShow(cat) /\ UNCHANGED <<load, allEntries, query, timers, idle>>
  BY <1>3 DEF ChooseCategory, ChangeCategory
<1>4. ASSUME SwitchToSearch, UNCHANGED idle \/ DispatchNext("done")
      PROVE  \E s \in Loads : /\ LoadEntries(s) /\ UNCHANGED <<listVars, query, timers>>
                              /\ UNCHANGED idle \/ DispatchNext("done")
  BY <1>4 DEF SwitchToSearch, KeepCategory
<1>5. CASE Escape
  BY <1>4, <1>5, QueriesAssumption DEF Escape, Leave, Quit
<1>6. CASE UseSearch
  BY <1>6 DEF UseSearch
<1>7. CASE Quit
  BY <1>7 DEF Quit
<1>8. ASSUME NEW t \in Tasks, Pick(t) \/ Save(t) \/ TaskFails(t) PROVE UNCHANGED searchVars
  BY <1>8 DEF Pick, Save, TaskFails
<1>9. ASSUME NEW t \in Tasks, TaskEnds(t)
      PROVE  /\ task[t] # Idle /\ IdleAddOnce(Callback(t))
             /\ UNCHANGED <<load, listVars, query, timers>>
  BY <1>9 DEF TaskEnds
<1>10. CASE Dispatch
  BY <1>4, <1>10 DEF Dispatch
<1>11. CASE UNCHANGED vars
  BY <1>11 DEF vars
<1> QED
  BY <1>2, <1>3, <1>5, <1>6, <1>7, <1>8, <1>9, <1>10, <1>11, Zenon
     DEF Next, User, Goroutines, Callbacks

-----------------------------------------------------------------------------
\* The inductive invariant of the list: rows and entries are allowed to be stale while, and
\* only while, the callback or the timer that will rebuild them is on its way.

Queued == [do : {"loaded", "changed", "quit", "done"}] \cup [do : {"show"}, id : Ids]
Loading == [at : {"off", "asking", "answered"}, list : Listing]
Pending(queue, what) == \E i \in DOMAIN queue : queue[i].do = what

\* The entries are those of the category, unless the list has just been loaded.
Filtered(cat, every, list, queue) == list = OfCategory(every, cat) \/ Pending(queue, "loaded")

\* Matches and rows are those of the query, unless it has just changed.
Settled(q, list, found, shownRows, running, queue) ==
  \/ found = FoundFor(q, list) /\ shownRows = ShownFor(q, list)
  \/ running # {}
  \/ Pending(queue, "changed")

\* What holds of the list whatever is on its way.
ListInv ==
  /\ allEntries \in Listing /\ entries \in Listing
  /\ category \in Types \cup {All}
  /\ matches \in Seq(DOMAIN entries) /\ rows \in Seq(Entry) /\ selected \in 0..Len(rows)
  /\ Stand(entries, matches, rows)

SearchInv ==
  /\ load \in [Loads -> Loading]
  /\ ListInv
  /\ query \in Queries
  /\ timers \subseteq {"search-changed", "debounce"}
  /\ idle \in Seq(Queued)
  /\ Filtered(category, allEntries, entries, idle)
  /\ Settled(query, entries, matches, rows, timers, idle)

\* What the actions of the list leave: OnSearchChanged for its entries and query.
LEMMA RowsRebuilt ==
  ASSUME NEW list \in Listing, query \in Queries, OnSearchChanged(list)
  PROVE  /\ matches' = FoundFor(query, list) /\ rows' = ShownFor(query, list)
         /\ matches' \in Seq(DOMAIN list) /\ rows' \in Seq(Entry)
         /\ selected' \in 0..Len(rows') /\ Stand(list, matches', rows')
<1>1. list \in Seq(Entry)
  BY DEF Listing
<1>2. matches' = FoundFor(query, list) /\ rows' = ShownFor(query, list)
  BY DEF OnSearchChanged, Matched, Shown, FoundFor, ShownFor
<1>3. matches' \in Seq(DOMAIN list) /\ rows' \in Seq(Entry) /\ Stand(list, matches', rows')
  BY <1>1, <1>2, FoundType
<1>4. selected' \in 0..Len(rows')
  <2>1. selected' = IF rows' = <<>> THEN 0 ELSE 1
    BY DEF OnSearchChanged
  <2>2. rows' # <<>> => Len(rows') >= 1
    BY <1>3
  <2>3. Len(rows') \in Nat
    BY <1>3
  <2> QED
    BY <2>1, <2>2, <2>3
<1> QED
  BY <1>2, <1>3, <1>4

\* What filterByCategory leaves: nothing stale.
LEMMA FilteredAndShown ==
  ASSUME ListInv, query \in Queries, NEW cat \in Types \cup {All}, FilterAndShow(cat),
         UNCHANGED <<allEntries, query>>
  PROVE  /\ ListInv'
         /\ \A queue : Filtered(cat, allEntries', entries', queue)
         /\ \A queue, running : Settled(query', entries', matches', rows', running, queue)
         /\ category' = cat
<1>1. entries' = OfCategory(allEntries, cat) /\ category' = cat /\ OnSearchChanged(entries')
  BY DEF FilterAndShow
<1>2. entries' \in Listing
  BY <1>1, CategoryType DEF ListInv
<1>3. /\ matches' = FoundFor(query, entries') /\ rows' = ShownFor(query, entries')
      /\ matches' \in Seq(DOMAIN entries') /\ rows' \in Seq(Entry)
      /\ selected' \in 0..Len(rows') /\ Stand(entries', matches', rows')
  BY <1>1, <1>2, RowsRebuilt
<1> QED
  BY <1>1, <1>2, <1>3 DEF ListInv, Filtered, Settled

\* A callback queued is pending, with all those before it.
LEMMA Enqueued ==
  ASSUME NEW queue \in Seq(Queued), NEW c \in Queued
  PROVE  /\ Append(queue, c) \in Seq(Queued)
         /\ Pending(Append(queue, c), c.do)
         /\ \A what : Pending(queue, what) => Pending(Append(queue, c), what)
<1> DEFINE more == Append(queue, c)
<1>1. /\ more \in Seq(Queued) /\ Len(more) = Len(queue) + 1 /\ Len(queue) \in Nat
      /\ DOMAIN more = 1..(Len(queue) + 1) /\ DOMAIN queue = 1..Len(queue)
      /\ \A i \in 1..Len(queue) : more[i] = queue[i]
      /\ more[Len(queue) + 1] = c
  OBVIOUS
<1> HIDE DEF more
<1>2. Pending(more, c.do)
  BY <1>1 DEF Pending
<1>3. \A what : Pending(queue, what) => Pending(more, what)
  BY <1>1 DEF Pending
<1> QED
  BY <1>1, <1>2, <1>3 DEF more

\* The callback that runs leaves the others.
LEMMA Dequeued ==
  ASSUME NEW queue \in Seq(Queued), queue # <<>>
  PROVE  /\ Head(queue) \in Queued /\ Tail(queue) \in Seq(Queued)
         /\ \A what : Pending(queue, what) => Head(queue).do = what \/ Pending(Tail(queue), what)
<1>1. /\ Head(queue) = queue[1] /\ Head(queue) \in Queued /\ Tail(queue) \in Seq(Queued)
      /\ Len(queue) \in Nat /\ DOMAIN queue = 1..Len(queue)
      /\ DOMAIN Tail(queue) = 1..(Len(queue) - 1)
      /\ \A i \in 1..(Len(queue) - 1) : Tail(queue)[i] = queue[i + 1]
  OBVIOUS
<1>2. ASSUME NEW what, Pending(queue, what), Head(queue).do # what
      PROVE  Pending(Tail(queue), what)
  <2>1. PICK i \in 1..Len(queue) : queue[i].do = what
    BY <1>1, <1>2 DEF Pending
  <2>2. i - 1 \in 1..(Len(queue) - 1) /\ (i - 1) + 1 = i
    BY <1>1, <1>2, <2>1
  <2> QED
    BY <1>1, <2>1, <2>2 DEF Pending
<1> QED
  BY <1>1, <1>2

\* SearchChanged drops no callback of a load.
LEMMA Dropped ==
  ASSUME NEW queue \in Seq(Queued), Pending(queue, "loaded")
  PROVE  Pending(Parts(queue, {i \in DOMAIN queue : queue[i].do # "changed"}), "loaded")
<1> DEFINE at == {i \in DOMAIN queue : queue[i].do # "changed"}
<1>1. at \in SUBSET DOMAIN queue
  OBVIOUS
<1>2. PICK i \in at : queue[i].do = "loaded"
  BY DEF Pending
<1> HIDE DEF at
<1>3. PICK r \in DOMAIN Parts(queue, at) : Parts(queue, at)[r] = queue[i]
  BY <1>1, PartsTakes
<1> QED
  BY <1>2, <1>3 DEF Pending, at

\* The goroutines that load keep the types of their variables.
LEMMA LoadStepType ==
  ASSUME load \in [Loads -> Loading], NEW s \in Loads, NEW from,
         NEW to \in {"off", "asking", "answered"}, NEW list \in Listing, LoadStep(s, from, to, list)
  PROVE  load' \in [Loads -> Loading]
<1>1. [at |-> to, list |-> list] \in Loading
  BY DEF Loading
<1> QED
  BY <1>1 DEF LoadStep

\* Nothing else of the list changes in a step about the queue or the goroutines.
LEMMA ListKept ==
  ASSUME SearchInv, UNCHANGED <<entries, matches, category, rows, query>>,
         selected' \in 0..Len(rows), allEntries' \in Listing, load' \in [Loads -> Loading],
         timers' \subseteq {"search-changed", "debounce"}, idle' \in Seq(Queued),
         allEntries' = allEntries \/ Pending(idle', "loaded"),
         Pending(idle, "loaded") => Pending(idle', "loaded"),
         timers # {} \/ Pending(idle, "changed") => timers' # {} \/ Pending(idle', "changed")
  PROVE  SearchInv'
<1>1. ListInv'
  BY DEF SearchInv, ListInv
<1>2. Filtered(category, allEntries, entries, idle)'
  BY DEF SearchInv, Filtered
<1>3. Settled(query, entries, matches, rows, timers, idle)'
  BY DEF SearchInv, Settled
<1>4. query' \in Queries
  BY DEF SearchInv
<1> QED
  BY <1>1, <1>2, <1>3, <1>4 DEF SearchInv

\* Every step keeps the invariant of the list.
LEMMA SearchStep ==
  ASSUME SearchInv, vault \subseteq Ids, \A t \in Tasks : task[t] # Idle => Callback(t) \in Queued,
         [Next]_vars
  PROVE  SearchInv'
<1>1. /\ load \in [Loads -> Loading] /\ allEntries \in Listing
      /\ selected \in 0..Len(rows) /\ query \in Queries
      /\ timers \subseteq {"search-changed", "debounce"} /\ idle \in Seq(Queued)
  BY DEF SearchInv, ListInv
<1>2. <<>> \in Listing
  BY DEF Listing, IsInjective
<1>3. ASSUME NEW cat \in Types \cup {All}, FilterAndShow(cat),
             UNCHANGED <<load, allEntries, query, timers>>, idle' \in Seq(Queued)
      PROVE  SearchInv'
  <2>1. /\ ListInv' /\ category' = cat
        /\ Filtered(cat, allEntries', entries', idle')
        /\ Settled(query', entries', matches', rows', timers', idle')
    BY <1>3, FilteredAndShown DEF SearchInv
  <2> QED
    BY <1>3, <2>1, <1>1 DEF SearchInv
<1>4. CASE DispatchList
  <2>0. UNCHANGED <<load, allEntries, query, timers>> /\ idle # <<>> /\ idle' = Tail(idle)
    BY <1>4 DEF DispatchList, DispatchNext
  <2>1. idle' \in Seq(Queued)
    BY <1>1, <2>0, Dequeued
  <2>2. CASE FilterAndShow(category)
    BY <1>3, <2>0, <2>1, <2>2 DEF SearchInv, ListInv
  <2>3. CASE /\ DispatchNext("changed") /\ OnSearchChanged(entries)
             /\ UNCHANGED <<category, entries>>
    <3>1. /\ matches' = FoundFor(query, entries) /\ rows' = ShownFor(query, entries)
          /\ matches' \in Seq(DOMAIN entries) /\ rows' \in Seq(Entry)
          /\ selected' \in 0..Len(rows') /\ Stand(entries, matches', rows')
      BY <1>1, <2>3, RowsRebuilt DEF SearchInv, ListInv
    <3>2. ListInv'
      BY <2>0, <2>3, <3>1 DEF SearchInv, ListInv
    <3>3. Settled(query, entries, matches, rows, timers, idle)'
      BY <2>0, <2>3, <3>1 DEF Settled
    <3>4. Pending(idle, "loaded") => Pending(idle', "loaded")
      BY <1>1, <2>0, <2>3, Dequeued DEF DispatchNext
    <3>5. Filtered(category, allEntries, entries, idle)'
      BY <2>0, <2>3, <3>4 DEF SearchInv, Filtered
    <3> QED
      BY <1>1, <2>0, <2>1, <3>2, <3>3, <3>5 DEF SearchInv
  <2> QED
    BY <1>4, <2>2, <2>3 DEF DispatchList
<1>5. ASSUME NEW what \in {"show", "quit", "done"}, DispatchNext(what)
      PROVE  /\ idle' \in Seq(Queued)
             /\ Pending(idle, "loaded") => Pending(idle', "loaded")
             /\ Pending(idle, "changed") => Pending(idle', "changed")
  BY <1>1, <1>5, Dequeued DEF DispatchNext
<1>6. ASSUME NEW s \in Loads, LoadEntries(s), UNCHANGED <<listVars, query, timers>>,
             UNCHANGED idle \/ DispatchNext("done")
      PROVE  SearchInv'
  <2>1. load' \in [Loads -> Loading]
    BY <1>1, <1>2, <1>6, LoadStepType DEF LoadEntries
  <2> QED
    BY <1>1, <1>5, <1>6, <2>1, ListKept DEF listVars
<1>7. ASSUME NEW s \in Loads, ListAnswered(s, VaultList) \/ LoadFails(s) PROVE SearchInv'
  <2>1. load' \in [Loads -> Loading]
    BY <1>1, <1>2, <1>7, LoadStepType, VaultListed DEF ListAnswered, LoadFails
  <2>2. UNCHANGED <<listVars, query, timers, idle>>
    BY <1>7 DEF ListAnswered, LoadFails
  <2> QED
    BY <1>1, <2>1, <2>2, ListKept DEF listVars
<1>8. ASSUME NEW s \in Loads, LoadEnds(s) PROVE SearchInv'
  <2>1. load' \in [Loads -> Loading]
    BY <1>1, <1>2, <1>8, LoadStepType DEF LoadEnds
  <2>2. allEntries' = load[s].list /\ allEntries' \in Listing
    BY <1>1, <1>8 DEF LoadEnds, Loading
  <2> DEFINE c == [do |-> "loaded"]
  <2>3. idle' = Append(idle, c) /\ c \in Queued /\ c.do = "loaded"
    BY <1>8 DEF LoadEnds, IdleAddOnce, Queued
  <2>4. /\ idle' \in Seq(Queued) /\ Pending(idle', "loaded")
        /\ Pending(idle, "changed") => Pending(idle', "changed")
    <3> HIDE DEF c
    <3> QED
      BY <1>1, <2>3, Enqueued
  <2>5. UNCHANGED <<entries, matches, category, rows, selected, query, timers>>
    BY <1>8 DEF LoadEnds
  <2> QED
    BY <1>1, <2>1, <2>2, <2>4, <2>5, ListKept
<1>9. ASSUME NEW q \in Queries, SetText(q) PROVE SearchInv'
  <2>1. /\ query' \in Queries /\ timers' = timers \cup {"search-changed"}
        /\ UNCHANGED <<load, allEntries, entries, matches, category, rows, selected, idle>>
    BY <1>9 DEF SetText, listVars
  <2>2. ListInv' /\ Filtered(category, allEntries, entries, idle)'
    BY <2>1 DEF SearchInv, ListInv, Filtered
  <2>3. Settled(query, entries, matches, rows, timers, idle)'
    BY <2>1 DEF Settled
  <2> QED
    BY <1>1, <2>1, <2>2, <2>3 DEF SearchInv
<1>10. CASE SearchChanged
  <2> DEFINE at == {i \in DOMAIN idle : idle[i].do # "changed"}
  <2>1. idle' = Parts(idle, at) /\ timers' = {"debounce"} /\ UNCHANGED <<load, listVars, query>>
    BY <1>10 DEF SearchChanged
  <2>2. idle' \in Seq(Queued)
    <3>1. at \in SUBSET DOMAIN idle
      OBVIOUS
    <3> HIDE DEF at
    <3> QED
      BY <1>1, <2>1, <3>1, PartsTakes
  <2>3. Pending(idle, "loaded") => Pending(idle', "loaded")
    BY <1>1, <2>1, Dropped
  <2> QED
    BY <1>1, <2>1, <2>2, <2>3, ListKept DEF listVars
<1>11. CASE TimerFires
  <2> DEFINE c == [do |-> "changed"]
  <2>1. idle' = Append(idle, c) /\ c \in Queued /\ c.do = "changed"
    BY <1>11 DEF TimerFires, IdleAddOnce, Queued
  <2>2. /\ idle' \in Seq(Queued) /\ Pending(idle', "changed")
        /\ Pending(idle, "loaded") => Pending(idle', "loaded")
    <3> HIDE DEF c
    <3> QED
      BY <1>1, <2>1, Enqueued
  <2>3. timers' = timers \ {"debounce"} /\ UNCHANGED <<load, listVars, query>>
    BY <1>11 DEF TimerFires
  <2> QED
    BY <1>1, <2>2, <2>3, ListKept DEF listVars
<1>12. CASE Select
  <2>1. /\ selected' \in DOMAIN rows
        /\ UNCHANGED <<load, allEntries, entries, matches, category, rows, query, timers, idle>>
    BY <1>12 DEF Select
  <2>2. DOMAIN rows = 1..Len(rows)
    BY DEF SearchInv, ListInv
  <2> QED
    BY <1>1, <2>1, <2>2, ListKept
<1>13. ASSUME NEW t \in Tasks, task[t] # Idle, IdleAddOnce(Callback(t)),
              UNCHANGED <<load, listVars, query, timers>>
       PROVE  SearchInv'
  <2>1. idle' = Append(idle, Callback(t)) /\ Callback(t) \in Queued
    BY <1>13 DEF IdleAddOnce
  <2>2. /\ idle' \in Seq(Queued)
        /\ \A what : Pending(idle, what) => Pending(idle', what)
    BY <1>1, <2>1, Enqueued
  <2> QED
    BY <1>1, <1>13, <2>2, ListKept DEF listVars
<1>14. ASSUME DispatchNext("show") \/ DispatchNext("quit"),
              UNCHANGED <<load, listVars, query, timers>>
       PROVE  SearchInv'
  BY <1>1, <1>5, <1>14, ListKept DEF listVars
<1>15. CASE UNCHANGED searchVars
  BY <1>1, <1>15, ListKept DEF searchVars, listVars
<1>16. ASSUME NEW cat \in Types \cup {All}, FilterAndShow(cat),
              UNCHANGED <<load, allEntries, query, timers, idle>>
       PROVE  SearchInv'
  BY <1>1, <1>3, <1>16
<1> QED
  BY <1>4, <1>6, <1>7, <1>8, <1>9, <1>10, <1>11, <1>12, <1>13, <1>14, <1>15, <1>16, SearchSteps

-----------------------------------------------------------------------------
\* What follows for the rows.

\* A row stands for its entry whatever has not been dispatched yet.
LEMMA RowsStand ==
  ASSUME ListInv
  PROVE  RowsTell
<1> SUFFICES ASSUME NEW row \in DOMAIN rows PROVE HasEntry(row) /\ EntryAt(row) = rows[row]
  BY DEF RowsTell
<1>1. entries \in Seq(Entry) /\ matches \in Seq(DOMAIN entries) /\ Stand(entries, matches, rows)
  BY DEF ListInv, Listing
<1>2. CASE matches = <<>>
  <2>1. rows = Limited(entries)
    BY <1>1, <1>2 DEF Stand
  <2>2. row \in DOMAIN entries /\ rows[row] = entries[row]
    BY <1>1, <2>1, LimitedType
  <2> QED
    BY <1>2, <2>2 DEF HasEntry, EntryAt, EntryIndex
<1>3. CASE matches # <<>>
  <2>1. /\ row \in DOMAIN matches /\ rows[row] = entries[matches[row]]
        /\ matches[row] \in DOMAIN entries
    BY <1>1, <1>3 DEF Stand
  <2> QED
    BY <1>3, <2>1 DEF HasEntry, EntryAt, EntryIndex
<1> QED
  BY <1>2, <1>3

\* The rows of a list and a query are what RowsSettle says of them.
LEMMA RowsOfList ==
  ASSUME NEW list \in Listing, query \in Queries, rows = ShownFor(query, list)
  PROVE  LET fit == {i \in DOMAIN list : query = <<>> \/ Fits(query, NameOf[list[i].id])}
             rank(e) == ScoreAll(query, NameOf[e.id])
         IN  /\ Len(rows) = IF Cardinality(fit) < MaxResults THEN Cardinality(fit) ELSE MaxResults
             /\ ToSet(rows) \subseteq {list[i] : i \in fit} /\ IsInjective(rows)
             /\ \A r \in DOMAIN rows : \A i \in fit :
                  list[i] \notin ToSet(rows) => rank(list[i]) <= rank(rows[r])
<1> DEFINE fit == {i \in DOMAIN list : query = <<>> \/ Fits(query, NameOf[list[i].id])}
           size == Cardinality(fit)
           rank(e) == ScoreAll(query, NameOf[e.id])
           names == Names(list)
<1>1. list \in Seq(Entry) /\ IsInjective(list) /\ query \in Seq(Text)
  BY QueriesAssumption DEF Listing
<1>2. DOMAIN list = 1..Len(list) /\ Len(list) \in Nat
  BY <1>1
<1>3. /\ names \in Seq(Text) /\ DOMAIN names = DOMAIN list
      /\ \A i \in DOMAIN list : names[i] = NameOf[list[i].id]
  BY <1>1, NamesType
<1>4. CASE query = <<>>
  <2>1. fit = 1..Len(list) /\ size = Len(list)
    <3>1. fit = 1..Len(list)
      BY <1>2, <1>4
    <3> QED
      <4>1. \A n \in Nat : Cardinality(1..n) = n
        BY FS_Interval
      <4>2. Cardinality(1..Len(list)) = Len(list)
        BY <1>2, <4>1
      <4> QED
        BY <3>1, <4>2
  <2>2. /\ rows = Limited(list) /\ rows \in Seq(Entry)
        /\ Len(rows) = IF size < MaxResults THEN size ELSE MaxResults
        /\ \A r \in DOMAIN rows : r \in DOMAIN list /\ rows[r] = list[r]
    BY <1>1, <1>4, <2>1, LimitedType DEF ShownFor
  <2>3. ToSet(rows) \subseteq {list[i] : i \in fit} /\ IsInjective(rows)
    BY <1>1, <1>2, <2>1, <2>2 DEF ToSet, IsInjective
  <2>4. \A e \in Entry : rank(e) = 0
    <3>1. \A e \in Entry : NameOf[e.id] \in Text
      BY TypesAssumption DEF Entry
    <3>2. Fields(query) = <<>>
      <4>1. Fields(query) \in Seq(Text)
        BY <1>1, Words
      <4>2. DOMAIN query = {}
        BY <1>4
      <4> DEFINE at == {i \in DOMAIN query : query[i] # <<>>}
      <4>3. at = {} /\ Fields(query) = Parts(query, at)
        BY <4>2 DEF Fields
      <4> HIDE DEF at
      <4>4. Len(Fields(query)) = 0
        BY <1>1, <4>3, PartsTakes, FS_EmptySet
      <4> QED
        BY <4>1, <4>4
    <3>3. \A e \in Entry : Total(Scores(Fields(query), NameOf[e.id])) = 0
      BY <1>1, <3>1, <3>2, Words, ScoresType, TotalType
    <3> QED
      BY <3>2, <3>3 DEF ScoreAll
  <2>5. ASSUME NEW r \in DOMAIN rows, NEW i \in fit PROVE rank(list[i]) <= rank(rows[r])
    <3>1. list[i] \in Entry /\ rows[r] \in Entry
      BY <1>1, <2>2
    <3>2. rank(list[i]) = 0 /\ rank(rows[r]) = 0
      BY <2>4, <3>1
    <3> HIDE DEF rank
    <3> QED
      BY <3>2
  <2> QED
    BY <2>2, <2>3, <2>5
<1>5. CASE query # <<>>
  <2> DEFINE found == Search(query, names, MaxResults)
             fits  == {i \in DOMAIN names : Fits(query, names[i])}
  <2>1. fits = fit
    BY <1>3, <1>5
  <2>2. /\ found \in Seq(DOMAIN names) /\ IsInjective(found)
        /\ Len(found) = IF Cardinality(fits) < MaxResults THEN Cardinality(fits) ELSE MaxResults
        /\ \A r \in DOMAIN found : found[r] \in fits
        /\ \A r \in DOMAIN found : \A i \in fits :
             i \notin ToSet(found) => ScoreAll(query, names[i]) <= ScoreAll(query, names[found[r]])
    <3> HIDE DEF names
    <3> QED
      BY <1>1, <1>3, LimitsAssumption, SearchFinds
  <2>3. rows = [i \in DOMAIN found |-> list[found[i]]]
    BY <1>5 DEF ShownFor, FoundFor
  <2> HIDE DEF found, fits, names
  <2>4. Len(rows) = IF size < MaxResults THEN size ELSE MaxResults
    <3>1. DOMAIN found = 1..Len(found) /\ Len(found) \in Nat
      BY <2>2
    <3>2. Len(rows) = Len(found)
      BY <2>3, <3>1
    <3> QED
      BY <2>1, <2>2, <3>2
  <2>5. \A r \in DOMAIN rows : r \in DOMAIN found /\ found[r] \in fit /\ rows[r] = list[found[r]]
    BY <2>1, <2>2, <2>3
  <2>6. ToSet(rows) \subseteq {list[i] : i \in fit}
    BY <2>5 DEF ToSet
  <2>7. IsInjective(rows)
    <3> SUFFICES ASSUME NEW a \in DOMAIN rows, NEW b \in DOMAIN rows, rows[a] = rows[b] PROVE a = b
      BY DEF IsInjective
    <3>1. found[a] = found[b]
      BY <1>1, <2>5 DEF IsInjective
    <3> QED
      BY <2>2, <2>5, <3>1 DEF IsInjective
  <2>8. ASSUME NEW r \in DOMAIN rows, NEW i \in fit, list[i] \notin ToSet(rows)
        PROVE  rank(list[i]) <= rank(rows[r])
    <3>1. i \notin ToSet(found)
      BY <2>3, <2>8 DEF ToSet
    <3>2. ScoreAll(query, names[i]) <= ScoreAll(query, names[found[r]])
      BY <2>1, <2>2, <2>5, <3>1
    <3> QED
      BY <1>3, <2>5, <3>2
  <2> QED
    BY <2>4, <2>6, <2>7, <2>8
<1> QED
  BY <1>4, <1>5

\* With no callback or timer in flight, the rows are those of the last list and query.
LEMMA RowsSettled ==
  ASSUME SearchInv
  PROVE  RowsSettle
<1> SUFFICES ASSUME idle = <<>>, timers = {}
             PROVE  rows = ShownFor(query, OfCategory(allEntries, category))
                    /\ OfCategory(allEntries, category) \in Listing
  <2>1. query \in Queries
    BY DEF SearchInv
  <2> QED
    BY <2>1, RowsOfList DEF RowsSettle
<1>1. \A what : ~Pending(idle, what)
  BY DEF Pending
<1>2. entries = OfCategory(allEntries, category) /\ rows = ShownFor(query, entries)
  BY <1>1 DEF SearchInv, Filtered, Settled
<1> QED
  BY <1>2 DEF SearchInv, ListInv
-----------------------------------------------------------------------------
\* The variables of the views keep their types.

TaskType == [at : {"off", "open", "copy", "add", "update"}, id : Ids \cup {0}]

\* A detail that is asked for is one of an entry, and so is what a save adds.
ViewTypes ==
  /\ vault \subseteq Ids
  /\ task \in [Tasks -> TaskType]
  /\ \A t \in Tasks : task[t].at \in {"open", "add"} => task[t].id \in Ids
  /\ mode \in Views /\ modeTab \in {"search", "add"}
  /\ tab \in Types \cup {All} /\ form \in Types \cup {NoForm}
  /\ shown \subseteq Widgets
  /\ detail \in Ids \cup {0}
  /\ ring \in [view : Views, form : Types \cup {NoForm}]
  /\ over \in BOOLEAN

\* Every step keeps the types of the views.
LEMMA ViewTypesStep ==
  ASSUME ViewTypes, SearchInv, [Next]_vars
  PROVE  ViewTypes'
<1> USE DEF ViewTypes
<1>1. ASSUME NEW t \in Tasks, NEW from, NEW to \in TaskType, TaskStep(t, from, to),
             to.at \in {"open", "add"} => to.id \in Ids
      PROVE  /\ task' \in [Tasks -> TaskType]
             /\ \A u \in Tasks : task'[u].at \in {"open", "add"} => task'[u].id \in Ids
  BY <1>1 DEF TaskStep
<1>2. Idle \in TaskType /\ Idle.at \notin {"open", "add"}
  BY DEF Idle, TaskType
<1>3. ASSUME NEW m \in Views, NEW f \in Types \cup {NoForm}, RebuildFocusRing(m, f)
      PROVE  ring' \in [view : Views, form : Types \cup {NoForm}]
  <2>1. ring' = [view |-> m, form |-> IF m = "add" THEN f ELSE NoForm]
    BY <1>3 DEF RebuildFocusRing
  <2>2. (IF m = "add" THEN f ELSE NoForm) \in Types \cup {NoForm}
    OBVIOUS
  <2> QED
    BY <2>1, <2>2
<1>4. ASSUME ShowSearch PROVE mode' \in Views /\ shown' \subseteq Widgets
                              /\ ring' \in [view : Views, form : Types \cup {NoForm}]
  BY <1>4, <1>3 DEF ShowSearch, Views, Widgets
<1>5. CASE ClickMode
  <2>0. UNCHANGED <<vault, task, detail, over>>
    BY <1>5 DEF ClickMode
  <2>1. CASE modeTab' = "search" /\ ShowSearch /\ KeepCategory /\ UNCHANGED form
    BY <1>4, <2>0, <2>1 DEF KeepCategory
  <2>2. CASE modeTab' = "add" /\ ShowAdd
    <3>1. tab' \in Types
      BY <2>2, LoginAssumption DEF ShowAdd, ChangeCategory, KeepCategory
    <3>2. form' = tab' /\ mode' = "add" /\ RebuildFocusRing("add", form')
          /\ shown' = (shown \ {"detail", "allTab", "search"}) \cup {"modeBar", "add"}
      BY <2>2 DEF ShowAdd
    <3>3. ring' \in [view : Views, form : Types \cup {NoForm}]
      BY <1>3, <3>1, <3>2 DEF Views
    <3>4. mode' \in Views /\ shown' \subseteq Widgets
      BY <3>2 DEF Views, Widgets
    <3> QED
      BY <2>0, <2>2, <3>1, <3>2, <3>3, <3>4
  <2> QED
    BY <1>5, <2>1, <2>2 DEF ClickMode
<1>6. ASSUME NEW cat \in Types \cup {All}, ChooseCategory(cat) PROVE ViewTypes'
  <2>0. UNCHANGED <<vault, task, mode, modeTab, shown, detail, over>> /\ tab' = cat
    BY <1>6 DEF ChooseCategory, ChangeCategory
  <2>1. CASE mode = "add"
    <3>1. cat \in Types /\ form' = cat /\ RebuildFocusRing("add", cat)
      BY <1>6, <2>1 DEF ChooseCategory
    <3>2. ring' \in [view : Views, form : Types \cup {NoForm}]
      BY <1>3, <3>1 DEF Views
    <3> QED
      BY <2>0, <3>1, <3>2
  <2>2. CASE mode # "add"
    <3>1. UNCHANGED <<form, ring>>
      BY <1>6, <2>2 DEF ChooseCategory
    <3> QED
      BY <2>0, <3>1
  <2> QED
    BY <2>1, <2>2
<1>7. ASSUME SwitchToSearch, UNCHANGED task PROVE ViewTypes'
  <2>1. /\ modeTab' = "search" /\ UNCHANGED <<vault, form, detail, over, tab>> /\ ShowSearch
    BY <1>7 DEF SwitchToSearch, KeepCategory
  <2> QED
    BY <1>7, <1>4, <2>1
<1>8. ASSUME NEW id \in Ids, SwitchToDetail(id), UNCHANGED <<vault, task, over>> PROVE ViewTypes'
  <2>1. /\ mode' = "detail" /\ detail' = id /\ UNCHANGED <<modeTab, tab, form>>
        /\ shown' = (shown \ {"search", "add", "modeBar", "categoryBar"}) \cup {"detail"}
        /\ RebuildFocusRing("detail", NoForm)
    BY <1>8 DEF SwitchToDetail, barVars
  <2>2. ring' \in [view : Views, form : Types \cup {NoForm}]
    BY <1>3, <2>1 DEF Views
  <2>3. mode' \in Views /\ shown' \subseteq Widgets
    BY <2>1 DEF Views, Widgets
  <2> QED
    BY <1>8, <2>1, <2>2, <2>3
<1>9. ASSUME UNCHANGED viewVars, vault' \subseteq Ids, over' \in BOOLEAN,
             task' \in [Tasks -> TaskType],
             \A t \in Tasks : task'[t].at \in {"open", "add"} => task'[t].id \in Ids
      PROVE  ViewTypes'
  BY <1>9 DEF viewVars, barVars
<1>10. CASE UNCHANGED <<vault, task, viewVars>> /\ over' \in BOOLEAN
  BY <1>9, <1>10
<1>11. CASE Escape
  BY <1>7, <1>10, <1>11 DEF Escape, Leave, Quit
<1>12. CASE UseSearch \/ Quit
  BY <1>10, <1>12 DEF UseSearch, Quit
<1>13. ASSUME NEW t \in Tasks, Pick(t) PROVE ViewTypes'
  <2>1. PICK what \in {"open", "copy"} :
          TaskStep(t, Idle, [at |-> what, id |-> EntryAt(selected).id])
    BY <1>13, Zenon DEF Pick
  <2>2. EntryAt(selected) \in Entry
    BY <1>13 DEF Pick, HasEntry, EntryAt, SearchInv, ListInv, Listing
  <2>3. EntryAt(selected).id \in Ids
    BY <2>2 DEF Entry
  <2> DEFINE to == [at |-> what, id |-> EntryAt(selected).id]
  <2>4. to \in TaskType /\ to.id \in Ids
    BY <2>3 DEF TaskType
  <2>5. UNCHANGED <<vault, viewVars, over>>
    BY <1>13 DEF Pick
  <2>6. /\ task' \in [Tasks -> TaskType]
        /\ \A u \in Tasks : task'[u].at \in {"open", "add"} => task'[u].id \in Ids
    <3> HIDE DEF to
    <3> QED
      BY <1>1, <2>1, <2>4 DEF to
  <2> QED
    BY <1>9, <2>5, <2>6
<1>14. ASSUME NEW t \in Tasks, Save(t) PROVE ViewTypes'
  <2>1. PICK id \in Ids \cup {0}, what \in {"add", "update"} :
          /\ TaskStep(t, Idle, [at |-> what, id |-> id])
          /\ what = "add" => id \in Ids
    BY <1>14 DEF Save
  <2> DEFINE to == [at |-> what, id |-> id]
  <2>2. to \in TaskType /\ (to.at \in {"open", "add"} => to.id \in Ids)
    BY <2>1 DEF TaskType
  <2>3. UNCHANGED <<vault, viewVars, over>>
    BY <1>14 DEF Save
  <2>4. /\ task' \in [Tasks -> TaskType]
        /\ \A u \in Tasks : task'[u].at \in {"open", "add"} => task'[u].id \in Ids
    <3> HIDE DEF to
    <3> QED
      BY <1>1, <2>1, <2>2 DEF to
  <2> QED
    BY <1>9, <2>3, <2>4
<1>15. ASSUME NEW t \in Tasks, TaskEnds(t) \/ TaskFails(t) PROVE ViewTypes'
  <2>1. TaskStep(t, task[t], Idle) /\ UNCHANGED <<viewVars, over>>
        /\ (UNCHANGED vault \/ Served(t))
    BY <1>15 DEF TaskEnds, TaskFails
  <2>2. vault' \subseteq Ids
    BY <2>1 DEF Served
  <2> QED
    BY <1>9, <1>2, <1>1, <2>1, <2>2
<1>16. CASE Dispatch
  <2>1. CASE /\ DispatchNext("show") /\ SwitchToDetail(Head(idle).id)
             /\ UNCHANGED <<vault, task, over>>
    <3>1. Head(idle) \in Queued /\ Head(idle).do = "show"
      BY <2>1, Dequeued DEF DispatchNext, SearchInv
    <3>2. Head(idle).id \in Ids
      BY <3>1 DEF Queued
    <3> QED
      BY <1>8, <2>1, <3>2
  <2> QED
    BY <1>7, <1>10, <1>16, <2>1 DEF Dispatch
<1>17. CASE UNCHANGED <<vault, task, viewVars, over>>
  BY <1>10, <1>17
<1> QED
  BY <1>5, <1>6, <1>11, <1>12, <1>13, <1>14, <1>15, <1>16, <1>17, Zenon
     DEF Next, User, Goroutines, Callbacks, vars

-----------------------------------------------------------------------------
\* The list's invariant and its theorems.

ListOK == SearchInv /\ ViewTypes

\* The empty list NewSearchView starts with.
LEMMA ListStarts ==
  ASSUME Init
  PROVE  ListOK
<1> USE DEF Init, SearchInit
<1>1. <<>> \in Listing /\ <<>> \in Seq(Entry) /\ <<>> \in Seq(DOMAIN entries)
  BY DEF Listing, IsInjective
<1>2. Limited(<<>>) = <<>>
  <2>1. \A e \in Seq(Entry) : Len(e) = 0 => Limited(e) \in Seq(Entry) /\ Len(Limited(e)) = 0
    <3>1. MaxResults \in Nat /\ 0 < MaxResults
      BY LimitsAssumption
    <3>2. SUFFICES ASSUME NEW e \in Seq(Entry), Len(e) = 0
                   PROVE  Limited(e) \in Seq(Entry) /\ Len(Limited(e)) = 0
      OBVIOUS
    <3>3. Limited(e) \in Seq(Entry)
      BY LimitedType
    <3>4. Len(Limited(e)) = IF Len(e) < MaxResults THEN Len(e) ELSE MaxResults
      BY LimitedType
    <3> QED
      BY <3>1, <3>2, <3>3, <3>4
  <2>2. Len(<<>>) = 0
    OBVIOUS
  <2>3. Limited(<<>>) \in Seq(Entry) /\ Len(Limited(<<>>)) = 0
    BY <1>1, <2>1, <2>2
  <2> QED
    BY <2>3
<1>3. OfCategory(<<>>, All) = <<>>
  <2> DEFINE none == <<>>
             at == {i \in DOMAIN none : TRUE}
  <2>1. at = {} /\ OfCategory(none, All) = Parts(none, {})
    BY DEF OfCategory
  <2>2. Parts(none, {}) \in Seq(Entry) /\ Len(Parts(none, {})) = 0
    BY <1>1, PartsTakes, FS_EmptySet
  <2> QED
    BY <2>1, <2>2
<1>4. ListInv
  BY <1>1 DEF ListInv, Stand
<1>5. load \in [Loads -> Loading]
  BY <1>1 DEF Loading
<1>6. Filtered(category, allEntries, entries, idle)
  BY <1>3 DEF Filtered
<1>7. Settled(query, entries, matches, rows, timers, idle)
  BY <1>2 DEF Settled, FoundFor, ShownFor
<1>8. idle \in Seq(Queued)
  OBVIOUS
<1>9. SearchInv
  BY <1>4, <1>5, <1>6, <1>7, <1>8, QueriesAssumption DEF SearchInv
<1>10. Idle \in TaskType /\ Idle.at \notin {"open", "add"}
  BY DEF Idle, TaskType
<1>11. ViewTypes
  BY <1>10 DEF ViewTypes, Views, Widgets
<1> QED
  BY <1>9, <1>11 DEF ListOK

\* The list and the views are proved together: a callback shows an entry a task was about.
LEMMA ListStep ==
  ASSUME ListOK, [Next]_vars
  PROVE  ListOK'
<1>1. ASSUME NEW t \in Tasks, task[t] # Idle PROVE Callback(t) \in Queued
  <2>1. task[t].at = "open" => task[t].id \in Ids
    BY DEF ListOK, ViewTypes
  <2> QED
    BY <2>1 DEF Callback, Queued
<1>2. vault \subseteq Ids
  BY DEF ListOK, ViewTypes
<1>3. SearchInv'
  BY <1>1, <1>2, SearchStep DEF ListOK
<1>4. ViewTypes'
  BY ViewTypesStep DEF ListOK
<1> QED
  BY <1>3, <1>4 DEF ListOK

LEMMA ListInvariant == Spec => []ListOK
BY ListStarts, ListStep, PTL DEF Spec

\* The omnibox and its list keep their types: matches are indices of the entries shown, the
\* selection is a row, queued details are entries.
THEOREM OmniboxTypeCorrect == Spec => []OmniboxTypeOK
<1>1. ListOK => OmniboxTypeOK
  <2> SUFFICES ASSUME ListOK PROVE OmniboxTypeOK
    OBVIOUS
  <2>1. SearchTypeOK
    <3>1. allEntries \in Seq(Entry) /\ entries \in Seq(Entry)
      BY DEF ListOK, SearchInv, ListInv, Listing
    <3>2. load \in [Loads -> [at : {"off", "asking", "answered"}, list : Seq(Entry)]]
      <4>1. Loading \subseteq [at : {"off", "asking", "answered"}, list : Seq(Entry)]
        BY DEF Loading, Listing
      <4> QED
        BY <4>1 DEF ListOK, SearchInv
    <3> QED
      BY <3>1, <3>2 DEF ListOK, SearchInv, ListInv, SearchTypeOK
  <2>2. idle \in Seq([do : {"loaded", "changed", "quit", "done"}] \cup [do : {"show"}, id : Ids])
    BY DEF ListOK, SearchInv, Queued
  <2> QED
    BY <2>1, <2>2 DEF ListOK, ViewTypes, TaskType, OmniboxTypeOK
<1> QED
  BY <1>1, ListInvariant, PTL

\* The entry Enter copies or Ctrl+Enter opens is the one the row shows, for every sequence of
\* loads, keystrokes, category changes and callbacks.
THEOREM OmniboxRowsTell == Spec => []RowsTell
<1>1. ListOK => RowsTell
  BY RowsStand DEF ListOK, SearchInv
<1> QED
  BY <1>1, ListInvariant, PTL

\* Once nothing is in flight, the rows are entries of the last list kept that have the category
\* and fit the query, as many as the limit takes, none twice, and no better one is left out.
THEOREM OmniboxRowsSettle == Spec => []RowsSettle
<1>1. ListOK => RowsSettle
  BY RowsSettled DEF ListOK
<1> QED
  BY <1>1, ListInvariant, PTL

=============================================================================
