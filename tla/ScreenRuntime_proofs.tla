------------------------ MODULE ScreenRuntime_proofs ------------------------
(***************************************************************************)
(* Theorems about ScreenRuntime for any screens, layouts, frames and       *)
(* decodings, and any number of exchanges.                                 *)
(*                                                                         *)
(* Neither property is inductive.  A snapshot is fresh because the cache   *)
(* and every answer on its way were already fresh for the refresh that is  *)
(* under way; its widgets are settled because the plan of a layout names   *)
(* each polled request exactly once, which needs an induction on the       *)
(* widgets of the screen: the first part of the module.                    *)
(***************************************************************************)
EXTENDS ScreenRuntime, WellFoundedInduction, FiniteSetTheorems, TLAPS

-----------------------------------------------------------------------------
(* Induction over the naturals, and what it gives for increasing            *)
(* enumerations of a finite set of them.                                   *)

\* Every nonempty set of naturals has a least element.
LEMMA Least == \A T \in SUBSET Nat : T # {} => \E x \in T : \A y \in T : x <= y
<1> SUFFICES ASSUME NEW T \in SUBSET Nat, T # {} PROVE \E x \in T : \A y \in T : x <= y
    OBVIOUS
<1>1. PICK x \in T : \A y \in T : ~ (<<y, x>> \in OpToRel(<, Nat))
      BY NatLessThanWellFounded, WFMin
<1>2. \A y \in T : <<y, x>> \in Nat \X Nat OBVIOUS
<1>3. \A y \in T : ~(y < x) BY <1>1, <1>2 DEF OpToRel
<1>4. \A y \in T : x <= y BY <1>3
<1> QED BY <1>4

\* A set that holds 0 and the successor of each of its naturals holds them all.
LEMMA Induct == \A T : 0 \in T /\ (\A n \in Nat : n \in T => n + 1 \in T) => Nat \subseteq T
<1> SUFFICES ASSUME NEW T, 0 \in T, \A n \in Nat : n \in T => n + 1 \in T PROVE Nat \subseteq T
    OBVIOUS
<1> DEFINE U == Nat \ T
<1> SUFFICES ASSUME U # {} PROVE FALSE OBVIOUS
<1>1. PICK x \in U : \A y \in U : x <= y BY Least
<1>2. x - 1 \in Nat BY <1>1
<1>3. x - 1 \notin U BY <1>1, <1>2
<1>4. x - 1 + 1 \in T BY <1>2, <1>3
<1> QED BY <1>4, <1>2

\* What is between 1 and n is finite.
LEMMA Subsets == \A n \in Nat : \A F \in SUBSET (1 .. n) : IsFiniteSet(F) /\ Cardinality(F) \in Nat
<1> TAKE n \in Nat
<1> TAKE F \in SUBSET (1 .. n)
<1>1. IsFiniteSet(1 .. n) BY FS_Interval
<1>2. IsFiniteSet(F) BY <1>1, FS_Subset
<1> QED BY <1>2, FS_CardinalityType

\* A set of numbers can be listed in increasing order.
LEMMA Enumerates ==
  \A n \in Nat : \A F \in SUBSET (1 .. n) : \E p \in [1 .. Cardinality(F) -> F] : Rises(p)
<1> DEFINE Enumerated(n) == \A F \in SUBSET (1 .. n) : \E p \in [1 .. Cardinality(F) -> F] : Rises(p)
           T == {n \in Nat : Enumerated(n)}
<1>1. 0 \in T
  <2> SUFFICES ASSUME NEW F \in SUBSET (1 .. 0) PROVE \E p \in [1 .. Cardinality(F) -> F] : Rises(p)
      OBVIOUS
  <2>1. F = {} OBVIOUS
  <2>2. Cardinality(F) = 0 BY <2>1, FS_EmptySet
  <2> DEFINE p == [i \in 1 .. 0 |-> 0]
  <2>3. p \in [1 .. Cardinality(F) -> F] /\ Rises(p) BY <2>2 DEF Rises
  <2> QED BY <2>3
<1>2. ASSUME NEW n \in Nat, n \in T PROVE n + 1 \in T
  <2> SUFFICES ASSUME NEW F \in SUBSET (1 .. (n + 1)) PROVE \E p \in [1 .. Cardinality(F) -> F] : Rises(p)
      OBVIOUS
  <2> DEFINE G == F \ {n + 1}
  <2>1. G \in SUBSET (1 .. n) OBVIOUS
  <2>2. PICK g \in [1 .. Cardinality(G) -> G] : Rises(g) BY <1>2, <2>1
  <2>3. CASE n + 1 \notin F
    <3>1. G = F BY <2>3
    <3> QED BY <2>2, <3>1
  <2>4. CASE n + 1 \in F
    <3>1. F = G \cup {n + 1} /\ n + 1 \notin G BY <2>4
    <3>2. Cardinality(G) \in Nat /\ IsFiniteSet(G) BY <2>1, Subsets, Zenon
    <3>3. Cardinality(F) = Cardinality(G) + 1 BY <3>1, <3>2, FS_AddElement
    <3> DEFINE c == Cardinality(G)
               p == [i \in 1 .. (c + 1) |-> IF i = c + 1 THEN n + 1 ELSE g[i]]
    <3> HIDE DEF c, G
    <3>4. p \in [1 .. Cardinality(F) -> F]
      <4>1. c \in Nat /\ g \in [1 .. c -> G] BY <2>2, <3>2 DEF c
      <4>2. \A i \in 1 .. (c + 1) : i = c + 1 \/ i \in 1 .. c BY <4>1
      <4>3. \A i \in 1 .. (c + 1) : p[i] \in G \cup {n + 1} BY <4>1, <4>2
      <4>4. p \in [1 .. (c + 1) -> G \cup {n + 1}] BY <4>3
      <4> QED BY <3>1, <3>3, <4>4 DEF c, G
    <3>5. \A x \in G : x < n + 1 BY <2>1
    <3>6. Rises(p)
      <4> SUFFICES ASSUME NEW i \in 1 .. (c + 1), NEW j \in 1 .. (c + 1), i < j PROVE p[i] < p[j]
          BY <3>2 DEF Rises, c
      <4>1. c \in Nat BY <3>2 DEF c
      <4>2. i \in 1 .. c /\ p[i] = g[i] /\ g[i] \in G BY <2>2, <4>1 DEF c
      <4>3. CASE j = c + 1 BY <3>5, <4>2, <4>3
      <4>4. CASE j # c + 1
        <5>1. j \in 1 .. c /\ p[j] = g[j] BY <4>1, <4>4
        <5> QED BY <2>2, <4>2, <5>1 DEF Rises, c
      <4> QED BY <4>3, <4>4
    <3> QED BY <3>4, <3>6
  <2> QED BY <2>3, <2>4
<1>3. Nat \subseteq T
  <2> HIDE DEF T
  <2> QED BY <1>1, <1>2, Induct
<1> QED BY <1>3

\* Such a list leaves nothing out.
LEMMA Enumeration ==
  ASSUME NEW n \in Nat, NEW F \in SUBSET (1 .. n), NEW p \in [1 .. Cardinality(F) -> F], Rises(p)
  PROVE  Cardinality(F) \in Nat /\ \A x \in F : \E i \in 1 .. Cardinality(F) : p[i] = x
<1>1. Cardinality(F) \in Nat /\ IsFiniteSet(F) BY Subsets, Zenon
<1> DEFINE c == Cardinality(F)
<1>2. IsFiniteSet(1 .. c) /\ Cardinality(1 .. c) = c BY <1>1, FS_Interval
<1>3. \A i, j \in 1 .. c : i # j => p[i] # p[j]
  <2> SUFFICES ASSUME NEW i \in 1 .. c, NEW j \in 1 .. c, i < j PROVE p[i] # p[j]
      BY <1>1
  <2>1. p[i] < p[j] BY DEF Rises
  <2> HIDE DEF c
  <2>2. p[i] \in F /\ p[j] \in F BY DEF c
  <2>3. F \subseteq Nat OBVIOUS
  <2>4. p[i] \in Nat /\ p[j] \in Nat BY <2>2, <2>3
  <2> QED BY <2>1, <2>4
<1>4. p \in Injection(1 .. c, F)
  <2> HIDE DEF c
  <2>1. p \in [1 .. c -> F] BY DEF c
  <2> QED BY <1>3, <2>1 DEF Injection, IsInjective
<1>5. p \in Surjection(1 .. c, F) BY <1>1, <1>2, <1>4, FS_Injection
<1> QED BY <1>1, <1>5 DEF Surjection

-----------------------------------------------------------------------------
(* The plan.                                                               *)

\* The widgets that are first to name their request are among the polled ones.
LEMMA FirstsAreIndexes ==
  \A s \in Screens : Len(Widgets[s]) \in Nat /\ Firsts(s) \in SUBSET (1 .. Len(Widgets[s]))
                     /\ Firsts(s) \subseteq Polled(s) /\ Polled(s) \subseteq 1 .. Len(Widgets[s])
BY LayoutAssumption DEF Firsts, Polled, Displays

\* Of the polled widgets of a request one is the first.
LEMMA EveryPolledHasAFirst ==
  ASSUME NEW s \in Screens, NEW i \in Polled(s)
  PROVE  \E j \in Firsts(s) : Widgets[s][j].request = Widgets[s][i].request
<1> DEFINE T == {j \in Polled(s) : Widgets[s][j].request = Widgets[s][i].request}
<1>1. T \in SUBSET Nat /\ i \in T BY FirstsAreIndexes
<1>2. PICK j \in T : \A k \in T : j <= k
  <2> HIDE DEF T
  <2> QED BY <1>1, Least
<1>3. \A k \in Polled(s) : k < j => Widgets[s][k].request # Widgets[s][j].request
  <2> SUFFICES ASSUME NEW k \in Polled(s), k < j, Widgets[s][k].request = Widgets[s][j].request
               PROVE FALSE
      OBVIOUS
  <2>1. k \in T OBVIOUS
  <2>2. j <= k /\ j \in Nat /\ k \in Nat BY <1>1, <1>2, <2>1
  <2> QED BY <2>2
<1> QED BY <1>2, <1>3 DEF Firsts, FirstOf

\* The plan of a screen (the constructor of ScreenRuntime) holds no request twice, and that of every
\* display that is polled.
LEMMA PlanFacts ==
  ASSUME NEW s \in Screens
  PROVE  /\ Plan(s) \in Seq(Requests)
         /\ \A m, n \in 1 .. Len(Plan(s)) : Plan(s)[m] = Plan(s)[n] => m = n
         /\ \A i \in Polled(s) : \E n \in 1 .. Len(Plan(s)) : Plan(s)[n] = Widgets[s][i].request
<1> DEFINE F == Firsts(s)
           c == Cardinality(F)
           order == CHOOSE p \in [1 .. c -> F] : Rises(p)
<1>1. PICK l \in Nat : F \in SUBSET (1 .. l) BY FirstsAreIndexes
<1>2. \E p \in [1 .. c -> F] : Rises(p) BY <1>1, Enumerates
<1>3. order \in [1 .. c -> F] /\ Rises(order) BY <1>2
<1>4. c \in Nat /\ \A x \in F : \E n \in 1 .. c : order[n] = x BY <1>1, <1>3, Enumeration
<1>5. Plan(s) = [n \in 1 .. c |-> Widgets[s][order[n]].request]
  <2>1. DOMAIN order = 1 .. c BY <1>3
  <2> QED BY <2>1 DEF Plan
<1> HIDE DEF order, c
<1>6. \A n \in 1 .. c : order[n] \in F /\ order[n] \in Nat
  <2>1. F \subseteq Nat BY <1>1
  <2> HIDE DEF F
  <2> QED BY <1>3, <2>1
<1>7. \A n \in 1 .. c : Widgets[s][order[n]].request \in Requests
  <2>1. \A i \in F : i \in DOMAIN Widgets[s] BY FirstsAreIndexes, LayoutAssumption
  <2>2. \A i \in F : Widgets[s][i].request \in Requests BY <2>1, LayoutAssumption DEF Requests
  <2> HIDE DEF F
  <2> QED BY <1>6, <2>2
<1>8. Plan(s) \in Seq(Requests) /\ Len(Plan(s)) = c BY <1>4, <1>5, <1>7
<1>9. ASSUME NEW m \in 1 .. c, NEW n \in 1 .. c,
             Widgets[s][order[m]].request = Widgets[s][order[n]].request
      PROVE  m = n
  <2>1. ~(order[m] < order[n]) /\ ~(order[n] < order[m]) BY <1>6, <1>9 DEF Firsts, FirstOf
  <2>2. ~(m < n) /\ ~(n < m)
    <3>1. DOMAIN order = 1 .. c BY <1>3
    <3> QED BY <1>3, <2>1, <3>1 DEF Rises
  <2> QED BY <1>4, <2>2
<1>10. ASSUME NEW i \in Polled(s)
       PROVE  \E n \in 1 .. c : Widgets[s][order[n]].request = Widgets[s][i].request
  <2>1. PICK j \in F : Widgets[s][j].request = Widgets[s][i].request BY EveryPolledHasAFirst
  <2>2. PICK n \in 1 .. c : order[n] = j BY <1>4, <2>1
  <2> QED BY <2>1, <2>2
<1> HIDE DEF F
<1>11. \A n \in 1 .. c : Plan(s)[n] = Widgets[s][order[n]].request BY <1>5
<1>12. \A m, n \in 1 .. c : Plan(s)[m] = Plan(s)[n] => m = n BY <1>9, <1>11
<1>13. \A i \in Polled(s) : \E n \in 1 .. c : Plan(s)[n] = Widgets[s][i].request BY <1>10, <1>11
<1> QED BY <1>8, <1>12, <1>13

-----------------------------------------------------------------------------
(* The types, and what each action makes of the activities.                *)
Speakers == {EcuOf[s] : s \in Screens} \cup {None}
Entries == [request : Requests, by : Speakers, at : Nat, kind : Kinds \cup {"error"}]
Answers == [by : Speakers, at : Nat, kind : Kinds]
States == [pc : {"off", "ready", "asked", "answered"}, of : Screens \cup {None},
           todo : Seq(Requests), got : Seq(Entries), answer : Answers \cup {None},
           since : Nat, late : SUBSET Nat, alone : BOOLEAN]

ActOK(x) ==
  /\ x \in States
  /\ x.pc # "off" => x.of \in Screens /\ x.since <= clock
  /\ x.pc = "asked" \/ x.pc = "answered" => x.answer \in Answers /\ x.todo # <<>>

TypeOK ==
  /\ cache \in [Frames -> Entries \cup {None}]
  /\ addressed \in Speakers /\ screen \in Screens \cup {None} /\ clock \in Nat
  /\ DOMAIN act = Activities /\ \A a \in Activities : ActOK(act[a])

\* An activity that is over is of its type.
LEMMA OffOK == ActOK(Off)
<1>1. None \in Screens \cup {None} /\ None \in Answers \cup {None} OBVIOUS
<1>2. <<>> \in Seq(Requests) /\ <<>> \in Seq(Entries) OBVIOUS
<1>3. {} \in SUBSET Nat /\ 0 \in Nat /\ FALSE \in BOOLEAN OBVIOUS
<1>4. Off \in States BY <1>1, <1>2, <1>3 DEF Off, States
<1> QED BY <1>4 DEF ActOK, Off

\* A fresh page has the types.
LEMMA TypeInit == Init => TypeOK
<1> SUFFICES ASSUME Init PROVE TypeOK
    OBVIOUS
<1>1. cache \in [Frames -> Entries \cup {None}] BY DEF Init, Empty
<1>2. addressed \in Speakers BY DEF Init, Speakers
<1>3. DOMAIN act = Activities /\ \A a \in Activities : act[a] = Off BY DEF Init
<1>4. \A a \in Activities : ActOK(act[a]) BY <1>3, OffOK
<1> QED BY <1>1, <1>2, <1>3, <1>4 DEF Init, TypeOK

\* Answers on their way carry their times.
LEMMA InHandType == TypeOK => InHand \in SUBSET Nat
<1> SUFFICES ASSUME TypeOK, NEW a \in Activities, act[a].pc = "answered" PROVE act[a].answer.at \in Nat
    BY DEF InHand
<1> QED BY DEF TypeOK, ActOK, Answers

Fresh(s, todo, alone) ==
  [pc |-> "ready", of |-> s, todo |-> todo, got |-> <<>>, answer |-> None,
   since |-> clock, late |-> InHand, alone |-> alone]

\* What an activity that starts looks like.
LEMMA StartedIs ==
  ASSUME NEW s, NEW todo
  PROVE  /\ Started(s, todo) = Fresh(s, todo, FALSE)
         /\ \A alone : [Started(s, todo) EXCEPT !.alone = alone] = Fresh(s, todo, alone)
<1>1. Started(s, todo) = Fresh(s, todo, FALSE) BY Zenon DEF Started, Fresh
<1>2. \A alone : [Fresh(s, todo, FALSE) EXCEPT !.alone = alone] = Fresh(s, todo, alone) BY DEF Fresh
<1> QED BY <1>1, <1>2

\* An activity that starts is of its type.
LEMMA FreshOK ==
  ASSUME TypeOK, NEW s \in Screens, NEW todo \in Seq(Requests), NEW alone \in BOOLEAN
  PROVE  Fresh(s, todo, alone) \in States
<1>1. None \in Answers \cup {None} /\ s \in Screens \cup {None} /\ <<>> \in Seq(Entries) OBVIOUS
<1> QED BY <1>1, InHandType DEF States, TypeOK, Fresh

\* What an action makes of an activity: it is no longer alone, or takes an exchange.
Lonely(x) == [x EXCEPT !.alone = FALSE]
Taken(a, x, e) == [x EXCEPT !.pc = "ready", !.todo = Tail(@), !.answer = None,
                            !.got = IF a = "presend" THEN @ ELSE Append(@, e)]

\* What taking an exchange changes of an activity, and what it leaves.
LEMMA TakenOK ==
  ASSUME NEW a, NEW x \in States, NEW e \in Entries, x.todo # <<>>
  PROVE  /\ Taken(a, x, e) \in States /\ Taken(a, x, e).pc = "ready"
         /\ Taken(a, x, e).of = x.of /\ Taken(a, x, e).since = x.since
         /\ Taken(a, x, e).late = x.late /\ Taken(a, x, e).alone = x.alone
         /\ Taken(a, x, e).todo = Tail(x.todo)
         /\ a # "presend" => Taken(a, x, e).got = Append(x.got, e)
<1>1. Tail(x.todo) \in Seq(Requests) /\ Append(x.got, e) \in Seq(Entries) /\ None \in Answers \cup {None}
      BY DEF States
<1> QED BY <1>1 DEF Taken, States

\* Losing the claim to be alone changes nothing else.
LEMMA LonelyOK ==
  ASSUME NEW x \in States
  PROVE  /\ Lonely(x) \in States /\ ~Lonely(x).alone
         /\ Lonely(x).pc = x.pc /\ Lonely(x).of = x.of /\ Lonely(x).since = x.since
         /\ Lonely(x).late = x.late /\ Lonely(x).todo = x.todo /\ Lonely(x).got = x.got
         /\ Lonely(x).answer = x.answer
BY DEF Lonely, States

Begins(a, s, todo) ==
  /\ s \in Screens /\ todo \in Seq(Requests)
  /\ UNCHANGED clock /\ DOMAIN act' = Activities
  /\ \E alone \in BOOLEAN :
       /\ act'[a] = Fresh(s, todo, alone)
       /\ alone => \A b \in Activities : b # a => act[b].pc = "off"
  /\ \A b \in Activities : b # a => act'[b] = Lonely(act[b])

\* An activity that starts takes the claim of the others.
LEMMA AloneIs ==
  ASSUME TypeOK, NEW a \in Activities, NEW s \in Screens, NEW todo \in Seq(Requests),
         UNCHANGED clock, act' = Alone(a, Started(s, todo))
  PROVE  Begins(a, s, todo)
<1> DEFINE alone == (Busy \ {a} = {})
<1>1. alone \in BOOLEAN OBVIOUS
<1>2. alone => \A b \in Activities : b # a => act[b].pc = "off" BY DEF Busy
<1>3. DOMAIN act' = Activities BY DEF Alone
<1>4. act'[a] = [Started(s, todo) EXCEPT !.alone = alone] BY DEF Alone
<1> HIDE DEF alone
<1>5. act'[a] = Fresh(s, todo, alone) BY <1>4, StartedIs
<1>6. \A b \in Activities : b # a => act'[b] = Lonely(act[b]) BY DEF Alone, Lonely
<1> QED BY <1>1, <1>2, <1>3, <1>5, <1>6 DEF Begins

\* The types hold when an activity begins.
LEMMA BeginsOK ==
  ASSUME TypeOK, NEW a \in Activities, NEW s, NEW todo, Begins(a, s, todo)
  PROVE  \A b \in Activities : ActOK(act[b])'
<1> SUFFICES ASSUME NEW b \in Activities PROVE ActOK(act[b])'
    OBVIOUS
<1>1. CASE b = a
  <2>1. PICK alone \in BOOLEAN : act'[a] = Fresh(s, todo, alone) BY DEF Begins
  <2>2. act'[a] \in States BY <2>1, FreshOK DEF Begins
  <2>3. act'[a].pc = "ready" /\ act'[a].of = s /\ act'[a].since = clock BY <2>1 DEF Fresh
  <2> QED BY <1>1, <2>2, <2>3 DEF ActOK, Begins, TypeOK
<1>2. CASE b # a
  <2>1. act'[b] = Lonely(act[b]) /\ ActOK(act[b]) BY <1>2 DEF Begins, TypeOK
  <2> QED BY <2>1, LonelyOK DEF ActOK, Begins
<1> QED BY <1>1, <1>2

\* The next request is one, and has a frame.
LEMMA HeadOK ==
  ASSUME TypeOK, NEW a \in Activities, act[a].todo # <<>>
  PROVE  Head(act[a].todo) \in Requests /\ Frame[Head(act[a].todo)] \in Frames
<1>1. act[a].todo \in Seq(Requests) BY DEF TypeOK, ActOK, States
<1>2. Head(act[a].todo) \in Requests BY <1>1
<1> QED BY <1>2 DEF Frames

\* An exchange says what its answer said.
LEMMA EntryOK ==
  ASSUME NEW r \in Requests, NEW x, x \in Entries \/ x \in Answers
  PROVE  /\ Entry(r, x) \in Entries /\ Entry(r, x).request = r
         /\ Entry(r, x).by = x.by /\ Entry(r, x).at = x.at /\ Entry(r, x).kind = x.kind
BY DEF Entry, Entries, Answers

\* The exchange of a is over with entry e.
Takes(a, e) ==
  /\ a \in Activities /\ act[a].pc # "off" /\ act[a].todo # <<>>
  /\ e \in Entries /\ e.request = Head(act[a].todo)
  /\ DOMAIN act' = Activities /\ act'[a] = Taken(a, act[a], e)
  /\ \A b \in Activities : b # a => act'[b] = act[b]
  /\ Decode(a, e)
  /\ UNCHANGED <<addressed, screen>>

\* The types hold when an exchange is taken.
LEMMA TakesOK ==
  ASSUME TypeOK, clock' \in Nat, clock <= clock', NEW a, NEW e, Takes(a, e)
  PROVE  \A b \in Activities : ActOK(act[b])'
<1> SUFFICES ASSUME NEW b \in Activities PROVE ActOK(act[b])'
    OBVIOUS
<1>1. ActOK(act[b]) BY DEF TypeOK
<1>4. act[b].pc # "off" => act[b].of \in Screens /\ act[b].since <= clock'
      BY <1>1 DEF ActOK, States, TypeOK
<1>2. CASE b = a
  <2>1. act'[b] = Taken(a, act[b], e) BY <1>2 DEF Takes
  <2>2. act[b].todo # <<>> /\ act[b].pc # "off" /\ e \in Entries BY <1>2 DEF Takes
  <2>3. /\ act'[b] \in States /\ act'[b].pc = "ready"
        /\ act'[b].of = act[b].of /\ act'[b].since = act[b].since
    <3>1. act[b] \in States /\ act[b].todo # <<>> /\ e \in Entries BY <1>1, <2>2 DEF ActOK
    <3>2. e \in Entries => \A x \in States : x.todo # <<>> =>
             /\ Taken(a, x, e) \in States /\ Taken(a, x, e).pc = "ready"
             /\ Taken(a, x, e).of = x.of /\ Taken(a, x, e).since = x.since
          BY TakenOK
    <3> QED BY <2>1, <3>1, <3>2
  <2>4. ~(act'[b].pc = "asked" \/ act'[b].pc = "answered") BY <2>3
  <2>5. act[b].of \in Screens /\ act[b].since <= clock' BY <1>4, <2>2
  <2>6. act'[b].of \in Screens /\ act'[b].since <= clock' BY <2>3, <2>5
  <2> QED BY <2>3, <2>4, <2>6, Zenon DEF ActOK
<1>3. CASE b # a
  <2>1. act'[b] = act[b] BY <1>3, SMTT(30) DEF Takes
  <2> QED BY <1>1, <1>4, <2>1 DEF ActOK
<1> QED BY <1>2, <1>3

\* The cache gives the activity an exchange of the request it is at.
LEMMA CacheHitTakes ==
  ASSUME TypeOK, NEW a \in Activities, CacheHit(a)
  PROVE  /\ cache[Frame[Head(act[a].todo)]] \in Entries
         /\ Takes(a, Entry(Head(act[a].todo), cache[Frame[Head(act[a].todo)]]))
<1> DEFINE r == Head(act[a].todo)
           c == cache[Frame[r]]
<1>1. act[a].todo # <<>> /\ c # None /\ act[a].pc = "ready" BY DEF CacheHit
<1>2. r \in Requests /\ Frame[r] \in Frames BY <1>1, HeadOK
<1>3. c \in Entries BY <1>1, <1>2 DEF TypeOK
<1>4. /\ act' = [act EXCEPT ![a] = Took(a, Entry(r, c))] /\ Decode(a, Entry(r, c))
      /\ UNCHANGED <<addressed, screen>>
      BY DEF CacheHit
<1>5. Took(a, Entry(r, c)) = Taken(a, act[a], Entry(r, c)) BY Zenon DEF Took, Taken
<1> HIDE DEF c
<1> HIDE DEF r
<1>6. Entry(r, c) \in Entries /\ Entry(r, c).request = r BY <1>2, <1>3, EntryOK
<1>7. DOMAIN act = Activities BY DEF TypeOK
<1>8. DOMAIN act' = Activities /\ act'[a] = Took(a, Entry(r, c))
      /\ \A b \in Activities : b # a => act'[b] = act[b]
      BY <1>4, <1>7
<1> QED BY <1>1, <1>3, <1>4, <1>5, <1>6, <1>8 DEF Takes, r, c

\* So does the reply that comes back, which the cache may keep.
LEMMA ResumeTakes ==
  ASSUME TypeOK, NEW a \in Activities, Resume(a)
  PROVE  /\ Takes(a, Entry(Head(act[a].todo), act[a].answer))
         /\ act[a].answer \in Answers /\ Frame[Head(act[a].todo)] \in Frames
         /\ \/ UNCHANGED cache
            \/ cache' = [cache EXCEPT ![Frame[Head(act[a].todo)]] = Entry(Head(act[a].todo), act[a].answer)]
<1> DEFINE r == Head(act[a].todo)
           x == act[a].answer
<1>1. act[a].pc = "answered" BY DEF Resume
<1>2. x \in Answers /\ act[a].todo # <<>> BY <1>1 DEF TypeOK, ActOK
<1>3. r \in Requests /\ Frame[r] \in Frames BY <1>2, HeadOK
<1>4. /\ act' = [act EXCEPT ![a] = Took(a, Entry(r, x))] /\ Decode(a, Entry(r, x))
      /\ UNCHANGED <<addressed, screen>>
      /\ UNCHANGED cache \/ cache' = [cache EXCEPT ![Frame[r]] = Entry(r, x)]
      BY DEF Resume
<1>5. Took(a, Entry(r, x)) = Taken(a, act[a], Entry(r, x)) BY Zenon DEF Took, Taken
<1> HIDE DEF x
<1> HIDE DEF r
<1>6. Entry(r, x) \in Entries /\ Entry(r, x).request = r BY <1>2, <1>3, EntryOK
<1>7. DOMAIN act = Activities BY DEF TypeOK
<1>8. DOMAIN act' = Activities /\ act'[a] = Took(a, Entry(r, x))
      /\ \A b \in Activities : b # a => act'[b] = act[b]
      BY <1>4, <1>7
<1> QED BY <1>1, <1>2, <1>3, <1>4, <1>5, <1>6, <1>8 DEF Takes, r, x

\* So does the link that throws.
LEMMA FailsTakes ==
  ASSUME TypeOK, NEW a \in Activities, Fails(a)
  PROVE  \E e : e.kind = "error" /\ Takes(a, e)
<1> DEFINE r == Head(act[a].todo)
           e == [request |-> r, by |-> None, at |-> clock', kind |-> "error"]
<1>1. act[a].pc = "asked" /\ clock' \in Nat BY DEF Fails, TypeOK
<1>2. act[a].todo # <<>> BY <1>1 DEF TypeOK, ActOK
<1>3. r \in Requests BY <1>2, HeadOK
<1>4. /\ act' = [act EXCEPT ![a] = Took(a, e)] /\ Decode(a, e)
      /\ UNCHANGED <<addressed, screen>>
      BY DEF Fails, AfterFailure
<1>5. Took(a, e) = Taken(a, act[a], e) BY Zenon DEF Took, Taken
<1> HIDE DEF r
<1>6. e \in Entries /\ e.request = r /\ e.kind = "error" BY <1>1, <1>3 DEF Entries, Speakers
<1> HIDE DEF e
<1>7. DOMAIN act = Activities BY DEF TypeOK
<1>8. DOMAIN act' = Activities /\ act'[a] = Took(a, e)
      /\ \A b \in Activities : b # a => act'[b] = act[b]
      BY <1>4, <1>7
<1> QED BY <1>1, <1>2, <1>4, <1>5, <1>6, <1>8 DEF Takes, r

\* The exchange of a moves on: it is asked, or answered.
Asked(x, who) == [x EXCEPT !.pc = "asked", !.answer = [by |-> who, at |-> 0, kind |-> "data"]]
Answered(x, at, kind) == [x EXCEPT !.pc = "answered", !.answer.at = at, !.answer.kind = kind]

\* What asking changes of an activity.
LEMMA AskedOK ==
  ASSUME NEW x \in States, NEW who \in Speakers
  PROVE  /\ Asked(x, who) \in States /\ Asked(x, who).pc = "asked"
         /\ Asked(x, who).answer = [by |-> who, at |-> 0, kind |-> "data"]
         /\ Asked(x, who).of = x.of /\ Asked(x, who).since = x.since
         /\ Asked(x, who).late = x.late /\ Asked(x, who).alone = x.alone
         /\ Asked(x, who).todo = x.todo /\ Asked(x, who).got = x.got
<1>1. [by |-> who, at |-> 0, kind |-> "data"] \in Answers BY DEF Answers, Kinds
<1> HIDE DEF Answers
<1> QED BY <1>1 DEF Asked, States

\* What an answer changes of an activity.
LEMMA AnsweredOK ==
  ASSUME NEW x \in States, x.answer \in Answers, NEW at \in Nat, NEW kind \in Kinds
  PROVE  /\ Answered(x, at, kind) \in States /\ Answered(x, at, kind).pc = "answered"
         /\ Answered(x, at, kind).answer \in Answers
         /\ Answered(x, at, kind).answer.by = x.answer.by
         /\ Answered(x, at, kind).answer.at = at
         /\ Answered(x, at, kind).of = x.of /\ Answered(x, at, kind).since = x.since
         /\ Answered(x, at, kind).late = x.late /\ Answered(x, at, kind).alone = x.alone
         /\ Answered(x, at, kind).todo = x.todo /\ Answered(x, at, kind).got = x.got
<1> DEFINE y == [x.answer EXCEPT !.at = at, !.kind = kind]
<1>1. y \in Answers /\ y.by = x.answer.by /\ y.at = at BY DEF Answers
<1>2. Answered(x, at, kind) = [x EXCEPT !.pc = "answered", !.answer = y] BY DEF Answered, States
<1> HIDE DEF y
<1>3. /\ [x EXCEPT !.pc = "answered", !.answer = y] \in States
      /\ [x EXCEPT !.pc = "answered", !.answer = y].answer = y
      /\ [x EXCEPT !.pc = "answered", !.answer = y].pc = "answered"
      BY <1>1 DEF States
<1>4. \A z : z = [x EXCEPT !.pc = "answered", !.answer = y] =>
        z.of = x.of /\ z.since = x.since /\ z.late = x.late /\ z.alone = x.alone
        /\ z.todo = x.todo /\ z.got = x.got
      BY DEF States
<1> QED BY <1>1, <1>2, <1>3, <1>4

\* A request is asked of the ECU the adapter is at.
LEMMA AskMoves ==
  ASSUME TypeOK, NEW a \in Activities, Ask(a)
  PROVE  /\ act[a].pc = "ready" /\ act[a].todo # <<>> /\ act[a] \in States
         /\ DOMAIN act' = Activities /\ act'[a] = Asked(act[a], addressed)
         /\ \A b \in Activities : b # a => act'[b] = act[b]
         /\ UNCHANGED <<cache, addressed, screen, values, clock>>
<1>1. act' = [act EXCEPT ![a].pc = "asked",
                        ![a].answer = [by |-> addressed, at |-> 0, kind |-> "data"]]
      BY DEF Ask
<1>2. DOMAIN act = Activities /\ act[a] \in States BY DEF TypeOK, ActOK
<1>3. act'[a] = Asked(act[a], addressed) BY <1>1, <1>2 DEF Asked
<1>4. DOMAIN act' = Activities /\ \A b \in Activities : b # a => act'[b] = act[b] BY <1>1, <1>2
<1> QED BY <1>2, <1>3, <1>4 DEF Ask

\* Its answer is newer than anything before it.
LEMMA EcuAnswersMoves ==
  ASSUME TypeOK, NEW a \in Activities, NEW kind \in Kinds, EcuAnswers(a, kind)
  PROVE  /\ act[a].pc = "asked" /\ act[a].todo # <<>> /\ act[a] \in States /\ act[a].answer \in Answers
         /\ DOMAIN act' = Activities /\ act'[a] = Answered(act[a], clock + 1, kind)
         /\ \A b \in Activities : b # a => act'[b] = act[b]
         /\ clock' = clock + 1 /\ clock + 1 \in Nat
         /\ UNCHANGED <<cache, addressed, screen, values>>
<1> DEFINE c == clock + 1
<1>1. /\ act' = [act EXCEPT ![a].pc = "answered", ![a].answer.at = c, ![a].answer.kind = kind]
      /\ clock' = c /\ act[a].pc = "asked" /\ UNCHANGED <<cache, addressed, screen, values>>
      BY DEF EcuAnswers
<1>2. DOMAIN act = Activities /\ act[a] \in States BY DEF TypeOK, ActOK
<1>3. act[a].todo # <<>> /\ act[a].answer \in Answers BY <1>1 DEF TypeOK, ActOK
<1>4. c \in Nat BY DEF TypeOK
<1> HIDE DEF c
<1>5. act'[a] = Answered(act[a], c, kind) BY <1>1, <1>2, <1>3 DEF Answered, States, Answers
<1>6. DOMAIN act' = Activities /\ \A b \in Activities : b # a => act'[b] = act[b] BY <1>1, <1>2
<1> QED BY <1>1, <1>2, <1>3, <1>4, <1>5, <1>6 DEF c

\* An activity that has not changed is still of its type, however late it is.
LEMMA StillOK ==
  ASSUME TypeOK, clock' \in Nat, clock <= clock', NEW b \in Activities, act'[b] = act[b]
  PROVE  ActOK(act[b])'
<1>1. ActOK(act[b]) BY DEF TypeOK
<1>2. act[b].pc # "off" => act[b].of \in Screens /\ act[b].since <= clock'
      BY <1>1 DEF ActOK, States, TypeOK
<1> QED BY <1>1, <1>2 DEF ActOK

\* A presend or a press that ends starts a refresh, unless one is under way.
LEMMA ThenRefreshesMoves ==
  ASSUME TypeOK, NEW a \in Activities, ThenRefreshes(a)
  PROVE  /\ a # "refresh" /\ DOMAIN act' = Activities /\ act'[a] = Off
         /\ act[a].pc = "ready"
         /\ UNCHANGED <<addressed, screen, clock>>
         /\ \A b \in Activities : b # a /\ b # "refresh" => act'[b] = act[b]
         /\ \/ /\ act["refresh"].pc = "off" /\ screen # None
               /\ values' = <<>> /\ cache' = Empty
               /\ \E alone \in BOOLEAN :
                    /\ act'["refresh"] = Fresh(screen, Plan(screen), alone)
                    /\ alone => \A b \in Activities : b # "refresh" /\ b # a => act[b].pc = "off"
            \/ /\ act["refresh"].pc # "off" /\ act'["refresh"] = act["refresh"]
               /\ UNCHANGED <<cache, values>>
<1>1. a # "refresh" /\ UNCHANGED <<addressed, screen, clock>> /\ DOMAIN act = Activities
      /\ "refresh" \in Activities /\ act[a].pc = "ready"
      BY DEF ThenRefreshes, TypeOK, Activities, Finished
<1>2. CASE act["refresh"].pc = "off"
  <2> DEFINE alone == (Busy = {a})
             new == [Started(screen, Plan(screen)) EXCEPT !.alone = alone]
  <2>1. /\ act' = [act EXCEPT ![a] = Off, !["refresh"] = new]
        /\ screen # None /\ values' = <<>> /\ cache' = Empty
        BY <1>2 DEF ThenRefreshes, BeginRefresh
  <2>2. alone \in BOOLEAN OBVIOUS
  <2>3. alone => \A b \in Activities : b # "refresh" /\ b # a => act[b].pc = "off" BY DEF Busy
  <2> HIDE DEF alone
  <2>4. new = Fresh(screen, Plan(screen), alone) BY StartedIs
  <2> HIDE DEF new
  <2>5. act'[a] = Off /\ act'["refresh"] = new /\ DOMAIN act' = Activities
        /\ \A b \in Activities : b # a /\ b # "refresh" => act'[b] = act[b]
        BY <1>1, <2>1
  <2> QED BY <1>1, <1>2, <2>1, <2>2, <2>3, <2>4, <2>5
<1>3. CASE act["refresh"].pc # "off"
  <2>1. act' = [act EXCEPT ![a] = Off] /\ UNCHANGED <<cache, values>> BY <1>3 DEF ThenRefreshes
  <2>2. act'[a] = Off /\ act'["refresh"] = act["refresh"] /\ DOMAIN act' = Activities
        /\ \A b \in Activities : b # a /\ b # "refresh" => act'[b] = act[b]
        BY <1>1, <2>1
  <2> QED BY <1>1, <1>3, <2>1, <2>2
<1> QED BY <1>2, <1>3

\* A snapshot ends the refresh and nothing else.
LEMMA PublishMoves ==
  ASSUME TypeOK, Publish
  PROVE  /\ DOMAIN act' = Activities /\ act'["refresh"] = Off /\ "refresh" \in Activities
         /\ act["refresh"].pc = "ready" /\ act["refresh"].todo = <<>>
         /\ \A b \in Activities : b # "refresh" => act'[b] = act[b]
         /\ UNCHANGED <<cache, addressed, screen, clock>>
<1>1. act' = [act EXCEPT !["refresh"] = Off] BY DEF Publish
<1>2. DOMAIN act = Activities /\ "refresh" \in Activities BY DEF TypeOK, Activities
<1> QED BY <1>1, <1>2 DEF Publish, Finished

\* openScreen begins the presend, with the adapter at the ECU of the screen.
LEMMA OpenScreenMoves ==
  ASSUME TypeOK, NEW s \in Screens, OpenScreen(s)
  PROVE  /\ Begins("presend", s, Presend[s]) /\ "presend" \in Activities
         /\ act["presend"].pc = "off" /\ screen' = s /\ addressed' = EcuOf[s]
         /\ UNCHANGED <<cache, values, clock>>
<1>1. Presend[s] \in Seq(Requests) BY LayoutAssumption DEF Requests
<1>2. "presend" \in Activities BY DEF Activities
<1>3. act' = Alone("presend", Started(s, Presend[s])) /\ UNCHANGED <<cache, values, clock>>
      /\ act["presend"].pc = "off" /\ screen' = s /\ addressed' = EcuOf[s]
      BY DEF OpenScreen
<1>4. Begins("presend", s, Presend[s]) BY <1>1, <1>2, <1>3, AloneIs
<1> QED BY <1>2, <1>3, <1>4

\* A refresh begins with the plan of the screen and an empty cache.
LEMMA RefreshMoves ==
  ASSUME TypeOK, Refresh
  PROVE  /\ Begins("refresh", screen, Plan(screen)) /\ "refresh" \in Activities
         /\ act["refresh"].pc = "off" /\ screen \in Screens
         /\ values' = <<>> /\ cache' = Empty
         /\ UNCHANGED <<addressed, screen, clock>>
<1>1. /\ act["refresh"].pc = "off" /\ screen \in Screens
      /\ values' = <<>> /\ cache' = Empty /\ UNCHANGED <<addressed, screen, clock>>
      /\ act' = Alone("refresh", Started(screen, Plan(screen)))
      BY DEF Refresh, BeginRefresh, TypeOK
<1>2. Plan(screen) \in Seq(Requests) BY <1>1, PlanFacts
<1>3. "refresh" \in Activities BY DEF Activities
<1>4. Begins("refresh", screen, Plan(screen)) BY <1>1, <1>2, <1>3, AloneIs
<1> QED BY <1>1, <1>3, <1>4

\* A press begins with the requests of its button.
LEMMA PressMoves ==
  ASSUME TypeOK, NEW b, Press(b)
  PROVE  /\ Begins("press", screen, b) /\ "press" \in Activities
         /\ act["press"].pc = "off" /\ screen \in Screens
         /\ UNCHANGED <<cache, addressed, screen, values, clock>>
<1>1. /\ act["press"].pc = "off" /\ screen \in Screens /\ b \in Buttons[screen]
      /\ UNCHANGED <<cache, addressed, screen, values, clock>>
      /\ act' = Alone("press", Started(screen, b))
      BY DEF Press, TypeOK
<1>2. b \in Seq(Requests) BY <1>1, LayoutAssumption DEF Requests
<1>3. "press" \in Activities BY DEF Activities
<1>4. Begins("press", screen, b) BY <1>1, <1>2, <1>3, AloneIs
<1> QED BY <1>1, <1>3, <1>4

\* An empty cache is one.
LEMMA EmptyIsCache == Empty \in [Frames -> Entries \cup {None}]
BY DEF Empty

\* The types are kept by every step.
LEMMA TypeNext == TypeOK /\ [Next]_vars => TypeOK'
<1> SUFFICES ASSUME TypeOK, [Next]_vars PROVE TypeOK'
    OBVIOUS
<1>c. clock \in Nat /\ screen \in Screens \cup {None} /\ addressed \in Speakers
      /\ cache \in [Frames -> Entries \cup {None}]
      BY DEF TypeOK
<1>1. ASSUME NEW s \in Screens, OpenScreen(s) PROVE TypeOK'
  <2>1. \A b \in Activities : ActOK(act[b])' BY <1>1, OpenScreenMoves, BeginsOK
  <2>2. DOMAIN act' = Activities BY <1>1, OpenScreenMoves DEF Begins
  <2>3. addressed' \in Speakers BY <1>1, OpenScreenMoves DEF Speakers
  <2> QED BY <1>1, <1>c, <2>1, <2>2, <2>3, OpenScreenMoves DEF TypeOK
<1>2. ASSUME Refresh PROVE TypeOK'
  <2>1. \A b \in Activities : ActOK(act[b])' BY <1>2, RefreshMoves, BeginsOK
  <2>2. DOMAIN act' = Activities BY <1>2, RefreshMoves DEF Begins
  <2> QED BY <1>2, <1>c, <2>1, <2>2, RefreshMoves, EmptyIsCache DEF TypeOK
<1>3. ASSUME NEW b, Press(b) PROVE TypeOK'
  <2>1. \A x \in Activities : ActOK(act[x])' BY <1>3, PressMoves, BeginsOK
  <2>2. DOMAIN act' = Activities BY <1>3, PressMoves DEF Begins
  <2> QED BY <1>3, <1>c, <2>1, <2>2, PressMoves DEF TypeOK
<1>4. ASSUME NEW a, NEW e, Takes(a, e), clock' \in Nat, clock <= clock',
             cache' \in [Frames -> Entries \cup {None}]
      PROVE  TypeOK'
  <2>1. \A b \in Activities : ActOK(act[b])' BY <1>4, TakesOK
  <2> QED BY <1>4, <1>c, <2>1 DEF TypeOK, Takes
<1>5. ASSUME NEW a \in Activities, CacheHit(a) PROVE TypeOK'
  <2>1. \E e : Takes(a, e) BY <1>5, CacheHitTakes
  <2>2. UNCHANGED <<clock, cache>> BY <1>5 DEF CacheHit
  <2> QED BY <1>4, <1>c, <2>1, <2>2
<1>6. ASSUME NEW a \in Activities, Ask(a) PROVE TypeOK'
  <2>1. act'[a] \in States /\ act'[a].pc = "asked" /\ act'[a].todo # <<>>
        /\ act'[a].of = act[a].of /\ act'[a].since = act[a].since
        /\ act'[a].answer = [by |-> addressed, at |-> 0, kind |-> "data"]
        BY <1>6, <1>c, AskMoves, AskedOK
  <2>2. act'[a].answer \in Answers BY <1>c, <2>1 DEF Answers, Kinds
  <2>3. act[a].of \in Screens /\ act[a].since <= clock BY <1>6, AskMoves DEF TypeOK, ActOK
  <2>4. UNCHANGED clock BY <1>6, AskMoves
  <2>5. ActOK(act[a])' BY <2>1, <2>2, <2>3, <2>4 DEF ActOK
  <2>6. \A b \in Activities : b # a => ActOK(act[b])' BY <1>6, <1>c, AskMoves, StillOK
  <2> QED BY <1>6, <1>c, <2>5, <2>6, AskMoves DEF TypeOK
<1>7. ASSUME NEW a \in Activities, Resume(a) PROVE TypeOK'
  <2>1. Takes(a, Entry(Head(act[a].todo), act[a].answer)) /\ Frame[Head(act[a].todo)] \in Frames
        BY <1>7, ResumeTakes
  <2>2. UNCHANGED clock BY <1>7 DEF Resume
  <2> DEFINE e == Entry(Head(act[a].todo), act[a].answer)
  <2>3. e \in Entries BY <2>1 DEF Takes
  <2>4. UNCHANGED cache \/ cache' = [cache EXCEPT ![Frame[Head(act[a].todo)]] = e]
        BY <1>7, ResumeTakes
  <2>5. Takes(a, e) BY <2>1
  <2> HIDE DEF e
  <2>6. cache' \in [Frames -> Entries \cup {None}] BY <1>c, <2>3, <2>4
  <2> QED BY <1>4, <1>c, <2>2, <2>5, <2>6
<1>8. ASSUME NEW a \in Activities, Fails(a) PROVE TypeOK'
  <2>1. \E e : Takes(a, e) BY <1>8, FailsTakes
  <2>2. clock' \in Nat /\ clock <= clock' /\ UNCHANGED cache BY <1>8, <1>c DEF Fails
  <2>3. cache' \in [Frames -> Entries \cup {None}] BY <1>c, <2>2
  <2> QED BY <1>4, <2>1, <2>2, <2>3
<1>9. ASSUME NEW a \in Activities, ThenRefreshes(a) PROVE TypeOK'
  <2>1. DOMAIN act' = Activities /\ UNCHANGED <<addressed, screen, clock>>
        /\ cache' \in [Frames -> Entries \cup {None}]
        BY <1>9, <1>c, ThenRefreshesMoves, EmptyIsCache
  <2>2. ASSUME NEW b \in Activities PROVE ActOK(act[b])'
    <3>1. CASE act'[b] = act[b] BY <1>c, <2>1, <3>1, StillOK
    <3>2. CASE act'[b] = Off
      <4>1. ActOK(Off)' BY OffOK, <2>1 DEF ActOK, Off
      <4> QED BY <3>2, <4>1 DEF ActOK
    <3>3. CASE /\ screen # None
               /\ \E alone \in BOOLEAN : act'[b] = Fresh(screen, Plan(screen), alone)
      <4>1. PICK alone \in BOOLEAN : act'[b] = Fresh(screen, Plan(screen), alone) BY <3>3
      <4>2. screen \in Screens /\ Plan(screen) \in Seq(Requests) BY <1>c, <3>3, PlanFacts
      <4>3. act'[b] \in States BY <4>1, <4>2, FreshOK
      <4>4. act'[b].pc = "ready" /\ act'[b].of = screen /\ act'[b].since = clock BY <4>1 DEF Fresh
      <4> QED BY <1>c, <2>1, <4>2, <4>3, <4>4 DEF ActOK
    <3> QED BY <1>9, <3>1, <3>2, <3>3, ThenRefreshesMoves
  <2> QED BY <1>c, <2>1, <2>2 DEF TypeOK
<1>10. ASSUME NEW a \in Activities, NEW k \in Kinds, EcuAnswers(a, k) PROVE TypeOK'
  <2> DEFINE c == clock + 1
  <2>1. /\ act[a].pc = "asked" /\ act[a].todo # <<>> /\ act[a] \in States /\ act[a].answer \in Answers
        /\ DOMAIN act' = Activities /\ act'[a] = Answered(act[a], c, k)
        /\ clock' = c /\ c \in Nat /\ clock <= c /\ UNCHANGED <<cache, addressed, screen, values>>
        BY <1>10, <1>c, EcuAnswersMoves
  <2>2. \A b \in Activities : b # a => act'[b] = act[b] BY <1>10, EcuAnswersMoves
  <2>3. act[a].of \in Screens /\ act[a].since <= c BY <1>c, <2>1 DEF TypeOK, ActOK, States
  <2> HIDE DEF c
  <2>4. act'[a] \in States /\ act'[a].pc = "answered" /\ act'[a].answer \in Answers
        /\ act'[a].of = act[a].of /\ act'[a].since = act[a].since /\ act'[a].todo # <<>>
        BY <2>1, AnsweredOK
  <2>5. ActOK(act[a])' BY <2>1, <2>3, <2>4 DEF ActOK
  <2>6. \A b \in Activities : b # a => ActOK(act[b])' BY <2>1, <2>2, StillOK
  <2> QED BY <1>c, <2>1, <2>5, <2>6 DEF TypeOK
<1>11. ASSUME Publish PROVE TypeOK'
  <2>1. ActOK(Off)' BY <1>11, PublishMoves, OffOK DEF ActOK, Off
  <2>2. act'["refresh"] = Off BY <1>11, PublishMoves
  <2>3. ActOK(act["refresh"])' BY <2>1, <2>2 DEF ActOK
  <2>4. \A b \in Activities : b # "refresh" => ActOK(act[b])' BY <1>11, <1>c, PublishMoves, StillOK
  <2> QED BY <1>11, <1>c, <2>3, <2>4, PublishMoves DEF TypeOK
<1>12. ASSUME UNCHANGED <<cache, addressed, screen, act, clock>> PROVE TypeOK'
  BY <1>12 DEF TypeOK, ActOK
<1> QED BY <1>1, <1>2, <1>3, <1>5, <1>6, <1>7, <1>8, <1>9, <1>10, <1>11, <1>12 DEF Next, vars, Silence

-----------------------------------------------------------------------------
(* Freshness.  For the refresh under way the answer at a time is fresh if  *)
(* it came after the refresh began or was on its way then; while the       *)
(* refresh is alone its answers must also be of its screen's ECU.  What it *)
(* has got, all the cache holds and every answer on its way back is.       *)
Fresher(x, at) == at > x.since \/ at \in x.late
Fine(x, e) == e.kind = "error" \/ (Fresher(x, e.at) /\ (x.alone => e.by = EcuOf[x.of]))
R == act["refresh"]

AtItsEcu == screen # None => addressed = EcuOf[screen]
GotFine == \A n \in 1 .. Len(R.got) : Fine(R, R.got[n])
CacheFine == \A f \in Frames : cache[f] # None => Fine(R, cache[f])
HandFine == \A a \in Activities : act[a].pc = "answered" => Fresher(R, act[a].answer.at)
AloneFine ==
  R.alone =>
    /\ R.of = screen
    /\ \A a \in Activities : a # "refresh" => act[a].pc = "off"
    /\ R.pc = "asked" \/ R.pc = "answered" => R.answer.by = EcuOf[R.of]
FreshInv == AtItsEcu /\ (R.pc # "off" => GotFine /\ CacheFine /\ HandFine /\ AloneFine)

\* Still the same refresh, which may have lost its claim to be alone.
Same(x, y) == y.of = x.of /\ y.since = x.since /\ y.late = x.late /\ (y.alone => x.alone)

\* What is fine for a refresh stays so while the refresh is the same.
LEMMA FineKept ==
  \A x, y : Same(x, y) =>
    /\ \A e : Fine(x, e) => Fine(y, e)
    /\ \A at : Fresher(x, at) => Fresher(y, at)
BY Zenon DEF Same, Fine, Fresher

\* The refresh is one of the activities.
LEMMA RefreshIs == TypeOK => R \in States /\ "refresh" \in Activities
BY DEF TypeOK, ActOK, R, Activities

\* Another activity begins: the refresh is the same, and no longer alone.
LEMMA FreshBeside ==
  ASSUME TypeOK, FreshInv, NEW a \in Activities \ {"refresh"}, NEW s, NEW todo, Begins(a, s, todo),
         UNCHANGED cache, AtItsEcu'
  PROVE  FreshInv'
<1> SUFFICES ASSUME R'.pc # "off" PROVE GotFine' /\ CacheFine' /\ HandFine' /\ AloneFine'
    BY DEF FreshInv
<1>1. R' = Lonely(R) /\ R \in States BY RefreshIs DEF Begins, R
<1> DEFINE x == R
           y == R'
<1>2. y.pc = x.pc /\ y.got = x.got /\ ~y.alone /\ Same(x, y) BY <1>1, LonelyOK DEF Same
<1>3. x.pc # "off" BY <1>2
<1>4. GotFine /\ CacheFine /\ HandFine BY <1>3 DEF FreshInv
<1>5. /\ \A e : Fine(x, e) => Fine(y, e)
      /\ \A at : Fresher(x, at) => Fresher(y, at)
  <2> HIDE DEF x, y
  <2> QED BY <1>2, FineKept, Zenon
<1>6. GotFine'
  <2>1. \A n \in 1 .. Len(x.got) : Fine(x, x.got[n]) BY <1>4 DEF GotFine
  <2>2. \A n \in 1 .. Len(y.got) : Fine(y, y.got[n])
    <3> HIDE DEF x, y
    <3> QED BY <1>2, <1>5, <2>1, Zenon
  <2> QED BY <2>2 DEF GotFine
<1>7. CacheFine'
  <2>1. \A f \in Frames : cache[f] # None => Fine(x, cache[f]) BY <1>4 DEF CacheFine
  <2>2. \A f \in Frames : cache[f] # None => Fine(y, cache[f])
    <3> HIDE DEF x, y
    <3> QED BY <1>5, <2>1, Zenon
  <2> QED BY <2>2 DEF CacheFine
<1>8. HandFine'
  <2>1. ASSUME NEW b \in Activities, act'[b].pc = "answered" PROVE Fresher(y, act'[b].answer.at)
    <3>1. b # a
      <4>1. act'[a].pc = "ready" BY DEF Begins, Fresh
      <4> QED BY <2>1, <4>1
    <3>2. act'[b] = Lonely(act[b]) /\ act[b] \in States BY <3>1 DEF Begins, TypeOK, ActOK
    <3>3. act[b].pc = "answered" /\ act'[b].answer = act[b].answer BY <2>1, <3>2, LonelyOK
    <3>4. Fresher(x, act[b].answer.at) BY <1>4, <3>3 DEF HandFine
    <3> HIDE DEF x, y
    <3> QED BY <1>5, <3>3, <3>4
  <2> QED BY <2>1 DEF HandFine
<1>9. AloneFine' BY <1>2 DEF AloneFine
<1> QED BY <1>6, <1>7, <1>8, <1>9

\* A refresh that begins drops the cache, and knows what is on its way back.
LEMMA FreshBegins ==
  ASSUME TypeOK, AtItsEcu', UNCHANGED <<screen, addressed, clock>>, cache' = Empty,
         NEW alone \in BOOLEAN, NEW todo, R' = Fresh(screen, todo, alone),
         alone => \A b \in Activities : b # "refresh" => act'[b].pc = "off",
         \A b \in Activities : b # "refresh" /\ act'[b].pc = "answered" =>
            act[b].pc = "answered" /\ act'[b].answer = act[b].answer
  PROVE  FreshInv'
<1>1. R'.pc = "ready" /\ R'.got = <<>> /\ R'.of = screen /\ R'.late = InHand /\ R'.alone = alone
      BY DEF Fresh
<1>2. GotFine' BY <1>1 DEF GotFine
<1>3. CacheFine' BY DEF CacheFine, Empty
<1>4. HandFine'
  <2>1. ASSUME NEW b \in Activities, act'[b].pc = "answered" PROVE act'[b].answer.at \in R'.late
    <3>1. b # "refresh" BY <1>1, <2>1 DEF R
    <3>2. act[b].pc = "answered" /\ act'[b].answer = act[b].answer BY <2>1, <3>1
    <3>3. act[b].answer.at \in InHand BY <3>2 DEF InHand
    <3> QED BY <1>1, <3>2, <3>3
  <2> QED BY <2>1 DEF HandFine, Fresher
<1>5. AloneFine' BY <1>1 DEF AloneFine
<1> QED BY <1>2, <1>3, <1>4, <1>5 DEF FreshInv

\* What is taken by the refresh, or put into the cache meanwhile, is fine for it.
LEMMA FreshTakes ==
  ASSUME TypeOK, FreshInv, NEW a, NEW e, Takes(a, e), R.pc # "off" => Fine(R, e),
         \A f \in Frames : cache'[f] = cache[f] \/ cache'[f] = e
  PROVE  FreshInv'
<1>0. AtItsEcu' BY DEF FreshInv, AtItsEcu, Takes
<1> SUFFICES ASSUME R'.pc # "off" PROVE GotFine' /\ CacheFine' /\ HandFine' /\ AloneFine'
    BY <1>0 DEF FreshInv
<1> DEFINE x == R
           y == R'
<1>1. x \in States /\ "refresh" \in Activities BY RefreshIs
<1>2. a = "refresh" => /\ Same(x, y) /\ y.pc = "ready" /\ y.got = Append(x.got, e) /\ x.pc # "off"
  <2> SUFFICES ASSUME a = "refresh" PROVE Same(x, y) /\ y.pc = "ready" /\ y.got = Append(x.got, e) /\ x.pc # "off"
      OBVIOUS
  <2>1. y = Taken("refresh", x, e) /\ x.todo # <<>> /\ e \in Entries /\ x.pc # "off" BY DEF Takes, R
  <2>2. \A z \in States : z.todo # <<>> =>
          /\ Taken("refresh", z, e).of = z.of /\ Taken("refresh", z, e).since = z.since
          /\ Taken("refresh", z, e).late = z.late /\ Taken("refresh", z, e).alone = z.alone
          /\ Taken("refresh", z, e).pc = "ready" /\ Taken("refresh", z, e).got = Append(z.got, e)
        BY <2>1, TakenOK
  <2> HIDE DEF x, y
  <2> QED BY <1>1, <2>1, <2>2 DEF Same
<1>3. a # "refresh" => y = x BY <1>1 DEF Takes, R
<1>4. Same(x, y) /\ x.pc # "off"
  <2>1. y.pc # "off" OBVIOUS
  <2> HIDE DEF x, y
  <2>2. a # "refresh" => Same(x, y) BY <1>3 DEF Same
  <2> QED BY <1>2, <1>3, <2>1, <2>2
<1>5. GotFine /\ CacheFine /\ HandFine /\ AloneFine /\ Fine(x, e) BY <1>4 DEF FreshInv
<1>6. /\ \A z : Fine(x, z) => Fine(y, z)
      /\ \A at : Fresher(x, at) => Fresher(y, at)
  <2> HIDE DEF x, y
  <2> QED BY <1>4, FineKept, Zenon
<1>7. GotFine'
  <2>1. \A n \in 1 .. Len(x.got) : Fine(x, x.got[n]) BY <1>5 DEF GotFine
  <2>2. x.got \in Seq(Entries) BY <1>1 DEF States
  <2>3. ASSUME NEW n \in 1 .. Len(y.got) PROVE Fine(y, y.got[n])
    <3> HIDE DEF x, y
    <3>1. a = "refresh" => \/ n \in 1 .. Len(x.got) /\ y.got[n] = x.got[n]
                           \/ y.got[n] = e
          BY <1>2, <2>2, <2>3
    <3> QED BY <1>3, <1>5, <1>6, <2>1, <3>1
  <2> QED BY <2>3 DEF GotFine
<1>8. CacheFine'
  <2>1. \A f \in Frames : cache[f] # None => Fine(x, cache[f]) BY <1>5 DEF CacheFine
  <2>2. \A f \in Frames : cache'[f] # None => Fine(y, cache'[f])
    <3> HIDE DEF x, y
    <3> QED BY <1>5, <1>6, <2>1
  <2> QED BY <2>2 DEF CacheFine
<1>9. HandFine'
  <2>1. ASSUME NEW b \in Activities, act'[b].pc = "answered" PROVE Fresher(y, act'[b].answer.at)
    <3>1. b # a
      <4>1. act[a] \in States /\ act[a].todo # <<>> /\ e \in Entries BY DEF TypeOK, ActOK, Takes
      <4>2. \A z \in States : z.todo # <<>> => Taken(a, z, e).pc = "ready" BY <4>1, TakenOK
      <4>3. act'[a].pc = "ready" BY <4>1, <4>2 DEF Takes
      <4> QED BY <2>1, <4>3
    <3>2. act'[b] = act[b] BY <3>1 DEF Takes
    <3>3. Fresher(x, act[b].answer.at) BY <1>5, <2>1, <3>2 DEF HandFine
    <3> HIDE DEF x, y
    <3> QED BY <1>6, <3>2, <3>3
  <2> QED BY <2>1 DEF HandFine
<1>10. AloneFine'
  <2> SUFFICES ASSUME y.alone PROVE AloneFine'
      BY DEF AloneFine
  <2>1. x.alone /\ y.of = x.of BY <1>4 DEF Same
  <2>2. x.of = screen /\ \A b \in Activities : b # "refresh" => act[b].pc = "off"
        BY <1>5, <2>1 DEF AloneFine
  <2>3. a = "refresh" BY <2>2 DEF Takes
  <2>4. y.pc = "ready" BY <1>2, <2>3
  <2>5. \A b \in Activities : b # "refresh" => act'[b].pc = "off" BY <2>2, <2>3 DEF Takes
  <2> QED BY <2>1, <2>2, <2>4, <2>5 DEF AloneFine, Takes
<1> QED BY <1>7, <1>8, <1>9, <1>10

\* An exchange moves on: the refresh is the same.
LEMMA FreshMoves ==
  ASSUME TypeOK, FreshInv, NEW a \in Activities, UNCHANGED <<cache, screen, addressed>>,
         act'[a].pc = "asked" \/ (act'[a].pc = "answered" /\ (R.pc # "off" => Fresher(R, act'[a].answer.at))),
         act[a].pc # "off", \A b \in Activities : b # a => act'[b] = act[b],
         a = "refresh" => /\ Same(R, R') /\ R'.got = R.got
                          /\ R'.answer.by = addressed \/ (R.pc = "asked" /\ R'.answer.by = R.answer.by)
  PROVE  FreshInv'
<1>0. AtItsEcu /\ AtItsEcu' BY DEF FreshInv, AtItsEcu
<1> SUFFICES ASSUME R'.pc # "off" PROVE GotFine' /\ CacheFine' /\ HandFine' /\ AloneFine'
    BY <1>0 DEF FreshInv
<1> DEFINE x == R
           y == R'
<1>1. "refresh" \in Activities BY RefreshIs
<1>2. Same(x, y) /\ y.got = x.got /\ x.pc # "off"
  <2>1. a = "refresh" => Same(x, y) /\ y.got = x.got /\ x.pc # "off" BY DEF R
  <2>2. a # "refresh" => y = x BY <1>1 DEF R
  <2>3. y.pc # "off" OBVIOUS
  <2> HIDE DEF x, y
  <2> QED BY <2>1, <2>2, <2>3 DEF Same
<1>3. GotFine /\ CacheFine /\ HandFine /\ AloneFine BY <1>2 DEF FreshInv
<1>4. /\ \A z : Fine(x, z) => Fine(y, z)
      /\ \A at : Fresher(x, at) => Fresher(y, at)
  <2> HIDE DEF x, y
  <2> QED BY <1>2, FineKept, Zenon
<1>5. GotFine'
  <2>1. \A n \in 1 .. Len(x.got) : Fine(x, x.got[n]) BY <1>3 DEF GotFine
  <2>2. \A n \in 1 .. Len(y.got) : Fine(y, y.got[n])
    <3> HIDE DEF x, y
    <3> QED BY <1>2, <1>4, <2>1, Zenon
  <2> QED BY <2>2 DEF GotFine
<1>6. CacheFine'
  <2>1. \A f \in Frames : cache[f] # None => Fine(x, cache[f]) BY <1>3 DEF CacheFine
  <2>2. \A f \in Frames : cache[f] # None => Fine(y, cache[f])
    <3> HIDE DEF x, y
    <3> QED BY <1>4, <2>1, Zenon
  <2> QED BY <2>2 DEF CacheFine
<1>7. HandFine'
  <2>1. ASSUME NEW b \in Activities, act'[b].pc = "answered" PROVE Fresher(x, act'[b].answer.at)
    <3>1. CASE b = a BY <1>2, <2>1, <3>1
    <3>2. CASE b # a
      <4>1. act'[b] = act[b] BY <3>2
      <4> QED BY <1>3, <2>1, <4>1 DEF HandFine
    <3> QED BY <3>1, <3>2
  <2>2. ASSUME NEW b \in Activities, act'[b].pc = "answered" PROVE Fresher(y, act'[b].answer.at)
    <3>1. Fresher(x, act'[b].answer.at) BY <2>1, <2>2
    <3> HIDE DEF x, y
    <3> QED BY <1>4, <3>1
  <2> QED BY <2>2 DEF HandFine
<1>8. AloneFine'
  <2> SUFFICES ASSUME y.alone PROVE AloneFine'
      BY DEF AloneFine
  <2>1. x.alone /\ y.of = x.of BY <1>2 DEF Same
  <2>2. /\ x.of = screen /\ \A b \in Activities : b # "refresh" => act[b].pc = "off"
        /\ x.pc = "asked" => x.answer.by = EcuOf[x.of]
        BY <1>3, <2>1 DEF AloneFine
  <2>3. a = "refresh" BY <2>2
  <2>4. x.of # None
    <3>1. x.of \in Screens BY <1>1, <1>2 DEF TypeOK, ActOK, R
    <3> QED BY <3>1, ConstantsAssumption
  <2>5. addressed = EcuOf[x.of] BY <1>0, <2>2, <2>4 DEF AtItsEcu
  <2>6. y.answer.by = EcuOf[x.of] BY <2>2, <2>3, <2>5
  <2>7. \A b \in Activities : b # "refresh" => act'[b].pc = "off" BY <2>2, <2>3
  <2> QED BY <2>1, <2>2, <2>6, <2>7 DEF AloneFine
<1> QED BY <1>5, <1>6, <1>7, <1>8

\* Nothing has been asked of a fresh page.
LEMMA FreshInit == Init => FreshInv
BY DEF Init, FreshInv, AtItsEcu, R, Activities, Off

\* Whatever step is taken, what the refresh has and can still get is fresh for it.
LEMMA FreshNext == TypeOK /\ FreshInv /\ [Next]_vars => FreshInv'
<1> SUFFICES ASSUME TypeOK, FreshInv, [Next]_vars PROVE FreshInv'
    OBVIOUS
<1>r. R \in States /\ "refresh" \in Activities BY RefreshIs
<1>t. TypeOK' BY TypeNext
<1>1. ASSUME NEW s \in Screens, OpenScreen(s) PROVE FreshInv'
  <2>1. /\ Begins("presend", s, Presend[s]) /\ "presend" \in Activities \ {"refresh"} /\ UNCHANGED cache
        /\ AtItsEcu'
        BY <1>1, OpenScreenMoves DEF AtItsEcu
  <2> QED BY <2>1, FreshBeside
<1>2. ASSUME NEW b, Press(b) PROVE FreshInv'
  <2>1. /\ Begins("press", screen, b) /\ "press" \in Activities \ {"refresh"}
        /\ UNCHANGED <<cache, addressed, screen>>
        BY <1>2, PressMoves
  <2>2. AtItsEcu' BY <2>1 DEF FreshInv, AtItsEcu
  <2> QED BY <2>1, <2>2, FreshBeside
<1>3. ASSUME Refresh PROVE FreshInv'
  <2>1. /\ Begins("refresh", screen, Plan(screen)) /\ screen \in Screens
        /\ cache' = Empty /\ UNCHANGED <<addressed, screen, clock>>
        BY <1>3, RefreshMoves
  <2>2. AtItsEcu' BY <2>1 DEF FreshInv, AtItsEcu
  <2>3. PICK alone \in BOOLEAN :
          /\ act'["refresh"] = Fresh(screen, Plan(screen), alone)
          /\ alone => \A b \in Activities : b # "refresh" => act[b].pc = "off"
        BY <2>1 DEF Begins
  <2>4. ASSUME NEW b \in Activities, b # "refresh"
        PROVE  act'[b].pc = act[b].pc /\ act'[b].answer = act[b].answer
    <3>1. act'[b] = Lonely(act[b]) /\ act[b] \in States BY <2>1, <2>4 DEF Begins, TypeOK, ActOK
    <3> QED BY <3>1, LonelyOK
  <2>5. R' = Fresh(screen, Plan(screen), alone) BY <2>3 DEF R
  <2>6. alone => \A b \in Activities : b # "refresh" => act'[b].pc = "off" BY <2>3, <2>4
  <2>7. \A b \in Activities : b # "refresh" /\ act'[b].pc = "answered" =>
            act[b].pc = "answered" /\ act'[b].answer = act[b].answer
        BY <2>4
  <2> QED BY <2>1, <2>2, <2>5, <2>6, <2>7, FreshBegins
<1>4. ASSUME NEW a \in Activities, CacheHit(a) PROVE FreshInv'
  <2> DEFINE r == Head(act[a].todo)
             c == cache[Frame[r]]
  <2>1. c \in Entries /\ Takes(a, Entry(r, c)) BY <1>4, CacheHitTakes
  <2>2. act[a].todo # <<>> /\ c # None /\ UNCHANGED cache BY <1>4 DEF CacheHit
  <2>3. r \in Requests /\ Frame[r] \in Frames BY <2>2, HeadOK
  <2>4. R.pc # "off" => Fine(R, c) BY <2>2, <2>3 DEF FreshInv, CacheFine
  <2> HIDE DEF c
  <2> HIDE DEF r
  <2>5. /\ Entry(r, c).by = c.by /\ Entry(r, c).at = c.at /\ Entry(r, c).kind = c.kind
        BY <2>1, <2>3, EntryOK
  <2>6. R.pc # "off" => Fine(R, Entry(r, c)) BY <2>4, <2>5, Zenon DEF Fine
  <2> DEFINE e == Entry(r, c)
  <2>7. \A f \in Frames : cache'[f] = cache[f] \/ cache'[f] = e BY <2>2
  <2>8. Takes(a, e) BY <2>1
  <2>9. R.pc # "off" => Fine(R, e) BY <2>6
  <2> HIDE DEF e
  <2> QED BY <2>7, <2>8, <2>9, FreshTakes
<1>5. ASSUME NEW a \in Activities, Resume(a) PROVE FreshInv'
  <2> DEFINE r == Head(act[a].todo)
             x == act[a].answer
             e == Entry(r, x)
  <2>1. Takes(a, e) /\ x \in Answers /\ Frame[r] \in Frames
        /\ (UNCHANGED cache \/ cache' = [cache EXCEPT ![Frame[r]] = e])
        BY <1>5, ResumeTakes
  <2>2. act[a].pc = "answered" BY <1>5 DEF Resume
  <2>3. r \in Requests BY <2>2, HeadOK DEF TypeOK, ActOK
  <2>4. ASSUME R.pc # "off" PROVE Fresher(R, x.at) /\ (R.alone => x.by = EcuOf[R.of])
    <3>1. HandFine /\ AloneFine BY <2>4 DEF FreshInv
    <3>2. Fresher(R, x.at) BY <2>2, <3>1 DEF HandFine
    <3>3. ASSUME R.alone PROVE x.by = EcuOf[R.of]
      <4>1. a = "refresh" BY <2>2, <3>1, <3>3 DEF AloneFine
      <4> QED BY <2>2, <3>1, <3>3, <4>1 DEF AloneFine, R
    <3> QED BY <3>2, <3>3
  <2>5. cache \in [Frames -> Entries \cup {None}] BY DEF TypeOK
  <2> HIDE DEF x, r
  <2>6. e.by = x.by /\ e.at = x.at BY <2>1, <2>3, EntryOK
  <2>7. R.pc # "off" => Fine(R, e)
    <3> HIDE DEF e
    <3> QED BY <2>4, <2>6 DEF Fine
  <2> HIDE DEF e
  <2>8. \A f \in Frames : cache'[f] = cache[f] \/ cache'[f] = e BY <2>1, <2>5
  <2> QED BY <2>1, <2>7, <2>8, FreshTakes
<1>6. ASSUME NEW a \in Activities, Fails(a) PROVE FreshInv'
  <2>1. PICK e : e.kind = "error" /\ Takes(a, e) BY <1>6, FailsTakes
  <2>2. Fine(R, e) BY <2>1 DEF Fine
  <2>3. \A f \in Frames : cache'[f] = cache[f] BY <1>6 DEF Fails
  <2> QED BY <2>1, <2>2, <2>3, FreshTakes
<1>7. ASSUME NEW a \in Activities, Ask(a) PROVE FreshInv'
  <2>1. act[a] \in States /\ addressed \in Speakers /\ act[a].pc = "ready" BY <1>7, AskMoves DEF TypeOK
  <2>2. /\ act'[a] = Asked(act[a], addressed) /\ UNCHANGED <<cache, screen, addressed>>
        /\ \A b \in Activities : b # a => act'[b] = act[b]
        BY <1>7, AskMoves
  <2>3. act'[a].pc = "asked" /\ act'[a].answer.by = addressed
        /\ act'[a].of = act[a].of /\ act'[a].since = act[a].since
        /\ act'[a].late = act[a].late /\ act'[a].alone = act[a].alone /\ act'[a].got = act[a].got
    <3>1. \A x \in States, who \in Speakers :
            /\ Asked(x, who).pc = "asked"
            /\ Asked(x, who).answer = [by |-> who, at |-> 0, kind |-> "data"]
            /\ Asked(x, who).of = x.of /\ Asked(x, who).since = x.since
            /\ Asked(x, who).late = x.late /\ Asked(x, who).alone = x.alone /\ Asked(x, who).got = x.got
          BY AskedOK
    <3>2. act'[a].pc = "asked" /\ act'[a].answer = [by |-> addressed, at |-> 0, kind |-> "data"]
          BY <2>1, <2>2, <3>1, Zenon
    <3>3. act'[a].of = act[a].of /\ act'[a].since = act[a].since
          /\ act'[a].late = act[a].late /\ act'[a].alone = act[a].alone /\ act'[a].got = act[a].got
      <4> DEFINE z == Asked(act[a], addressed)
      <4>1. z.of = act[a].of /\ z.since = act[a].since
            /\ z.late = act[a].late /\ z.alone = act[a].alone /\ z.got = act[a].got
            BY <2>1, <3>1
      <4>2. act'[a] = z BY <2>2
      <4> HIDE DEF z
      <4> QED BY <4>1, <4>2
    <3> QED BY <3>2, <3>3
  <2>4. a = "refresh" => Same(R, R') /\ R'.got = R.got /\ R'.answer.by = addressed
        BY <2>3 DEF R, Same
  <2> QED BY <2>1, <2>2, <2>3, <2>4, FreshMoves
<1>8. ASSUME NEW a \in Activities, NEW k \in Kinds, EcuAnswers(a, k) PROVE FreshInv'
  <2> DEFINE c == clock + 1
  <2>1. /\ act[a].pc = "asked" /\ act[a] \in States /\ act[a].answer \in Answers
        /\ act'[a] = Answered(act[a], c, k) /\ c \in Nat
        /\ UNCHANGED <<cache, addressed, screen>>
        BY <1>8, EcuAnswersMoves
  <2>2. \A b \in Activities : b # a => act'[b] = act[b] BY <1>8, EcuAnswersMoves
  <2>3. R.pc # "off" => c > R.since BY <1>r DEF TypeOK, ActOK, R, States
  <2> HIDE DEF c
  <2>4. /\ act'[a].pc = "answered" /\ act'[a].answer.by = act[a].answer.by /\ act'[a].answer.at = c
        /\ act'[a].of = act[a].of /\ act'[a].since = act[a].since
        /\ act'[a].late = act[a].late /\ act'[a].alone = act[a].alone /\ act'[a].got = act[a].got
        BY <2>1, AnsweredOK
  <2>5. R.pc # "off" => Fresher(R, act'[a].answer.at) BY <2>3, <2>4 DEF Fresher
  <2>6. a = "refresh" => Same(R, R') /\ R'.got = R.got /\ R.pc = "asked" /\ R'.answer.by = R.answer.by
        BY <2>1, <2>4 DEF R, Same
  <2> QED BY <2>1, <2>2, <2>4, <2>5, <2>6, FreshMoves
<1>9. ASSUME NEW a \in Activities, ThenRefreshes(a) PROVE FreshInv'
  <2>1. /\ a # "refresh" /\ act'[a] = Off /\ act[a].pc = "ready"
        /\ UNCHANGED <<addressed, screen, clock>>
        /\ \A b \in Activities : b # a /\ b # "refresh" => act'[b] = act[b]
        BY <1>9, ThenRefreshesMoves
  <2>2. AtItsEcu' BY <2>1 DEF FreshInv, AtItsEcu
  <2>3. act'[a].pc = "off" BY <2>1 DEF Off
  <2>4. CASE R.pc = "off"
    <3>1. PICK alone \in BOOLEAN :
            /\ act'["refresh"] = Fresh(screen, Plan(screen), alone)
            /\ alone => \A b \in Activities : b # "refresh" /\ b # a => act[b].pc = "off"
          BY <1>9, <2>4, ThenRefreshesMoves DEF R
    <3>2. cache' = Empty BY <1>9, <2>4, ThenRefreshesMoves DEF R
    <3>3. R' = Fresh(screen, Plan(screen), alone) BY <3>1 DEF R
    <3>4. alone => \A b \in Activities : b # "refresh" => act'[b].pc = "off" BY <2>1, <2>3, <3>1
    <3>5. \A b \in Activities : b # "refresh" /\ act'[b].pc = "answered" =>
            act[b].pc = "answered" /\ act'[b].answer = act[b].answer
          BY <2>1, <2>3
    <3> QED BY <2>1, <2>2, <3>2, <3>3, <3>4, <3>5, FreshBegins
  <2>5. CASE R.pc # "off"
    <3>1. R' = R /\ UNCHANGED cache BY <1>9, <2>5, ThenRefreshesMoves DEF R
    <3>2. GotFine /\ CacheFine /\ HandFine /\ AloneFine BY <2>5 DEF FreshInv
    <3>3. GotFine' /\ CacheFine' BY <3>1, <3>2 DEF GotFine, CacheFine
    <3>4. HandFine' BY <2>1, <2>3, <3>1, <3>2 DEF HandFine, R
    <3>5. AloneFine' BY <2>1, <2>3, <3>1, <3>2 DEF AloneFine
    <3> QED BY <2>2, <3>3, <3>4, <3>5 DEF FreshInv
  <2> QED BY <2>4, <2>5
<1>10. ASSUME Publish PROVE FreshInv'
  <2>1. R'.pc = "off" /\ UNCHANGED <<addressed, screen>> BY <1>10, PublishMoves DEF R, Off
  <2> QED BY <2>1 DEF FreshInv, AtItsEcu
<1>11. ASSUME UNCHANGED <<cache, addressed, screen, act>> PROVE FreshInv'
  BY <1>11 DEF FreshInv, AtItsEcu, GotFine, CacheFine, HandFine, AloneFine, R
<1> QED BY <1>1, <1>2, <1>3, <1>4, <1>5, <1>6, <1>7, <1>8, <1>9, <1>10, <1>11 DEF Next, vars, Silence

\* A refresh that has come to its end shows what was answered after it began.
LEMMA FreshShown == TypeOK /\ FreshInv => FreshSnapshot
<1> SUFFICES ASSUME TypeOK, FreshInv, NEW e \in ShownEntries
             PROVE  Fine(Shown, e)
    BY DEF FreshSnapshot, Fine, Fresher
<1>1. CASE Finished("refresh")
  <2>1. Shown = R /\ R.pc # "off" BY <1>1 DEF Shown, Finished, R
  <2>2. GotFine /\ R \in States BY <2>1, RefreshIs DEF FreshInv
  <2>3. R.got \in Seq(Entries) BY <2>2 DEF States
  <2>4. PICK n \in 1 .. Len(R.got) : e = R.got[n]
    <3>1. e \in Range(R.got) BY <2>1 DEF ShownEntries
    <3> QED BY <2>3, <3>1 DEF Range
  <2>5. Fine(R, e) BY <2>2, <2>4 DEF GotFine
  <2> QED BY <2>1, <2>5
<1>2. CASE ~Finished("refresh")
  <2>1. ShownEntries = {} BY <1>2 DEF ShownEntries, Shown, Off, Range
  <2> QED BY <2>1
<1> QED BY <1>1, <1>2

-----------------------------------------------------------------------------
(* Progress.  The exchanges a refresh has got are the first of its plan,   *)
(* and what is to do is the rest; each has been put on the widgets it      *)
(* feeds, and no later one has taken its place.                            *)
Kept == R.pc # "off" /\ R'.of = R.of /\ R'.todo = R.todo /\ R'.got = R.got /\ values' = values
Begun == R'.of \in Screens /\ R'.todo = Plan(R'.of) /\ R'.got = <<>> /\ values' = <<>>
Advanced(e) ==
  /\ R.pc # "off" /\ R.todo # <<>> /\ e \in Entries /\ e.request = Head(R.todo)
  /\ R'.of = R.of /\ R'.todo = Tail(R.todo) /\ R'.got = Append(R.got, e)
  /\ values' = With(With(values, Fed(R.of, e)), Filled(R.of, e))
RefreshStep == R'.pc = "off" \/ Kept \/ Begun \/ \E e : Advanced(e)

\* An exchange that is taken is the refresh's, or leaves it the same.
LEMMA TakesSteps ==
  ASSUME TypeOK, NEW a, NEW e, Takes(a, e)
  PROVE  RefreshStep
<1> DEFINE x == R
           y == R'
<1>1. x \in States /\ "refresh" \in Activities BY RefreshIs
<1>2. CASE a = "refresh"
  <2>1. /\ y = Taken("refresh", x, e) /\ x.todo # <<>> /\ e \in Entries /\ x.pc # "off"
        /\ e.request = Head(x.todo)
        BY <1>2 DEF Takes, R
  <2>2. values' = With(With(values, Fed(x.of, e)), Filled(x.of, e)) BY <1>2 DEF Takes, Decode, R
  <2>3. \A z \in States : z.todo # <<>> =>
          /\ Taken("refresh", z, e).of = z.of /\ Taken("refresh", z, e).todo = Tail(z.todo)
          /\ Taken("refresh", z, e).got = Append(z.got, e)
        BY <2>1, TakenOK
  <2>4. y.of = x.of /\ y.todo = Tail(x.todo) /\ y.got = Append(x.got, e)
    <3> HIDE DEF x, y
    <3> QED BY <1>1, <2>1, <2>3
  <2>5. Advanced(e) BY <2>1, <2>2, <2>4 DEF Advanced
  <2> QED BY <2>5 DEF RefreshStep
<1>3. CASE a # "refresh"
  <2>1. y = x /\ values' = values BY <1>1, <1>3 DEF Takes, Decode, R
  <2> QED BY <2>1 DEF RefreshStep, Kept
<1> QED BY <1>2, <1>3

\* Nothing has happened to the refresh.
LEMMA SameSteps ==
  ASSUME R' = R, values' = values
  PROVE  RefreshStep
BY DEF RefreshStep, Kept

\* The start of another activity leaves it where it was.
LEMMA BeginsSteps ==
  ASSUME TypeOK, NEW a \in Activities, a # "refresh", NEW s, NEW todo, Begins(a, s, todo), UNCHANGED values
  PROVE  RefreshStep
<1>1. R \in States /\ R' = Lonely(R) BY RefreshIs DEF Begins, R
<1>2. R'.pc = R.pc /\ R'.of = R.of /\ R'.todo = R.todo /\ R'.got = R.got BY <1>1, LonelyOK
<1> QED BY <1>2 DEF RefreshStep, Kept

\* All that can happen to the refresh in a step: it is over, as it was, begun, or one exchange
\* further.
LEMMA RefreshSteps == TypeOK /\ [Next]_vars => RefreshStep
<1> SUFFICES ASSUME TypeOK, [Next]_vars PROVE RefreshStep
    OBVIOUS
<1>r. R \in States /\ "refresh" \in Activities BY RefreshIs
<1>1. ASSUME NEW s \in Screens, OpenScreen(s) PROVE RefreshStep
  <2>1. Begins("presend", s, Presend[s]) /\ "presend" \in Activities /\ UNCHANGED values
        BY <1>1, OpenScreenMoves
  <2> QED BY <2>1, BeginsSteps
<1>2. ASSUME NEW b, Press(b) PROVE RefreshStep
  <2>1. Begins("press", screen, b) /\ "press" \in Activities /\ UNCHANGED values BY <1>2, PressMoves
  <2> QED BY <2>1, BeginsSteps
<1>3. ASSUME NEW alone \in BOOLEAN, R' = Fresh(screen, Plan(screen), alone), screen \in Screens, values' = <<>>
      PROVE  RefreshStep
  <2>1. R'.of = screen /\ R'.todo = Plan(screen) /\ R'.got = <<>> BY <1>3 DEF Fresh
  <2>2. Begun BY <1>3, <2>1 DEF Begun
  <2> QED BY <2>2 DEF RefreshStep
<1>4. ASSUME Refresh PROVE RefreshStep
  <2>1. Begins("refresh", screen, Plan(screen)) /\ screen \in Screens /\ values' = <<>>
        BY <1>4, RefreshMoves
  <2>2. PICK alone \in BOOLEAN : R' = Fresh(screen, Plan(screen), alone) BY <2>1 DEF Begins, R
  <2> QED BY <1>3, <2>1, <2>2
<1>5. ASSUME NEW a \in Activities, CacheHit(a) PROVE RefreshStep
  <2>1. \E e : Takes(a, e) BY <1>5, CacheHitTakes
  <2> QED BY <2>1, TakesSteps
<1>6. ASSUME NEW a \in Activities, Resume(a) PROVE RefreshStep
  <2>1. \E e : Takes(a, e) BY <1>6, ResumeTakes
  <2> QED BY <2>1, TakesSteps
<1>7. ASSUME NEW a \in Activities, Fails(a) PROVE RefreshStep
  <2>1. \E e : Takes(a, e) BY <1>7, FailsTakes
  <2> QED BY <2>1, TakesSteps
<1>8. ASSUME NEW a \in Activities, act[a].pc # "off", UNCHANGED values,
             act'[a].of = act[a].of /\ act'[a].todo = act[a].todo /\ act'[a].got = act[a].got,
             \A b \in Activities : b # a => act'[b] = act[b]
      PROVE  RefreshStep
  <2>1. CASE a = "refresh" BY <1>8, <2>1 DEF RefreshStep, Kept, R
  <2>2. CASE a # "refresh"
    <3>1. R' = R BY <1>r, <1>8, <2>2 DEF R
    <3> QED BY <1>8, <3>1, SameSteps
  <2> QED BY <2>1, <2>2
<1>9. ASSUME NEW a \in Activities, Ask(a) PROVE RefreshStep
  <2>1. act[a] \in States /\ addressed \in Speakers /\ act[a].pc = "ready" /\ UNCHANGED values
        /\ act'[a] = Asked(act[a], addressed) /\ \A b \in Activities : b # a => act'[b] = act[b]
        BY <1>9, AskMoves DEF TypeOK
  <2>2. act'[a].of = act[a].of /\ act'[a].todo = act[a].todo /\ act'[a].got = act[a].got
    <3> DEFINE z == Asked(act[a], addressed)
    <3>1. \A x \in States, who \in Speakers :
            /\ Asked(x, who).of = x.of /\ Asked(x, who).todo = x.todo /\ Asked(x, who).got = x.got
          BY AskedOK
    <3>2. z.of = act[a].of /\ z.todo = act[a].todo /\ z.got = act[a].got BY <2>1, <3>1
    <3>3. act'[a] = z BY <2>1
    <3> HIDE DEF z
    <3> QED BY <3>2, <3>3
  <2> QED BY <1>8, <2>1, <2>2
<1>10. ASSUME NEW a \in Activities, NEW k \in Kinds, EcuAnswers(a, k) PROVE RefreshStep
  <2> DEFINE c == clock + 1
  <2>1. /\ act[a].pc = "asked" /\ act[a] \in States /\ act[a].answer \in Answers
        /\ act'[a] = Answered(act[a], c, k) /\ c \in Nat /\ UNCHANGED values
        BY <1>10, EcuAnswersMoves
  <2>2. \A b \in Activities : b # a => act'[b] = act[b] BY <1>10, EcuAnswersMoves
  <2> HIDE DEF c
  <2>3. act'[a].of = act[a].of /\ act'[a].todo = act[a].todo /\ act'[a].got = act[a].got
        BY <2>1, AnsweredOK
  <2> QED BY <1>8, <2>1, <2>2, <2>3
<1>11. ASSUME NEW a \in Activities, ThenRefreshes(a) PROVE RefreshStep
  <2>1. CASE act["refresh"].pc = "off"
    <3>1. PICK alone \in BOOLEAN : R' = Fresh(screen, Plan(screen), alone)
          BY <1>11, <2>1, ThenRefreshesMoves DEF R
    <3>2. screen \in Screens /\ values' = <<>> BY <1>11, <2>1, ThenRefreshesMoves DEF TypeOK
    <3> QED BY <1>3, <3>1, <3>2
  <2>2. CASE act["refresh"].pc # "off"
    <3>1. R' = R /\ UNCHANGED values BY <1>11, <2>2, ThenRefreshesMoves DEF R
    <3> QED BY <3>1, SameSteps
  <2> QED BY <2>1, <2>2
<1>12. ASSUME Publish PROVE RefreshStep
  <2>1. R'.pc = "off" BY <1>12, PublishMoves DEF R, Off
  <2> QED BY <2>1 DEF RefreshStep
<1>13. ASSUME UNCHANGED <<act, values>> PROVE RefreshStep
  <2>1. R' = R BY <1>13 DEF R
  <2> QED BY <1>13, <2>1, SameSteps
<1> QED BY <1>1, <1>2, <1>4, <1>5, <1>6, <1>7, <1>9, <1>10, <1>11, <1>12, <1>13 DEF Next, vars, Silence

InPlan ==
  LET P == Plan(R.of) IN
  /\ Len(R.got) + Len(R.todo) = Len(P)
  /\ \A n \in 1 .. Len(R.got) : R.got[n].request = P[n]
  /\ \A n \in 1 .. Len(R.todo) : R.todo[n] = P[Len(R.got) + n]

\* What an exchange n feeds: a display shows that entry, with its status.
Feeds(n, i) == R.got[n].request = Widgets[R.of][i].request
ShownBy(n, i) ==
  /\ i \in DOMAIN values /\ values[i].entry = R.got[n]
  /\ values[i].status = Status(R.got[n].kind, Widgets[R.of][i].data, R.got[n].request)
DisplaysFed == \A i \in Polled(R.of) : \A n \in 1 .. Len(R.got) : Feeds(n, i) => ShownBy(n, i)
InputsFilled ==
  \A i \in Inputs(R.of) : i \in DOMAIN values =>
    /\ values[i].status = "ok"
    /\ Widgets[R.of][i].data \in Decodes[values[i].entry.request]
ProgressInv == R.pc # "off" => InPlan /\ DisplaysFed /\ InputsFilled

\* What an exchange puts on the widgets: the displays of its request show it, the
\* inputs it fills are right, and the others keep what they have.
LEMMA PutFacts ==
  ASSUME NEW s, NEW e, NEW v, NEW w, w = With(With(v, Fed(s, e)), Filled(s, e))
  PROVE  /\ \A i \in Polled(s) : Widgets[s][i].request = e.request =>
              /\ i \in DOMAIN w /\ w[i].entry = e
              /\ w[i].status = Status(e.kind, Widgets[s][i].data, e.request)
         /\ \A i \in Polled(s) : Widgets[s][i].request # e.request /\ i \in DOMAIN v =>
              i \in DOMAIN w /\ w[i] = v[i]
         /\ \A i \in Inputs(s) : i \in DOMAIN w =>
              \/ w[i].status = "ok" /\ Widgets[s][i].data \in Decodes[w[i].entry.request]
              \/ i \in DOMAIN v /\ w[i] = v[i]
<1> DEFINE f == Fed(s, e)
           g == Filled(s, e)
           u == With(v, f)
<1>1. \A i \in Polled(s) : i \notin Inputs(s) BY DEF Polled, Displays, Inputs
<1>2. /\ DOMAIN f = {i \in Polled(s) : Widgets[s][i].request = e.request}
      /\ \A i \in DOMAIN f : /\ f[i].entry = e
                             /\ f[i].status = Status(e.kind, Widgets[s][i].data, e.request)
  BY DEF Fed
<1>3. /\ DOMAIN g \subseteq Inputs(s)
      /\ \A i \in DOMAIN g : /\ g[i].status = "ok" /\ g[i].entry = e
                             /\ Widgets[s][i].data \in Decodes[e.request]
  BY DEF Filled
<1>4. w = With(u, g) /\ u = With(v, f) OBVIOUS
<1> HIDE DEF f, g, u
<1>5. /\ DOMAIN u = DOMAIN v \cup DOMAIN f
      /\ \A i \in DOMAIN f : u[i] = f[i]
      /\ \A i \in DOMAIN v : i \notin DOMAIN f => u[i] = v[i]
      BY <1>4 DEF With
<1>6. /\ DOMAIN w = DOMAIN u \cup DOMAIN g
      /\ \A i \in DOMAIN g : w[i] = g[i]
      /\ \A i \in DOMAIN u : i \notin DOMAIN g => w[i] = u[i]
      BY <1>4 DEF With
<1>7. ASSUME NEW i \in Polled(s), Widgets[s][i].request = e.request
      PROVE  /\ i \in DOMAIN w /\ w[i].entry = e
             /\ w[i].status = Status(e.kind, Widgets[s][i].data, e.request)
  <2>1. i \in DOMAIN f /\ i \notin DOMAIN g BY <1>1, <1>2, <1>3, <1>7
  <2>2. i \in DOMAIN w /\ w[i] = f[i] BY <1>5, <1>6, <2>1
  <2> QED BY <1>2, <2>1, <2>2
<1>8. ASSUME NEW i \in Polled(s), Widgets[s][i].request # e.request, i \in DOMAIN v
      PROVE  i \in DOMAIN w /\ w[i] = v[i]
  <2>1. i \notin DOMAIN f /\ i \notin DOMAIN g BY <1>1, <1>2, <1>3, <1>8
  <2> QED BY <1>5, <1>6, <1>8, <2>1
<1>9. ASSUME NEW i \in Inputs(s), i \in DOMAIN w
      PROVE  \/ w[i].status = "ok" /\ Widgets[s][i].data \in Decodes[w[i].entry.request]
             \/ i \in DOMAIN v /\ w[i] = v[i]
  <2>1. i \notin DOMAIN f BY <1>1, <1>2, <1>9
  <2>2. CASE i \in DOMAIN g
    <3>1. w[i] = g[i] BY <1>6, <2>2
    <3> QED BY <1>3, <2>2, <3>1
  <2>3. CASE i \notin DOMAIN g BY <1>5, <1>6, <1>9, <2>1, <2>3
  <2> QED BY <2>2, <2>3
<1> QED BY <1>7, <1>8, <1>9

\* No refresh is under way on a fresh page.
LEMMA ProgressInit == Init => ProgressInv
BY DEF Init, ProgressInv, R, Activities, Off

\* A refresh that begins has the whole plan before it.
LEMMA ProgressBegun ==
  ASSUME Begun
  PROVE  InPlan' /\ DisplaysFed' /\ InputsFilled'
<1> DEFINE P == Plan(R'.of)
<1>1. R'.of \in Screens /\ R'.todo = P /\ R'.got = <<>> /\ values' = <<>> BY DEF Begun
<1>2. P \in Seq(Requests) BY <1>1, PlanFacts
<1>3. InPlan'
  <2>1. Plan(R.of)' = P BY DEF Plan, Firsts, Polled, Displays, FirstOf
  <2> HIDE DEF P
  <2> QED BY <1>1, <1>2, <2>1 DEF InPlan
<1>4. DisplaysFed' BY <1>1 DEF DisplaysFed
<1>5. InputsFilled' BY <1>1 DEF InputsFilled
<1> QED BY <1>3, <1>4, <1>5

\* An exchange takes the refresh one request further along its plan, and its widgets with it.
LEMMA ProgressTook ==
  ASSUME TypeOK, ProgressInv, NEW e, Advanced(e)
  PROVE  InPlan' /\ DisplaysFed' /\ InputsFilled'
<1> DEFINE s == R.of
           P == Plan(s)
           got == R.got
           todo == R.todo
           w == values'
<1>1. /\ s \in Screens /\ got \in Seq(Entries) /\ todo \in Seq(Requests)
  BY RefreshIs DEF TypeOK, ActOK, R, States, Advanced
<1>2. InPlan /\ DisplaysFed /\ InputsFilled BY DEF ProgressInv, Advanced
<1>3. /\ todo # <<>> /\ e \in Entries /\ e.request = Head(todo) /\ R'.of = s
      /\ R'.todo = Tail(todo) /\ R'.got = Append(got, e)
      /\ w = With(With(values, Fed(s, e)), Filled(s, e))
      BY DEF Advanced
<1>4. /\ Len(got) + Len(todo) = Len(P)
      /\ \A n \in 1 .. Len(got) : got[n].request = P[n]
      /\ \A n \in 1 .. Len(todo) : todo[n] = P[Len(got) + n]
      BY <1>2 DEF InPlan
<1>5. \A m, n \in 1 .. Len(P) : P[m] = P[n] => m = n BY <1>1, PlanFacts
<1>6. Plan(R.of)' = P BY <1>3 DEF Plan, Firsts, Polled, Displays, FirstOf
<1>7. Polled(R.of)' = Polled(s) /\ Inputs(R.of)' = Inputs(s) BY <1>3 DEF Polled, Displays, Inputs
<1>8. InPlan'
  <2>1. e.request = P[Len(got) + 1]
    <3> HIDE DEF got, todo, P
    <3> QED BY <1>1, <1>3, <1>4
  <2>2. /\ Len(Append(got, e)) + Len(Tail(todo)) = Len(P)
        /\ \A n \in 1 .. Len(Append(got, e)) : Append(got, e)[n].request = P[n]
        /\ \A n \in 1 .. Len(Tail(todo)) : Tail(todo)[n] = P[Len(Append(got, e)) + n]
    <3> HIDE DEF got, todo, P
    <3>1. /\ Len(Append(got, e)) = Len(got) + 1 /\ Len(Tail(todo)) = Len(todo) - 1
          /\ Len(got) \in Nat /\ Len(todo) \in Nat \ {0}
          BY <1>1, <1>3
    <3>2. \A n \in 1 .. (Len(got) + 1) : Append(got, e)[n] = IF n = Len(got) + 1 THEN e ELSE got[n]
          BY <1>1
    <3>3. \A n \in 1 .. (Len(todo) - 1) : Tail(todo)[n] = todo[n + 1] BY <1>1, <1>3
    <3>4. \A n \in 1 .. (Len(got) + 1) : n = Len(got) + 1 \/ n \in 1 .. Len(got) BY <3>1
    <3>5. \A n \in 1 .. (Len(got) + 1) : Append(got, e)[n].request = P[n] BY <1>4, <2>1, <3>2, <3>4
    <3>6. ASSUME NEW n \in 1 .. (Len(todo) - 1) PROVE Tail(todo)[n] = P[Len(got) + 1 + n]
      <4>1. n + 1 \in 1 .. Len(todo) /\ Len(got) + (n + 1) = Len(got) + 1 + n BY <3>1
      <4> QED BY <1>4, <3>3, <4>1
    <3>7. Len(got) + 1 + (Len(todo) - 1) = Len(P) BY <1>4, <3>1
    <3> QED BY <3>1, <3>5, <3>6, <3>7
  <2> HIDE DEF got, todo, P
  <2> QED BY <1>3, <1>6, <2>2 DEF InPlan
<1>9. /\ \A i \in Polled(s) : Widgets[s][i].request = e.request =>
            /\ i \in DOMAIN w /\ w[i].entry = e
            /\ w[i].status = Status(e.kind, Widgets[s][i].data, e.request)
      /\ \A i \in Polled(s) : Widgets[s][i].request # e.request /\ i \in DOMAIN values =>
            i \in DOMAIN w /\ w[i] = values[i]
      /\ \A i \in Inputs(s) : i \in DOMAIN w =>
            \/ w[i].status = "ok" /\ Widgets[s][i].data \in Decodes[w[i].entry.request]
            \/ i \in DOMAIN values /\ w[i] = values[i]
  <2> HIDE DEF w, s
  <2> QED BY <1>3, PutFacts
<1>10. DisplaysFed'
  <2>1. ASSUME NEW i \in Polled(s), NEW n \in 1 .. Len(Append(got, e)),
               Append(got, e)[n].request = Widgets[s][i].request
        PROVE  /\ i \in DOMAIN w /\ w[i].entry = Append(got, e)[n]
               /\ w[i].status = Status(Append(got, e)[n].kind, Widgets[s][i].data, Append(got, e)[n].request)
    <3>1. \/ n = Len(got) + 1 /\ Append(got, e)[n] = e
          \/ n \in 1 .. Len(got) /\ Append(got, e)[n] = got[n]
      <4> HIDE DEF got
      <4>1. Len(got) \in Nat /\ Len(Append(got, e)) = Len(got) + 1 BY <1>1, <1>3
      <4>2. n = Len(got) + 1 \/ n \in 1 .. Len(got)
        <5>1. n \in 1 .. (Len(got) + 1) BY <4>1
        <5> QED BY <4>1, <5>1
      <4>3. n \in 1 .. Len(got) => Append(got, e)[n] = got[n] BY <1>1, <1>3
      <4>4. Append(got, e)[Len(got) + 1] = e BY <1>1, <1>3
      <4> QED BY <4>2, <4>3, <4>4
    <3>2. CASE Append(got, e)[n] = e BY <1>9, <2>1, <3>2
    <3>3. CASE n \in 1 .. Len(got) /\ Append(got, e)[n] = got[n]
      <4>1. i \in DOMAIN values /\ values[i].entry = got[n]
            /\ values[i].status = Status(got[n].kind, Widgets[s][i].data, got[n].request)
            BY <1>2, <2>1, <3>3 DEF DisplaysFed, Feeds, ShownBy
      <4>2. Widgets[s][i].request # e.request
        <5> HIDE DEF got, todo, P, s
        <5>1. Head(todo) = todo[1] /\ 1 \in 1 .. Len(todo) /\ Len(got) \in Nat /\ Len(todo) \in Nat
              BY <1>1, <1>3
        <5>2. e.request = P[Len(got) + 1] BY <1>3, <1>4, <5>1
        <5>3. got[n].request = P[n] /\ n # Len(got) + 1 /\ n \in 1 .. Len(P) /\ Len(got) + 1 \in 1 .. Len(P)
              BY <1>4, <3>3, <5>1
        <5>4. P[n] # P[Len(got) + 1] BY <1>5, <5>3
        <5> QED BY <2>1, <3>3, <5>2, <5>3, <5>4
      <4>3. i \in DOMAIN w /\ w[i] = values[i] BY <1>9, <4>1, <4>2
      <4> QED BY <3>3, <4>1, <4>3
    <3> QED BY <3>1, <3>2, <3>3
  <2> HIDE DEF w, s, got
  <2> QED BY <1>3, <1>7, <2>1 DEF DisplaysFed, Feeds, ShownBy, w
<1>11. InputsFilled'
  <2>1. \A i \in Inputs(s) : i \in DOMAIN w =>
          w[i].status = "ok" /\ Widgets[s][i].data \in Decodes[w[i].entry.request]
    <3>1. \A i \in Inputs(s) : i \in DOMAIN values =>
            values[i].status = "ok" /\ Widgets[s][i].data \in Decodes[values[i].entry.request]
          BY <1>2 DEF InputsFilled
    <3> HIDE DEF w, s
    <3> QED BY <1>9, <3>1
  <2> HIDE DEF s
  <2> QED BY <1>3, <1>7, <2>1 DEF InputsFilled
<1> QED BY <1>8, <1>10, <1>11

\* Whatever step is taken, the widgets show what has been got of the plan.
LEMMA ProgressNext == TypeOK /\ ProgressInv /\ [Next]_vars => ProgressInv'
<1> SUFFICES ASSUME TypeOK, ProgressInv, [Next]_vars, R'.pc # "off"
             PROVE  InPlan' /\ DisplaysFed' /\ InputsFilled'
    BY DEF ProgressInv
<1>1. Kept \/ Begun \/ \E e : Advanced(e) BY RefreshSteps DEF RefreshStep
<1>2. CASE Kept
  <2>1. InPlan /\ DisplaysFed /\ InputsFilled BY <1>2 DEF ProgressInv, Kept
  <2>2. R'.of = R.of /\ R'.todo = R.todo /\ R'.got = R.got /\ values' = values BY <1>2 DEF Kept
  <2>3. /\ Plan(R.of)' = Plan(R.of) /\ Polled(R.of)' = Polled(R.of) /\ Inputs(R.of)' = Inputs(R.of)
        BY <2>2 DEF Plan, Firsts, Polled, Displays, Inputs, FirstOf
  <2>4. InPlan' BY <2>1, <2>2, <2>3 DEF InPlan
  <2>5. DisplaysFed' BY <2>1, <2>2, <2>3 DEF DisplaysFed, Feeds, ShownBy
  <2>6. InputsFilled' BY <2>1, <2>2, <2>3 DEF InputsFilled
  <2> QED BY <2>4, <2>5, <2>6
<1>3. CASE Begun BY <1>3, ProgressBegun
<1>4. CASE \E e : Advanced(e) BY <1>4, ProgressTook
<1> QED BY <1>1, <1>2, <1>3, <1>4

\* Status says "error" of an exchange that failed, and of no other.
LEMMA StatusError == \A kind, d, r : Status(kind, d, r) = "error" <=> kind = "error"
BY DEF Status

\* No exchange is None.
LEMMA NoneIsNoEntry == \A e \in Entries : e # None
BY NoneAssumption DEF Entries, Requests, Speakers, Kinds

\* A refresh that has come to its end has settled every widget.
LEMMA SettledShown == TypeOK /\ ProgressInv => Settled
<1> SUFFICES ASSUME TypeOK, ProgressInv, Finished("refresh")
             PROVE  /\ \A i \in Polled(Shown.of) :
                         /\ ShownValues[i].status = "error" <=>
                              \E e \in ShownEntries :
                                e.request = Widgets[Shown.of][i].request /\ e.kind = "error"
                         /\ ShownValues[i].entry # None
                    /\ \A i \in Inputs(Shown.of) :
                         /\ ShownValues[i].status = "ok"
                         /\ ShownValues[i].entry # None =>
                              Widgets[Shown.of][i].data \in Decodes[ShownValues[i].entry.request]
    BY DEF Settled
<1> DEFINE s == R.of
           got == R.got
           P == Plan(s)
           v == values
           w == ShownValues
<1>1. Shown = R /\ R.pc # "off" /\ R.todo = <<>> BY DEF Shown, Finished, R
<1>2. s \in Screens /\ got \in Seq(Entries) BY <1>1, RefreshIs DEF TypeOK, ActOK, R, States
<1>3. /\ Len(got) = Len(P) /\ \A n \in 1 .. Len(got) : got[n].request = P[n]
  <2>1. Len(got) + 0 = Len(P) /\ \A n \in 1 .. Len(got) : got[n].request = P[n]
        BY <1>1 DEF ProgressInv, InPlan
  <2> HIDE DEF got, P
  <2> QED BY <1>2, <2>1
<1>4. \A i \in Polled(s), n \in 1 .. Len(got) : got[n].request = Widgets[s][i].request =>
        /\ i \in DOMAIN v /\ v[i].entry = got[n]
        /\ v[i].status = Status(got[n].kind, Widgets[s][i].data, got[n].request)
      BY <1>1 DEF ProgressInv, DisplaysFed, Feeds, ShownBy
<1>5. \A i \in Inputs(s) : i \in DOMAIN v =>
        v[i].status = "ok" /\ Widgets[s][i].data \in Decodes[v[i].entry.request]
      BY <1>1 DEF ProgressInv, InputsFilled
<1>6. /\ \A m, n \in 1 .. Len(P) : P[m] = P[n] => m = n
      /\ \A i \in Polled(s) : \E n \in 1 .. Len(P) : P[n] = Widgets[s][i].request
      BY <1>2, PlanFacts
<1>7. /\ \A i \in DOMAIN v : w[i] = v[i]
      /\ \A i \in DOMAIN Widgets[s] : i \notin DOMAIN v => w[i].status = "ok" /\ w[i].entry = None
  <2>1. w = With([i \in DOMAIN Widgets[s] |-> [status |-> "ok", entry |-> None]], v)
        BY <1>1 DEF ShownValues, Settle
  <2> HIDE DEF w, s
  <2> QED BY <2>1 DEF With
<1>8. ShownEntries = {got[n] : n \in 1 .. Len(got)}
  <2>1. ShownEntries = Range(got) BY <1>1 DEF ShownEntries
  <2> HIDE DEF got
  <2> QED BY <1>2, <2>1 DEF Range
<1>9. ASSUME NEW i \in Polled(s)
      PROVE  /\ w[i].status = "error" <=>
                   \E e \in ShownEntries : e.request = Widgets[s][i].request /\ e.kind = "error"
             /\ w[i].entry # None
  <2> HIDE DEF w, s, got, P
  <2>1. PICK n \in 1 .. Len(P) : P[n] = Widgets[s][i].request BY <1>6
  <2>2. n \in 1 .. Len(got) /\ got[n].request = Widgets[s][i].request BY <1>3, <2>1
  <2>3. /\ i \in DOMAIN v /\ v[i].entry = got[n]
        /\ v[i].status = Status(got[n].kind, Widgets[s][i].data, got[n].request)
        BY <1>4, <2>2
  <2>4. w[i].entry = got[n] /\ (w[i].status = "error" <=> got[n].kind = "error")
        BY <1>7, <2>3, StatusError
  <2>5. got[n] \in Entries BY <1>2, <2>2
  <2>6. ASSUME NEW e \in ShownEntries, e.request = Widgets[s][i].request PROVE e = got[n]
    <3>1. PICK m \in 1 .. Len(got) : e = got[m] BY <1>8
    <3>2. P[m] = P[n] /\ m \in 1 .. Len(P) BY <1>3, <2>1, <2>6, <3>1
    <3>3. m = n BY <1>6, <3>2
    <3> QED BY <3>1, <3>3
  <2>7. got[n] \in ShownEntries BY <1>8, <2>2
  <2> QED BY <2>2, <2>4, <2>5, <2>6, <2>7, NoneIsNoEntry
<1>10. ASSUME NEW i \in Inputs(s)
       PROVE  /\ w[i].status = "ok"
              /\ w[i].entry # None => Widgets[s][i].data \in Decodes[w[i].entry.request]
  <2>1. i \in DOMAIN Widgets[s] BY DEF Inputs
  <2> HIDE DEF w, s
  <2> QED BY <1>5, <1>7, <2>1
<1> HIDE DEF w
<1> QED BY <1>1, <1>9, <1>10 DEF w

-----------------------------------------------------------------------------
RuntimeInv == TypeOK /\ FreshInv /\ ProgressInv

\* The invariant of the runtime: its types, the freshness of what a refresh has and can still get,
\* and its progress along the plan.
THEOREM RuntimeInvariant == Spec => []RuntimeInv
<1>1. Init => RuntimeInv BY TypeInit, FreshInit, ProgressInit DEF RuntimeInv
<1>2. RuntimeInv /\ [Next]_vars => RuntimeInv' BY TypeNext, FreshNext, ProgressNext DEF RuntimeInv
<1> QED BY <1>1, <1>2, PTL DEF Spec

\* What a refresh publishes was answered after it began or was on its way back when it began, and,
\* when nothing ran beside it, by the ECU of its own screen (refresh of runtime.ts, which drops the
\* cache of the driver).
THEOREM SnapshotIsFresh == Spec => []FreshSnapshot
<1>1. RuntimeInv => FreshSnapshot BY FreshShown DEF RuntimeInv
<1> QED BY <1>1, RuntimeInvariant, PTL

\* After a refresh a display is in error exactly when its own request failed, and an input never
\* is (refresh of runtime.ts).
THEOREM WidgetsSettle == Spec => []Settled
<1>1. RuntimeInv => Settled BY SettledShown DEF RuntimeInv
<1> QED BY <1>1, RuntimeInvariant, PTL
=============================================================================
