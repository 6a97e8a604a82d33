------------------------- MODULE SerialHosts_proofs -------------------------
(***************************************************************************)
(* A host that is done with the adapter leaves the port released, and no   *)
(* rate spoils the next, for any candidate rates, connects and disconnects *)
(* under way at once, commands and cables pulled. A checkup measures with  *)
(* reads only and reports on every module it found, for any requests the   *)
(* modules define and any --samples.                                       *)
(***************************************************************************)
EXTENDS SerialHosts, FiniteSetTheorems, TLAPS

-----------------------------------------------------------------------------
(* What is always true of the page: the port, and where each flow stands.  *)

Ats == {"idle", "asking", "opening", "opens", "identifying", "reopening", "close", "unwinding", "shutting",
        "closed", "parting"}
Maybe == Instances \cup {None}
Stretch == (1..MaxConnects) \X (1..(Candidates + 1))

\* A connect is on an instance, or past the last of them when it is about to give up.
Placed(f) ==
  /\ does[f].at \in Ats
  /\ does[f].at \in {"close", "unwinding", "shutting"} => does[f].on \in Instances
  /\ f \in Disconnects => /\ does[f].at \in {"idle", "parting", "close", "unwinding", "shutting", "closed"}
                          /\ does[f].on \in Maybe
  /\ f \in Connectors => /\ does[f].at # "parting"
                         /\ ~Stands(f, "idle") => does[f].on \in Stretch
                         /\ does[f].at \notin {"idle", "opening"} => does[f].on \in Instances

Types ==
  /\ portState \in {"closed", "opening", "open", "closing"} /\ by \in Maybe
  /\ lost \in BOOLEAN /\ answers \in 0..Candidates
  /\ opened \in [Instances -> BOOLEAN] /\ loop \in [Instances -> {"none", "reading", "unwinding", "ended"}]
  /\ transport \in Maybe /\ connects \in Nat
  /\ DOMAIN does = Flows /\ \A f \in Flows : does[f] = [at |-> does[f].at, on |-> does[f].on]
  /\ \A f \in Flows : Placed(f)

\* The port is one instance's at a time: the one that opened it holds it until it is closed.
Held ==
  /\ \A u \in Instances : loop[u] \in {"reading", "unwinding"} => portState = "open" /\ by = u /\ locked = u
  /\ \A u \in Instances : opened[u] => by = u /\ portState \in {"open", "closing"}
  /\ portState = "open" => by \in Instances /\ opened[by] /\ locked \in {None, by}
  /\ portState # "open" => locked = None
  /\ portState \in {"closed", "opening"} => by = None

Standing(f) ==
  /\ Stands(f, "unwinding") => /\ (portState = "open" /\ by = does[f].on) \/ portState = "closing"
                              /\ loop[does[f].on] # "reading"
  /\ Stands(f, "shutting") => portState = "closing" /\ by = does[f].on
  /\ Stands(f, "opens") => portState = "opening"
  /\ Stands(f, "identifying") => portState = "open" /\ by = does[f].on

\* One flow opens the port at a time, and one closes it.
OneAtOnce == \A f, g \in Flows : f # g => /\ ~(Stands(f, "opens") /\ Stands(g, "opens"))
                                          /\ ~(Stands(f, "shutting") /\ Stands(g, "shutting"))

\* A port that is not closed is in use, or somebody is about to close it.
Tending(f) == does[f].on = by /\ does[f].at \in {"identifying", "close", "unwinding"}
Kept ==
  /\ portState = "opening" => \E f \in Flows : Stands(f, "opens")
  /\ portState = "closing" => \E f \in Flows : Stands(f, "shutting")
  /\ portState = "open" => transport = by \/ \E f \in Flows : Tending(f)

\* What a disconnect is about to drop is closed.
Parting(f) ==
  /\ Stands(f, "close") => transport \in {does[f].on, None}
  /\ Stands(f, "closed") => (portState = "open" => transport # by)

\* The instances of an attempt follow each other, and none is tried again.
Behind(v, t) == v[1] = t[1] => v[2] < t[2]
NotAhead(v, t) == v[1] = t[1] => v[2] <= t[2]
Trying == {"asking", "opening", "opens", "identifying"}
InUse == {transport} \cup {does[g].on : g \in Disconnects}
Fresh(c) ==
  ~Stands(c, "idle") =>
     /\ does[c].on[1] <= connects
     /\ \A g \in Connectors : g # c /\ ~Stands(g, "idle") => does[g].on[1] # does[c].on[1]
     /\ \A v \in InUse : NotAhead(v, does[c].on)
     /\ does[c].at \in Trying => \A v \in InUse : Behind(v, does[c].on)
Counted == \A v \in InUse : v[1] <= connects

\* An attempt that nothing overlaps finds the port as it left it, and hears the adapter.
Tried == {"reopening", "close", "unwinding", "shutting", "closed"}
Alone(c) ==
  ~Stands(c, "idle") /\ c \notin overlapped =>
     /\ \A g \in Flows : g # c => Stands(g, "idle")
     /\ does[c].at \in {"asking", "opening", "closed"} => portState = "closed"
     /\ does[c].at \in {"identifying", "reopening", "close", "unwinding"} => portState = "open" /\ by = does[c].on
     /\ answers # 0 /\ ~lost /\ (answers < does[c].on[2] \/ (answers = does[c].on[2] /\ does[c].at \in Tried))
           => c \in heard

Port == Held /\ OneAtOnce /\ Kept /\ \A f \in Flows : Standing(f)
Order == Counted /\ \A c \in Connectors : Fresh(c)
Drops == \A f \in Disconnects : Parting(f)
Solo == \A c \in Connectors : Alone(c)
PageInv == Types /\ Port /\ Order /\ Drops /\ Solo

-----------------------------------------------------------------------------
(* Instances, and the step of one flow.                                    *)

LEMMA Grounds ==
  /\ None \notin Instances /\ None[1] = 0 /\ None[2] = 0
  /\ \A t \in Stretch : t[1] \in Nat /\ t[1] # 0 /\ t[2] \in Nat /\ t[2] # 0
  /\ \A t \in Instances : t \in Stretch /\ t[2] <= Candidates
  /\ \A t \in Stretch : t[2] <= Candidates => t \in Instances
<1>1. Candidates \in Nat /\ MaxConnects \in Nat BY SerialAssumption
<1> QED BY <1>1 DEF None, Instances, Stretch

LEMMA NextInstance ==
  ASSUME NEW t \in Instances
  PROVE  /\ <<t[1], t[2] + 1>> \in Stretch
         /\ <<t[1], t[2] + 1>>[1] = t[1] /\ <<t[1], t[2] + 1>>[2] = t[2] + 1
<1>1. Candidates \in Nat /\ MaxConnects \in Nat BY SerialAssumption
<1> QED BY <1>1 DEF Instances, Stretch

\* Flow f goes to a stage, on instance t, and no other flow moves.
Moves(f, stage, t) ==
  /\ DOMAIN does' = Flows /\ does'[f] = [at |-> stage, on |-> t]
  /\ \A g \in Flows : g # f => does'[g] = does[g]

LEMMA Gone ==
  ASSUME Types, NEW f \in Flows, NEW stage, NEW t
  PROVE  /\ GoesOn(f, stage, t) => Moves(f, stage, t)
         /\ Goes(f, stage) => Moves(f, stage, does[f].on)
<1>1. DOMAIN does = Flows /\ does[f] = [at |-> does[f].at, on |-> does[f].on] BY DEF Types
<1>2. GoesOn(f, stage, t) => Moves(f, stage, t) BY <1>1 DEF GoesOn, Moves
<1>3. ASSUME Goes(f, stage) PROVE Moves(f, stage, does[f].on)
  <2>1. does' = [does EXCEPT ![f].at = stage] BY <1>3 DEF Goes
  <2>2. does'[f] = [does[f] EXCEPT !.at = stage] BY <1>1, <2>1
  <2>3. [does[f] EXCEPT !.at = stage] = [at |-> stage, on |-> does[f].on] BY <1>1
  <2>4. DOMAIN does' = Flows /\ \A g \in Flows : g # f => does'[g] = does[g] BY <1>1, <2>1
  <2> QED BY <2>2, <2>3, <2>4 DEF Moves
<1> QED BY <1>2, <1>3

\* The types but for those of the port.
LEMMA MovesTypes ==
  ASSUME Types, NEW f \in Flows, NEW stage, NEW t, Moves(f, stage, t), Placed(f)',
         portState' \in {"closed", "opening", "open", "closing"}, by' \in Maybe, lost' \in BOOLEAN, answers' = answers,
         opened' \in [Instances -> BOOLEAN], loop' \in [Instances -> {"none", "reading", "unwinding", "ended"}],
         transport' \in Maybe, connects' \in Nat
  PROVE  Types'
<1>1. \A g \in Flows : Placed(g)'
  <2> SUFFICES ASSUME NEW g \in Flows, g # f PROVE Placed(g)'
      OBVIOUS
  <2>1. does'[g] = does[g] /\ Placed(g) BY DEF Moves, Types
  <2> QED BY <2>1, Zenon DEF Placed, Stands
<1>2. \A g \in Flows : does'[g] = [at |-> does'[g].at, on |-> does'[g].on]
  <2> SUFFICES ASSUME NEW g \in Flows PROVE does'[g] = [at |-> does'[g].at, on |-> does'[g].on]
      OBVIOUS
  <2>1. CASE g = f BY <2>1 DEF Moves
  <2>2. CASE g # f
    <3>1. does'[g] = does[g] BY <2>2 DEF Moves
    <3>2. does[g] = [at |-> does[g].at, on |-> does[g].on] BY DEF Types
    <3> QED BY <3>1, <3>2, Zenon
  <2> QED BY <2>1, <2>2
<1>3. answers \in 0..Candidates BY DEF Types
<1> QED BY <1>1, <1>2, <1>3 DEF Types, Moves

-----------------------------------------------------------------------------
(* The port.                                                               *)

\* A flow that leaves the port as it is.
LEMMA PortStays ==
  ASSUME Port, NEW f \in Flows, NEW stage, NEW t, Moves(f, stage, t), UNCHANGED <<portVars, instanceVars>>,
         stage \notin {"opens", "shutting", "unwinding", "identifying"}, does[f].at \notin {"opens", "shutting"},
         portState = "open" /\ Tending(f) => (stage = "close" /\ t = does[f].on) \/ transport' = by,
         portState = "open" /\ transport = by => transport' = by
  PROVE  Port'
<1> USE DEF Stands
<1>1. does'[f].at = stage /\ does'[f].on = t /\ \A g \in Flows : g # f => does'[g] = does[g] BY DEF Moves
<1>2. UNCHANGED <<portState, by, locked, opened, loop>> BY DEF portVars, instanceVars
<1>3. Held' BY <1>2 DEF Port, Held
<1>4. OneAtOnce' BY <1>1 DEF Port, OneAtOnce
<1>5. \A g \in Flows : Standing(g)'
  <2> SUFFICES ASSUME NEW g \in Flows PROVE Standing(g)'
      OBVIOUS
  <2>1. Standing(g) BY DEF Port
  <2>2. CASE g = f BY <1>1, <2>2 DEF Standing
  <2>3. CASE g # f BY <1>1, <1>2, <2>1, <2>3 DEF Standing
  <2> QED BY <2>2, <2>3
<1>6. Kept'
  <2>1. portState = "opening" => \E g \in Flows : does'[g].at = "opens" BY <1>1 DEF Port, Kept
  <2>2. portState = "closing" => \E g \in Flows : does'[g].at = "shutting" BY <1>1 DEF Port, Kept
  <2>3. ASSUME portState = "open" PROVE transport' = by \/ \E g \in Flows : Tending(g)'
    <3>1. CASE transport = by BY <2>3, <3>1
    <3>2. ASSUME NEW g \in Flows, Tending(g) PROVE transport' = by \/ \E h \in Flows : Tending(h)'
      <4>1. CASE g = f BY <1>1, <1>2, <2>3, <3>2, <4>1 DEF Tending
      <4>2. CASE g # f BY <1>1, <1>2, <3>2, <4>2 DEF Tending
      <4> QED BY <4>1, <4>2
    <3> QED BY <2>3, <3>1, <3>2 DEF Port, Kept
  <2> QED BY <1>2, <2>1, <2>2, <2>3 DEF Kept
<1> QED BY <1>3, <1>4, <1>5, <1>6 DEF Port

-----------------------------------------------------------------------------
(* The order of the instances.                                             *)

\* A flow stays on its instance, or lets go of it, or takes the one in use.
LEMMA OrderStays ==
  ASSUME Types, Order, NEW f \in Flows, NEW stage, NEW t, Moves(f, stage, t), connects' = connects,
         transport' \in {transport, None},
         f \in Connectors => t = does[f].on /\ ~Stands(f, "idle") /\ (stage \in Trying => does[f].at \in Trying),
         f \in Disconnects => t \in {does[f].on, transport, None}
  PROVE  Order'
<1> USE DEF Stands
<1>1. does'[f].at = stage /\ does'[f].on = t /\ \A g \in Flows : g # f => does'[g] = does[g] BY DEF Moves
<1>2. Connectors \subseteq Flows /\ Disconnects \subseteq Flows /\ Connectors \cap Disconnects = {}
      BY SerialAssumption DEF Flows
<1>3. InUse' \subseteq InUse \cup {None} BY <1>1, <1>2 DEF InUse
<1>4. Counted'
  <2>1. connects \in Nat /\ None[1] = 0 BY Grounds DEF Types
  <2>2. \A v \in InUse \cup {None} : v[1] <= connects BY <2>1 DEF Order, Counted
  <2> QED BY <1>3, <2>2 DEF Counted
<1>5. ASSUME NEW c \in Connectors PROVE Fresh(c)'
  <2> SUFFICES ASSUME does'[c].at # "idle" PROVE Fresh(c)'
      BY DEF Fresh
  <2>1. does'[c].on = does[c].on /\ does[c].at # "idle" /\ (does'[c].at \in Trying => does[c].at \in Trying)
        /\ does[c].on[1] # 0
    <3>1. does'[c].on = does[c].on /\ does[c].at # "idle" /\ (does'[c].at \in Trying => does[c].at \in Trying)
          BY <1>1, <1>2
    <3>2. does[c].on \in Stretch BY <1>2, <3>1 DEF Types, Placed
    <3> QED BY <3>1, <3>2, Grounds
  <2>2. Fresh(c) BY DEF Order
  <2>3. NotAhead(None, does[c].on) /\ Behind(None, does[c].on) BY <2>1, Grounds DEF NotAhead, Behind
  <2>4. \A g \in Connectors : g # c /\ does'[g].at # "idle" => does'[g].on[1] # does[c].on[1]
    <3> SUFFICES ASSUME NEW g \in Connectors, g # c, does'[g].at # "idle" PROVE does'[g].on[1] # does[c].on[1]
        OBVIOUS
    <3>1. does'[g].on = does[g].on /\ does[g].at # "idle" BY <1>1, <1>2
    <3> QED BY <2>1, <2>2, <3>1 DEF Fresh
  <2>5. \A v \in InUse' : NotAhead(v, does'[c].on) BY <1>3, <2>1, <2>2, <2>3 DEF Fresh
  <2>6. does'[c].at \in Trying => \A v \in InUse' : Behind(v, does'[c].on) BY <1>3, <2>1, <2>2, <2>3 DEF Fresh
  <2>7. does'[c].on[1] <= connects' BY <2>1, <2>2 DEF Fresh
  <2> QED BY <2>1, <2>4, <2>5, <2>6, <2>7 DEF Fresh
<1> QED BY <1>4, <1>5 DEF Order

\* A connect goes on to its next instance.
LEMMA OrderNext ==
  ASSUME Types, Order, NEW f \in Connectors, NEW stage, does[f].at # "idle", does[f].on \in Instances,
         Moves(f, stage, <<does[f].on[1], does[f].on[2] + 1>>), UNCHANGED <<connects, transport>>
  PROVE  Order'
<1> USE DEF Stands
<1> DEFINE t == <<does[f].on[1], does[f].on[2] + 1>>
<1>1. does'[f].at = stage /\ does'[f].on = t /\ \A g \in Flows : g # f => does'[g] = does[g] BY DEF Moves
<1>2. Connectors \subseteq Flows /\ Disconnects \subseteq Flows /\ Connectors \cap Disconnects = {}
      BY SerialAssumption DEF Flows
<1>3. InUse' = InUse BY <1>1, <1>2 DEF InUse
<1>4. Counted' BY <1>3 DEF Counted, Order
<1>5. t[1] = does[f].on[1] /\ t[2] = does[f].on[2] + 1 BY NextInstance
<1> HIDE DEF t
<1>6. ASSUME NEW c \in Connectors PROVE Fresh(c)'
  <2> SUFFICES ASSUME does'[c].at # "idle" PROVE Fresh(c)'
      BY DEF Fresh
  <2>1. CASE c = f
    <3>1. Fresh(f) BY DEF Order
    <3>2. \A v \in InUse : NotAhead(v, t) /\ Behind(v, t)
      <4> SUFFICES ASSUME NEW v \in InUse, v[1] = t[1] PROVE v[2] <= t[2] /\ v[2] < t[2]
          BY DEF NotAhead, Behind
      <4>1. v[2] <= does[f].on[2] BY <1>5, <3>1 DEF Fresh, NotAhead
      <4>2. v \in Maybe BY <1>2 DEF InUse, Types, Placed
      <4>3. v[2] \in Nat /\ does[f].on[2] \in Nat BY <4>2, Grounds DEF Maybe
      <4> QED BY <1>5, <4>1, <4>3
    <3>3. \A g \in Connectors : g # f /\ does'[g].at # "idle" => does'[g].on[1] # t[1]
      BY <1>1, <1>2, <1>5, <3>1 DEF Fresh
    <3> QED BY <1>1, <1>3, <1>5, <2>1, <3>1, <3>2, <3>3 DEF Fresh
  <2>2. CASE c # f
    <3>1. does'[c] = does[c] /\ Fresh(c) BY <1>1, <1>2, <2>2 DEF Order
    <3>2. \A g \in Connectors : g # c /\ does'[g].at # "idle" => does'[g].on[1] # does[c].on[1]
      <4> SUFFICES ASSUME NEW g \in Connectors, g # c, does'[g].at # "idle" PROVE does'[g].on[1] # does[c].on[1]
          OBVIOUS
      <4>1. does'[g].on[1] = does[g].on[1] /\ does[g].at # "idle" BY <1>1, <1>2, <1>5
      <4> QED BY <3>1, <4>1 DEF Fresh
    <3> QED BY <1>3, <3>1, <3>2 DEF Fresh
  <2> QED BY <2>1, <2>2
<1> QED BY <1>4, <1>6 DEF Order

\* The instance of a connect becomes the one in use.
LEMMA OrderUses ==
  ASSUME Types, Order, NEW f \in Connectors, does[f].at # "idle", does[f].on \in Instances,
         Moves(f, "reopening", does[f].on), transport' = does[f].on, connects' = connects
  PROVE  Order'
<1> USE DEF Stands
<1>1. does'[f].at = "reopening" /\ does'[f].on = does[f].on /\ \A g \in Flows : g # f => does'[g] = does[g] BY DEF Moves
<1>2. Connectors \subseteq Flows /\ Disconnects \subseteq Flows /\ Connectors \cap Disconnects = {}
      BY SerialAssumption DEF Flows
<1>3. InUse' \subseteq InUse \cup {does[f].on} BY <1>1, <1>2 DEF InUse
<1>4. Fresh(f) BY DEF Order
<1>5. Counted' BY <1>3, <1>4 DEF Counted, Order, Fresh
<1>6. ASSUME NEW c \in Connectors PROVE Fresh(c)'
  <2> SUFFICES ASSUME does'[c].at # "idle" PROVE Fresh(c)'
      BY DEF Fresh
  <2>1. \A g \in Connectors : does'[g].on = does[g].on /\ (does'[g].at # "idle" => does[g].at # "idle") BY <1>1, <1>2
  <2>2. Fresh(c) BY DEF Order
  <2>3. CASE c = f
    <3>1. NotAhead(does[f].on, does[f].on)
      <4>1. does[f].on[2] \in Nat BY Grounds
      <4> QED BY <4>1 DEF NotAhead
    <3>2. "reopening" \notin Trying BY DEF Trying
    <3> QED BY <1>1, <1>3, <1>4, <2>1, <2>3, <3>1, <3>2 DEF Fresh
  <2>4. CASE c # f
    <3>1. does'[c] = does[c] BY <1>1, <1>2, <2>4
    <3>2. does[f].on[1] # does[c].on[1] BY <2>1, <2>2, <2>4 DEF Fresh
    <3>3. NotAhead(does[f].on, does[c].on) /\ Behind(does[f].on, does[c].on) BY <3>2 DEF NotAhead, Behind
    <3> QED BY <1>3, <2>1, <2>2, <3>1, <3>3 DEF Fresh
  <2> QED BY <2>3, <2>4
<1> QED BY <1>5, <1>6 DEF Order

\* A new attempt.
LEMMA OrderBegins ==
  ASSUME Types, Order, NEW f \in Connectors, Moves(f, "asking", <<connects', 1>>), connects' = connects + 1,
         transport' = transport
  PROVE  Order'
<1> USE DEF Stands
<1> DEFINE t == <<connects', 1>>
<1>1. does'[f].at = "asking" /\ does'[f].on = t /\ \A g \in Flows : g # f => does'[g] = does[g] BY DEF Moves
<1>2. Connectors \subseteq Flows /\ Disconnects \subseteq Flows /\ Connectors \cap Disconnects = {}
      BY SerialAssumption DEF Flows
<1>3. InUse' = InUse BY <1>1, <1>2 DEF InUse
<1>4. connects \in Nat /\ t[1] = connects + 1 /\ t[2] = 1 BY DEF Types
<1> HIDE DEF t
<1>5. \A v \in InUse : v[1] \in Nat /\ v[1] <= connects
  <2> SUFFICES ASSUME NEW v \in InUse PROVE v[1] \in Nat /\ v[1] <= connects
      OBVIOUS
  <2>1. v \in Maybe BY <1>2 DEF InUse, Types, Placed
  <2>2. v[1] \in Nat BY <2>1, Grounds DEF Maybe
  <2> QED BY <2>2 DEF Order, Counted
<1>6. Counted' BY <1>3, <1>4, <1>5 DEF Counted
<1>7. \A v \in InUse : NotAhead(v, t) /\ Behind(v, t)
  <2> SUFFICES ASSUME NEW v \in InUse PROVE v[1] # t[1]
      BY DEF NotAhead, Behind
  <2> QED BY <1>4, <1>5
<1>8. ASSUME NEW g \in Connectors, does[g].at # "idle"
      PROVE  does[g].on[1] # t[1] /\ does[g].on[1] <= connects'
  <2>1. does[g].on \in Stretch BY <1>2, <1>8 DEF Types, Placed
  <2>2. does[g].on[1] \in Nat BY <2>1, Grounds
  <2>3. does[g].on[1] <= connects BY <1>8 DEF Order, Fresh
  <2> QED BY <1>4, <2>2, <2>3
<1>9. ASSUME NEW c \in Connectors PROVE Fresh(c)'
  <2> SUFFICES ASSUME does'[c].at # "idle" PROVE Fresh(c)'
      BY DEF Fresh
  <2>1. CASE c = f
    <3>1. t[1] <= connects' BY <1>4
    <3>2. \A g \in Connectors : g # f /\ does'[g].at # "idle" => does'[g].on[1] # t[1] BY <1>1, <1>2, <1>8
    <3> QED BY <1>1, <1>3, <1>7, <2>1, <3>1, <3>2 DEF Fresh
  <2>2. CASE c # f
    <3>1. does'[c] = does[c] /\ Fresh(c) BY <1>1, <1>2, <2>2 DEF Order
    <3>2. does[c].on[1] <= connects' /\ t[1] # does[c].on[1] BY <1>8, <3>1
    <3>3. \A g \in Connectors : g # c /\ does'[g].at # "idle" => does'[g].on[1] # does[c].on[1]
      <4> SUFFICES ASSUME NEW g \in Connectors, g # c, does'[g].at # "idle" PROVE does'[g].on[1] # does[c].on[1]
          OBVIOUS
      <4>1. CASE g = f BY <1>1, <3>2, <4>1
      <4>2. CASE g # f BY <1>1, <1>2, <3>1, <4>2 DEF Fresh
      <4> QED BY <4>1, <4>2
    <3> QED BY <1>3, <3>1, <3>2, <3>3 DEF Fresh
  <2> QED BY <2>1, <2>2
<1> QED BY <1>6, <1>9 DEF Order

-----------------------------------------------------------------------------
(* The flows that do not move.                                             *)

LEMMA AloneElse ==
  ASSUME Solo, NEW f \in Flows, ~Stands(f, "idle"), NEW stage, NEW t, Moves(f, stage, t), overlapped' = overlapped
  PROVE  \A c \in Connectors : c # f => Alone(c)'
<1> SUFFICES ASSUME NEW c \in Connectors, c # f, does'[c].at # "idle", c \notin overlapped PROVE FALSE
    BY DEF Alone, Stands
<1>1. does'[c] = does[c] BY DEF Moves, Flows
<1>2. Alone(c) BY DEF Solo
<1> QED BY <1>1, <1>2 DEF Alone, Stands

\* A task of the page finds no disconnect in its stride.
LEMMA DropsQuiet ==
  ASSUME Quiet, NEW f \in Flows, NEW stage, NEW t, Moves(f, stage, t), f \in Disconnects => Parting(f)'
  PROVE  Drops'
<1> SUFFICES ASSUME NEW g \in Disconnects, g # f PROVE Parting(g)'
    BY DEF Drops
<1>1. does'[g] = does[g] /\ does[g].at \notin {"close", "closed"} BY DEF Moves, Flows, Quiet, Runnable
<1> QED BY <1>1 DEF Parting, Stands

LEMMA DropsElse ==
  ASSUME Drops, Held, NEW f \in Flows, NEW stage, NEW t, Moves(f, stage, t), f \in Disconnects => Parting(f)',
         by' = by, transport' \in {transport, None}, portState' = "open" => portState = "open"
  PROVE  Drops'
<1> SUFFICES ASSUME NEW g \in Disconnects, g # f PROVE Parting(g)'
    BY DEF Drops
<1>1. does'[g] = does[g] BY DEF Moves, Flows
<1>2. Parting(g) BY DEF Drops
<1>3. portState = "open" => by # None BY Grounds DEF Held
<1> QED BY <1>1, <1>2, <1>3 DEF Parting, Stands

\* The instance a connect is trying is nobody else's.
LEMMA Apart ==
  ASSUME Types, Order, NEW f \in Flows, NEW g \in Flows, f # g, ~Stands(f, "idle"), does[g].at \in Trying
  PROVE  does[f].on # does[g].on
<1>1. g \in Connectors
  <2>1. Placed(g) BY DEF Types
  <2> QED BY <2>1 DEF Placed, Trying, Flows
<1>2. Fresh(g) /\ ~Stands(g, "idle") BY <1>1 DEF Order, Trying, Stands
<1>3. CASE f \in Connectors BY <1>2, <1>3 DEF Fresh
<1>4. CASE f \in Disconnects
  <2>1. Behind(does[f].on, does[g].on) BY <1>2, <1>4 DEF Fresh, InUse
  <2>2. does[f].on \in Maybe BY <1>4 DEF Types, Placed
  <2>3. does[f].on[2] \in Nat BY <2>2, Grounds DEF Maybe
  <2> QED BY <2>1, <2>3 DEF Behind
<1> QED BY <1>3, <1>4 DEF Flows

-----------------------------------------------------------------------------
(* WebSerialTransport.close.                                               *)

LEMMA CloseBeginsKeeps ==
  ASSUME PageInv, NEW f \in Flows, CloseBegins(f)
  PROVE  PageInv'
<1> USE DEF Stands
<1> DEFINE t == does[f].on
<1>1. Types /\ Port /\ Order /\ Drops /\ Solo /\ Held /\ Kept /\ Standing(f) /\ Placed(f)
      BY DEF PageInv, Port, Types
<1>2. does[f].at = "close" /\ t \in Instances BY <1>1 DEF CloseBegins, Placed
<1>3. UNCHANGED <<portState, by, locked, lost, answers, opened, connection, transport, connects, heard, overlapped>>
      BY DEF CloseBegins, portVars, linkVars, historyVars
<1>4. CASE opened[t]
  <2>1. loop' = [loop EXCEPT ![t] = IF @ = "reading" THEN "unwinding" ELSE @] /\ Goes(f, "unwinding")
        BY <1>4 DEF CloseBegins
  <2>2. Moves(f, "unwinding", t) BY <1>1, <2>1, Gone
  <2>3. does'[f].at = "unwinding" /\ does'[f].on = t /\ \A g \in Flows : g # f => does'[g] = does[g]
        BY <2>2 DEF Moves
  <2>4. loop \in [Instances -> {"none", "reading", "unwinding", "ended"}] BY <1>1 DEF Types
  <2>5. /\ loop' \in [Instances -> {"none", "reading", "unwinding", "ended"}]
        /\ \A u \in Instances : loop'[u] \in {"reading", "unwinding"} => loop[u] \in {"reading", "unwinding"}
        /\ \A u \in Instances : loop'[u] = "reading" => loop[u] = "reading"
        /\ loop'[t] # "reading"
        BY <1>2, <2>1, <2>4
  <2>6. Types'
    <3>1. Placed(f)' BY <1>1, <1>2, <2>3 DEF Placed, Ats
    <3> QED BY <1>1, <1>3, <2>2, <2>5, <3>1, MovesTypes DEF Types
  <2>7. Held' BY <1>1, <1>3, <2>5 DEF Held
  <2>8. OneAtOnce' BY <1>1, <2>3 DEF OneAtOnce, Port
  <2>9. \A g \in Flows : Standing(g)'
    <3> SUFFICES ASSUME NEW g \in Flows PROVE Standing(g)'
        OBVIOUS
    <3>1. Standing(g) /\ Placed(g) BY <1>1 DEF Port, Types
    <3>2. CASE g = f
      <4>1. by = t /\ portState \in {"open", "closing"} BY <1>1, <1>2, <1>4 DEF Held
      <4> QED BY <1>3, <2>3, <2>5, <3>2, <4>1 DEF Standing
    <3>3. CASE g # f BY <1>3, <2>3, <2>5, <3>1, <3>3 DEF Standing, Placed
    <3> QED BY <3>2, <3>3
  <2>10. Kept'
    <3>1. portState = "opening" => \E g \in Flows : does'[g].at = "opens" BY <1>1, <1>2, <2>3 DEF Kept
    <3>2. portState = "closing" => \E g \in Flows : does'[g].at = "shutting" BY <1>1, <1>2, <2>3 DEF Kept
    <3>3. \A g \in Flows : Tending(g) => Tending(g)' BY <1>2, <1>3, <2>3 DEF Tending
    <3> QED BY <1>1, <1>3, <3>1, <3>2, <3>3 DEF Kept
  <2>11. Order'
    <3>1. "unwinding" \notin Trying BY DEF Trying
    <3> QED BY <1>1, <1>2, <1>3, <2>2, <3>1, OrderStays
  <2>12. Drops'
    <3>1. Parting(f)' BY <2>3 DEF Parting
    <3> QED BY <1>1, <1>3, <2>2, <3>1, DropsElse
  <2>13. Solo'
    <3>1. \A c \in Connectors : c # f => Alone(c)' BY <1>1, <1>2, <1>3, <2>2, AloneElse
    <3>2. ASSUME f \in Connectors PROVE Alone(f)'
      <4>1. Alone(f) BY <1>1, <3>2 DEF Solo
      <4> QED BY <1>2, <1>3, <2>3, <4>1 DEF Alone, Tried
    <3> QED BY <3>1, <3>2 DEF Solo
  <2> QED BY <2>6, <2>7, <2>8, <2>9, <2>10, <2>11, <2>12, <2>13 DEF PageInv, Port
<1>5. CASE ~opened[t]
  <2>1. Goes(f, "closed") /\ UNCHANGED loop BY <1>5 DEF CloseBegins
  <2>2. Moves(f, "closed", t) BY <1>1, <2>1, Gone
  <2>3. does'[f].at = "closed" /\ does'[f].on = t BY <2>2 DEF Moves
  <2>4. portState = "open" => by # t /\ by \in Instances BY <1>1, <1>5 DEF Held
  <2>5. Types'
    <3>1. Placed(f)' BY <1>1, <1>2, <2>3 DEF Placed, Ats
    <3> QED BY <1>1, <1>3, <2>1, <2>2, <3>1, MovesTypes DEF Types
  <2>6. Port'
    <3>1. UNCHANGED <<portVars, instanceVars>> BY <1>3, <2>1 DEF portVars, instanceVars
    <3>2. portState = "open" => ~Tending(f) BY <2>4 DEF Tending
    <3> QED BY <1>1, <1>2, <1>3, <2>2, <3>1, <3>2, PortStays
  <2>7. Order'
    <3>1. "closed" \notin Trying BY DEF Trying
    <3> QED BY <1>1, <1>2, <1>3, <2>2, <3>1, OrderStays
  <2>8. Drops'
    <3>1. ASSUME f \in Disconnects PROVE Parting(f)'
      <4>1. transport \in {t, None} BY <1>1, <1>2, <3>1 DEF Drops, Parting
      <4>2. portState = "open" => transport # by BY <2>4, <4>1, Grounds
      <4> QED BY <1>3, <2>3, <4>2 DEF Parting
    <3> QED BY <1>1, <1>3, <2>2, <3>1, DropsElse
  <2>9. Solo'
    <3>1. \A c \in Connectors : c # f => Alone(c)' BY <1>1, <1>2, <1>3, <2>2, AloneElse
    <3>2. ASSUME f \in Connectors PROVE Alone(f)'
      <4>1. Alone(f) BY <1>1, <3>2 DEF Solo
      <4> QED BY <1>2, <1>3, <2>3, <2>4, <4>1 DEF Alone, Tried
    <3> QED BY <3>1, <3>2 DEF Solo
  <2> QED BY <2>5, <2>6, <2>7, <2>8, <2>9 DEF PageInv
<1> QED BY <1>4, <1>5

\* The port is the caller's own, and its streams are free once it has let go of them; or another caller's
\* port.close() is closing it.
LEMMA CloseShutsKeeps ==
  ASSUME PageInv, NEW f \in Flows, CloseShuts(f)
  PROVE  PageInv'
<1> USE DEF Stands
<1> DEFINE t == does[f].on
<1>1. Types /\ Port /\ Order /\ Drops /\ Solo /\ Held /\ Kept /\ OneAtOnce /\ Standing(f) /\ Placed(f)
      BY DEF PageInv, Port, Types
<1>2. does[f].at = "unwinding" /\ t \in Instances /\ loop[t] # "unwinding" /\ loop[t] # "reading"
      BY <1>1 DEF CloseShuts, Placed, Unwound, Standing
<1>3. UNCHANGED <<by, lost, answers, loop, connection, transport, connects, heard, overlapped>>
      /\ locked' = Unlocked(t)
      BY DEF CloseShuts, linkVars, historyVars
<1>4. portState = "open" => by = t /\ locked' = None
  <2>1. portState = "open" => by = t /\ locked \in {None, t} BY <1>1, <1>2 DEF Standing, Held
  <2> QED BY <1>3, <2>1 DEF Unlocked
<1>5. portState \in {"open", "closing"} /\ (portState = "closing" => locked' = None)
  <2>1. portState \in {"open", "closing"} BY <1>1, <1>2 DEF Standing
  <2>2. portState = "closing" => locked = None BY <1>1 DEF Held
  <2> QED BY <1>3, <2>1, <2>2 DEF Unlocked
<1>6. CASE portState = "open"
  <2>1. portState' = "closing" /\ Goes(f, "shutting") /\ UNCHANGED opened BY <1>3, <1>4, <1>6 DEF CloseShuts
  <2>2. Moves(f, "shutting", t) BY <1>1, <2>1, Gone
  <2>3. does'[f].at = "shutting" /\ does'[f].on = t /\ \A g \in Flows : g # f => does'[g] = does[g]
        BY <2>2 DEF Moves
  <2>4. Types'
    <3>1. Placed(f)' BY <1>1, <1>2, <2>3 DEF Placed, Ats
    <3> QED BY <1>1, <1>3, <2>1, <2>2, <3>1, MovesTypes DEF Types
  <2>5. Held' BY <1>1, <1>2, <1>3, <1>4, <1>6, <2>1 DEF Held
  <2>6. OneAtOnce' BY <1>1, <1>6, <2>3 DEF OneAtOnce, Port, Standing
  <2>7. \A g \in Flows : Standing(g)'
    <3> SUFFICES ASSUME NEW g \in Flows PROVE Standing(g)'
        OBVIOUS
    <3>1. Standing(g) BY <1>1 DEF Port
    <3>2. CASE g = f BY <1>3, <1>4, <1>6, <2>1, <2>3, <3>2 DEF Standing
    <3>3. CASE g # f
      <4>1. does[g].at = "identifying" => does[g].on = t BY <1>4, <1>6, <3>1 DEF Standing
      <4>2. does[g].at # "identifying" BY <1>1, <1>2, <3>3, <4>1, Apart DEF Trying
      <4> QED BY <1>3, <1>6, <2>1, <2>3, <3>1, <3>3, <4>2 DEF Standing
    <3> QED BY <3>2, <3>3
  <2>8. Kept' BY <1>1, <2>1, <2>3 DEF Kept
  <2>9. Order'
    <3>1. "shutting" \notin Trying BY DEF Trying
    <3> QED BY <1>1, <1>2, <1>3, <2>2, <3>1, OrderStays
  <2>10. Drops'
    <3>1. Parting(f)' BY <2>3 DEF Parting
    <3> QED BY <1>1, <1>3, <2>1, <2>2, <3>1, DropsElse
  <2>11. Solo'
    <3>1. \A c \in Connectors : c # f => Alone(c)' BY <1>1, <1>2, <1>3, <2>2, AloneElse
    <3>2. ASSUME f \in Connectors PROVE Alone(f)'
      <4>1. Alone(f) BY <1>1, <3>2 DEF Solo
      <4> QED BY <1>2, <1>3, <2>3, <4>1 DEF Alone, Tried
    <3> QED BY <3>1, <3>2 DEF Solo
  <2> QED BY <2>4, <2>5, <2>6, <2>7, <2>8, <2>9, <2>10, <2>11 DEF PageInv, Port
<1>7. CASE portState = "closing"
  <2>1. opened' = [opened EXCEPT ![t] = FALSE] /\ Goes(f, "closed") /\ UNCHANGED portState BY <1>7 DEF CloseShuts
  <2>2. Moves(f, "closed", t) BY <1>1, <2>1, Gone
  <2>3. does'[f].at = "closed" /\ does'[f].on = t /\ \A g \in Flows : g # f => does'[g] = does[g]
        BY <2>2 DEF Moves
  <2>4. opened \in [Instances -> BOOLEAN] BY <1>1 DEF Types
  <2>5. opened' \in [Instances -> BOOLEAN] /\ \A u \in Instances : opened'[u] => opened[u] BY <1>2, <2>1, <2>4
  <2>6. Types'
    <3>1. Placed(f)'
      <4>1. t \in Maybe BY <1>2 DEF Maybe
      <4>2. t \in Stretch BY <1>2, Grounds
      <4> QED BY <1>1, <1>2, <2>3, <4>1, <4>2 DEF Placed, Ats
    <3> QED BY <1>1, <1>3, <2>1, <2>2, <2>5, <3>1, MovesTypes DEF Types
  <2>7. Held' BY <1>1, <1>3, <1>5, <1>7, <2>1, <2>5 DEF Held
  <2>8. OneAtOnce' BY <1>1, <2>3 DEF OneAtOnce
  <2>9. \A g \in Flows : Standing(g)'
    <3> SUFFICES ASSUME NEW g \in Flows PROVE Standing(g)'
        OBVIOUS
    <3>1. Standing(g) BY <1>1 DEF Port
    <3>2. CASE g = f BY <2>3, <3>2 DEF Standing
    <3>3. CASE g # f BY <1>3, <2>1, <2>3, <3>1, <3>3 DEF Standing
    <3> QED BY <3>2, <3>3
  <2>10. Kept' BY <1>1, <1>2, <1>7, <2>1, <2>3 DEF Kept
  <2>11. Order'
    <3>1. "closed" \notin Trying BY DEF Trying
    <3> QED BY <1>1, <1>2, <1>3, <2>2, <3>1, OrderStays
  <2>12. Drops'
    <3>1. Parting(f)' BY <1>7, <2>1, <2>3 DEF Parting
    <3> QED BY <1>1, <1>3, <2>1, <2>2, <3>1, DropsElse
  <2>13. Solo'
    <3>1. \A c \in Connectors : c # f => Alone(c)' BY <1>1, <1>2, <1>3, <2>2, AloneElse
    <3>2. ASSUME f \in Connectors PROVE Alone(f)'
      <4>1. Alone(f) BY <1>1, <3>2 DEF Solo
      <4> QED BY <1>2, <1>3, <1>7, <2>3, <4>1 DEF Alone, Tried
    <3> QED BY <3>1, <3>2 DEF Solo
  <2> QED BY <2>6, <2>7, <2>8, <2>9, <2>10, <2>11, <2>12, <2>13 DEF PageInv, Port
<1> QED BY <1>5, <1>6, <1>7

\* The port closes: no other flow waits to call port.close(), since the port has been closing for a while.
LEMMA ShutsDownKeeps ==
  ASSUME PageInv, NEW f \in Flows, ShutsDown(f)
  PROVE  PageInv'
<1> USE DEF Stands
<1> DEFINE t == does[f].on
<1>1. Types /\ Port /\ Order /\ Drops /\ Solo /\ Held /\ OneAtOnce /\ Standing(f) /\ Placed(f)
      BY DEF PageInv, Port, Types
<1>2. does[f].at = "shutting" /\ t \in Instances /\ Quiet /\ portState = "closing" /\ by = t
      BY <1>1 DEF ShutsDown, Placed, Standing
<1>3. /\ UNCHANGED <<locked, lost, answers, loop, connection, transport, connects, heard, overlapped>>
      /\ portState' = "closed" /\ by' = None /\ opened' = [opened EXCEPT ![t] = FALSE] /\ Goes(f, "closed")
      BY DEF ShutsDown, linkVars, historyVars
<1>4. Moves(f, "closed", t) BY <1>1, <1>3, Gone
<1>5. does'[f].at = "closed" /\ does'[f].on = t /\ \A g \in Flows : g # f => does'[g] = does[g]
      BY <1>4 DEF Moves
<1>6. opened' \in [Instances -> BOOLEAN] /\ \A u \in Instances : opened'[u] => opened[u] /\ u # t
      BY <1>1, <1>2, <1>3 DEF Types
<1>7. Types'
  <2>1. Placed(f)'
    <3>1. t \in Maybe BY <1>2 DEF Maybe
    <3>2. t \in Stretch BY <1>2, Grounds
    <3> QED BY <1>1, <1>2, <1>5, <3>1, <3>2 DEF Placed, Ats
  <2>2. None \in Maybe BY DEF Maybe
  <2> QED BY <1>1, <1>3, <1>4, <1>6, <2>1, <2>2, MovesTypes DEF Types
<1>8. Held' BY <1>1, <1>2, <1>3, <1>6 DEF Held
<1>9. OneAtOnce' BY <1>1, <1>5 DEF OneAtOnce
<1>10. \A g \in Flows : Standing(g)'
  <2> SUFFICES ASSUME NEW g \in Flows PROVE Standing(g)'
      OBVIOUS
  <2>1. Standing(g) /\ Placed(g) BY <1>1 DEF Port, Types
  <2>2. CASE g = f BY <1>5, <2>2 DEF Standing
  <2>3. CASE g # f
    <3>1. does[g].at # "unwinding"
      <4> SUFFICES ASSUME does[g].at = "unwinding" PROVE FALSE
          OBVIOUS
      <4>1. loop[does[g].on] = "unwinding" BY <1>2 DEF Quiet, Runnable, Unwound
      <4>2. does[g].on \in Instances BY <2>1 DEF Placed
      <4> QED BY <1>1, <1>2, <4>1, <4>2 DEF Held
    <3>2. does[g].at # "shutting" BY <1>1, <1>2, <2>3 DEF OneAtOnce
    <3>3. does[g].at # "opens" /\ does[g].at # "identifying" BY <1>2, <2>1 DEF Standing
    <3> QED BY <1>5, <2>3, <3>1, <3>2, <3>3 DEF Standing
  <2> QED BY <2>2, <2>3
<1>11. Kept' BY <1>3 DEF Kept
<1>12. Order'
  <2>1. "closed" \notin Trying BY DEF Trying
  <2> QED BY <1>1, <1>2, <1>3, <1>4, <2>1, OrderStays
<1>13. Drops'
  <2>1. Parting(f)' BY <1>3, <1>5 DEF Parting
  <2> QED BY <1>2, <1>4, <2>1, DropsQuiet
<1>14. Solo'
  <2>1. \A c \in Connectors : c # f => Alone(c)' BY <1>1, <1>2, <1>3, <1>4, AloneElse
  <2>2. ASSUME f \in Connectors PROVE Alone(f)'
    <3>1. Alone(f) BY <1>1, <2>2 DEF Solo
    <3> QED BY <1>2, <1>3, <1>5, <3>1 DEF Alone, Tried
  <2> QED BY <2>1, <2>2 DEF Solo
<1> QED BY <1>7, <1>8, <1>9, <1>10, <1>11, <1>12, <1>13, <1>14 DEF PageInv, Port

\* A read loop ends, or the cable is pulled.
LEMMA LoopsKeep ==
  ASSUME PageInv, Unplug \/ \E t \in Instances : LoopEnds(t)
  PROVE  PageInv'
<1> USE DEF Stands
<1>1. Types /\ Port /\ Order /\ Drops /\ Solo /\ Held /\ OneAtOnce /\ Kept BY DEF PageInv, Port
<1>2. UNCHANGED <<portState, by, locked, answers, opened, connection, transport, connects, does, heard, overlapped>>
      BY DEF Unplug, LoopEnds, portVars, linkVars, historyVars
<1>3. loop \in [Instances -> {"none", "reading", "unwinding", "ended"}] BY <1>1 DEF Types
<1>4. /\ loop' \in [Instances -> {"none", "reading", "unwinding", "ended"}]
      /\ \A u \in Instances : loop'[u] \in {"reading", "unwinding"} => loop[u] \in {"reading", "unwinding"}
      /\ \A u \in Instances : loop'[u] = "reading" => loop[u] = "reading"
      /\ lost' \in BOOLEAN /\ (lost => lost')
  <2>1. CASE Unplug BY <1>3, <2>1 DEF Unplug
  <2>2. ASSUME NEW t \in Instances, LoopEnds(t)
        PROVE  /\ loop' = [loop EXCEPT ![t] = "ended"] /\ lost' = lost
               /\ loop' \in [Instances -> {"none", "reading", "unwinding", "ended"}]
               /\ \A u \in Instances : loop'[u] = loop[u] \/ loop'[u] = "ended"
    BY <1>3, <2>2 DEF LoopEnds
  <2>3. lost \in BOOLEAN BY <1>1 DEF Types
  <2> QED BY <2>1, <2>2, <2>3
<1>5. Types' BY <1>1, <1>2, <1>4 DEF Types, Placed
<1>6. Held' BY <1>1, <1>2, <1>4 DEF Held
<1>7. OneAtOnce' /\ Kept' BY <1>1, <1>2 DEF OneAtOnce, Kept, Tending
<1>8. \A g \in Flows : Standing(g)'
  <2> SUFFICES ASSUME NEW g \in Flows PROVE Standing(g)'
      OBVIOUS
  <2>1. Standing(g) /\ Placed(g) BY <1>1 DEF Port, Types
  <2> QED BY <1>2, <1>4, <2>1 DEF Standing, Placed
<1>9. Order' BY <1>1, <1>2 DEF Order, Counted, Fresh, InUse, NotAhead, Behind
<1>10. Drops' BY <1>1, <1>2 DEF Drops, Parting
<1>11. Solo'
  <2> SUFFICES ASSUME NEW c \in Connectors PROVE Alone(c)'
      BY DEF Solo
  <2>1. Alone(c) BY <1>1 DEF Solo
  <2> QED BY <1>2, <1>4, <2>1 DEF Alone
<1> QED BY <1>5, <1>6, <1>7, <1>8, <1>9, <1>10, <1>11 DEF PageInv, Port

-----------------------------------------------------------------------------
(* connect.                                                                *)

\* A connect that goes on to its next instance, the port being none of its own.
LEMMA TriesNextKeeps ==
  ASSUME PageInv, NEW f \in Connectors, TriesNext(f, does[f].on), does[f].at \in {"closed", "opening"},
         does[f].on \in Instances, UNCHANGED <<portVars, lost, answers, instanceVars, linkVars, connects, historyVars>>,
         does[f].at = "opening" => portState # "closed"
  PROVE  PageInv'
<1> USE DEF Stands
<1> DEFINE t == does[f].on
           n == <<t[1], t[2] + 1>>
<1>1. Types /\ Port /\ Order /\ Drops /\ Solo /\ Held /\ f \in Flows /\ f \notin Disconnects /\ Placed(f)
      BY SerialAssumption DEF PageInv, Port, Types, Flows
<1>2. UNCHANGED <<portState, by, locked, lost, answers, opened, loop, connection, transport, connects, heard, overlapped>>
      BY DEF portVars, linkVars, historyVars, instanceVars
<1>3. Moves(f, "opening", n) BY <1>1, Gone DEF TriesNext
<1>4. n \in Stretch /\ n[2] = t[2] + 1 BY NextInstance
<1> HIDE DEF n
<1>5. does'[f].at = "opening" /\ does'[f].on = n /\ \A g \in Flows : g # f => does'[g] = does[g] BY <1>3 DEF Moves
<1>6. Types'
  <2>1. Placed(f)' BY <1>1, <1>4, <1>5 DEF Placed, Ats
  <2> QED BY <1>1, <1>2, <1>3, <2>1, MovesTypes DEF Types
<1>7. Port'
  <2>1. ~Tending(f) BY DEF Tending
  <2> QED BY <1>1, <1>2, <1>3, <2>1, PortStays
<1>8. Order' BY <1>1, <1>2, <1>3, OrderNext DEF n
<1>9. Drops' BY <1>1, <1>2, <1>3, DropsElse
<1>10. Solo'
  <2>1. \A c \in Connectors : c # f => Alone(c)' BY <1>1, <1>2, <1>3, AloneElse
  <2>2. Alone(f)'
    <3>1. Alone(f) BY <1>1 DEF Solo
    <3>2. t[2] \in Nat /\ answers \in Nat
      <4>1. t \in Stretch BY Grounds
      <4> QED BY <1>1, <4>1, Grounds DEF Types
    <3>3. "closed" \in Tried /\ "opening" \notin Tried BY DEF Tried
    <3>4. answers < n[2] => answers < t[2] \/ answers = t[2]
      <4> HIDE DEF t
      <4> QED BY <1>4, <3>2
    <3>5. CASE does[f].at = "opening" /\ f \notin overlapped BY <3>1, <3>5 DEF Alone
    <3>6. CASE does[f].at = "closed" BY <1>2, <1>5, <3>1, <3>3, <3>4, <3>6 DEF Alone
    <3>7. CASE f \in overlapped BY <1>2, <3>7 DEF Alone
    <3> QED BY <3>5, <3>6, <3>7
  <2> QED BY <2>1, <2>2 DEF Solo
<1> QED BY <1>6, <1>7, <1>8, <1>9, <1>10 DEF PageInv

LEMMA OpenCallsKeeps ==
  ASSUME PageInv, NEW f \in Connectors, OpenCalls(f)
  PROVE  PageInv'
<1> USE DEF Stands
<1> DEFINE t == does[f].on
<1>1. Types /\ Port /\ Order /\ Drops /\ Solo /\ Held /\ OneAtOnce /\ f \in Flows /\ f \notin Disconnects /\ Placed(f)
      BY SerialAssumption DEF PageInv, Port, Types, Flows
<1>2. does[f].at = "opening" /\ t \in Instances
  <2>1. does[f].at = "opening" /\ t[2] <= Candidates BY DEF OpenCalls
  <2>2. t \in Stretch BY <1>1, <2>1 DEF Placed
  <2> QED BY <2>1, <2>2, Grounds
<1>3. UNCHANGED <<by, locked, lost, answers, opened, loop, connection, transport, connects, heard, overlapped>>
      BY DEF OpenCalls, linkVars, historyVars, instanceVars
<1>4. CASE portState # "closed"
  <2>1. TriesNext(f, t) /\ UNCHANGED portState BY <1>4 DEF OpenCalls
  <2>2. UNCHANGED <<portVars, lost, answers, instanceVars, linkVars, connects, historyVars>>
    BY <1>3, <2>1 DEF portVars, linkVars, historyVars, instanceVars
  <2> QED BY <1>2, <1>4, <2>1, <2>2, TriesNextKeeps
<1>5. CASE portState = "closed"
  <2>1. portState' = "opening" /\ Goes(f, "opens") BY <1>5 DEF OpenCalls
  <2>2. Moves(f, "opens", t) BY <1>1, <2>1, Gone
  <2>3. does'[f].at = "opens" /\ does'[f].on = t /\ \A g \in Flows : g # f => does'[g] = does[g]
        BY <2>2 DEF Moves
  <2>4. Types'
    <3>1. t \in Stretch BY <1>2, Grounds
    <3>2. Placed(f)' BY <1>1, <1>2, <2>3, <3>1 DEF Placed, Ats
    <3> QED BY <1>1, <1>3, <2>1, <2>2, <3>2, MovesTypes DEF Types
  <2>5. Held' BY <1>1, <1>3, <1>5, <2>1 DEF Held
  <2>6. \A g \in Flows : Standing(g)' /\ does[g].at # "opens"
    <3> SUFFICES ASSUME NEW g \in Flows PROVE Standing(g)' /\ does[g].at # "opens"
        OBVIOUS
    <3>1. Standing(g) BY <1>1 DEF Port
    <3>2. CASE g = f BY <1>2, <2>1, <2>3, <3>2 DEF Standing
    <3>3. CASE g # f BY <1>5, <2>3, <3>1, <3>3 DEF Standing
    <3> QED BY <3>2, <3>3
  <2>7. OneAtOnce' BY <1>1, <2>3, <2>6 DEF OneAtOnce
  <2>8. Kept' BY <1>1, <2>1, <2>3 DEF Kept
  <2>9. Order'
    <3>1. "opening" \in Trying BY DEF Trying
    <3> QED BY <1>1, <1>2, <1>3, <2>2, <3>1, OrderStays
  <2>10. Drops' BY <1>1, <1>3, <2>1, <2>2, DropsElse
  <2>11. Solo'
    <3>1. \A c \in Connectors : c # f => Alone(c)' BY <1>1, <1>2, <1>3, <2>2, AloneElse
    <3>2. Alone(f)'
      <4>1. Alone(f) BY <1>1 DEF Solo
      <4> QED BY <1>2, <1>3, <2>3, <4>1 DEF Alone, Tried
    <3> QED BY <3>1, <3>2 DEF Solo
  <2> QED BY <2>4, <2>5, <2>6, <2>7, <2>8, <2>9, <2>10, <2>11 DEF PageInv, Port
<1> QED BY <1>4, <1>5

\* The port opens on the instance that asked, or not at all.
LEMMA OpenResolvesKeeps ==
  ASSUME PageInv, NEW f \in Connectors, OpenResolves(f)
  PROVE  PageInv'
<1> USE DEF Stands
<1> DEFINE t == does[f].on
           n == <<t[1], t[2] + 1>>
<1>1. Types /\ Port /\ Order /\ Drops /\ Solo /\ Held /\ OneAtOnce /\ Kept /\ f \in Flows /\ f \notin Disconnects
      /\ Placed(f) /\ Standing(f)
      BY SerialAssumption DEF PageInv, Port, Types, Flows
<1>2. does[f].at = "opens" /\ Quiet /\ t \in Instances /\ portState = "opening" /\ by = None /\ locked = None
      BY <1>1 DEF OpenResolves, Placed, Standing, Held
<1>3. UNCHANGED <<answers, connection, transport, connects, heard, overlapped>>
      BY DEF OpenResolves, linkVars, historyVars
<1>4. (\A u \in Instances : ~opened[u] /\ loop[u] \notin {"reading", "unwinding"}) /\ t \in Maybe /\ t \in Stretch
      BY <1>1, <1>2, Grounds DEF Held, Maybe, Types
<1>5. \A g \in Flows : g # f => does[g].at \notin {"opens", "unwinding", "shutting", "identifying"}
  <2> SUFFICES ASSUME NEW g \in Flows, g # f PROVE does[g].at \notin {"opens", "unwinding", "shutting", "identifying"}
      OBVIOUS
  <2>1. Standing(g) BY <1>1 DEF Port
  <2> QED BY <1>1, <1>2, <2>1 DEF Standing, OneAtOnce
<1>6. Alone(f) BY <1>1 DEF Solo
<1>7. ASSUME portState' = "open", by' = t, opened' = [opened EXCEPT ![t] = TRUE],
             \/ locked' = t /\ loop' = [loop EXCEPT ![t] = "reading"] /\ lost' = lost /\ Goes(f, "identifying")
             \/ lost' = TRUE /\ UNCHANGED <<locked, loop>> /\ Goes(f, "close")
      PROVE  PageInv'
  <2>1. PICK stage \in {"identifying", "close"} : Goes(f, stage) BY <1>7
  <2>2. Moves(f, stage, t) BY <1>1, <2>1, Gone
  <2>3. does'[f].at = stage /\ does'[f].on = t /\ \A g \in Flows : g # f => does'[g] = does[g] BY <2>2 DEF Moves
  <2>4. opened' \in [Instances -> BOOLEAN] /\ opened'[t] /\ \A u \in Instances : opened'[u] => u = t
    BY <1>1, <1>2, <1>4, <1>7 DEF Types
  <2>5. /\ loop' \in [Instances -> {"none", "reading", "unwinding", "ended"}]
        /\ locked' \in {None, t} /\ lost' \in BOOLEAN
        /\ \A u \in Instances : loop'[u] \in {"reading", "unwinding"} => u = t /\ locked' = t
    BY <1>1, <1>2, <1>4, <1>7 DEF Types
  <2>6. stage = "close" => lost' = TRUE
    <3>1. does'[f].at = "close" => ~(does' = [does EXCEPT ![f].at = "identifying"])
      <4>1. does \in [Flows -> {does[g] : g \in Flows}] \/ DOMAIN does = Flows BY <1>1 DEF Types
      <4>2. does[f] = [at |-> does[f].at, on |-> does[f].on] BY <1>1 DEF Types
      <4> QED BY <1>1, <4>2 DEF Types
    <3> QED BY <1>7, <2>3, <3>1 DEF Goes
  <2>7. Types'
    <3>1. Placed(f)' BY <1>1, <1>2, <1>4, <2>3 DEF Placed, Ats
    <3> QED BY <1>1, <1>3, <1>4, <1>7, <2>2, <2>4, <2>5, <3>1, MovesTypes DEF Types
  <2>8. Held' BY <1>2, <1>7, <2>4, <2>5 DEF Held
  <2>9. OneAtOnce' BY <1>5, <2>3 DEF OneAtOnce
  <2>10. \A g \in Flows : Standing(g)'
    <3> SUFFICES ASSUME NEW g \in Flows PROVE Standing(g)'
        OBVIOUS
    <3>1. CASE g = f BY <1>7, <2>3, <3>1 DEF Standing
    <3>2. CASE g # f BY <1>5, <2>3, <3>2 DEF Standing
    <3> QED BY <3>1, <3>2
  <2>11. Kept'
    <3>1. Tending(f)' BY <1>7, <2>3 DEF Tending
    <3> QED BY <1>1, <1>7, <3>1 DEF Kept
  <2>12. Order'
    <3>1. "opens" \in Trying BY DEF Trying
    <3> QED BY <1>1, <1>2, <1>3, <2>2, <3>1, OrderStays
  <2>13. Drops' BY <1>1, <1>2, <2>2, DropsQuiet
  <2>14. Solo'
    <3>1. \A c \in Connectors : c # f => Alone(c)' BY <1>1, <1>2, <1>3, <2>2, AloneElse
    <3>2. "identifying" \notin Tried /\ (lost' \/ lost' = lost) BY <1>7 DEF Tried
    <3>3. Alone(f)' BY <1>2, <1>3, <1>6, <1>7, <2>3, <2>6, <3>2 DEF Alone
    <3> QED BY <3>1, <3>3 DEF Solo
  <2> QED BY <2>7, <2>8, <2>9, <2>10, <2>11, <2>12, <2>13, <2>14 DEF PageInv, Port
<1>8. ASSUME lost, portState' = "closed", TriesNext(f, t), UNCHANGED <<by, locked, lost, instanceVars>>
      PROVE  PageInv'
  <2>1. Moves(f, "opening", n) BY <1>1, <1>8, Gone DEF TriesNext
  <2>2. n \in Stretch BY <1>2, NextInstance
  <2> HIDE DEF n
  <2>3. does'[f].at = "opening" /\ does'[f].on = n /\ \A g \in Flows : g # f => does'[g] = does[g] BY <2>1 DEF Moves
  <2>4. UNCHANGED <<opened, loop>> BY <1>8 DEF instanceVars
  <2>5. Types'
    <3>1. Placed(f)' BY <1>1, <2>2, <2>3 DEF Placed, Ats
    <3> QED BY <1>1, <1>3, <1>8, <2>1, <2>4, <3>1, MovesTypes DEF Types
  <2>6. Held' BY <1>2, <1>4, <1>8, <2>4 DEF Held
  <2>7. OneAtOnce' BY <1>5, <2>3 DEF OneAtOnce
  <2>8. \A g \in Flows : Standing(g)'
    <3> SUFFICES ASSUME NEW g \in Flows PROVE Standing(g)'
        OBVIOUS
    <3>1. CASE g = f BY <2>3, <3>1 DEF Standing
    <3>2. CASE g # f BY <1>5, <2>3, <3>2 DEF Standing
    <3> QED BY <3>1, <3>2
  <2>9. Kept' BY <1>8 DEF Kept
  <2>10. Order' BY <1>1, <1>2, <1>3, <2>1, OrderNext DEF n
  <2>11. Drops' BY <1>1, <1>2, <2>1, DropsQuiet
  <2>12. Solo'
    <3>1. \A c \in Connectors : c # f => Alone(c)' BY <1>1, <1>2, <1>3, <2>1, AloneElse
    <3>2. Alone(f)' BY <1>2, <1>3, <1>6, <1>8, <2>3 DEF Alone
    <3> QED BY <3>1, <3>2 DEF Solo
  <2> QED BY <2>5, <2>6, <2>7, <2>8, <2>9, <2>10, <2>11, <2>12 DEF PageInv, Port
<1> QED BY <1>7, <1>8 DEF OpenResolves

\* A connect that leaves the port as it is, and stays on its instance.
LEMMA ConnectStays ==
  ASSUME PageInv, NEW f \in Connectors, NEW stage, Goes(f, stage), ~Stands(f, "idle"),
         does[f].at \notin {"opens", "shutting"}, stage \in {"idle", "opening", "close"},
         stage = "close" => does[f].on \in Instances,
         stage = "opening" => does[f].at = "asking",
         Tending(f) => stage = "close",
         UNCHANGED <<portVars, lost, answers, instanceVars, transport, connects, historyVars>>, Alone(f)'
  PROVE  PageInv'
<1> USE DEF Stands
<1> DEFINE t == does[f].on
<1>1. Types /\ Port /\ Order /\ Drops /\ Solo /\ Held /\ f \in Flows /\ f \notin Disconnects /\ Placed(f)
      BY SerialAssumption DEF PageInv, Port, Types, Flows
<1>2. UNCHANGED <<portState, by, locked, lost, answers, opened, loop, transport, connects, heard, overlapped>>
      BY DEF portVars, historyVars, instanceVars
<1>3. Moves(f, stage, t) BY <1>1, Gone
<1>4. does'[f].at = stage /\ does'[f].on = t BY <1>3 DEF Moves
<1>5. Types'
  <2>1. Placed(f)' BY <1>1, <1>4 DEF Placed, Ats
  <2> QED BY <1>1, <1>2, <1>3, <2>1, MovesTypes DEF Types
<1>6. Port' BY <1>1, <1>2, <1>3, PortStays
<1>7. Order'
  <2>1. stage \in Trying => does[f].at \in Trying BY DEF Trying
  <2> QED BY <1>1, <1>2, <1>3, <2>1, OrderStays
<1>8. Drops' BY <1>1, <1>2, <1>3, DropsElse
<1>9. Solo'
  <2>1. \A c \in Connectors : c # f => Alone(c)' BY <1>1, <1>2, <1>3, AloneElse
  <2> QED BY <2>1 DEF Solo
<1> QED BY <1>5, <1>6, <1>7, <1>8, <1>9 DEF PageInv

LEMMA ConnectStaysKeeps ==
  ASSUME PageInv, NEW f \in Connectors,
         PortIsPicked(f) \/ Reopens(f) \/ CandidateClosed(f) \/ ConnectGivesUp(f)
  PROVE  PageInv'
<1> USE DEF Stands
<1> DEFINE t == does[f].on
<1>1. Types /\ f \in Flows /\ Placed(f) /\ Alone(f) BY DEF PageInv, Types, Flows, Solo
<1>2. ASSUME NEW stage, Goes(f, stage) PROVE does'[f].at = stage /\ does'[f].on = t
      /\ \A g \in Flows : g # f => does'[g] = does[g]
  <2>1. Moves(f, stage, t) BY <1>1, <1>2, Gone
  <2> QED BY <2>1 DEF Moves
<1>3. CASE CandidateClosed(f)
  <2>1. t \in Instances BY <1>1, <1>3 DEF Placed, CandidateClosed
  <2> QED BY <1>3, <2>1, TriesNextKeeps DEF CandidateClosed
<1>4. CASE PortIsPicked(f)
  <2>1. UNCHANGED <<portVars, lost, answers, instanceVars, transport, connects, historyVars>> /\ does[f].at = "asking"
    BY <1>4 DEF PortIsPicked
  <2>2. UNCHANGED <<portState, by, lost, answers, heard, overlapped>> BY <2>1 DEF portVars, historyVars
  <2>3. PICK stage \in {"opening", "idle"} : Goes(f, stage) BY <1>4 DEF PortIsPicked
  <2>4. does'[f].at = stage /\ does'[f].on = t /\ \A g \in Flows : g # f => does'[g] = does[g] BY <1>2, <2>3
  <2>5. Alone(f)' BY <1>1, <2>1, <2>2, <2>4 DEF Alone, Tried
  <2>6. ~Tending(f) BY <2>1 DEF Tending
  <2> QED BY <2>1, <2>3, <2>5, <2>6, ConnectStays
<1>5. CASE Reopens(f)
  <2>1. UNCHANGED <<portVars, lost, answers, instanceVars, transport, connects, historyVars>> /\ does[f].at = "reopening"
    BY <1>5 DEF Reopens, linkVars
  <2>2. UNCHANGED <<portState, by, lost, answers, heard, overlapped>> BY <2>1 DEF portVars, historyVars
  <2>3. PICK stage \in {"idle", "close"} : Goes(f, stage) BY <1>5 DEF Reopens
  <2>4. does'[f].at = stage /\ does'[f].on = t /\ \A g \in Flows : g # f => does'[g] = does[g] BY <1>2, <2>3
  <2>5. Alone(f)' BY <1>1, <2>1, <2>2, <2>4 DEF Alone, Tried
  <2>6. ~Tending(f) /\ t \in Instances BY <1>1, <2>1 DEF Tending, Placed
  <2> QED BY <2>1, <2>3, <2>5, <2>6, ConnectStays
<1>6. CASE ConnectGivesUp(f)
  <2>1. UNCHANGED <<portVars, lost, answers, instanceVars, transport, connects, historyVars>> /\ does[f].at = "opening"
        /\ Goes(f, "idle")
    BY <1>6 DEF ConnectGivesUp
  <2>2. Alone(f)' BY <1>2, <2>1 DEF Alone
  <2>3. ~Tending(f) BY <2>1 DEF Tending
  <2> QED BY <2>1, <2>2, <2>3, ConnectStays
<1> QED BY <1>3, <1>4, <1>5, <1>6

\* An adapter's answer makes the candidate the one in use; after anything else it is closed.
LEMMA IdentifiesKeeps ==
  ASSUME PageInv, NEW f \in Connectors, Identifies(f)
  PROVE  PageInv'
<1> USE DEF Stands
<1> DEFINE t == does[f].on
<1>1. Types /\ Port /\ Order /\ Solo /\ Held /\ f \in Flows /\ f \notin Disconnects /\ Placed(f) /\ Standing(f) /\ Alone(f)
      BY SerialAssumption DEF PageInv, Port, Types, Flows, Solo
<1>2. does[f].at = "identifying" /\ t \in Instances /\ Quiet /\ by = t
      BY <1>1 DEF Identifies, Placed, Standing
<1>3. UNCHANGED <<portState, by, locked, lost, answers, opened, loop, connects, overlapped>>
      /\ UNCHANGED <<portVars, instanceVars>>
      BY DEF Identifies, portVars, instanceVars
<1>4. t \in Maybe BY <1>2 DEF Maybe
<1>5. t[2] \in Nat /\ answers \in Nat BY <1>1, <1>2, Grounds DEF Types
<1>6. CASE t[2] = answers /\ ~lost
  <2>1. transport' = t /\ heard' = heard \cup {f} /\ Goes(f, "reopening") BY <1>6 DEF Identifies
  <2>2. Moves(f, "reopening", t) BY <1>1, <2>1, Gone
  <2>3. does'[f].at = "reopening" /\ does'[f].on = t /\ \A g \in Flows : g # f => does'[g] = does[g]
        BY <2>2 DEF Moves
  <2>4. Types'
    <3>1. Placed(f)' BY <1>1, <1>2, <2>3 DEF Placed, Ats
    <3> QED BY <1>1, <1>3, <1>4, <2>1, <2>2, <3>1, MovesTypes DEF Types
  <2>5. Port' BY <1>1, <1>2, <1>3, <2>1, <2>2, PortStays
  <2>6. Order' BY <1>1, <1>2, <1>3, <2>1, <2>2, OrderUses
  <2>7. Drops' BY <1>1, <1>2, <2>2, DropsQuiet
  <2>8. Solo'
    <3>1. \A c \in Connectors : c # f => Alone(c)' BY <1>1, <1>2, <1>3, <2>2, AloneElse
    <3>2. Alone(f)' BY <1>1, <1>2, <1>3, <2>1, <2>3 DEF Alone
    <3> QED BY <3>1, <3>2 DEF Solo
  <2> QED BY <2>4, <2>5, <2>6, <2>7, <2>8 DEF PageInv
<1>7. CASE ~(t[2] = answers /\ ~lost)
  <2>1. transport' = transport /\ heard' = heard /\ Goes(f, "close")
    BY <1>7 DEF Identifies, linkVars, AfterNoAdapter
  <2>2. Moves(f, "close", t) BY <1>1, <2>1, Gone
  <2>3. does'[f].at = "close" /\ does'[f].on = t /\ \A g \in Flows : g # f => does'[g] = does[g]
        BY <2>2 DEF Moves
  <2>4. Types'
    <3>1. Placed(f)' BY <1>1, <1>2, <2>3 DEF Placed, Ats
    <3> QED BY <1>1, <1>3, <2>1, <2>2, <3>1, MovesTypes DEF Types
  <2>5. Port' BY <1>1, <1>2, <1>3, <2>1, <2>2, PortStays
  <2>6. Order'
    <3>1. "close" \notin Trying BY DEF Trying
    <3> QED BY <1>1, <1>2, <1>3, <2>1, <2>2, <3>1, OrderStays
  <2>7. Drops' BY <1>1, <1>2, <2>2, DropsQuiet
  <2>8. Solo'
    <3>1. \A c \in Connectors : c # f => Alone(c)' BY <1>1, <1>2, <1>3, <2>2, AloneElse
    <3>2. Alone(f)' BY <1>1, <1>2, <1>3, <1>7, <2>1, <2>3 DEF Alone
    <3> QED BY <3>1, <3>2 DEF Solo
  <2> QED BY <2>4, <2>5, <2>6, <2>7, <2>8 DEF PageInv
<1> QED BY <1>6, <1>7

\* With no flow under way and nothing in use the port is closed and its streams free.
LEMMA InvReleases == PageInv => BrowserReleases
<1> SUFFICES ASSUME PageInv, UnderWay = {}, transport = None PROVE portState = "closed" /\ locked = None
    BY DEF BrowserReleases
<1>1. \A f \in Flows : does[f].at = "idle" BY DEF UnderWay, Stands
<1>2. Kept /\ Held /\ Types BY DEF PageInv, Port
<1>3. portState # "opening" /\ portState # "closing" BY <1>1, <1>2 DEF Kept, Stands
<1>4. portState # "open"
  <2>1. portState = "open" => by # None BY <1>2, Grounds DEF Held
  <2> QED BY <1>1, <1>2, <2>1 DEF Kept, Tending
<1> QED BY <1>2, <1>3, <1>4 DEF Types, Held

LEMMA ConnectBeginsKeeps ==
  ASSUME PageInv, NEW f \in Connectors, ConnectBegins(f)
  PROVE  PageInv'
<1> USE DEF Stands
<1> DEFINE n == <<connects', 1>>
<1>1. Types /\ Port /\ Order /\ Solo /\ Held /\ Drops /\ f \in Flows /\ f \notin Disconnects
      BY SerialAssumption DEF PageInv, Port, Types, Flows, Solo
<1>2. does[f].at = "idle" /\ transport = None /\ connects < MaxConnects /\ connects' = connects + 1 /\ Quiet
      /\ GoesOn(f, "asking", n) /\ heard' = heard \ {f}
      BY DEF ConnectBegins
<1>3. UNCHANGED <<portState, by, locked, lost, answers, opened, loop, transport>> /\ UNCHANGED <<portVars, instanceVars>>
      BY DEF ConnectBegins, portVars, instanceVars
<1>4. n \in Instances /\ n[2] = 1 /\ connects' \in Nat
  <2>1. MaxConnects \in Nat /\ connects \in Nat /\ Candidates \in Nat \ {0} BY <1>1, SerialAssumption DEF Types
  <2>2. connects' \in 1..MaxConnects /\ 1 \in 1..Candidates BY <1>2, <2>1
  <2> QED BY <2>2 DEF Instances
<1>5. Moves(f, "asking", n) BY <1>1, <1>2, Gone
<1>6. Order' BY <1>1, <1>2, <1>3, <1>5, OrderBegins
<1> HIDE DEF n
<1>7. does'[f].at = "asking" /\ does'[f].on = n /\ \A g \in Flows : g # f => does'[g] = does[g]
      BY <1>5 DEF Moves
<1>8. Types'
  <2>1. n \in Stretch BY <1>4, Grounds
  <2>2. Placed(f)' BY <1>1, <1>4, <1>7, <2>1 DEF Placed, Ats
  <2> QED BY <1>1, <1>3, <1>4, <1>5, <2>2, MovesTypes DEF Types
<1>9. Port'
  <2>1. ~Tending(f) BY <1>2 DEF Tending
  <2> QED BY <1>1, <1>2, <1>3, <1>5, <2>1, PortStays
<1>10. Drops' BY <1>1, <1>2, <1>5, DropsQuiet
<1>11. Solo'
  <2> SUFFICES ASSUME NEW c \in Connectors, does'[c].at # "idle", c \notin overlapped' PROVE Alone(c)'
      BY DEF Solo, Alone
  <2>1. UnderWay = {}
    <3> SUFFICES ASSUME UnderWay # {} PROVE FALSE
        OBVIOUS
    <3>1. overlapped' = overlapped \cup {f} \cup (UnderWay \cap Connectors) BY DEF ConnectBegins
    <3>2. CASE c = f BY <3>1, <3>2
    <3>3. CASE c # f
      <4>1. c \in UnderWay BY <1>7, <3>3 DEF UnderWay, Flows
      <4> QED BY <3>1, <4>1
    <3> QED BY <3>2, <3>3
  <2>2. \A g \in Flows : does[g].at = "idle" BY <2>1 DEF UnderWay
  <2>3. c = f BY <1>7, <2>2 DEF Flows
  <2>4. portState = "closed" BY <1>2, <2>1, InvReleases DEF BrowserReleases
  <2>5. ~(answers # 0 /\ (answers < n[2] \/ (answers = n[2] /\ "asking" \in Tried)))
    <3>1. answers \in Nat BY <1>1 DEF Types
    <3>2. "asking" \notin Tried BY DEF Tried
    <3> QED BY <1>4, <3>1, <3>2
  <2> QED BY <1>3, <1>7, <2>2, <2>3, <2>4, <2>5 DEF Alone
<1> QED BY <1>6, <1>8, <1>9, <1>10, <1>11 DEF PageInv

-----------------------------------------------------------------------------
(* disconnect.                                                             *)

LEMMA DisconnectBeginsKeeps ==
  ASSUME PageInv, NEW f \in Disconnects, DisconnectBegins(f)
  PROVE  PageInv'
<1> USE DEF Stands
<1>1. Types /\ Port /\ Order /\ Solo /\ Held /\ Drops /\ f \in Flows /\ f \notin Connectors
      BY SerialAssumption DEF PageInv, Port, Types, Flows, Solo
<1>2. does[f].at = "idle" /\ Quiet /\ GoesOn(f, "parting", None)
      /\ overlapped' = overlapped \cup (UnderWay \cap Connectors)
      BY DEF DisconnectBegins
<1>3. UNCHANGED <<portState, by, locked, lost, answers, opened, loop, transport, connects, heard>>
      /\ UNCHANGED <<portVars, instanceVars>>
      BY DEF DisconnectBegins, portVars, instanceVars, linkVars
<1>4. Moves(f, "parting", None) BY <1>1, <1>2, Gone
<1>5. does'[f].at = "parting" /\ does'[f].on = None BY <1>4 DEF Moves
<1>6. \A g \in Flows : g # f => does'[g] = does[g] BY <1>4 DEF Moves
<1>7. Types'
  <2>1. Placed(f)' BY <1>1, <1>5 DEF Placed, Ats, Maybe
  <2> QED BY <1>1, <1>3, <1>4, <2>1, MovesTypes DEF Types
<1>8. Port'
  <2>1. ~Tending(f) BY <1>2 DEF Tending
  <2> QED BY <1>1, <1>2, <1>3, <1>4, <2>1, PortStays
<1>9. Order' BY <1>1, <1>3, <1>4, OrderStays
<1>10. Drops'
  <2>1. Parting(f)' BY <1>5 DEF Parting
  <2> QED BY <1>1, <1>2, <1>4, <2>1, DropsQuiet
<1>11. Solo'
  <2> SUFFICES ASSUME NEW c \in Connectors, does'[c].at # "idle" PROVE c \in overlapped'
      BY DEF Solo, Alone
  <2>1. c \in Flows /\ does'[c] = does[c] BY <1>1, <1>6 DEF Flows
  <2> QED BY <1>2, <2>1 DEF UnderWay
<1> QED BY <1>7, <1>8, <1>9, <1>10, <1>11 DEF PageInv

LEMMA DisconnectingKeeps ==
  ASSUME PageInv, NEW f \in Disconnects, ProtocolClosed(f) \/ DisconnectEnds(f)
  PROVE  PageInv'
<1> USE DEF Stands
<1>1. Types /\ Port /\ Order /\ Solo /\ Held /\ Drops /\ f \in Flows /\ f \notin Connectors /\ Parting(f)
      BY SerialAssumption DEF PageInv, Port, Types, Flows, Solo, Drops
<1>2. UNCHANGED <<portState, by, locked, lost, answers, opened, loop, connects, heard, overlapped>>
      /\ UNCHANGED <<portVars, instanceVars>>
      BY DEF ProtocolClosed, DisconnectEnds, portVars, instanceVars, linkVars, historyVars
<1>3. transport \in Maybe /\ None \in Maybe /\ \A t \in Maybe : t # None => t \in Instances BY <1>1 DEF Types, Maybe
<1>4. CASE ProtocolClosed(f)
  <2> DEFINE next == IF transport = None THEN "closed" ELSE "close"
  <2>1. GoesOn(f, next, transport) /\ Quiet /\ does[f].at = "parting" /\ transport' = transport
    BY <1>4 DEF ProtocolClosed, linkVars
  <2>2. next \in {"closed", "close"} /\ (next = "closed" => transport = None) /\ (next = "close" => transport # None)
    OBVIOUS
  <2> HIDE DEF next
  <2>3. Moves(f, next, transport) BY <1>1, <2>1, Gone
  <2>4. does'[f].at = next /\ does'[f].on = transport BY <2>3 DEF Moves
  <2>5. Types'
    <3>1. Placed(f)' BY <1>1, <1>3, <2>2, <2>4 DEF Placed, Ats
    <3> QED BY <1>1, <1>2, <2>1, <2>3, <3>1, MovesTypes DEF Types
  <2>6. Port'
    <3>1. ~Tending(f) BY <2>1 DEF Tending
    <3> QED BY <1>1, <1>2, <2>1, <2>2, <2>3, <3>1, PortStays
  <2>7. Order' BY <1>1, <1>2, <2>1, <2>3, OrderStays
  <2>8. Drops'
    <3>1. portState = "open" => by # None BY <1>1, Grounds DEF Held
    <3>2. Parting(f)' BY <1>2, <2>1, <2>2, <2>4, <3>1 DEF Parting
    <3> QED BY <1>1, <2>1, <2>3, <3>2, DropsQuiet
  <2>9. Solo' BY <1>1, <1>2, <2>1, <2>3, AloneElse DEF Solo
  <2> QED BY <2>5, <2>6, <2>7, <2>8, <2>9 DEF PageInv
<1>5. CASE DisconnectEnds(f)
  <2>1. GoesOn(f, "idle", None) /\ does[f].at = "closed" /\ transport' = None BY <1>5 DEF DisconnectEnds
  <2>2. Moves(f, "idle", None) BY <1>1, <2>1, Gone
  <2>3. does'[f].at = "idle" /\ does'[f].on = None BY <2>2 DEF Moves
  <2>4. Types'
    <3>1. Placed(f)' BY <1>1, <1>3, <2>3 DEF Placed, Ats
    <3> QED BY <1>1, <1>2, <1>3, <2>1, <2>2, <3>1, MovesTypes DEF Types
  <2>5. Port'
    <3>1. ~Tending(f) /\ (portState = "open" => transport # by) BY <1>1, <2>1 DEF Tending, Parting
    <3> QED BY <1>1, <1>2, <2>1, <2>2, <3>1, PortStays
  <2>6. Order' BY <1>1, <1>2, <2>1, <2>2, OrderStays
  <2>7. Drops'
    <3>1. Parting(f)' BY <2>3 DEF Parting
    <3> QED BY <1>1, <1>2, <2>1, <2>2, <3>1, DropsElse
  <2>8. Solo' BY <1>1, <1>2, <2>1, <2>2, AloneElse DEF Solo
  <2> QED BY <2>4, <2>5, <2>6, <2>7, <2>8 DEF PageInv
<1> QED BY <1>4, <1>5

-----------------------------------------------------------------------------
(* Any step of the page.                                                   *)

LEMMA PageInit == SerialInit => PageInv
<1> SUFFICES ASSUME SerialInit PROVE PageInv
    OBVIOUS
<1> USE DEF Stands
<1>1. /\ portState = "closed" /\ by = None /\ locked = None /\ lost = FALSE /\ answers \in Answers
      /\ transport = None /\ connects = 0
      /\ \A t \in Instances : opened[t] = FALSE /\ loop[t] = "none"
      /\ \A f \in Flows : does[f].at = "idle" /\ does[f].on = None
      BY DEF SerialInit
<1>2. Types
  <2>1. None \in Maybe BY DEF Maybe
  <2>2. answers \in 0..Candidates BY <1>1, SerialAssumption
  <2>3. \A f \in Flows : Placed(f) BY <1>1, <2>1, SerialAssumption DEF Placed, Ats, Flows
  <2>4. opened \in [Instances -> BOOLEAN] /\ loop \in [Instances -> {"none", "reading", "unwinding", "ended"}]
    BY DEF SerialInit
  <2>5. DOMAIN does = Flows /\ \A f \in Flows : does[f] = [at |-> does[f].at, on |-> does[f].on]
    BY DEF SerialInit
  <2> QED BY <1>1, <2>1, <2>2, <2>3, <2>4, <2>5 DEF Types
<1>3. Port BY <1>1 DEF Port, Held, OneAtOnce, Kept, Standing
<1>4. Order
  <2>1. \A v \in InUse : v[1] = 0 BY <1>1, Grounds DEF InUse, Flows
  <2>2. Counted BY <1>1, <2>1 DEF Counted
  <2> QED BY <1>1, <2>2 DEF Order, Fresh, Flows
<1>5. Drops BY <1>1 DEF Drops, Parting, Flows
<1>6. Solo BY <1>1 DEF Solo, Alone, Flows
<1> QED BY <1>2, <1>3, <1>4, <1>5, <1>6 DEF PageInv

LEMMA PageKeeps == PageInv /\ [SerialNext]_serialVars => PageInv'
<1> SUFFICES ASSUME PageInv, [SerialNext]_serialVars PROVE PageInv'
    OBVIOUS
<1>1. ASSUME NEW f \in Flows, Closes(f) PROVE PageInv'
  BY <1>1, CloseBeginsKeeps, CloseShutsKeeps, ShutsDownKeeps DEF Closes
<1>2. ASSUME NEW f \in Connectors, Connecting(f) PROVE PageInv'
  BY <1>2, ConnectBeginsKeeps, OpenCallsKeeps, OpenResolvesKeeps, IdentifiesKeeps, ConnectStaysKeeps DEF Connecting
<1>3. ASSUME NEW f \in Disconnects, Disconnecting(f) PROVE PageInv'
  BY <1>3, DisconnectBeginsKeeps, DisconnectingKeeps DEF Disconnecting
<1>4. CASE Unplug \/ \E t \in Instances : LoopEnds(t) BY <1>4, LoopsKeep
<1>5. CASE UNCHANGED serialVars
  <2>1. UNCHANGED <<portState, by, locked, lost, answers, opened, loop, transport, connects, does, heard, overlapped>>
    BY <1>5 DEF serialVars, portVars, instanceVars, linkVars, historyVars
  <2>2. Types' BY <2>1 DEF PageInv, Types, Placed, Stands
  <2>3. Port' BY <2>1 DEF PageInv, Port, Held, OneAtOnce, Kept, Tending, Standing, Stands
  <2>4. Order' BY <2>1 DEF PageInv, Order, Counted, Fresh, InUse, NotAhead, Behind, Stands
  <2>5. Drops' BY <2>1 DEF PageInv, Drops, Parting, Stands
  <2>6. Solo' BY <2>1 DEF PageInv, Solo, Alone, Stands
  <2> QED BY <2>2, <2>3, <2>4, <2>5, <2>6 DEF PageInv
<1> QED BY <1>1, <1>2, <1>3, <1>4, <1>5 DEF SerialNext

\* A rate left behind has been heard.
LEMMA InvHears == PageInv => HearsEveryRate
<1> SUFFICES ASSUME PageInv, NEW f \in UnderWay \cap (Connectors \ overlapped), ~lost, answers \in 1..(does[f].on[2] - 1)
             PROVE  f \in heard
    BY DEF HearsEveryRate
<1>1. Alone(f) /\ ~Stands(f, "idle") /\ Placed(f) BY DEF PageInv, Solo, UnderWay, Types
<1>2. does[f].on \in Stretch BY <1>1 DEF Placed
<1>3. does[f].on[2] \in Nat BY <1>2, Grounds
<1>4. answers # 0 /\ answers < does[f].on[2] BY <1>3
<1> QED BY <1>1, <1>4 DEF Alone

-----------------------------------------------------------------------------
(* The terminal, and the theorem. *)

\* The terminal has its port open only while a command runs or the finally block has yet to close it.
NodeInv ==
  /\ at \in {"starting", "loading", "opening", "running", "closing", "ended"}
  /\ at \in {"starting", "loading", "opening", "ended"} => nodePort = "none"

HostsInv == PageInv /\ NodeInv

\* Every way out of an open port passes the finally block.
LEMMA NodeNext == NodeInv /\ [CommandNext]_commandVars => NodeInv'
<1> SUFFICES ASSUME NodeInv, [CommandNext]_commandVars PROVE NodeInv'
    OBVIOUS
<1>1. CASE Dispatch BY <1>1 DEF Dispatch, Ends, NodeInv
<1>2. CASE Loaded BY <1>2 DEF Loaded, Ends, NodeInv
<1>3. CASE NodeOpens BY <1>3 DEF NodeOpens, Ends, NodeInv
<1>4. CASE NodeCloses BY <1>4 DEF NodeCloses, NodeInv
<1>5. ASSUME at = "running", at' \in {"running", "closing"} PROVE NodeInv' BY <1>5 DEF NodeInv
<1>6. GoesOnToNext => at' \in {at, "closing"} BY Zenon DEF GoesOnToNext
<1>7. Throws \/ ReturnsEarly => at' = "closing" BY Zenon DEF Throws, AfterThrow, ReturnsEarly
<1>8. CASE TakesStep BY <1>5, <1>6, <1>7, <1>8 DEF TakesStep
<1>9. CASE MeasuresWrite BY <1>5, <1>6, <1>7, <1>9 DEF MeasuresWrite, At
<1>10. CASE Sweeps BY <1>5, <1>6, <1>7, <1>10 DEF Sweeps, At
<1>11. CASE CheckupSweeps BY <1>5, <1>6, <1>7, <1>11 DEF CheckupSweeps, At
<1>12. CASE ReadsFaults BY <1>5, <1>6, <1>7, <1>12 DEF ReadsFaults, At
<1>13. CASE confirm BY <1>5, <1>6, <1>7, <1>13 DEF confirm, At
<1>14. CASE Erases BY <1>5, <1>6, <1>7, <1>14 DEF Erases, At
<1>15. CASE Examined BY <1>5, <1>6, <1>15 DEF Examined, At
<1>16. CASE WritesReport BY <1>5, <1>6, <1>7, <1>16 DEF WritesReport, At
<1>17. CASE ModuleLoads \/ ModuleAttaches \/ ModuleTimes \/ ModuleTimed \/ ModuleFaults
  <2>1. UNCHANGED <<at, nodePort>>
        BY <1>17, Zenon DEF ModuleLoads, ModuleAttaches, ModuleTimes, ModuleTimed, ModuleFaults
  <2> QED BY <2>1 DEF NodeInv
<1>18. CASE UNCHANGED commandVars BY <1>18 DEF commandVars, NodeInv
<1> QED
  BY <1>1, <1>2, <1>3, <1>4, <1>8, <1>9, <1>10, <1>11, <1>12, <1>13, <1>14, <1>15, <1>16, <1>17, <1>18
  DEF CommandNext

\* Whatever the page or the terminal does, the port is as each flow needs it, a rate left behind was
\* heard, and a port of the terminal is closed before the process ends.
THEOREM HostsInvariant == Spec => []HostsInv
<1>1. Init => HostsInv
  <2>1. Init => NodeInv BY DEF Init, CommandInit, NodeInv
  <2> QED BY <2>1, PageInit DEF HostsInv, Init
<1>2. HostsInv /\ [Next]_<<host, serialVars, commandVars>> => HostsInv'
  <2> SUFFICES ASSUME HostsInv, [Next]_<<host, serialVars, commandVars>> PROVE HostsInv'
      OBVIOUS
  <2>1. [SerialNext]_serialVars /\ [CommandNext]_commandVars BY DEF Next
  <2>2. PageInv' BY <2>1, PageKeeps DEF HostsInv
  <2>3. NodeInv' BY <2>1, NodeNext DEF HostsInv
  <2> QED BY <2>2, <2>3 DEF HostsInv
<1> QED BY <1>1, <1>2, PTL DEF Spec

\* A host that is done leaves the port closed and its streams free (WebSerialTransport.close, the
\* finally blocks of the command line), and an attempt to connect that nothing overlaps has heard the
\* adapter when it goes past its rate.
THEOREM PortIsReleased == Spec => []PortReleased
<1>1. HostsInv => PortReleased
  <2>1. NodeInv => (at = "ended" => nodePort = "none") BY DEF NodeInv
  <2> QED BY <2>1, InvReleases, InvHears DEF HostsInv, PortReleased
<1> QED BY <1>1, HostsInvariant, PTL

-----------------------------------------------------------------------------
(* A checkup: the requests it may time, and where it stands.              *)

\* In a finite set in strict order every place is taken: the places are distinct, and as many.
LEMMA Ranks ==
  ASSUME NEW S, IsFiniteSet(S), NEW R,
         \A i \in S : <<i, i>> \notin R,
         \A i, j \in S : i # j => <<i, j>> \in R \/ <<j, i>> \in R,
         \A i, j, k \in S : <<i, j>> \in R /\ <<j, k>> \in R => <<i, k>> \in R
  PROVE  \A k \in 1..Cardinality(S) : \E i \in S : Cardinality({j \in S : <<j, i>> \in R}) = k - 1
<1> DEFINE n == Cardinality(S)
           D(i) == {j \in S : <<j, i>> \in R}
           f == [i \in S |-> Cardinality(D(i))]
<1>1. n \in Nat BY FS_CardinalityType
<1>2. ASSUME NEW i \in S PROVE IsFiniteSet(D(i)) /\ Cardinality(D(i)) \in 0..(n - 1)
  <2>1. D(i) \in SUBSET (S \ {i}) OBVIOUS
  <2>2. IsFiniteSet(S \ {i}) /\ Cardinality(S \ {i}) = n - 1 BY FS_RemoveElement
  <2> HIDE DEF D, n
  <2>3. IsFiniteSet(D(i)) /\ Cardinality(D(i)) <= n - 1 BY <2>1, <2>2, FS_Subset
  <2>4. Cardinality(D(i)) \in Nat BY <2>3, FS_CardinalityType
  <2> QED BY <1>1, <2>3, <2>4
<1>3. ASSUME NEW i \in S, NEW j \in S, <<i, j>> \in R PROVE Cardinality(D(i)) # Cardinality(D(j))
  <2>1. D(i) \in SUBSET (D(j) \ {i}) /\ i \in D(j) BY <1>3
  <2>2. IsFiniteSet(D(j)) /\ Cardinality(D(j)) \in Nat /\ Cardinality(D(i)) \in Nat
    <3>1. IsFiniteSet(D(j)) /\ IsFiniteSet(D(i)) BY <1>2
    <3> HIDE DEF D
    <3> QED BY <3>1, FS_CardinalityType
  <2> HIDE DEF D, n
  <2>3. IsFiniteSet(D(j) \ {i}) /\ Cardinality(D(j) \ {i}) = Cardinality(D(j)) - 1
    <3>1. \A T : IsFiniteSet(T) => IsFiniteSet(T \ {i}) /\ (i \in T => Cardinality(T \ {i}) = Cardinality(T) - 1)
          BY FS_RemoveElement
    <3> QED BY <2>1, <2>2, <3>1, Zenon
  <2>4. Cardinality(D(i)) <= Cardinality(D(j) \ {i}) BY <2>1, <2>3, FS_Subset
  <2> QED BY <2>2, <2>3, <2>4
<1>4. f \in [S -> 0..(n - 1)] BY <1>2
<1>5. \A i, j \in S : i # j => f[i] # f[j]
  <2> SUFFICES ASSUME NEW i \in S, NEW j \in S, i # j PROVE Cardinality(D(i)) # Cardinality(D(j))
      OBVIOUS
  <2>1. CASE <<i, j>> \in R BY <1>3, <2>1
  <2>2. CASE <<j, i>> \in R
    <3>1. Cardinality(D(j)) # Cardinality(D(i)) BY <1>3, <2>2
    <3> QED BY <3>1
  <2> HIDE DEF D
  <2> QED BY <2>1, <2>2
<1>6. IsFiniteSet(0..(n - 1)) /\ Cardinality(0..(n - 1)) = n
  <2> HIDE DEF n
  <2>1. 0 \in Int /\ n - 1 \in Int BY <1>1
  <2>2. Cardinality(0..(n - 1)) = IF 0 > n - 1 THEN 0 ELSE (n - 1) - 0 + 1 BY <2>1, FS_Interval
  <2> QED BY <1>1, <2>1, <2>2, FS_Interval
<1> HIDE DEF n
<1>7. f \in Surjection(S, 0..(n - 1))
  <2> HIDE DEF f
  <2>1. f \in Injection(S, 0..(n - 1)) BY <1>4, <1>5 DEF Injection, IsInjective
  <2>2. Cardinality(S) = Cardinality(0..(n - 1)) BY <1>6 DEF n
  <2> QED BY <1>6, <2>1, <2>2, FS_Injection
<1> SUFFICES ASSUME NEW k \in 1..n PROVE \E i \in S : Cardinality(D(i)) = k - 1
    BY DEF n
<1>8. k - 1 \in 0..(n - 1) BY <1>1
<1>9. \E i \in S : f[i] = k - 1
  <2> HIDE DEF f
  <2> QED BY <1>7, <1>8 DEF Surjection
<1> QED BY <1>9

Reads == {r \in Requests : Timeable(r)}

\* What a checkup times it may time.
LEMMA TimeableFacts ==
  ASSUME NEW defined \in Seq(Requests)
  PROVE  timeableRequests(defined) \in Seq(Reads)
<1> DEFINE S == {i \in DOMAIN defined : Timeable(defined[i])}
           before(i) == {j \in S : \/ Widest(defined[j]) > Widest(defined[i])
                                   \/ Widest(defined[j]) = Widest(defined[i]) /\ j < i}
           nth(k) == CHOOSE i \in S : Cardinality(before(i)) = k - 1
           m == Min({Cardinality(S), Samples})
           R == {p \in S \X S : \/ Widest(defined[p[1]]) > Widest(defined[p[2]])
                                \/ Widest(defined[p[1]]) = Widest(defined[p[2]]) /\ p[1] < p[2]}
<1>1. timeableRequests(defined) = [k \in 1..m |-> defined[nth(k)]] BY DEF timeableRequests
<1>2. DOMAIN defined = 1..Len(defined) /\ Len(defined) \in Nat /\ \A i \in DOMAIN defined : defined[i] \in Requests
      OBVIOUS
<1>3. IsFiniteSet(S)
  <2>1. IsFiniteSet(1..Len(defined)) BY <1>2, FS_Interval
  <2>2. S \in SUBSET (1..Len(defined)) BY <1>2
  <2> HIDE DEF S
  <2> QED BY <2>1, <2>2, FS_Subset
<1>4. \A i \in S : Widest(defined[i]) \in Nat /\ i \in Nat /\ defined[i] \in Reads
  <2>1. \A r \in Requests : Widest(r) \in Nat
    <3>1. \A r \in Requests : r.first \in Nat /\ r.count \in Nat BY CommandAssumption
    <3> QED BY <3>1 DEF Widest
  <2> QED BY <1>2, <2>1 DEF Reads
<1>5. \A k \in 1..Cardinality(S) : \E i \in S : Cardinality({j \in S : <<j, i>> \in R}) = k - 1
  <2> DEFINE w(i) == Widest(defined[i])
  <2>1. \A i \in S : w(i) \in Nat /\ i \in Nat BY <1>4
  <2>2. \A i, j \in S : <<i, j>> \in R <=> w(i) > w(j) \/ (w(i) = w(j) /\ i < j)
    <3> HIDE DEF S
    <3> QED OBVIOUS
  <2> HIDE DEF S, w, R
  <2>3. \A i \in S : <<i, i>> \notin R BY <2>1, <2>2
  <2>4. \A i, j \in S : i # j => <<i, j>> \in R \/ <<j, i>> \in R BY <2>1, <2>2
  <2>5. \A i, j, k \in S : <<i, j>> \in R /\ <<j, k>> \in R => <<i, k>> \in R BY <2>1, <2>2
  <2> QED BY <1>3, <2>3, <2>4, <2>5, Ranks
<1>6. \A i \in S : {j \in S : <<j, i>> \in R} = before(i)
  <2> HIDE DEF S
  <2> QED OBVIOUS
<1>7. ASSUME NEW k \in 1..Cardinality(S) PROVE nth(k) \in S
  <2>1. \E i \in S : Cardinality(before(i)) = k - 1
    <3> HIDE DEF S, R, before
    <3> QED BY <1>5, <1>6
  <2> HIDE DEF S, before
  <2> QED BY <2>1
<1>8. m \in Nat /\ 1..m \subseteq 1..Cardinality(S)
  <2> DEFINE c == Cardinality(S)
  <2>1. c \in Nat /\ Samples \in Nat BY <1>3, FS_CardinalityType, CommandAssumption
  <2> HIDE DEF c
  <2>2. Min({c, Samples}) \in {c, Samples} /\ Min({c, Samples}) <= c
    <3>1. \E x \in {c, Samples} : \A y \in {c, Samples} : x =< y BY <2>1
    <3> QED BY <3>1 DEF Min
  <2>3. m = Min({c, Samples}) BY DEF c
  <2> HIDE DEF m
  <2>4. m \in Nat /\ m <= c BY <2>1, <2>2, <2>3
  <2>5. 1..m \subseteq 1..c BY <2>1, <2>4
  <2> QED BY <2>4, <2>5 DEF c
<1>9. \A k \in 1..m : defined[nth(k)] \in Reads
  <2> SUFFICES ASSUME NEW k \in 1..m PROVE defined[nth(k)] \in Reads
      OBVIOUS
  <2>1. nth(k) \in S BY <1>7, <1>8
  <2> HIDE DEF S, nth, m
  <2> QED BY <1>4, <2>1
<1> HIDE DEF m, nth
<1>10. [k \in 1..m |-> defined[nth(k)]] \in [1..m -> Reads] BY <1>9
<1> QED BY <1>1, <1>8, <1>10

-----------------------------------------------------------------------------
(* A checkup: where it stands says what it has found, reported and sent. *)

Checkup == args.command = "checkup"

Notes == {"unloaded", "unattached", "examined"}

Examining ==
  /\ step \in 1..4 /\ found \in Nat /\ module \in Nat \ {0} /\ module <= found + 1
  /\ findings \in Seq([module : Nat, note : Notes]) /\ Len(findings) = module - 1
  /\ \A i \in 1..(module - 1) : findings[i].module = i
  /\ step <= 2 => module = 1
  /\ step = 4 => module = found + 1

\* A request is to measure with, and reads, or to read faults with.
Asks(s) == s.as = "faults" \/ (s.as = "timing" /\ s.service \in ReadServices)

\* A module is asked only when it has been attached to, and one that has been is reported as examined.
Asked ==
  /\ \A s \in sent : Asks(s) /\ s.of \in 1..module
  /\ doing \in {"loading", "attaching"} => \A s \in sent : s.of # module
  /\ \A i \in 1..(module - 1) : findings[i].note # "examined" => \A s \in sent : s.of # i

\* Only a module found is examined.
ExaminesInTurn ==
  /\ doing \in {"loading", "attaching", "timing", "faults"}
  /\ doing # "loading" => step = 3 /\ module <= found
  /\ doing = "attaching" => requests \in Seq(Requests)
  /\ doing = "timing" => requests \in Seq(Reads)

CheckupInv == Checkup => Examining /\ ExaminesInTurn /\ Asked

LEMMA CheckupSteps ==
  ASSUME Checkup
  PROVE  /\ Command.steps[1] = "identify" /\ Command.steps[2] = "sweep"
         /\ Command.steps[3] = "examine" /\ Command.steps[4] = "write the report"
         /\ Len(Command.steps) = 4
<1>1. Command = Commands["checkup"] BY Zenon DEF Checkup, Command
<1>2. Commands["checkup"] = cmdCheckup
  <2> HIDE DEF cmdCheckup
  <2> QED BY DEF Commands
<1> DEFINE Steps == <<"identify", "sweep", "examine", "write the report">>
<1>3. Command.steps = Steps
  <2>1. cmdCheckup = [needs |-> {}, database |-> TRUE, looksUp |-> FALSE, steps |-> Steps] BY Zenon DEF cmdCheckup
  <2> HIDE DEF Steps
  <2> QED BY <1>1, <1>2, <2>1
<1>4. /\ Steps[1] = "identify" /\ Steps[2] = "sweep" /\ Steps[3] = "examine"
      /\ Steps[4] = "write the report" /\ Len(Steps) = 4
  OBVIOUS
<1> QED BY <1>3, <1>4, Zenon

\* Where a step of the command's stands, in a checkup.
LEMMA CheckupAt ==
  ASSUME Checkup, step \in 1..4
  PROVE  /\ At("sweep") => step = 2
         /\ At("examine") => step = 3
         /\ Command.steps[step] = "write the report" => step = 4
         /\ At("faults") = FALSE /\ At("confirm") = FALSE /\ At("erase") = FALSE
         /\ At("measure 2E01") = FALSE
         /\ Command.steps[step] \in PlainSteps => step = 1
<1>1. step = 1 \/ step = 2 \/ step = 3 \/ step = 4 OBVIOUS
<1>2. CASE step = 1 BY <1>2, CheckupSteps DEF At
<1>3. CASE step = 2 BY <1>3, CheckupSteps DEF At, PlainSteps
<1>4. CASE step = 3 BY <1>4, CheckupSteps DEF At, PlainSteps
<1>5. CASE step = 4 BY <1>5, CheckupSteps DEF At, PlainSteps
<1> QED BY <1>1, <1>2, <1>3, <1>4, <1>5

\* A step that is not of the examination moves the step alone.
LEMMA OtherSteps ==
  ASSUME Checkup, Examining, ExaminesInTurn, Asked, UNCHANGED <<line, reportVars, sent>>,
         \/ step' = step
         \/ step' = step + 1 /\ step # 4 /\ step # 2 /\ doing = "loading"
            /\ (step = 3 => module > found)
  PROVE  (Examining /\ ExaminesInTurn /\ Asked)'
<1>1. Examining'
  BY DEF Examining, reportVars
<1>2. ExaminesInTurn'
  <2>1. doing # "loading" => step' = 3 /\ module <= found BY DEF ExaminesInTurn
  <2> QED BY <2>1 DEF ExaminesInTurn, reportVars
<1>3. Asked' BY DEF Asked, reportVars
<1> QED BY <1>1, <1>2, <1>3

\* What is sent is sent to the module being examined.
Adds == \A s \in sent' : s \in sent \/ (Asks(s) /\ s.of = module)

\* A module is reported once, after those before it; one that is not reported as examined has been asked
\* nothing.
LEMMA ReportsFacts ==
  ASSUME Examining, ExaminesInTurn, NEW note \in Notes, step = 3, module <= found, Reports(note),
         UNCHANGED <<step, found>>, Asked,
         Adds, note = "examined" \/ (doing \in {"loading", "attaching"} /\ sent' = sent)
  PROVE  (Examining /\ ExaminesInTurn /\ Asked)'
<1> DEFINE r == [module |-> module, note |-> note]
<1>1. module' = module + 1 /\ doing' = "loading" /\ findings' = Append(findings, r)
  BY DEF Reports, GoesToNextModule
<1>2. module \in Nat \ {0} /\ (module + 1) - 1 = module /\ findings \in Seq([module : Nat, note : Notes])
      /\ Len(findings) = module - 1 /\ \A i \in 1..(module - 1) : findings[i].module = i
  BY DEF Examining
<1>3. r \in [module : Nat, note : Notes] /\ r.module = module /\ r.note = note BY <1>2
<1> HIDE DEF r
<1>4. /\ findings' \in Seq([module : Nat, note : Notes]) /\ Len(findings') = module /\ findings'[module] = r
      /\ \A i \in 1..(module - 1) : findings'[i] = findings[i]
  BY <1>1, <1>2, <1>3
<1>5. \A i \in 1..module : i = module \/ i \in 1..(module - 1) BY <1>2
<1>6. Examining'
  <2>1. \A i \in 1..module : findings'[i].module = i BY <1>2, <1>3, <1>4, <1>5
  <2>2. module' \in Nat \ {0} /\ module' <= found' + 1 /\ module' - 1 = module /\ step' = 3 /\ found' \in Nat
    BY <1>1, <1>2 DEF Examining
  <2>3. step' \in 1..4 /\ (step' <= 2 => module' = 1) /\ (step' = 4 => module' = found' + 1) BY <2>2
  <2>4. Len(findings') = module' - 1 /\ \A i \in 1..(module' - 1) : findings'[i].module = i BY <1>4, <2>1, <2>2
  <2>5. findings' \in Seq([module : Nat, note : Notes]) BY <1>4
  <2> QED BY <2>2, <2>3, <2>4, <2>5 DEF Examining
<1>7. ExaminesInTurn' BY <1>1 DEF ExaminesInTurn
<1>8. Asked'
  <2>1. \A s \in sent : Asks(s) /\ s.of \in 1..module BY DEF Asked
  <2>2. \A s \in sent' : Asks(s) /\ s.of \in 1..module BY <1>2, <2>1 DEF Adds
  <2>3. \A n \in 1..module : n \in 1..(module + 1) /\ n # module + 1 BY <1>2
  <2>4. \A s \in sent' : Asks(s) /\ s.of \in 1..module' /\ s.of # module' BY <1>1, <2>2, <2>3
  <2>5. ASSUME NEW i \in 1..module, findings'[i].note # "examined", NEW s \in sent' PROVE s.of # i
    <3>1. CASE i = module
      <4>1. sent' = sent /\ doing \in {"loading", "attaching"} BY <1>3, <1>4, <2>5, <3>1
      <4> QED BY <2>5, <3>1, <4>1 DEF Asked
    <3>2. CASE i \in 1..(module - 1)
      <4>1. findings[i].note # "examined" /\ i # module BY <1>2, <1>4, <2>5, <3>2
      <4>2. s \in sent \/ s.of = module BY <2>5 DEF Adds
      <4> QED BY <3>2, <4>1, <4>2 DEF Asked
    <3> QED BY <1>5, <2>5, <3>1, <3>2
  <2> QED BY <1>1, <1>2, <2>4, <2>5 DEF Asked
<1> QED BY <1>6, <1>7, <1>8

\* A request to the module being timed.
LEMMA AskedGrows ==
  ASSUME Examining, Asked, NEW new, Asks(new), new.of = module, sent' = sent \cup {new}, doing = "timing",
         UNCHANGED <<module, doing, findings>>
  PROVE  Asked'
<1>1. module \in Nat \ {0} BY DEF Examining
<1>2. module \in 1..module /\ \A i \in 1..(module - 1) : i # module BY <1>1
<1> QED BY <1>2 DEF Asked

LEMMA CheckupInit == Init => CheckupInv
<1> SUFFICES ASSUME CommandInit PROVE Examining /\ ExaminesInTurn /\ Asked
    BY DEF Init, CheckupInv
<1>1. Examining
  <2>1. <<>> \in Seq([module : Nat, note : Notes]) /\ Len(<<>>) = 1 - 1 /\ 1..(1 - 1) = {} OBVIOUS
  <2> QED BY <2>1 DEF CommandInit, Examining
<1>2. ExaminesInTurn BY DEF CommandInit, ExaminesInTurn
<1>3. Asked
  <2>1. 1..(1 - 1) = {} OBVIOUS
  <2> QED BY <2>1 DEF CommandInit, Asked
<1> QED BY <1>1, <1>2, <1>3

LEMMA CheckupNext == CheckupInv /\ [CommandNext]_commandVars => CheckupInv'
<1> SUFFICES ASSUME CheckupInv, [CommandNext]_commandVars, Checkup'
             PROVE  (Examining /\ ExaminesInTurn /\ Asked)'
    BY DEF CheckupInv
<1>1. line' = line
  BY DEF CommandNext, commandVars, Dispatch, Loaded, NodeOpens, NodeCloses, TakesStep, MeasuresWrite, Sweeps,
         CheckupSweeps, ReadsFaults, confirm, Erases, ModuleLoads, ModuleAttaches, ModuleTimes, ModuleTimed,
         ModuleFaults, Examined, WritesReport
<1>2. Checkup /\ Examining /\ ExaminesInTurn /\ Asked
  <2>1. args' = args BY <1>1 DEF args
  <2>2. Checkup BY <2>1 DEF Checkup
  <2> QED BY <2>2 DEF CheckupInv
<1>3. step \in 1..4 BY <1>2 DEF Examining
<1>4. Len(Command.steps) = 4 BY <1>2, CheckupSteps
<1> DEFINE Names == /\ At("sweep") => step = 2
                    /\ At("examine") => step = 3
                    /\ Command.steps[step] = "write the report" => step = 4
                    /\ At("faults") = FALSE /\ At("confirm") = FALSE /\ At("erase") = FALSE
                    /\ At("measure 2E01") = FALSE
                    /\ Command.steps[step] \in PlainSteps => step = 1
<1>5. Names BY <1>2, <1>3, CheckupAt
<1>6. CASE UNCHANGED <<line, step, reportVars, sent>>
  BY <1>2, <1>6, OtherSteps
<1>7. CASE Dispatch \/ Loaded \/ NodeOpens \/ NodeCloses
  <2>1. UNCHANGED <<line, step, reportVars, sent>>
    BY <1>7 DEF Dispatch, Loaded, NodeOpens, NodeCloses
  <2> QED BY <1>6, <2>1
<1>8. ASSUME GoesOnToNext \/ Throws PROVE step' = step \/ (step' = step + 1 /\ step # 4)
  BY <1>4, <1>8 DEF GoesOnToNext, Throws
<1>9. CASE TakesStep
  <2>1. step = 1 /\ UNCHANGED <<line, reportVars, sent>> /\ (GoesOnToNext \/ Throws) BY <1>5, <1>9 DEF TakesStep
  <2>2. step' = step \/ (step' = step + 1 /\ step # 4) BY <1>8, <2>1
  <2>3. doing = "loading" BY <1>2, <2>1 DEF ExaminesInTurn
  <2> QED BY <1>2, <2>1, <2>2, <2>3, OtherSteps
<1>10. CASE MeasuresWrite \/ ReadsFaults \/ confirm \/ Erases
  BY <1>5, <1>10 DEF MeasuresWrite, ReadsFaults, confirm, Erases
<1>11. CASE Sweeps
  BY <1>2, <1>11 DEF Sweeps, Checkup
<1>12. CASE CheckupSweeps
  <2>1. step = 2 /\ doing = "loading" /\ module = 1
    <3>1. step = 2
      <4>1. At("sweep") BY <1>12 DEF CheckupSweeps
      <4> QED BY <1>5, <4>1
    <3> QED BY <1>2, <3>1 DEF ExaminesInTurn, Examining
  <2>2. CASE Throws /\ UNCHANGED found
    <3>1. UNCHANGED <<line, step, reportVars, sent>> BY <1>12, <2>2 DEF CheckupSweeps, Throws, reportVars
    <3> QED BY <1>6, <3>1
  <2>3. CASE GoesOnToNext /\ found' \in 0..MaxModules
    <3>1. step' = 3 BY <1>4, <2>1, <2>3 DEF GoesOnToNext
    <3>2. UNCHANGED <<module, doing, requests, attached, findings, sent>> BY <1>12 DEF CheckupSweeps
    <3>3. found' \in Nat BY <2>3, CommandAssumption
    <3>4. Examining'
      <4>1. /\ findings' \in Seq([module : Nat, note : Notes]) /\ Len(findings') = module' - 1
            /\ \A i \in 1..(module' - 1) : findings'[i].module = i
        BY <1>2, <3>2 DEF Examining
      <4>2. module' = 1 /\ step' = 3 /\ found' \in Nat BY <2>1, <3>1, <3>2, <3>3
      <4>3. \A n \in Nat : 1 <= n + 1 OBVIOUS
      <4>4. module' <= found' + 1 BY <4>2, <4>3, Zenon
      <4>5. 3 \in 1..4 /\ 1 \in Nat \ {0} /\ ~(3 <= 2) /\ 3 # 4 OBVIOUS
      <4> QED BY <4>1, <4>2, <4>4, <4>5, Zenon DEF Examining
    <3>5. ExaminesInTurn' BY <1>2, <2>1, <3>1, <3>2 DEF ExaminesInTurn
    <3>6. Asked' BY <1>2, <3>2 DEF Asked
    <3> QED BY <3>4, <3>5, <3>6
  <2> QED BY <1>12, <2>2, <2>3 DEF CheckupSweeps
<1>13. ASSUME ModuleLoads \/ ModuleAttaches \/ ModuleTimes \/ ModuleTimed \/ ModuleFaults
       PROVE  UNCHANGED <<step, found>> /\ step = 3
  BY <1>5, <1>13 DEF ModuleLoads, ModuleAttaches, ModuleTimes, ModuleTimed, ModuleFaults
<1>14. CASE ModuleLoads
  <2>1. UNCHANGED <<step, found, attached, sent>> /\ step = 3 /\ module <= found /\ doing = "loading"
    BY <1>13, <1>14 DEF ModuleLoads
  <2>2. CASE Reports("unloaded")
    <3>1. Adds BY <2>1 DEF Adds
    <3>2. "unloaded" \in Notes BY DEF Notes
    <3> QED BY <1>2, <2>1, <2>2, <3>1, <3>2, ReportsFacts
  <2>3. CASE doing' = "attaching" /\ requests' \in SeqOf(Requests, MaxRequests) /\ UNCHANGED <<module, timed, findings>>
    <3>1. requests' \in Seq(Requests) BY <2>3 DEF SeqOf
    <3>2. Examining' BY <1>2, <2>1, <2>3 DEF Examining
    <3>3. ExaminesInTurn' BY <1>2, <2>1, <2>3, <3>1 DEF ExaminesInTurn
    <3>4. Asked' BY <1>2, <2>1, <2>3 DEF Asked
    <3> QED BY <3>2, <3>3, <3>4
  <2> QED BY <1>14, <2>2, <2>3 DEF ModuleLoads
<1>15. CASE ModuleAttaches
  <2>1. UNCHANGED <<step, found, sent>> /\ step = 3 /\ module <= found /\ requests \in Seq(Requests)
        /\ doing = "attaching"
    BY <1>2, <1>13, <1>15 DEF ModuleAttaches, ExaminesInTurn
  <2>2. CASE AfterAttachFailure
    <3>1. Adds BY <2>1 DEF Adds
    <3>2. "unattached" \in Notes BY DEF Notes
    <3>3. Reports("unattached") BY <2>2 DEF AfterAttachFailure
    <3> QED BY <1>2, <2>1, <3>1, <3>2, <3>3, ReportsFacts
  <2>3. CASE GoesOnToTimeIt /\ UNCHANGED findings
    <3>1. doing' = "timing" /\ requests' = timeableRequests(requests) /\ UNCHANGED <<module, timed, findings>>
      BY <2>3 DEF GoesOnToTimeIt
    <3>2. requests' \in Seq(Reads) BY <2>1, <3>1, TimeableFacts
    <3>3. Examining' BY <1>2, <2>1, <3>1 DEF Examining
    <3>4. ExaminesInTurn' BY <1>2, <2>1, <3>1, <3>2 DEF ExaminesInTurn
    <3>5. Asked' BY <1>2, <2>1, <3>1 DEF Asked
    <3> QED BY <3>3, <3>4, <3>5
  <2> QED BY <1>15, <2>2, <2>3 DEF ModuleAttaches
<1>16. CASE ModuleTimes
  <2> DEFINE new == Sent("timing", module, Head(requests).service)
  <2>1. /\ UNCHANGED <<step, found, module, doing, attached, findings>> /\ step = 3
        /\ doing = "timing" /\ requests # <<>> /\ requests' = Tail(requests) /\ sent' = sent \cup {new}
    BY <1>13, <1>16 DEF ModuleTimes
  <2>2. requests \in Seq(Reads) BY <1>2, <2>1 DEF ExaminesInTurn
  <2>3. requests' \in Seq(Reads) /\ Head(requests) \in Reads BY <2>1, <2>2
  <2>4. Head(requests).service \in ReadServices BY <2>3 DEF Reads, Timeable
  <2>5. Asks(new) /\ new.of = module BY <2>4 DEF Sent, Asks
  <2> HIDE DEF new
  <2>6. Examining' BY <1>2, <2>1 DEF Examining
  <2>7. ExaminesInTurn' BY <1>2, <2>1, <2>3 DEF ExaminesInTurn
  <2>8. Asked' BY <1>2, <2>1, <2>5, AskedGrows
  <2> QED BY <2>6, <2>7, <2>8
<1>17. CASE ModuleTimed
  <2>1. UNCHANGED <<step, found, module, attached, findings, sent>> /\ step = 3 /\ doing = "timing" /\ doing' = "faults"
    BY <1>13, <1>17 DEF ModuleTimed
  <2>2. Examining' BY <1>2, <2>1 DEF Examining
  <2>3. ExaminesInTurn' BY <1>2, <2>1 DEF ExaminesInTurn
  <2>4. Asked' BY <1>2, <2>1 DEF Asked
  <2> QED BY <2>2, <2>3, <2>4
<1>18. CASE ModuleFaults
  <2>1. UNCHANGED <<step, found>> /\ step = 3 /\ doing = "faults" /\ Reports("examined")
    BY <1>13, <1>18 DEF ModuleFaults
  <2>2. module <= found BY <1>2, <2>1 DEF ExaminesInTurn
  <2>3. Adds
    <3>1. PICK services \in SUBSET FaultServices :
              sent' = sent \cup {Sent("faults", module, service) : service \in services}
      BY <1>18 DEF ModuleFaults
    <3>2. \A service : Asks(Sent("faults", module, service)) /\ Sent("faults", module, service).of = module
      BY DEF Asks, Sent
    <3> QED BY <3>1, <3>2 DEF Adds
  <2>4. "examined" \in Notes BY DEF Notes
  <2> QED BY <1>2, <2>1, <2>2, <2>3, <2>4, ReportsFacts
<1>19. CASE Examined
  <2>1. step = 3 /\ module > found /\ UNCHANGED <<line, reportVars, sent>> /\ GoesOnToNext BY <1>5, <1>19 DEF Examined
  <2>2. step' = step \/ (step' = step + 1 /\ step # 4) BY <1>8, <2>1
  <2>3. doing = "loading"
    <3>1. ~(module <= found) BY <1>2, <2>1 DEF Examining
    <3> QED BY <1>2, <3>1 DEF ExaminesInTurn
  <2> QED BY <1>2, <2>1, <2>2, <2>3, OtherSteps
<1>20. CASE WritesReport
  <2>1. step = 4 /\ UNCHANGED <<line, reportVars, sent>> /\ (GoesOnToNext \/ Throws)
    BY <1>5, <1>20 DEF WritesReport, At
  <2>2. step' = step BY <1>8, <2>1
  <2> QED BY <1>6, <2>1, <2>2
<1>21. CASE UNCHANGED commandVars
  BY <1>6, <1>21 DEF commandVars
<1> QED BY <1>7, <1>9, <1>10, <1>11, <1>12, <1>14, <1>15, <1>16, <1>17, <1>18, <1>19, <1>20, <1>21 DEF CommandNext

LEMMA InvKeepsItsWord == CheckupInv => ReportKeepsItsWord
<1> SUFFICES ASSUME Checkup, Examining, ExaminesInTurn, Asked
             PROVE  /\ \A s \in sent : Asks(s)
                    /\ \A i \in DOMAIN findings : findings[i].note # "examined" =>
                           \A s \in sent : s.of # findings[i].module
                    /\ at = "running" /\ Command.steps[step] = "write the report" =>
                           Len(findings) = found /\ \A i \in 1..found : findings[i].module = i
    BY DEF CheckupInv, ReportKeepsItsWord, Checkup, Asks
<1>1. \A s \in sent : Asks(s) BY DEF Asked
<1>2. DOMAIN findings = 1..(module - 1) BY DEF Examining
<1>3. ASSUME NEW i \in DOMAIN findings, findings[i].note # "examined", NEW s \in sent PROVE s.of # findings[i].module
  <2>1. i \in 1..(module - 1) BY <1>2
  <2>2. findings[i].module = i BY <2>1 DEF Examining
  <2> QED BY <1>3, <2>1, <2>2 DEF Asked
<1>4. ASSUME Command.steps[step] = "write the report"
      PROVE  Len(findings) = found /\ \A i \in 1..found : findings[i].module = i
  <2>1. step \in 1..4 BY DEF Examining
  <2>2. step = 4 BY <1>4, <2>1, CheckupAt
  <2>3. module - 1 = found BY <2>2 DEF Examining
  <2> QED BY <2>3 DEF Examining
<1> QED BY <1>1, <1>3, <1>4

\* What a checkup promises (checkup.ts): it measures with reads only, a module it reports as not loaded or
\* not attached has been asked nothing, and the report lists every module the sweep found, once and in
\* order, whichever failed.
THEOREM ReportIsKept == Spec => []ReportKeepsItsWord
<1>1. CheckupInv /\ [Next]_<<host, serialVars, commandVars>> => CheckupInv'
  <2> SUFFICES ASSUME CheckupInv, [Next]_<<host, serialVars, commandVars>> PROVE CheckupInv'
      OBVIOUS
  <2>1. [CommandNext]_commandVars BY DEF Next
  <2> QED BY <2>1, CheckupNext
<1> QED BY <1>1, CheckupInit, InvKeepsItsWord, PTL DEF Spec
=============================================================================
