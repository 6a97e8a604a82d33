---------------------------- MODULE Driver_proofs ----------------------------
(***************************************************************************)
(* Theorems about packages/elm/src/driver.ts: ElmDriver, which points the  *)
(* adapter at an ECU, and CanExchange, one request over CAN.               *)
(*                                                                         *)
(* For any flows, ECUs and addresses: a flow that began an attach or a     *)
(* sweep, has been alone on the driver since and has lost no command has   *)
(* the adapter at its ECU once it is ready.  Nothing need be known of what *)
(* the adapter was set to before: no call is skipped until the flow has    *)
(* sent a whole method of its own.                                         *)
(*                                                                         *)
(* For any requests, answers and block sizes, and exchanges of any length: *)
(* a driver that answers flow control itself overlooks none of the ECU's,  *)
(* for what it writes without looking ends just where the ECU asks again;  *)
(* a value that is returned is whole, for the lines that are kept come in  *)
(* the order of the reply and their numbers leave no gap; and it is the    *)
(* answer where nothing is lost and the adapter answers flow control.      *)
(***************************************************************************)
EXTENDS ElmDriver, CanExchange, SequenceTheorems, FiniteSetTheorems, WellFoundedInduction, TLAPS

-----------------------------------------------------------------------------
(* ElmDriver: pointing the adapter at an ECU. *)

(* Once a method of the flow is under way, the driver's belief is the      *)
(* flow's.                                                                 *)
Believed(f) == protocol = Protocol(want[f]) /\ currentAddress = Address[want[f]]

(* What the commands of a setAddress have done when the next is at[f].     *)
CanProgress(s, n, e) ==
  /\ n > 1 => s.header = Address[e]
  /\ n > 2 => s.line = "can"
  /\ n > 3 => s.raw
  /\ n > 4 => s.filter = Receive[e]

KlineProgress(s, n, a) ==
  /\ n > 1 => s.header = a
  /\ n > 2 => s.wakes = a
  /\ n > 3 => s.line \in {"kwp", "iso8"}

Progress(f) ==
  LET e == want[f] IN
  IF Bus[e] = "can"
  THEN CanProgress(adapter, at[f], e)
  ELSE /\ KlineProgress(adapter, at[f], Address[e])
       /\ f \in confirmed => at[f] > Len(Commands(f)) /\ adapter.woken = Address[e]

(* The inductive invariant, of the flow that has had the driver to itself. *)
InPlace(f) ==
  /\ stage[f] = "init" => currentAddress = None
  /\ stage[f] = "address" => Believed(f) /\ Progress(f)
  /\ stage[f] = "ready" => Believed(f) /\ SetFor(f, want[f])

SoloInv == \A f \in Flows : solo = f => InPlace(f)

DriverInv == TypeOK /\ SoloInv

-----------------------------------------------------------------------------
(* The methods' commands.                                                  *)
LEMMA MethodLengths ==
  /\ Len(InitCanCommands) = 2 /\ Len(InitIsoCommands) = 1
  /\ Len(SetCanAddressCommands) = 4 /\ Len(CloseProtocolCommands) = 1
BY DEF InitCanCommands, InitIsoCommands, SetCanAddressCommands, CloseProtocolCommands

LEMMA MethodCommands ==
  /\ InitCanCommands[1] = "AT WS" /\ InitCanCommands[2] = "AT CAF0"
  /\ InitIsoCommands[1] = "AT WS" /\ CloseProtocolCommands[1] = "ATPC"
  /\ SetCanAddressCommands[1] = "AT SH" /\ SetCanAddressCommands[2] = "AT SP CAN"
  /\ SetCanAddressCommands[3] = "AT CAF0" /\ SetCanAddressCommands[4] = "AT CRA"
BY DEF InitCanCommands, InitIsoCommands, SetCanAddressCommands, CloseProtocolCommands

(* A K-line method names the ECU, to the bus and to the keep-alive, before *)
(* it selects a protocol, and selects one before each handshake.           *)
IsKlineMethod(c) ==
  /\ Len(c) \in {4, 6}
  /\ c[1] = "AT SH" /\ c[2] = "AT WM" /\ c[3] \in {"AT SP KWP", "AT SP ISO8"}
  /\ c[4] \in {"AT SI", "AT FI"}
  /\ Len(c) = 6 => c[5] = "AT SP KWP" /\ c[6] = "AT FI"

LEMMA KlineCommands ==
  /\ IsKlineMethod(SetIso8AddressCommands)
  /\ \A slow \in BOOLEAN : IsKlineMethod(SetIsoAddressCommands(slow))
<1>1. IsKlineMethod(SetIso8AddressCommands)
      BY DEF IsKlineMethod, SetIso8AddressCommands
<1>2. IsKlineMethod(SetIsoAddressCommands(TRUE))
      BY DEF IsKlineMethod, SetIsoAddressCommands
<1>3. IsKlineMethod(SetIsoAddressCommands(FALSE))
      BY DEF IsKlineMethod, SetIsoAddressCommands
<1> QED BY <1>1, <1>2, <1>3

LEMMA UpToSix ==
  \A n, l \in Nat :
    n # 0 /\ n =< l /\ l \in {1, 2, 4, 6} =>
      /\ n + 1 \in 1 .. 7 /\ l + 1 \in 1 .. 7
      /\ l = 4 => n = 1 \/ n = 2 \/ n = 3 \/ n = 4
      /\ n = 1 \/ n = 2 \/ n = 3 \/ n = 4 \/ (l = 6 /\ (n = 5 \/ n = 6))
OBVIOUS

LEMMA PastFour ==
  /\ \A n \in Nat : n > 4 => n > 1 /\ n > 2 /\ n > 3
  /\ \A n \in Nat : n > 6 => n > 4
  /\ 4 + 1 = 5 /\ 6 + 1 = 7
OBVIOUS

LEMMA AddressCommands ==
  ASSUME NEW f \in Flows, stage[f] = "address"
  PROVE  IF Bus[want[f]] = "can" THEN Commands(f) = SetCanAddressCommands
                                 ELSE IsKlineMethod(Commands(f))
<1>1. CASE Bus[want[f]] = "can"
      BY <1>1 DEF Commands
<1>2. CASE Bus[want[f]] = "iso8" /\ f \notin sweeping
  <2>1. Commands(f) = SetIso8AddressCommands BY <1>2 DEF Commands
  <2> QED BY <1>2, <2>1, KlineCommands
<1>3. CASE Bus[want[f]] # "can" /\ (Bus[want[f]] # "iso8" \/ f \in sweeping)
  <2>1. PICK slow \in BOOLEAN : Commands(f) = SetIsoAddressCommands(slow)
        BY <1>3 DEF Commands
  <2> QED BY <1>3, <2>1, KlineCommands
<1> QED BY <1>1, <1>2, <1>3

LEMMA CommandsLength ==
  ASSUME NEW f \in Flows, stage[f] \in {"init", "address", "close"}
  PROVE  Len(Commands(f)) \in {1, 2, 4, 6}
<1>1. CASE stage[f] = "init"
  <2>1. Commands(f) = InitCanCommands \/ Commands(f) = InitIsoCommands
        BY <1>1 DEF Commands
  <2> QED BY <2>1, MethodLengths
<1>2. CASE stage[f] = "close"
  <2>1. Commands(f) = CloseProtocolCommands BY <1>2 DEF Commands
  <2> QED BY <2>1, MethodLengths
<1>3. CASE stage[f] = "address"
  <2>1. CASE Bus[want[f]] = "can"
    <3>1. Commands(f) = SetCanAddressCommands BY <1>3, <2>1, AddressCommands
    <3> QED BY <3>1, MethodLengths
  <2>2. CASE Bus[want[f]] # "can"
    <3>1. IsKlineMethod(Commands(f)) BY <1>3, <2>2, AddressCommands
    <3> QED BY <3>1 DEF IsKlineMethod
  <2> QED BY <2>1, <2>2
<1> QED BY <1>1, <1>2, <1>3

-----------------------------------------------------------------------------
LEMMA InitInv == Init => DriverInv
<1> SUFFICES ASSUME Init PROVE DriverInv
    OBVIOUS
<1> USE NoneAssumption, EcusAssumption DEF Init
<1>1. TypeOK BY DEF TypeOK, Settings, Reset
<1>2. SoloInv BY DEF SoloInv
<1> QED BY <1>1, <1>2 DEF DriverInv

Settable == {"AT WS", "AT CAF0", "AT SH", "AT CRA", "AT WM",
             "AT SP CAN", "AT SP KWP", "AT SP ISO8", "ATPC"}

(* What the adapter may be set to after a command.                         *)
LEMMA EffectsTyped ==
  ASSUME adapter \in Settings, NEW e \in Ecus, NEW c \in Settable,
         NEW s \in Effects(c, e)
  PROVE  s \in Settings
<1>0. Address[e] \in Addresses /\ Receive[e] \in Addresses BY EcusAssumption
<1>1. CASE c = "AT WS"
  <2>1. s = Reset BY <1>1 DEF Effects
  <2>2. FALSE \in BOOLEAN OBVIOUS
  <2> QED BY <2>1, <2>2 DEF Reset, Settings
<1>2. CASE c \in {"AT CAF0", "AT SH", "AT CRA", "AT WM", "ATPC"}
  <2>1. CASE c = "AT CAF0" BY <2>1 DEF Effects, Settings
  <2>2. CASE c = "AT SH"   BY <1>0, <2>2 DEF Effects, Settings
  <2>3. CASE c = "AT CRA"  BY <1>0, <2>3 DEF Effects, Settings
  <2>4. CASE c = "AT WM"   BY <1>0, <2>4 DEF Effects, Settings
  <2>5. CASE c = "ATPC"    BY <2>5 DEF Effects, Settings
  <2> QED BY <1>2, <2>1, <2>2, <2>3, <2>4, <2>5
<1>3. CASE c \in {"AT SP CAN", "AT SP KWP", "AT SP ISO8"}
  <2>1. PICK line \in {"can", "kwp", "iso8"} : s \in SelectLine(line)
        BY <1>3 DEF Effects
  <2>2. PICK r \in {adapter.raw, FALSE} :
               s = [adapter EXCEPT !.line = line, !.woken = None, !.raw = r]
        BY <2>1 DEF SelectLine
  <2>3. r \in BOOLEAN BY <2>2 DEF Settings
  <2> QED BY <2>2, <2>3 DEF Settings
<1> QED BY <1>1, <1>2, <1>3 DEF Settable

(* ... and every command of a method but the handshakes is one of these.   *)
LEMMA CommandKnown ==
  ASSUME NEW f \in Flows, at[f] \in Nat, at[f] # 0, Sending(f)
  PROVE  LET c == Commands(f)[at[f]] IN c \in Settable \/ c = "AT SI" \/ c = "AT FI"
<1>0. at[f] =< Len(Commands(f)) BY DEF Sending
<1>1. CASE stage[f] = "init"
  <2>1. CASE Commands(f) = InitCanCommands
    <3>1. Len(Commands(f)) = 2 BY <2>1, MethodLengths
    <3>2. at[f] = 1 \/ at[f] = 2 BY <1>0, <3>1
    <3>3. Commands(f)[at[f]] = "AT WS" \/ Commands(f)[at[f]] = "AT CAF0"
          BY <2>1, <3>2, MethodCommands
    <3> QED BY ONLY <3>3 DEF Settable
  <2>2. CASE Commands(f) = InitIsoCommands
    <3>1. Len(Commands(f)) = 1 BY <2>2, MethodLengths
    <3>2. at[f] = 1 BY <1>0, <3>1
    <3>3. Commands(f)[at[f]] = "AT WS"
          BY <2>2, <3>2, MethodCommands
    <3> QED BY ONLY <3>3 DEF Settable
  <2> QED BY <1>1, <2>1, <2>2 DEF Commands
<1>2. CASE stage[f] = "close"
  <2>1. Commands(f) = CloseProtocolCommands BY <1>2 DEF Commands
  <2>2. Len(Commands(f)) = 1 BY <2>1, MethodLengths
  <2>3. at[f] = 1 BY <1>0, <2>2
  <2> QED BY <2>1, <2>3, MethodCommands DEF Settable
<1>3. CASE stage[f] = "address"
  <2>1. CASE Bus[want[f]] = "can"
    <3>1. Commands(f) = SetCanAddressCommands BY <1>3, <2>1, AddressCommands
    <3>2. Len(Commands(f)) = 4 BY <3>1, MethodLengths
    <3>3. at[f] = 1 \/ at[f] = 2 \/ at[f] = 3 \/ at[f] = 4 BY <1>0, <3>2
    <3>4. \/ Commands(f)[at[f]] = "AT SH" \/ Commands(f)[at[f]] = "AT SP CAN"
          \/ Commands(f)[at[f]] = "AT CAF0" \/ Commands(f)[at[f]] = "AT CRA"
          BY <3>1, <3>3, MethodCommands
    <3> QED BY ONLY <3>4 DEF Settable
  <2>2. CASE Bus[want[f]] # "can"
    <3>1. IsKlineMethod(Commands(f)) BY <1>3, <2>2, AddressCommands
    <3>2. Len(Commands(f)) = 4 \/ Len(Commands(f)) = 6 BY <3>1 DEF IsKlineMethod
    <3>3. \/ at[f] = 1 \/ at[f] = 2 \/ at[f] = 3 \/ at[f] = 4
          \/ Len(Commands(f)) = 6 /\ (at[f] = 5 \/ at[f] = 6)
          BY <1>0, <3>2, UpToSix
    <3> QED BY <3>1, <3>3 DEF Settable, IsKlineMethod
  <2> QED BY <2>1, <2>2
<1>4. stage[f] = "init" \/ stage[f] = "close" \/ stage[f] = "address" BY DEF Sending
<1> QED BY <1>1, <1>2, <1>3, <1>4

LEMMA SendingBounds ==
  ASSUME TypeOK, NEW f \in Flows, Sending(f)
  PROVE  /\ at[f] \in Nat /\ at[f] # 0 /\ at[f] + 1 \in 1 .. 7
         /\ Len(Commands(f)) + 1 \in 1 .. 7 /\ want[f] \in Ecus
<1>1. at[f] \in Nat /\ at[f] # 0 BY DEF TypeOK
<1>2. at[f] =< Len(Commands(f)) /\ Len(Commands(f)) \in {1, 2, 4, 6}
      BY CommandsLength DEF Sending
<1>3. Len(Commands(f)) \in Nat BY <1>2
<1>4. want[f] \in Ecus BY DEF TypeOK, Sending
<1> QED BY <1>1, <1>2, <1>3, <1>4, UpToSix

LEMMA CommandSettable ==
  ASSUME TypeOK, NEW f \in Flows, Command(f)
  PROVE  Commands(f)[at[f]] \in Settable
<1>1. Sending(f) BY DEF Command
<1>2. Commands(f)[at[f]] # "AT SI" /\ Commands(f)[at[f]] # "AT FI" BY DEF Command
<1> QED BY <1>1, <1>2, SendingBounds, CommandKnown

LEMMA TypesNext == TypeOK /\ [Next]_vars => TypeOK'
<1> SUFFICES ASSUME TypeOK, [Next]_vars PROVE TypeOK'
    OBVIOUS
<1> USE NoneAssumption, EcusAssumption
<1> USE DEF TypeOK, Protocol, Touch, belief
<1>1. ASSUME NEW f \in Flows, NEW e \in Ecus, NEW sweep \in BOOLEAN, Begin(f, e, sweep)
      PROVE  TypeOK'
      BY <1>1 DEF Begin, InitProtocol
<1>2. ASSUME NEW f \in Flows, NEW e \in Ecus, SetAddress(f, e) PROVE TypeOK'
      BY <1>2 DEF SetAddress
<1>3. ASSUME NEW f \in Flows, NEW e \in Ecus, NextAddress(f, e) PROVE TypeOK'
      BY <1>2, <1>3 DEF NextAddress
<1>4. ASSUME NEW f \in Flows, InitReturns(f) PROVE TypeOK'
      BY <1>2, <1>4 DEF InitReturns
<1>5. ASSUME NEW f \in Flows, AddressReturns(f) PROVE TypeOK'
      BY <1>5 DEF AddressReturns
<1>6. ASSUME NEW f \in Flows, Sending(f)
      PROVE  at[f] + 1 \in 1 .. 7 /\ Len(Commands(f)) + 1 \in 1 .. 7 /\ want[f] \in Ecus
      BY <1>6, SendingBounds
<1>7. ASSUME NEW f \in Flows, Command(f) PROVE TypeOK'
  <2>1. Sending(f) BY <1>7 DEF Command
  <2>2. want[f] \in Ecus BY <1>6, <2>1
  <2>3. Commands(f)[at[f]] \in Settable
        BY <1>7, CommandSettable
  <2>4. adapter' \in Effects(Commands(f)[at[f]], want[f]) BY <1>7 DEF Command
  <2>5. adapter' \in Settings
        BY <2>2, <2>3, <2>4, EffectsTyped
  <2> QED BY <1>6, <1>7, <2>1, <2>5 DEF Command
<1>8. ASSUME NEW f \in Flows, NEW ok \in BOOLEAN, Handshake(f, ok) PROVE TypeOK'
  <2>1. Sending(f) BY <1>8 DEF Handshake
  <2>2. adapter' \in Settings BY <1>8 DEF Handshake, Settings
  <2> QED BY <1>6, <1>8, <2>1, <2>2 DEF Handshake
<1>9. ASSUME NEW f \in Flows, LoseCommand(f) PROVE TypeOK'
      BY <1>6, <1>9 DEF LoseCommand
<1>10. ASSUME NEW f \in Flows, Throw(f) PROVE TypeOK'
      BY <1>10 DEF Throw, Return
<1>11. ASSUME NEW f \in Flows, Detach(f) PROVE TypeOK'
      BY <1>11 DEF Detach, Return
<1>12. ASSUME NEW f \in Flows, CloseProtocol(f) PROVE TypeOK'
      BY <1>12 DEF CloseProtocol
<1>13. ASSUME NEW f \in Flows, CloseReturns(f) PROVE TypeOK'
      BY <1>13 DEF CloseReturns, Return
<1>14. CASE UNCHANGED vars
      BY <1>14 DEF vars
<1> QED BY <1>1, <1>3, <1>4, <1>5, <1>7, <1>8, <1>9, <1>10, <1>11, <1>12, <1>13, <1>14
        DEF Next

-----------------------------------------------------------------------------
(* What the commands of setAddress do to the settings a request needs.     *)
LEMMA CanEffects ==
  ASSUME adapter \in Settings, NEW e \in Ecus
  PROVE  /\ \A s \in Effects("AT SH", e) : s.header = Address[e]
         /\ \A s \in Effects("AT SP CAN", e) :
              s.line = "can" /\ s.header = adapter.header
         /\ \A s \in Effects("AT CAF0", e) :
              s.raw /\ s.line = adapter.line /\ s.header = adapter.header
         /\ \A s \in Effects("AT CRA", e) :
              /\ s.filter = Receive[e] /\ s.raw = adapter.raw
              /\ s.line = adapter.line /\ s.header = adapter.header
<1> USE DEF Settings
<1>1. \A s \in Effects("AT SH", e) : s.header = Address[e] BY DEF Effects
<1>2. ASSUME NEW s \in Effects("AT SP CAN", e)
      PROVE  s.line = "can" /\ s.header = adapter.header
  <2>1. PICK r \in {adapter.raw, FALSE} :
               s = [adapter EXCEPT !.line = "can", !.woken = None, !.raw = r]
        BY <1>2 DEF Effects, SelectLine
  <2> QED BY <2>1
<1>3. \A s \in Effects("AT CAF0", e) :
        s.raw /\ s.line = adapter.line /\ s.header = adapter.header
      BY DEF Effects
<1>4. \A s \in Effects("AT CRA", e) :
        /\ s.filter = Receive[e] /\ s.raw = adapter.raw
        /\ s.line = adapter.line /\ s.header = adapter.header
      BY DEF Effects
<1> QED BY <1>1, <1>2, <1>3, <1>4

LEMMA KlineEffects ==
  ASSUME adapter \in Settings, NEW e \in Ecus
  PROVE  /\ \A s \in Effects("AT SH", e) : s.header = Address[e]
         /\ \A s \in Effects("AT WM", e) : s.wakes = Address[e] /\ s.header = adapter.header
         /\ \A c \in {"AT SP KWP", "AT SP ISO8"} : \A s \in Effects(c, e) :
              /\ s.line \in {"kwp", "iso8"}
              /\ s.wakes = adapter.wakes /\ s.header = adapter.header
<1> USE DEF Settings
<1>1. \A s \in Effects("AT SH", e) : s.header = Address[e] BY DEF Effects
<1>2. \A s \in Effects("AT WM", e) : s.wakes = Address[e] /\ s.header = adapter.header
      BY DEF Effects
<1>3. ASSUME NEW s \in Effects("AT SP KWP", e)
      PROVE  s.line = "kwp" /\ s.wakes = adapter.wakes /\ s.header = adapter.header
      BY <1>3 DEF Effects, SelectLine
<1>4. ASSUME NEW s \in Effects("AT SP ISO8", e)
      PROVE  s.line = "iso8" /\ s.wakes = adapter.wakes /\ s.header = adapter.header
      BY <1>4 DEF Effects, SelectLine
<1> QED BY <1>1, <1>2, <1>3, <1>4

(* A step that leaves a flow and the driver alone leaves it in its place.  *)
LEMMA SameCommands ==
  ASSUME NEW f \in Flows, stage'[f] = stage[f], want'[f] = want[f],
         f \in sweeping' <=> f \in sweeping
  PROVE  Commands(f)' = Commands(f)
BY DEF Commands

LEMMA PlaceKept ==
  ASSUME NEW f \in Flows, InPlace(f), UNCHANGED <<belief, adapter>>,
         stage'[f] = stage[f], at'[f] = at[f], want'[f] = want[f],
         f \in confirmed' <=> f \in confirmed,
         f \in sweeping' <=> f \in sweeping
  PROVE  InPlace(f)'
<1>1. Commands(f)' = Commands(f) BY SameCommands
<1> QED BY <1>1 DEF InPlace, Believed, Progress, SetFor, CanSet, Heard, KlineSet, belief

(* How far a method has come, at each of its commands.                     *)
LEMMA Order ==
  /\ 2 > 1 /\ ~(2 > 2) /\ ~(2 > 3) /\ ~(2 > 4)
  /\ 3 > 1 /\ 3 > 2 /\ ~(3 > 3) /\ ~(3 > 4)
  /\ 4 > 1 /\ 4 > 2 /\ 4 > 3 /\ ~(4 > 4)
  /\ 5 > 1 /\ 5 > 2 /\ 5 > 3 /\ 5 > 4
  /\ 6 > 1 /\ 6 > 2 /\ 6 > 3
OBVIOUS

LEMMA CanAt ==
  ASSUME NEW s, NEW e
  PROVE  /\ CanProgress(s, 2, e) <=> s.header = Address[e]
         /\ CanProgress(s, 3, e) <=> s.header = Address[e] /\ s.line = "can"
         /\ CanProgress(s, 4, e) <=> s.header = Address[e] /\ s.line = "can" /\ s.raw
         /\ CanProgress(s, 5, e) <=> /\ s.header = Address[e] /\ s.line = "can" /\ s.raw
                                    /\ s.filter = Receive[e]
<1> USE DEF CanProgress
<1>1. CanProgress(s, 2, e) <=> s.header = Address[e] BY Zenon, Order
<1>2. CanProgress(s, 3, e) <=> s.header = Address[e] /\ s.line = "can" BY Zenon, Order
<1>3. CanProgress(s, 4, e) <=> s.header = Address[e] /\ s.line = "can" /\ s.raw BY Zenon, Order
<1>4. CanProgress(s, 5, e) <=> /\ s.header = Address[e] /\ s.line = "can" /\ s.raw
                               /\ s.filter = Receive[e]
      BY Zenon, Order
<1> QED BY <1>1, <1>2, <1>3, <1>4

LEMMA KlineAt ==
  ASSUME NEW s, NEW a
  PROVE  /\ KlineProgress(s, 2, a) <=> s.header = a
         /\ KlineProgress(s, 3, a) <=> s.header = a /\ s.wakes = a
         /\ \A n \in {4, 5, 6} :
              KlineProgress(s, n, a) <=> /\ s.header = a /\ s.wakes = a
                                         /\ s.line \in {"kwp", "iso8"}
<1> USE DEF KlineProgress
<1>1. KlineProgress(s, 2, a) <=> s.header = a BY SMT
<1>2. KlineProgress(s, 3, a) <=> s.header = a /\ s.wakes = a BY SMT
<1>3. ASSUME NEW n \in {4, 5, 6}
      PROVE  KlineProgress(s, n, a) <=> /\ s.header = a /\ s.wakes = a
                                         /\ s.line \in {"kwp", "iso8"}
      BY SMT
<1> QED BY <1>1, <1>2, <1>3

(* setCanAddress: what each of its commands adds.                          *)
LEMMA CanSteps ==
  ASSUME adapter \in Settings, NEW e \in Ecus
  PROVE  /\ \A s \in Effects("AT SH", e) : CanProgress(s, 2, e)
         /\ CanProgress(adapter, 2, e) =>
              \A s \in Effects("AT SP CAN", e) : CanProgress(s, 3, e)
         /\ CanProgress(adapter, 3, e) =>
              \A s \in Effects("AT CAF0", e) : CanProgress(s, 4, e)
         /\ CanProgress(adapter, 4, e) =>
              \A s \in Effects("AT CRA", e) : CanProgress(s, 5, e)
<1>1. ASSUME NEW s \in Effects("AT SH", e) PROVE CanProgress(s, 2, e)
  <2>1. s.header = Address[e] BY Zenon, CanEffects
  <2> QED BY <2>1, Zenon, CanAt
<1>2. ASSUME CanProgress(adapter, 2, e), NEW s \in Effects("AT SP CAN", e)
      PROVE  CanProgress(s, 3, e)
  <2>1. adapter.header = Address[e] BY <1>2, CanAt
  <2>2. s.line = "can" /\ s.header = adapter.header
        BY Zenon, CanEffects
  <2> QED BY <2>1, <2>2, Zenon, CanAt
<1>3. ASSUME CanProgress(adapter, 3, e), NEW s \in Effects("AT CAF0", e)
      PROVE  CanProgress(s, 4, e)
  <2>1. adapter.header = Address[e] /\ adapter.line = "can" BY <1>3, CanAt
  <2>2. s.raw /\ s.line = adapter.line /\ s.header = adapter.header
        BY Zenon, CanEffects
  <2> QED BY <2>1, <2>2, Zenon, CanAt
<1>4. ASSUME CanProgress(adapter, 4, e), NEW s \in Effects("AT CRA", e)
      PROVE  CanProgress(s, 5, e)
  <2>1. adapter.header = Address[e] /\ adapter.line = "can" /\ adapter.raw BY <1>4, CanAt
  <2>2. s.filter = Receive[e] /\ s.raw = adapter.raw /\ s.line = adapter.line /\ s.header = adapter.header
        BY Zenon, CanEffects
  <2> QED BY <2>1, <2>2, Zenon, CanAt
<1> QED BY <1>1, <1>2, <1>3, <1>4

(* setIsoAddress and setIso8Address, between the handshakes.               *)
LEMMA KlineSteps ==
  ASSUME adapter \in Settings, NEW e \in Ecus
  PROVE  /\ \A s \in Effects("AT SH", e) : KlineProgress(s, 2, Address[e])
         /\ KlineProgress(adapter, 2, Address[e]) =>
              \A s \in Effects("AT WM", e) : KlineProgress(s, 3, Address[e])
         /\ KlineProgress(adapter, 3, Address[e]) =>
              \A c \in {"AT SP KWP", "AT SP ISO8"} :
                \A s \in Effects(c, e) : KlineProgress(s, 4, Address[e])
         /\ KlineProgress(adapter, 5, Address[e]) =>
              \A c \in {"AT SP KWP", "AT SP ISO8"} :
                \A s \in Effects(c, e) : KlineProgress(s, 6, Address[e])
<1>1. \A s \in Effects("AT SH", e) : KlineProgress(s, 2, Address[e])
      BY Zenon, KlineEffects, KlineAt
<1>2. ASSUME KlineProgress(adapter, 2, Address[e]), NEW s \in Effects("AT WM", e)
      PROVE  KlineProgress(s, 3, Address[e])
  <2>1. adapter.header = Address[e] BY <1>2, KlineAt
  <2>2. s.wakes = Address[e] /\ s.header = adapter.header
        BY Zenon, KlineEffects
  <2> QED BY <2>1, <2>2, Zenon, KlineAt
<1>3. ASSUME KlineProgress(adapter, 3, Address[e]) \/ KlineProgress(adapter, 5, Address[e]),
             NEW c \in {"AT SP KWP", "AT SP ISO8"}, NEW s \in Effects(c, e)
      PROVE  KlineProgress(s, 4, Address[e]) /\ KlineProgress(s, 6, Address[e])
  <2>1. adapter.header = Address[e] /\ adapter.wakes = Address[e] BY <1>3, KlineAt
  <2>2. /\ s.line \in {"kwp", "iso8"}
        /\ s.wakes = adapter.wakes /\ s.header = adapter.header
        BY Zenon, KlineEffects
  <2> QED BY <2>1, <2>2, Zenon, KlineAt
<1> QED BY <1>1, <1>2, <1>3

LEMMA CanCommandInPlace ==
  ASSUME TypeOK, NEW f \in Flows, Command(f), stage[f] = "address",
         Bus[want[f]] = "can", Progress(f)
  PROVE  CanProgress(adapter', at[f] + 1, want[f])
<1>1. PICK e \in Ecus : e = want[f]
      BY SendingBounds DEF Command
<1>2. adapter \in Settings BY DEF TypeOK
<1>3. Commands(f) = SetCanAddressCommands BY AddressCommands
<1>4. at[f] = 1 \/ at[f] = 2 \/ at[f] = 3 \/ at[f] = 4
  <2>1. Len(Commands(f)) = 4 BY <1>3, MethodLengths
  <2>2. at[f] \in Nat /\ at[f] # 0 BY SendingBounds DEF Command
  <2>3. at[f] =< 4 BY <2>1 DEF Command, Sending
  <2> QED BY <2>2, <2>3, UpToSix
<1>5. CanProgress(adapter, at[f], e) BY <1>1 DEF Progress
<1>6. adapter' \in Effects(SetCanAddressCommands[at[f]], e) BY <1>1, <1>3 DEF Command
<1>7. CASE at[f] = 1
  <2>1. adapter' \in Effects("AT SH", e) BY <1>6, <1>7, MethodCommands
  <2>2. CanProgress(adapter', 2, e) BY <1>2, <2>1, CanSteps
  <2>3. at[f] + 1 = 2 BY <1>7
  <2> QED BY <1>1, <2>2, <2>3
<1>8. CASE at[f] = 2
  <2>1. adapter' \in Effects("AT SP CAN", e) BY <1>6, <1>8, MethodCommands
  <2>2. CanProgress(adapter', 3, e) BY <1>2, <1>5, <2>1, <1>8, CanSteps
  <2>3. at[f] + 1 = 3 BY <1>8
  <2> QED BY <1>1, <2>2, <2>3
<1>9. CASE at[f] = 3
  <2>1. adapter' \in Effects("AT CAF0", e) BY <1>6, <1>9, MethodCommands
  <2>2. CanProgress(adapter', 4, e) BY <1>2, <1>5, <2>1, <1>9, CanSteps
  <2>3. at[f] + 1 = 4 BY <1>9
  <2> QED BY <1>1, <2>2, <2>3
<1>10. CASE at[f] = 4
  <2>1. adapter' \in Effects("AT CRA", e) BY <1>6, <1>10, MethodCommands
  <2>2. CanProgress(adapter', 5, e) BY <1>2, <1>5, <2>1, <1>10, CanSteps
  <2>3. at[f] + 1 = 5 BY <1>10
  <2> QED BY <1>1, <2>2, <2>3
<1> QED BY <1>4, <1>7, <1>8, <1>9, <1>10

LEMMA KlineCommandInPlace ==
  ASSUME TypeOK, NEW f \in Flows, Command(f), stage[f] = "address",
         Bus[want[f]] # "can", Progress(f)
  PROVE  KlineProgress(adapter', at[f] + 1, Address[want[f]]) /\ f \notin confirmed
<1>1. PICK e \in Ecus : e = want[f]
      BY SendingBounds DEF Command
<1>2. adapter \in Settings BY DEF TypeOK
<1>3. IsKlineMethod(Commands(f)) BY AddressCommands
<1>4. at[f] \in Nat /\ at[f] # 0 BY SendingBounds DEF Command
<1>5. Len(Commands(f)) \in Nat /\ at[f] =< Len(Commands(f))
  <2>1. Len(Commands(f)) \in {4, 6} BY <1>3 DEF IsKlineMethod
  <2>2. at[f] =< Len(Commands(f)) BY DEF Command, Sending
  <2> QED BY <2>1, <2>2
<1>6. f \notin confirmed BY <1>4, <1>5 DEF Progress
<1>7. KlineProgress(adapter, at[f], Address[e]) BY <1>1 DEF Progress
<1>8. adapter' \in Effects(Commands(f)[at[f]], e) BY <1>1 DEF Command
<1>9. Commands(f)[at[f]] # "AT SI" /\ Commands(f)[at[f]] # "AT FI" BY DEF Command
<1>10. CASE at[f] = 1
  <2>1. adapter' \in Effects("AT SH", e) BY <1>3, <1>8, <1>10 DEF IsKlineMethod
  <2>2. KlineProgress(adapter', 2, Address[e]) BY <1>2, <2>1, KlineSteps
  <2>3. at[f] + 1 = 2 BY <1>10
  <2> QED BY <1>1, <1>6, <2>2, <2>3
<1>11. CASE at[f] = 2
  <2>1. adapter' \in Effects("AT WM", e) BY <1>3, <1>8, <1>11 DEF IsKlineMethod
  <2>2. KlineProgress(adapter', 3, Address[e]) BY <1>2, <1>7, <2>1, <1>11, KlineSteps
  <2>3. at[f] + 1 = 3 BY <1>11
  <2> QED BY <1>1, <1>6, <2>2, <2>3
<1>12. CASE at[f] = 3
  <2>1. at[f] + 1 = 4 BY <1>12
  <2>2. PICK c \in {"AT SP KWP", "AT SP ISO8"} : adapter' \in Effects(c, e)
        BY <1>3, <1>8, <1>12 DEF IsKlineMethod
  <2>3. KlineProgress(adapter, 3, Address[e]) BY <1>7, <1>12
  <2>4. KlineProgress(adapter', 4, Address[e]) BY <1>2, <2>2, <2>3, KlineSteps, Zenon
  <2> QED BY <1>1, <1>6, <2>1, <2>4
<1>13. CASE at[f] = 5 /\ Len(Commands(f)) = 6
  <2>1. at[f] + 1 = 6 BY <1>13
  <2>2. PICK c \in {"AT SP KWP", "AT SP ISO8"} : adapter' \in Effects(c, e)
        BY <1>3, <1>8, <1>13 DEF IsKlineMethod
  <2>3. KlineProgress(adapter, 5, Address[e]) BY <1>7, <1>13
  <2>4. KlineProgress(adapter', 6, Address[e]) BY <1>2, <2>2, <2>3, KlineSteps, Zenon
  <2> QED BY <1>1, <1>6, <2>1, <2>4
<1>14. at[f] # 4 BY <1>3, <1>9 DEF IsKlineMethod
<1>15. ~(at[f] = 6 /\ Len(Commands(f)) = 6) BY <1>3, <1>9 DEF IsKlineMethod
<1>16. Len(Commands(f)) \in {1, 2, 4, 6} BY <1>3 DEF IsKlineMethod
<1> QED BY <1>4, <1>5, <1>10, <1>11, <1>12, <1>13, <1>14, <1>15, <1>16, UpToSix

LEMMA CommandInPlace ==
  ASSUME TypeOK, NEW f \in Flows, Command(f), InPlace(f)
  PROVE  InPlace(f)'
<1>1. /\ stage' = stage /\ want' = want /\ UNCHANGED belief /\ at'[f] = at[f] + 1
      /\ confirmed' = confirmed /\ sweeping' = sweeping
      BY DEF Command, TypeOK
<1>2. CASE stage[f] # "address"
      BY <1>1, <1>2 DEF InPlace, Command, Sending, belief
<1>3. CASE stage[f] = "address"
  <2>1. Progress(f) BY <1>3 DEF InPlace
  <2>2. Progress(f)'
    <3>1. CASE Bus[want[f]] = "can"
          BY <1>1, <1>3, <2>1, <3>1, CanCommandInPlace DEF Progress
    <3>2. CASE Bus[want[f]] # "can"
          BY <1>1, <1>3, <2>1, <3>2, KlineCommandInPlace DEF Progress
    <3> QED BY <3>1, <3>2
  <2> QED BY <1>1, <1>3, <2>2 DEF InPlace, Believed, belief
<1> QED BY <1>2, <1>3

(* The handshake wakes the ECU the header names, which is the flow's own.  *)
LEMMA HandshakeInPlace ==
  ASSUME TypeOK, NEW f \in Flows, NEW ok \in BOOLEAN, Handshake(f, ok), InPlace(f)
  PROVE  InPlace(f)'
<1>1. /\ stage' = stage /\ want' = want /\ UNCHANGED belief
      /\ at'[f] = (IF ok THEN Len(Commands(f)) + 1 ELSE at[f] + 1)
      /\ confirmed' = (IF ok THEN confirmed \cup {f} ELSE confirmed)
      /\ sweeping' = sweeping
      /\ adapter' = [adapter EXCEPT !.woken = IF ok THEN adapter.header ELSE None]
      BY DEF Handshake, TypeOK
<1>2. Sending(f) /\ adapter \in Settings BY DEF Handshake, TypeOK
<1>3. Commands(f)[at[f]] = "AT SI" \/ Commands(f)[at[f]] = "AT FI" BY DEF Handshake
<1>4. at[f] \in Nat /\ at[f] # 0 /\ at[f] =< Len(Commands(f))
      BY <1>2, SendingBounds DEF Sending
<1>5. CASE stage[f] # "address"
      BY <1>1, <1>2, <1>5 DEF InPlace, Sending, belief
<1>6. CASE stage[f] = "address" /\ Bus[want[f]] = "can"
  <2>1. Commands(f) = SetCanAddressCommands BY <1>6, AddressCommands
  <2>2. Len(Commands(f)) = 4 BY <2>1, MethodLengths
  <2>3. at[f] = 1 \/ at[f] = 2 \/ at[f] = 3 \/ at[f] = 4 BY <1>4, <2>2, UpToSix
  <2> QED BY <1>3, <2>1, <2>3, MethodCommands
<1>7. CASE stage[f] = "address" /\ Bus[want[f]] # "can"
  <2>1. PICK a : a = Address[want[f]] OBVIOUS
  <2>2. IsKlineMethod(Commands(f)) BY <1>7, AddressCommands
  <2>3. KlineProgress(adapter, at[f], a) BY <1>7, <2>1 DEF InPlace, Progress
  <2>4. Len(Commands(f)) = 4 \/ Len(Commands(f)) = 6 BY <2>2 DEF IsKlineMethod
  <2>5. at[f] = 4 \/ at[f] = 6
    <3>1. at[f] # 1 /\ at[f] # 2 /\ at[f] # 3
          BY <1>3, <2>2 DEF IsKlineMethod
    <3>2. ~(at[f] = 5 /\ Len(Commands(f)) = 6) BY <1>3, <2>2 DEF IsKlineMethod
    <3> QED BY <1>4, <2>4, <3>1, <3>2, UpToSix
  <2>6. /\ adapter.header = a /\ adapter.wakes = a
        /\ adapter.line = "kwp" \/ adapter.line = "iso8"
    <3>1. KlineProgress(adapter, 4, a) \/ KlineProgress(adapter, 6, a) BY <2>3, <2>5
    <3> QED BY <3>1, KlineAt
  <2>7. f \notin confirmed BY <1>4, <1>7, <2>4 DEF InPlace, Progress
  <2>8. /\ adapter'.header = a /\ adapter'.wakes = a
        /\ adapter'.line = "kwp" \/ adapter'.line = "iso8"
        /\ adapter'.woken = (IF ok THEN a ELSE None)
        BY <1>1, <1>2, <2>6 DEF Settings
  <2>9. at'[f] \in {5, 7}
    <3>1. CASE ok = TRUE
      <4>1. at'[f] = Len(Commands(f)) + 1 BY <1>1, <3>1
      <4> QED BY <2>4, <4>1, PastFour, Zenon
    <3>2. CASE ok = FALSE
      <4>1. at'[f] = at[f] + 1 BY <1>1, <3>2
      <4> QED BY <2>5, <4>1, PastFour, Zenon
    <3> QED BY <3>1, <3>2
  <2>10. KlineProgress(adapter', at'[f], a) BY <2>8 DEF KlineProgress
  <2>11. Commands(f)' = Commands(f) BY <1>1, SameCommands
  <2>12. f \in confirmed' => at'[f] > Len(Commands(f))' /\ adapter'.woken = a
    <3>1. CASE ok = TRUE
      <4>1. at'[f] = Len(Commands(f)) + 1 BY <1>1, <3>1
      <4>2. Len(Commands(f))' = Len(Commands(f)) BY <2>11
      <4> QED BY <2>4, <2>8, <3>1, <4>1, <4>2
    <3>2. CASE ok = FALSE BY <1>1, <2>7, <3>2
    <3> QED BY <3>1, <3>2
  <2>13. Progress(f)' BY <1>1, <1>7, <2>1, <2>10, <2>12 DEF Progress
  <2> QED BY <1>1, <1>7, <2>13 DEF InPlace, Believed, belief
<1> QED BY <1>5, <1>6, <1>7

(* The address method is entered, or skipped because the driver is there.  *)
LEMMA InitReturnsInPlace ==
  ASSUME TypeOK, NEW f \in Flows, InitReturns(f), InPlace(f)
  PROVE  InPlace(f)'
<1>1. want[f] \in Ecus /\ stage[f] = "init" BY DEF InitReturns, TypeOK
<1>2. currentAddress # Address[want[f]]
      BY <1>1, NoneAssumption, EcusAssumption DEF InPlace
<1>3. /\ protocol' = Protocol(want[f]) /\ currentAddress' = Address[want[f]]
      /\ stage'[f] = "address" /\ at'[f] = 1 /\ want'[f] = want[f]
      /\ f \notin confirmed'
      BY <1>2 DEF InitReturns, SetAddress, AlreadyAddressed, TypeOK
<1>4. Progress(f)'
      BY <1>3 DEF Progress, CanProgress, KlineProgress
<1> QED BY <1>3, <1>4 DEF InPlace, Believed

LEMMA NextAddressInPlace ==
  ASSUME TypeOK, NEW f \in Flows, NEW e \in Ecus, NextAddress(f, e), InPlace(f)
  PROVE  InPlace(f)'
<1>1. /\ stage[f] = "ready" /\ want[f] \in Ecus /\ want'[f] = e
      /\ Protocol(e) = Protocol(want[f])
      /\ Bus[e] # "can" => Address[e] # Address[want[f]]
      /\ f \in sweeping /\ UNCHANGED <<adapter, sweeping>> /\ SetAddress(f, e)
      BY DEF NextAddress, SetAddress, TypeOK
<1>2. Believed(f) /\ SetFor(f, want[f]) BY <1>1 DEF InPlace
<1>3. CASE AlreadyAddressed(e)
  <2>1. Address[e] = Address[want[f]] BY <1>2, <1>3 DEF AlreadyAddressed, Believed
  <2>2. Bus[e] = "can" /\ Bus[want[f]] = "can" BY <1>1, <2>1 DEF Protocol
  <2>3. stage'[f] = "ready" /\ UNCHANGED belief BY <1>1, <1>3 DEF SetAddress, TypeOK
  <2>4. Heard(f, want[f]) = Heard(f, e)
        BY <1>1, <2>1 DEF Heard
  <2>5. CanSet(f, e)' BY <1>1, <1>2, <2>1, <2>2, <2>4 DEF SetFor, CanSet, Heard
  <2> QED BY <1>1, <1>3, <2>2, <2>3, <2>5
          DEF InPlace, Believed, SetFor, AlreadyAddressed, belief
<1>4. CASE ~AlreadyAddressed(e)
  <2>1. /\ protocol' = Protocol(e) /\ currentAddress' = Address[e]
        /\ stage'[f] = "address" /\ at'[f] = 1 /\ f \notin confirmed'
        BY <1>1, <1>4 DEF SetAddress, TypeOK
  <2>2. Progress(f)' BY <1>1, <2>1 DEF Progress, CanProgress, KlineProgress
  <2> QED BY <1>1, <2>1, <2>2 DEF InPlace, Believed
<1> QED BY <1>3, <1>4

(* A whole method sent, the adapter is at the ECU.                         *)
LEMMA AddressReturnsInPlace ==
  ASSUME TypeOK, NEW f \in Flows, AddressReturns(f), InPlace(f)
  PROVE  InPlace(f)'
<1>1. /\ stage[f] = "address" /\ stage'[f] = "ready" /\ want'[f] = want[f]
      /\ UNCHANGED <<belief, adapter, confirmed>>
      BY DEF AddressReturns, TypeOK
<1>2. Believed(f) /\ Progress(f) BY <1>1 DEF InPlace
<1>3. at[f] \in Nat /\ at[f] > Len(Commands(f)) BY DEF AddressReturns, Returned, TypeOK
<1>4. SetFor(f, want[f])
  <2>1. CASE Bus[want[f]] = "can"
    <3>1. Len(Commands(f)) = 4 BY <1>1, <2>1, AddressCommands, MethodLengths
    <3>2. CanProgress(adapter, at[f], want[f]) BY <1>2, <2>1 DEF Progress
    <3>3. at[f] > 1 /\ at[f] > 2 /\ at[f] > 3 /\ at[f] > 4 BY <1>3, <3>1, PastFour, Zenon
    <3>4. want[f] \in Ecus BY <1>1 DEF TypeOK
    <3>5. Receive[want[f]] \in Heard(f, want[f]) BY <2>1, <3>4 DEF Heard
    <3>6. CanSet(f, want[f]) BY <3>2, <3>3, <3>5, Zenon DEF CanProgress, CanSet
    <3> QED BY <2>1, <3>6 DEF SetFor
  <2>2. CASE Bus[want[f]] # "can"
    <3>1. Len(Commands(f)) = 4 \/ Len(Commands(f)) = 6
          BY <1>1, <2>2, AddressCommands DEF IsKlineMethod
    <3>2. at[f] > 1 /\ at[f] > 2 /\ at[f] > 3 BY <1>3, <3>1, PastFour, Zenon
    <3>3. /\ KlineProgress(adapter, at[f], Address[want[f]])
          /\ f \in confirmed => adapter.woken = Address[want[f]]
          BY <1>2, <2>2 DEF Progress
    <3> QED BY <2>2, <3>2, <3>3, Zenon DEF KlineProgress, SetFor, KlineSet
  <2> QED BY <2>1, <2>2
<1>5. f \in sweeping' <=> f \in sweeping BY DEF AddressReturns
<1>6. SetFor(f, want[f])'
  <2>1. /\ adapter' = adapter /\ confirmed' = confirmed /\ want'[f] = want[f]
        /\ Heard(f, want[f])' = Heard(f, want[f])
        BY <1>1, <1>5 DEF Heard
  <2> QED BY <1>4, <2>1 DEF SetFor, CanSet, KlineSet
<1> QED BY <1>1, <1>2, <1>6 DEF InPlace, Believed, belief

(* A step of the flow itself keeps it in its place, and a command it loses *)
(* costs it the claim.                                                     *)
LEMMA OwnStep ==
  ASSUME TypeOK, NEW f \in Flows, InPlace(f), solo' = f,
         \/ \E e \in Ecus : NextAddress(f, e)
         \/ InitReturns(f) \/ AddressReturns(f)
         \/ Command(f) \/ Handshake(f, TRUE) \/ Handshake(f, FALSE)
         \/ LoseCommand(f) \/ Throw(f)
         \/ Detach(f) \/ CloseProtocol(f) \/ CloseReturns(f)
  PROVE  InPlace(f)'
<1>1. CASE \E e \in Ecus : NextAddress(f, e) BY <1>1, NextAddressInPlace
<1>2. CASE InitReturns(f) BY <1>2, InitReturnsInPlace
<1>3. CASE AddressReturns(f) BY <1>3, AddressReturnsInPlace
<1>4. CASE Command(f) BY <1>4, CommandInPlace
<1>5. CASE Handshake(f, TRUE) \/ Handshake(f, FALSE) BY <1>5, HandshakeInPlace
<1>6. CASE LoseCommand(f) BY <1>6, NoneAssumption DEF LoseCommand
<1>7. CASE Throw(f) \/ Detach(f) \/ CloseReturns(f)
  <2>1. stage'[f] = "idle" BY <1>7 DEF Throw, Detach, CloseReturns, Return, TypeOK
  <2> QED BY <2>1 DEF InPlace
<1>8. CASE CloseProtocol(f)
  <2>1. stage'[f] = "close" BY <1>8 DEF CloseProtocol, TypeOK
  <2> QED BY <2>1 DEF InPlace
<1> QED BY <1>1, <1>2, <1>3, <1>4, <1>5, <1>6, <1>7, <1>8

(* A step of another flow either touches the driver, and then the flow is  *)
(* no longer alone, or leaves belief and adapter as they are.              *)
LEMMA OthersStep ==
  ASSUME TypeOK, NEW f \in Flows, NEW g \in Flows, g # f, solo' = f,
         \/ \E e \in Ecus : Begin(g, e, TRUE) \/ Begin(g, e, FALSE) \/ NextAddress(g, e)
         \/ InitReturns(g) \/ AddressReturns(g)
         \/ Command(g) \/ Handshake(g, TRUE) \/ Handshake(g, FALSE)
         \/ LoseCommand(g) \/ Throw(g)
         \/ Detach(g) \/ CloseProtocol(g) \/ CloseReturns(g)
  PROVE  /\ solo = f /\ UNCHANGED <<belief, adapter>>
         /\ stage'[f] = stage[f] /\ at'[f] = at[f] /\ want'[f] = want[f]
         /\ f \in confirmed' <=> f \in confirmed
         /\ f \in sweeping' <=> f \in sweeping
<1>1. ~Touch(g) BY NoneAssumption DEF Touch
<1>2. /\ ~(\E e \in Ecus : Begin(g, e, TRUE) \/ Begin(g, e, FALSE) \/ NextAddress(g, e))
      /\ ~InitReturns(g) /\ ~Command(g) /\ ~Handshake(g, TRUE) /\ ~Handshake(g, FALSE)
      /\ ~Throw(g) /\ ~CloseReturns(g)
      BY <1>1 DEF Begin, NextAddress, SetAddress, InitReturns, Command, Handshake,
                  Throw, CloseReturns
<1>3. ~LoseCommand(g) BY NoneAssumption DEF LoseCommand
<1>4. CASE AddressReturns(g) BY <1>4 DEF AddressReturns, TypeOK
<1>5. CASE Detach(g) BY <1>5 DEF Detach, Return, TypeOK
<1>6. CASE CloseProtocol(g) BY <1>6 DEF CloseProtocol, TypeOK
<1> QED BY <1>2, <1>3, <1>4, <1>5, <1>6

LEMMA SoloNext == DriverInv /\ [Next]_vars => SoloInv'
<1> SUFFICES ASSUME TypeOK, SoloInv, [Next]_vars, NEW f \in Flows, solo' = f
             PROVE  InPlace(f)'
    BY DEF DriverInv, SoloInv
<1>1. ASSUME NEW e \in Ecus, NEW sweep \in BOOLEAN, Begin(f, e, sweep) PROVE InPlace(f)'
  <2>1. stage'[f] = "init" /\ currentAddress' = None
        BY <1>1 DEF Begin, InitProtocol, TypeOK
  <2> QED BY <2>1 DEF InPlace
<1>2. ASSUME NEW g \in Flows, g # f,
             \/ \E e \in Ecus : Begin(g, e, TRUE) \/ Begin(g, e, FALSE) \/ NextAddress(g, e)
             \/ InitReturns(g) \/ AddressReturns(g)
             \/ Command(g) \/ Handshake(g, TRUE) \/ Handshake(g, FALSE)
             \/ LoseCommand(g) \/ Throw(g)
             \/ Detach(g) \/ CloseProtocol(g) \/ CloseReturns(g)
      PROVE  InPlace(f)'
  <2>1. /\ solo = f /\ UNCHANGED <<belief, adapter>>
        /\ stage'[f] = stage[f] /\ at'[f] = at[f] /\ want'[f] = want[f]
        /\ f \in confirmed' <=> f \in confirmed
        /\ f \in sweeping' <=> f \in sweeping
        BY <1>2, OthersStep
  <2>2. InPlace(f) BY <2>1 DEF SoloInv
  <2> QED BY <2>1, <2>2, PlaceKept
<1>3. CASE UNCHANGED vars
  <2>1. InPlace(f) BY <1>3 DEF SoloInv, vars
  <2> QED BY <1>3, <2>1, PlaceKept DEF vars
<1>4. ASSUME \/ \E e \in Ecus : NextAddress(f, e)
             \/ InitReturns(f) \/ AddressReturns(f)
             \/ Command(f) \/ Handshake(f, TRUE) \/ Handshake(f, FALSE)
             \/ LoseCommand(f) \/ Throw(f)
             \/ Detach(f) \/ CloseProtocol(f) \/ CloseReturns(f)
      PROVE  InPlace(f)'
  <2>1. CASE solo = f
    <3>1. InPlace(f) BY <2>1 DEF SoloInv
    <3> QED BY <1>4, <3>1, OwnStep
  <2>2. CASE solo # f
    <3>1. ~Touch(f) BY <2>2, NoneAssumption DEF Touch
    <3>2. UNCHANGED solo \/ LoseCommand(f)
          BY <1>4, <3>1 DEF NextAddress, SetAddress, InitReturns, AddressReturns, Command,
                            Handshake, Throw, Detach, CloseProtocol, CloseReturns
    <3> QED BY <2>2, <3>2, NoneAssumption DEF LoseCommand
  <2> QED BY <2>1, <2>2
<1> QED BY <1>1, <1>2, <1>3, <1>4 DEF Next

(* The driver's belief and the adapter's settings are those of the flow    *)
(* that has had the driver to itself, at every command of its methods.     *)
THEOREM DriverInvariant == Spec => []DriverInv
<1>1. DriverInv /\ [Next]_vars => DriverInv'
      BY TypesNext, SoloNext DEF DriverInv
<1> QED BY <1>1, InitInv, PTL DEF Spec

(* Every variable of the driver keeps its type.                            *)
THEOREM TypeCorrect == Spec => []TypeOK
<1>1. DriverInv => TypeOK BY DEF DriverInv
<1> QED BY <1>1, DriverInvariant, PTL

(* attachEcu and sweep: a flow that is ready, alone since it began and has *)
(* lost no command addresses its requests to the ECU it wants, whatever    *)
(* earlier flows left behind and whichever of its calls were skipped.      *)
THEOREM ReadyIsAddressed == Spec => []AddressedWhenReady
<1>1. DriverInv => AddressedWhenReady
      BY DEF DriverInv, SoloInv, InPlace, AddressedWhenReady
<1> QED BY <1>1, DriverInvariant, PTL

-----------------------------------------------------------------------------
(* CanExchange: one request over CAN and its answer. *)

\* How many frames the request takes.
N == Len(Written)

\* What the first frame of a payload is.
Kinds == {Single, First}

\* A frame, and frames after it.
LEMMA JoinedFacts ==
  ASSUME NEW S, NEW f \in S, NEW m \in Nat, NEW g \in [1..m -> S]
  PROVE  /\ DOMAIN (<<f>> \o g) = 1..Len(<<f>> \o g) /\ Len(<<f>> \o g) \in Nat \ {0}
         /\ (<<f>> \o g)[1] = f /\ Len(<<f>> \o g) = 1 + m /\ \A k \in 1..m : (<<f>> \o g)[k + 1] = g[k]
<1>1. <<f>> \in Seq(S) /\ Len(<<f>>) = 1 /\ <<f>>[1] = f OBVIOUS
<1>2. g \in Seq(S) BY SeqDef
<1>3. Len(g) \in Nat /\ Len(g) = m BY <1>2, LenProperties
<1>4. /\ <<f>> \o g \in Seq(S) /\ Len(<<f>> \o g) = 1 + Len(g) /\ (<<f>> \o g)[1] = f
      BY <1>1, <1>2, <1>3, ConcatProperties
<1>5. \A k \in 1..m : (<<f>> \o g)[k + 1] = g[k]
  <2> TAKE k \in 1..m
  <2>1. k + 1 \in 1..(1 + m) /\ ~(k + 1 =< 1) /\ k + 1 - 1 = k OBVIOUS
  <2> QED BY <1>1, <1>2, <1>3, <2>1, ConcatProperties
<1> QED BY <1>3, <1>4, <1>5, LenProperties

\* A payload is framed as at least one frame, the first of which is no flow control.
LEMMA FramesFacts ==
  ASSUME NEW p \in Seq(Nat) \ {<<>>}
  PROVE  /\ DOMAIN FrameRequest(p) = 1..Len(FrameRequest(p)) /\ Len(FrameRequest(p)) \in Nat \ {0}
         /\ FrameRequest(p)[1].pci \in Kinds
<1>1. Len(p) \in Nat \ {0} OBVIOUS
<1>2. CASE Len(p) =< 7
  BY <1>2 DEF FrameRequest, Kinds
<1>3. CASE ~(Len(p) =< 7)
  <2> DEFINE f == [pci |-> First, n |-> Len(p) % 4096, data |-> Upto(p, 6)]
             m == ConsecutiveFrames(p)
             g == [k \in 1..ConsecutiveFrames(p) |->
                    [pci |-> Next1, n |-> SequenceNumber(k), data |-> SubSeq(p, 7 * k, Least(7 * k + 6, Len(p)))]]
  <2>1. FrameRequest(p) = <<f>> \o g
    <3>1. p # <<>> /\ ~(Len(p) =< 7) BY <1>3
    <3>2. FrameRequest(p) = IF p = <<>> THEN <<>>
                            ELSE IF Len(p) =< 7 THEN <<[pci |-> Single, n |-> Len(p), data |-> p]>>
                            ELSE <<f>> \o g
          BY DEF FrameRequest
    <3> HIDE DEF f, g
    <3> QED BY <3>1, <3>2
  <2>2. m \in Nat BY <1>1 DEF ConsecutiveFrames
  <2>3. f.pci \in Kinds BY DEF Kinds
  <2>4. g \in [1..m -> {g[k] : k \in 1..m}]
    <3>1. DOMAIN g = 1..m /\ g = [k \in 1..m |-> g[k]] BY Zenon
    <3> HIDE DEF g, m
    <3> QED BY <3>1
  <2> HIDE DEF f, g, m
  <2>5. g \in [1..m -> {f} \cup {g[k] : k \in 1..m}] BY <2>4
  <2> DEFINE S == {f} \cup {g[k] : k \in 1..m}
  <2>6. f \in S /\ g \in [1..m -> S] BY <2>5
  <2> HIDE DEF S
  <2> QED BY <2>1, <2>2, <2>3, <2>6, JoinedFacts
<1> QED BY <1>2, <1>3

\* What the exchange is, and how much has gone wrong.
Setting ==
  /\ strategy \in {"manual", "cfc0"} /\ request \in Requests /\ answer \in Answers /\ prelude \in Preludes
  /\ blockSize \in BlockSizes /\ faults \in Nat

\* The driver's burst and the ECU's block: what is still to be written unseen is one frame less than what
\* the ECU still allows, or all that is left.
Driver ==
  /\ burst \in Nat /\ index \in Nat /\ taken = index /\ index =< N
  /\ index = 0 \/ index = N => burst = 0
  /\ 0 < index /\ index < N /\ blockSize = 0 => open = -1 /\ burst = N - index
  /\ 0 < index /\ index < N /\ blockSize # 0 => open \in Nat \ {0} /\ burst = Least(open - 1, N - index)

\* While nothing is lost the two agree, and no flow control has gone unseen.
FlowInv ==
  /\ Setting
  /\ Flow \notin missed \/ faults # 0
  /\ strategy = "manual" => burst = 0
  /\ strategy = "cfc0" /\ faults = 0 => Driver

\* No answer begins with flow control.
LEMMA SettingFacts ==
  ASSUME Setting
  PROVE  /\ N \in Nat \ {0} /\ blockSize \in Nat
         /\ \A k \in DOMAIN FirstReply : FirstReply[k].pci # Flow
<1>1. /\ request \in Seq(Nat) \ {<<>>} /\ answer \in Seq(Nat) \ {<<>>} /\ blockSize \in Nat
      /\ prelude \in Seq([pci : {Single}, n : Nat, data : Seq(Nat)])
      BY ConstantsAssumption DEF Setting
<1>2. N \in Nat \ {0} BY <1>1, FramesFacts DEF N, Written
<1>3. Head(AnswerFrames).pci # Flow
  <2> DEFINE fs == FrameRequest(answer)
  <2>1. DOMAIN fs = 1..Len(fs) /\ Len(fs) \in Nat \ {0} /\ fs[1].pci \in Kinds BY <1>1, FramesFacts
  <2>2. AnswerFrames = [k \in DOMAIN fs |-> Pad(fs[k])] BY DEF AnswerFrames, Padded
  <2> HIDE DEF fs
  <2>3. 1 \in DOMAIN fs BY <2>1
  <2>4. Head(AnswerFrames) = Pad(fs[1]) BY <2>1, <2>2, <2>3
  <2>5. Pad(fs[1]).pci = fs[1].pci BY DEF Pad
  <2> QED BY <2>1, <2>4, <2>5 DEF Kinds, Single, First, Flow
<1>4. ASSUME NEW k \in DOMAIN FirstReply PROVE FirstReply[k].pci # Flow
  <2> DEFINE h == Head(AnswerFrames)
             S == [pci : {Single}, n : Nat, data : Seq(Nat)] \cup {h}
  <2>1. h.pci # Flow BY <1>3
  <2> HIDE DEF h
  <2>2. prelude \in Seq(S) /\ \A j \in DOMAIN prelude : prelude[j].pci = Single
    <3> DEFINE R == [pci : {Single}, n : Nat, data : Seq(Nat)]
    <3>1. prelude \in Seq(R) /\ R \subseteq S BY <1>1
    <3>2. \A r \in R : r.pci = Single OBVIOUS
    <3> HIDE DEF R, S
    <3>3. DOMAIN prelude = 1..Len(prelude) /\ \A j \in 1..Len(prelude) : prelude[j] \in R
          BY <3>1, LenProperties, ElementOfSeq
    <3> QED BY <3>1, <3>2, <3>3, SeqMonotonic
  <2>3. FirstReply = Append(prelude, h) BY DEF FirstReply, h
  <2>4. h \in S OBVIOUS
  <2> HIDE DEF S
  <2>5. /\ DOMAIN Append(prelude, h) = 1..(Len(prelude) + 1) /\ Len(prelude) \in Nat
        /\ \A j \in 1..Len(prelude) : Append(prelude, h)[j] = prelude[j]
        /\ Append(prelude, h)[Len(prelude) + 1] = h
        /\ DOMAIN prelude = 1..Len(prelude)
        BY <2>2, <2>4
  <2>6. CASE k = Len(prelude) + 1 BY <2>1, <2>3, <2>5, <2>6
  <2>7. CASE k # Len(prelude) + 1
    <3>1. k \in 1..Len(prelude) BY <2>3, <2>5, <2>7
    <3> QED BY <2>2, <2>3, <2>5, <3>1 DEF Single, Flow
  <2> QED BY <2>6, <2>7
<1> QED BY <1>1, <1>2, <1>4

\* While nothing goes wrong the driver gets what was sent.
LEMMA NothingLost ==
  ASSUME NEW reply, NEW got, faults \in Nat, Arrives(reply, got)
  PROVE  faults' \in Nat /\ (faults' = 0 => faults = 0 /\ got = reply)
BY DEF Arrives

\* What the ECU does with a frame of the request, for a driver whose flow control it answers itself.
LEMMA TakesFacts ==
  ASSUME Setting, Driver, strategy = "cfc0", NEW reply, Takes(reply), index < N
  PROVE  /\ taken' = index + 1
         /\ index + 1 = N => reply = FirstReply
         /\ index + 1 # N /\ (index = 0 \/ open = 1) => reply = <<FlowControl>> /\ open' = Allowed
         /\ index + 1 # N /\ index # 0 /\ open # 1 =>
              reply = <<>> /\ open' = IF open > 0 THEN open - 1 ELSE open
<1>1. taken = index /\ strategy # "manual" BY DEF Driver
<1>2. Len(Written) = N BY DEF N
<1>3. CASE index + 1 = N
  <2>1. reply = FirstReply /\ taken' = index + 1 BY <1>1, <1>2, <1>3 DEF Takes
  <2> QED BY <1>3, <2>1
<1>4. CASE index + 1 # N
  <2>1. taken' = index + 1 BY <1>1 DEF Takes
  <2>2. CASE index = 0 \/ open = 1
    <3>1. reply = <<FlowControl>> /\ open' = Allowed BY <1>1, <1>2, <1>4, <2>2 DEF Takes
    <3> QED BY <1>4, <2>1, <2>2, <3>1
  <2>3. CASE index # 0 /\ open # 1
    <3>1. reply = <<>> /\ open' = IF open > 0 THEN open - 1 ELSE open BY <1>1, <1>2, <1>4, <2>3 DEF Takes
    <3> QED BY <1>4, <2>1, <2>3, <3>1
  <2> QED BY <2>2, <2>3
<1> QED BY <1>3, <1>4

\* A flow control frame says the block size.
LEMMA BlockFacts ==
  ASSUME Setting
  PROVE  /\ \E k \in DOMAIN <<FlowControl>> : <<FlowControl>>[k].pci = Flow
         /\ BlockSize(<<FlowControl>>[1]) = blockSize
         /\ Allowed = IF blockSize = 0 THEN -1 ELSE blockSize
BY DEF BlockSize, FlowControl, Allowed

LEMMA LeastNat == \A x \in Nat : \A y \in Nat : Least(x, y) \in Nat
<1> SUFFICES ASSUME NEW x \in Nat, NEW y \in Nat PROVE Least(x, y) \in Nat
    OBVIOUS
<1> QED BY Zenon DEF Least

\* A frame whose reply is read: it is the last, or the one the ECU asks after.
LEMMA LookStep ==
  ASSUME FlowInv, WriteAndLook
  PROVE  FlowInv'
<1>1. PICK reply : Takes(reply) /\
        \E got \in {reply, <<>>} \cup {Without(reply, k) : k \in DOMAIN reply} : Arrives(reply, got) /\
         LET seen == \E k \in DOMAIN got : got[k].pci = Flow
             size == IF seen THEN BlockSize(got[1]) ELSE flow
             allowed == BurstAfter(seen, size)
         IN /\ flow' = size
            /\ burst' = IF allowed < 0 THEN 0 ELSE Least(allowed, Len(Written) - (index + 1))
      BY DEF WriteAndLook
<1>2. PICK got : Arrives(reply, got) /\
         LET seen == \E k \in DOMAIN got : got[k].pci = Flow
             size == IF seen THEN BlockSize(got[1]) ELSE flow
             allowed == BurstAfter(seen, size)
         IN /\ flow' = size
            /\ burst' = IF allowed < 0 THEN 0 ELSE Least(allowed, N - (index + 1))
      BY <1>1 DEF N
<1>3. /\ strategy = "cfc0" /\ burst = 0 /\ index < N /\ index' = index + 1
      /\ UNCHANGED <<exchange, missed>>
      BY DEF WriteAndLook, N
<1>4. Setting /\ N' = N BY <1>3 DEF FlowInv, N, Written, exchange
<1>5. faults' \in Nat /\ (faults' = 0 => faults = 0 /\ got = reply) BY <1>2, <1>4, NothingLost DEF Setting
<1>6. Setting' BY <1>3, <1>4, <1>5 DEF Setting, exchange
<1>7. ASSUME faults' = 0 PROVE Driver'
  <2>1. Driver /\ got = reply BY <1>3, <1>5, <1>7 DEF FlowInv
  <2>2. N \in Nat \ {0} /\ blockSize \in Nat /\ \A k \in DOMAIN FirstReply : FirstReply[k].pci # Flow
        BY <1>4, SettingFacts
  <2>3. index \in Nat /\ index < N /\ taken' = index + 1 BY <1>1, <1>3, <1>4, <2>1, TakesFacts DEF Driver
  <2>4. CASE index + 1 = N
    <3>1. burst' = 0
      <4> DEFINE allowed == BurstAfter(\E k \in DOMAIN got : got[k].pci = Flow,
                                IF \E k \in DOMAIN got : got[k].pci = Flow THEN BlockSize(got[1]) ELSE flow)
      <4>1. burst' = IF allowed < 0 THEN 0 ELSE Least(allowed, N - (index + 1)) BY <1>2
      <4> HIDE DEF allowed
      <4>2. N - (index + 1) = 0 BY <2>2, <2>3, <2>4
      <4> QED BY <4>1, <4>2 DEF Least
    <3>2. index' = N /\ taken' = N BY <1>3, <2>3, <2>4
    <3> QED BY <1>4, <2>2, <3>1, <3>2 DEF Driver
  <2>5. CASE index + 1 # N
    <3>1. index = 0 \/ open = 1
      <4>1. SUFFICES ASSUME index # 0 PROVE open = 1
            OBVIOUS
      <4>2. 0 < index /\ N - index \in Nat \ {0} BY <2>2, <2>3, <4>1
      <4>3. blockSize # 0 BY <1>3, <2>1, <2>3, <4>2 DEF Driver
      <4>4. open \in Nat \ {0} /\ 0 = Least(open - 1, N - index) BY <1>3, <2>1, <2>3, <4>2, <4>3 DEF Driver
      <4> QED BY <4>2, <4>4 DEF Least
    <3>2. got = <<FlowControl>> /\ open' = Allowed BY <1>1, <1>3, <1>4, <2>1, <2>5, <3>1, TakesFacts
    <3>3. burst' = IF BurstAfter(TRUE, blockSize) < 0 THEN 0
                   ELSE Least(BurstAfter(TRUE, blockSize), N - (index + 1))
      <4> DEFINE seen == \E k \in DOMAIN got : got[k].pci = Flow
                 size == IF seen THEN BlockSize(got[1]) ELSE flow
      <4>1. burst' = IF BurstAfter(seen, size) < 0 THEN 0 ELSE Least(BurstAfter(seen, size), N - (index + 1))
            BY <1>2
      <4>2. seen = TRUE /\ BlockSize(got[1]) = blockSize BY <1>4, <3>2, BlockFacts
      <4>3. size = blockSize BY <4>2
      <4> HIDE DEF seen, size
      <4> QED BY <4>1, <4>2, <4>3
    <3>6. /\ index' \in Nat /\ 0 < index' /\ index' < N' /\ taken' = index' /\ N' = N /\ index' # 0 /\ index' # N'
          /\ N - (index + 1) = N' - index' /\ N' - index' \in Nat \ {0} /\ blockSize' = blockSize
          BY <1>3, <1>4, <2>2, <2>3, <2>5 DEF exchange
    <3> DEFINE a == BurstAfter(TRUE, blockSize)
    <3>7. burst' = IF a < 0 THEN 0 ELSE Least(a, N - (index + 1)) BY <3>3
    <3>8. (blockSize = 0 => a = N) /\ (blockSize # 0 => a = blockSize - 1) BY DEF BurstAfter, N
    <3> HIDE DEF a
    <3>4. CASE blockSize = 0
      <4>2. burst' = N - (index + 1) BY <2>2, <2>3, <3>4, <3>7, <3>8 DEF Least
      <4>3. open' = -1 BY <3>2, <3>4 DEF Allowed
      <4>4. burst' = N' - index' BY <3>6, <4>2, Zenon
      <4>5. burst' \in Nat BY <3>6, <4>4
      <4>6. index' =< N' BY <2>2, <3>6
      <4>7. blockSize' = 0 BY <3>4, <3>6
      <4> QED BY <3>6, <4>3, <4>4, <4>5, <4>6, <4>7 DEF Driver
    <3>5. CASE blockSize # 0
      <4>1. a = blockSize - 1 /\ ~(a < 0) BY <2>2, <3>5, <3>8
      <4>2. burst' = Least(blockSize - 1, N - (index + 1)) BY <3>7, <4>1
      <4>3. open' = blockSize BY <3>2, <3>5 DEF Allowed
      <4>4. open' \in Nat \ {0} BY <2>2, <3>5, <4>3
      <4>8. burst' = Least(open' - 1, N' - index')
        <5>1. N - (index + 1) = N' - index' BY <3>6
        <5> QED BY <4>2, <4>3, <5>1, Zenon
      <4>5. burst' \in Nat
        <5>4. blockSize - 1 \in Nat BY <2>2, <3>5
        <5>0. open' - 1 \in Nat BY <4>3, <5>4, Zenon
        <5>1. N' - index' \in Nat BY <3>6
        <5>2. \A x \in Nat : \A y \in Nat : Least(x, y) \in Nat BY LeastNat
        <5>3. Least(open' - 1, N' - index') \in Nat BY <5>0, <5>1, <5>2, Zenon
        <5> QED BY <4>8, <5>3, Zenon
      <4>6. index' =< N' BY <2>2, <3>6
      <4>7. blockSize' # 0 BY <3>5, <3>6
      <4> QED BY <3>6, <4>4, <4>8, <4>5, <4>6, <4>7 DEF Driver
    <3> QED BY <3>4, <3>5
  <2> QED BY <2>4, <2>5
<1> QED BY <1>3, <1>5, <1>6, <1>7 DEF FlowInv, exchange

\* A frame of a burst: it is the last, or one the ECU does not ask after.
LEMMA BurstStep ==
  ASSUME FlowInv, WriteBurst
  PROVE  FlowInv'
<1>1. PICK reply : Takes(reply) /\ missed' = missed \cup {reply[k].pci : k \in DOMAIN reply}
      BY DEF WriteBurst
<1>2. /\ burst > 0 /\ index' = index + 1 /\ burst' = burst - 1 /\ UNCHANGED <<exchange, faults>>
      BY DEF WriteBurst
<1>3. Setting /\ N' = N BY <1>2 DEF FlowInv, N, Written, exchange
<1>4. Setting' BY <1>2, <1>3 DEF Setting, exchange
<1>5. strategy = "cfc0" /\ strategy' = strategy /\ blockSize' = blockSize BY <1>2 DEF FlowInv, Setting, exchange
<1>6. ASSUME faults = 0 PROVE Driver' /\ (Flow \notin missed => Flow \notin missed')
  <2>1. Driver BY <1>5, <1>6 DEF FlowInv
  <2>2. N \in Nat \ {0} /\ blockSize \in Nat /\ \A k \in DOMAIN FirstReply : FirstReply[k].pci # Flow
        BY <1>3, SettingFacts
  <2>3. index \in Nat /\ index < N /\ 0 < index /\ burst \in Nat BY <1>2, <2>1, <2>2 DEF Driver
  <2>4. taken' = index + 1 BY <1>1, <1>3, <1>5, <2>1, <2>3, TakesFacts
  <2>5. CASE index + 1 = N
    <3>1. reply = FirstReply BY <1>1, <1>3, <1>5, <2>1, <2>3, <2>5, TakesFacts
    <3>2. burst' = 0
      <4>1. CASE blockSize = 0
        <5>1. burst = N - index BY <2>1, <2>3, <4>1 DEF Driver
        <5> QED BY <1>2, <2>2, <2>3, <2>5, <5>1
      <4>2. CASE blockSize # 0
        <5>1. burst = Least(open - 1, N - index) /\ open \in Nat \ {0} BY <2>1, <2>3, <4>2 DEF Driver
        <5>2. burst =< 1 BY <2>2, <2>3, <2>5, <5>1 DEF Least
        <5> QED BY <1>2, <2>3, <5>2
      <4> QED BY <4>1, <4>2
    <3>3. index' = N /\ taken' = N /\ index' # 0 BY <1>2, <2>2, <2>4, <2>5
    <3>4. Driver' BY <1>3, <2>2, <3>2, <3>3 DEF Driver
    <3> QED BY <1>1, <2>2, <3>1, <3>4
  <2>6. CASE index + 1 # N
    <3>1. open # 1
      <4>1. CASE blockSize = 0
        <5>1. open = -1 BY <2>1, <2>3, <4>1 DEF Driver
        <5> QED BY <5>1
      <4>2. CASE blockSize # 0
        <5>1. burst = Least(open - 1, N - index) /\ open \in Nat \ {0} BY <2>1, <2>3, <4>2 DEF Driver
        <5> QED BY <1>2, <2>2, <2>3, <5>1 DEF Least
      <4> QED BY <4>1, <4>2
    <3>2. reply = <<>> /\ open' = IF open > 0 THEN open - 1 ELSE open
          BY <1>1, <1>3, <1>5, <2>1, <2>3, <2>6, <3>1, TakesFacts
    <3>3. missed' = missed BY <1>1, <3>2
    <3>6. /\ index' \in Nat /\ 0 < index' /\ index' < N' /\ taken' = index' /\ index' # 0 /\ index' # N'
          /\ index' =< N' /\ N' - index' = N - index - 1 /\ N - index - 1 \in Nat
          BY <1>2, <1>3, <2>2, <2>3, <2>4, <2>6
    <3>4. CASE blockSize = 0
      <4>1. open = -1 /\ burst = N - index BY <2>1, <2>3, <3>4 DEF Driver
      <4>2. open' = -1 BY <3>2, <4>1
      <4>3. burst' = N - index - 1 BY <1>2, <4>1
      <4>4. burst' = N' - index' /\ burst' \in Nat BY <3>6, <4>3, Zenon
      <4>5. blockSize' = 0 BY <1>5, <3>4
      <4>6. Driver' BY <3>6, <4>2, <4>4, <4>5 DEF Driver
      <4> QED BY <3>3, <4>6
    <3>5. CASE blockSize # 0
      <4>1. open \in Nat \ {0} /\ burst = Least(open - 1, N - index) BY <2>1, <2>3, <3>5 DEF Driver
      <4>2. open' = open - 1 /\ open' \in Nat \ {0} BY <3>1, <3>2, <4>1
      <4>3. \A x \in Nat : \A y \in Nat : Least(x, y) - 1 = Least(x - 1, y - 1) BY DEF Least
      <4>4. burst - 1 = Least(open - 1 - 1, N - index - 1)
        <5>1. open - 1 \in Nat /\ N - index \in Nat BY <2>2, <2>3, <4>1
        <5>2. Least(open - 1, N - index) - 1 = Least(open - 1 - 1, N - index - 1) BY <4>3, <5>1, Zenon
        <5> QED BY <4>1, <5>2, Zenon
      <4>5. burst' = Least(open' - 1, N' - index') BY <1>2, <3>6, <4>2, <4>4, Zenon
      <4>6. burst' \in Nat BY <1>2, <2>3
      <4>7. blockSize' # 0 BY <1>5, <3>5
      <4>8. Driver' BY <3>6, <4>2, <4>5, <4>6, <4>7 DEF Driver
      <4> QED BY <3>3, <4>8
    <3> QED BY <3>4, <3>5
  <2> QED BY <2>5, <2>6
<1>7. Flow \notin missed' \/ faults' # 0
  <2>1. faults' = faults /\ (Flow \notin missed \/ faults # 0) BY <1>2 DEF FlowInv
  <2> QED BY <1>6, <2>1
<1>8. strategy' = "cfc0" /\ (faults' = 0 => Driver') BY <1>2, <1>5, <1>6
<1>9. strategy' # "manual" BY <1>8
<1> QED BY <1>4, <1>7, <1>8, <1>9 DEF FlowInv

\* The other steps leave both alone.
LEMMA FlowNext == FlowInv /\ [ExchangeNext]_exchangeVars => FlowInv'
<1> SUFFICES ASSUME FlowInv, [ExchangeNext]_exchangeVars PROVE FlowInv'
    OBVIOUS
<1>1. CASE WriteAndLook BY <1>1, LookStep
<1>2. CASE WriteBurst BY <1>2, BurstStep
<1>3. CASE Write
  <2>1. /\ strategy = "manual" /\ UNCHANGED <<exchange, burst, missed>>
        /\ \E reply, got : Arrives(reply, got)
        BY <1>3 DEF Write
  <2>2. faults' \in Nat /\ (faults' = 0 => faults = 0) BY <2>1, NothingLost DEF FlowInv, Setting
  <2>3. strategy' = "manual" /\ strategy' # "cfc0" BY <2>1 DEF exchange
  <2> QED BY <2>1, <2>2, <2>3 DEF FlowInv, Setting, exchange
<1>4. ASSUME UNCHANGED <<exchange, burst, index, taken, open, missed>>, faults' \in Nat, faults' = 0 => faults = 0
      PROVE  FlowInv'
  <2>1. N' = N BY <1>4 DEF N, Written, exchange
  <2>2. /\ strategy' = strategy /\ blockSize' = blockSize /\ burst' = burst /\ index' = index /\ taken' = taken
        /\ open' = open /\ missed' = missed
        BY <1>4 DEF exchange
  <2>3. Setting' BY <1>4 DEF FlowInv, Setting, exchange
  <2>4. Driver => Driver' BY <2>1, <2>2 DEF Driver
  <2> QED BY <1>4, <2>2, <2>3, <2>4 DEF FlowInv
<1>5. CASE AllWritten \/ EndPull \/ Join \/ UNCHANGED exchangeVars
  <2>1. UNCHANGED <<exchange, burst, index, taken, open, missed, faults>>
    <3>1. CASE AllWritten BY <3>1 DEF AllWritten
    <3>2. CASE EndPull BY <3>2 DEF EndPull
    <3>3. CASE Join BY <3>3 DEF Join
    <3>4. CASE UNCHANGED exchangeVars BY <3>4 DEF exchangeVars, exchange
    <3> QED BY <1>5, <3>1, <3>2, <3>3, <3>4
  <2>2. faults \in Nat BY DEF FlowInv, Setting
  <2> QED BY <1>4, <2>1, <2>2
<1>6. CASE Pull
  <2>0. UNCHANGED <<exchange, burst, index, taken, open, missed>> BY <1>6 DEF Pull
  <2>1. (\E reply, got : Arrives(reply, got)) \/ UNCHANGED faults
    <3> DEFINE asked == FlowControlFrame(Total - Have).data[1]
               block == SubSeq(rest, 1, Least(asked, Len(rest)))
    <3>1. \E got : \/ Arrives(block, got)
                   \/ UNCHANGED faults
          BY <1>6, Zenon DEF Pull
    <3> HIDE DEF block
    <3> QED BY <3>1
  <2>2. faults' \in Nat /\ (faults' = 0 => faults = 0) BY <2>1, NothingLost DEF FlowInv, Setting
  <2> QED BY <1>4, <2>0, <2>2
<1> QED BY <1>1, <1>2, <1>3, <1>5, <1>6 DEF ExchangeNext

\* At every step of an exchange without loss the driver goes by the ECU's latest flow control.
THEOREM FlowInvariant == ExchangeSpec => []FlowInv
<1>1. ExchangeInit => FlowInv
  <2> SUFFICES ASSUME ExchangeInit PROVE FlowInv
      OBVIOUS
  <2>1. Setting BY ConstantsAssumption DEF Setting, ExchangeInit
  <2>2. N \in Nat \ {0} BY <2>1, SettingFacts
  <2>3. Driver BY <2>2 DEF Driver, ExchangeInit
  <2> QED BY <2>1, <2>3 DEF FlowInv, ExchangeInit
<1> QED BY <1>1, FlowNext, PTL DEF ExchangeSpec

\* While no frame is lost every flow control the ECU sends comes with a reply the driver reads
\* (sendCanCfc0 of driver.ts).
THEOREM FlowControlIsSeen == ExchangeSpec => []FlowControlSeen
<1>1. FlowInv => FlowControlSeen BY DEF FlowInv, FlowControlSeen
<1> QED BY <1>1, FlowInvariant, PTL
-----------------------------------------------------------------------------
(* What a reply is filtered to, and what frames are joined to, goes through them one by one. *)

\* A set of naturals has a least member: what holds of no first one holds of none.
LEMMA Least1 ==
  ASSUME NEW T \in SUBSET Nat, T # {}
  PROVE  \E x \in T : \A y \in T : x =< y
<1>1. PICK x \in T : \A y \in T : ~ (<<y, x>> \in OpToRel(<, Nat)) BY NatLessThanWellFounded, WFMin
<1>2. \A y \in T : ~ (y < x) BY <1>1 DEF OpToRel
<1> QED BY <1>2

\* A function given by its first value and by a step from each value to the next exists.
Unfolds(f, n, z, g) == f[0] = z /\ \A k \in 1..n : f[k] = g[<<k, f[k - 1]>>]
Steps(n, V) == [(1..n) \X V -> V]
Values(n, V) == [0..n -> V]

LEMMA Recursion ==
  ASSUME NEW n \in Nat, NEW V, NEW z \in V, NEW g \in Steps(n, V)
  PROVE  \E f \in Values(n, V) : Unfolds(f, n, z, g)
<1>0. g \in [(1..n) \X V -> V] BY DEF Steps
<1> DEFINE Has(m) == \E f \in [0..m -> V] : f[0] = z /\ \A k \in 1..m : f[k] = g[<<k, f[k - 1]>>]
           Bad == {m \in 0..n : ~Has(m)}
<1>1. Has(0)
  <2> DEFINE f == [k \in 0..0 |-> z]
  <2>1. f \in [0..0 -> V] /\ f[0] = z OBVIOUS
  <2>2. \A k \in 1..0 : FALSE OBVIOUS
  <2> HIDE DEF f
  <2> QED BY <2>1, <2>2
<1>2. ASSUME NEW m \in 1..n, Has(m - 1) PROVE Has(m)
  <2>1. PICK f \in [0..(m - 1) -> V] : f[0] = z /\ \A k \in 1..(m - 1) : f[k] = g[<<k, f[k - 1]>>] BY <1>2
  <2> DEFINE e == [k \in 0..m |-> IF k = m THEN g[<<m, f[m - 1]>>] ELSE f[k]]
  <2>2. f[m - 1] \in V BY <2>1
  <2>3. g[<<m, f[m - 1]>>] \in V BY <1>0, <2>2
  <2>4. \A k \in 0..m : k # m => k \in 0..(m - 1) OBVIOUS
  <2>5. e \in [0..m -> V] BY <2>1, <2>3, <2>4
  <2>6. e[0] = z /\ e[m] = g[<<m, f[m - 1]>>] /\ \A k \in 0..(m - 1) : e[k] = f[k] BY <2>1
  <2> HIDE DEF e
  <2>7. ASSUME NEW k \in 1..m PROVE e[k] = g[<<k, e[k - 1]>>]
    <3>1. k - 1 \in 0..(m - 1) /\ m \in Nat OBVIOUS
    <3>2. e[k - 1] = f[k - 1] BY <2>6, <3>1
    <3>3. CASE k = m BY <2>6, <3>2, <3>3
    <3>4. CASE k # m
      <4>1. k \in 1..(m - 1) /\ k \in 0..(m - 1) BY <3>4
      <4> QED BY <2>1, <2>6, <3>2, <4>1
    <3> QED BY <3>3, <3>4
  <2> QED BY <2>5, <2>6, <2>7
<1>3. Bad = {}
  <2> SUFFICES ASSUME Bad # {} PROVE FALSE
      OBVIOUS
  <2>1. Bad \in SUBSET Nat OBVIOUS
  <2> HIDE DEF Has
  <2>2. PICK m \in Bad : \A y \in Bad : m =< y
    <3> HIDE DEF Bad
    <3> QED BY <2>1, Least1
  <2>3. m # 0 BY <1>1
  <2>4. m \in 1..n /\ m - 1 \in 0..n /\ ~(m =< m - 1) BY <2>3
  <2>5. Has(m - 1) BY <2>2, <2>4
  <2> QED BY <1>2, <2>4, <2>5
<1> HIDE DEF Has
<1>4. Has(n) BY <1>3
<1> QED BY <1>4 DEF Has, Unfolds, Values

\* The members of t are taken from the first hi of s, never going back.
Follows(t, s, hi) ==
  \E pos \in [1..Len(t) -> 1..hi] :
    \A i \in 1..Len(t) : t[i] = s[pos[i]] /\ \A j \in i..Len(t) : pos[i] =< pos[j]

\* ... which one more of s extends, ...
LEMMA FollowsAppend ==
  ASSUME NEW R, NEW s \in Seq(R), NEW t \in Seq(R), NEW m \in 1..Len(s), Follows(t, s, m - 1)
  PROVE  Append(t, s[m]) \in Seq(R) /\ Follows(Append(t, s[m]), s, m)
<1>1. PICK pos \in [1..Len(t) -> 1..(m - 1)] :
        \A i \in 1..Len(t) : t[i] = s[pos[i]] /\ \A j \in i..Len(t) : pos[i] =< pos[j]
      BY DEF Follows
<1>2. Len(s) \in Nat /\ Len(t) \in Nat /\ s[m] \in R BY LenProperties, ElementOfSeq
<1> DEFINE u == Append(t, s[m])
           q == [i \in 1..(Len(t) + 1) |-> IF i = Len(t) + 1 THEN m ELSE pos[i]]
<1>3. u \in Seq(R) /\ Len(u) = Len(t) + 1 /\ u[Len(t) + 1] = s[m] /\ \A i \in 1..Len(t) : u[i] = t[i]
      BY <1>2, AppendProperties
<1> HIDE DEF u
<1>4. \A i \in 1..Len(t) : pos[i] \in 1..m /\ pos[i] =< m /\ i \in 1..(Len(t) + 1) /\ i # Len(t) + 1 BY <1>1, <1>2
<1>5. \A i \in 1..(Len(t) + 1) : i = Len(t) + 1 \/ i \in 1..Len(t) BY <1>2
<1>6. q \in [1..Len(u) -> 1..m] BY <1>3, <1>4, <1>5
<1>7. q[Len(t) + 1] = m /\ \A i \in 1..Len(t) : q[i] = pos[i] BY <1>2, <1>4
<1> HIDE DEF q
<1>8. ASSUME NEW i \in 1..Len(u) PROVE u[i] = s[q[i]] /\ \A j \in i..Len(u) : q[i] =< q[j]
  <2>1. CASE i = Len(t) + 1
    <3>1. \A j \in i..Len(u) : j = i BY <1>2, <1>3, <2>1
    <3>2. q[i] = m /\ u[i] = s[m] BY <1>3, <1>7, <2>1
    <3>3. m =< m OBVIOUS
    <3> QED BY <3>1, <3>2, <3>3
  <2>2. CASE i # Len(t) + 1
    <3>1. i \in 1..Len(t) BY <1>3, <1>5, <2>2
    <3>2. u[i] = s[q[i]] BY <1>1, <1>3, <1>7, <3>1
    <3>3. ASSUME NEW j \in i..Len(u) PROVE q[i] =< q[j]
      <4>1. CASE j = Len(t) + 1 BY <1>4, <1>7, <3>1, <4>1
      <4>2. CASE j # Len(t) + 1
        <5>1. j \in i..Len(t) /\ j \in 1..Len(t) BY <1>2, <1>3, <3>1, <4>2
        <5> QED BY <1>1, <1>7, <3>1, <5>1
      <4> QED BY <4>1, <4>2
    <3> QED BY <3>2, <3>3
  <2> QED BY <2>1, <2>2
<1>9. Follows(u, s, m) BY <1>6, <1>8 DEF Follows
<1> QED BY <1>3, <1>9 DEF u

\* ... and leaving it out as well.
LEMMA FollowsLater ==
  ASSUME NEW s, NEW t, NEW m \in Nat, NEW n \in Nat, m =< n, Follows(t, s, m)
  PROVE  Follows(t, s, n)
<1>1. PICK pos \in [1..Len(t) -> 1..m] :
        \A i \in 1..Len(t) : t[i] = s[pos[i]] /\ \A j \in i..Len(t) : pos[i] =< pos[j]
      BY DEF Follows
<1>2. 1..m \subseteq 1..n OBVIOUS
<1>3. pos \in [1..Len(t) -> 1..n] BY <1>1, <1>2
<1> QED BY <1>1, <1>3 DEF Follows

\* What is kept of a reply comes in the order of the reply, and is the whole of it where all is kept.
LEMMA KeptFacts ==
  ASSUME NEW R, NEW s \in Seq(R), NEW S
  PROVE  /\ Kept(s, S) \in Seq(R) /\ Follows(Kept(s, S), s, Len(s))
         /\ (\A k \in 1..Len(s) : s[k] \in S) => Kept(s, S) = s
<1> DEFINE kept[k \in 0..Len(s)] ==
             IF k = 0 THEN <<>> ELSE IF s[k] \in S THEN Append(kept[k - 1], s[k]) ELSE kept[k - 1]
           n == Len(s)
           g == [x \in (1..n) \X Seq(R) |-> IF s[x[1]] \in S THEN Append(x[2], s[x[1]]) ELSE x[2]]
<1>1. n \in Nat /\ \A k \in 1..n : s[k] \in R BY LenProperties, ElementOfSeq
<1>2. Kept(s, S) = kept[n] BY DEF Kept
<1>3. g \in [(1..n) \X Seq(R) -> Seq(R)]
  <2>1. ASSUME NEW x \in (1..n) \X Seq(R) PROVE g[x] \in Seq(R)
    <3>1. x[1] \in 1..n /\ x[2] \in Seq(R) OBVIOUS
    <3>2. s[x[1]] \in R BY <1>1, <3>1
    <3>3. Append(x[2], s[x[1]]) \in Seq(R) BY <3>1, <3>2, AppendProperties
    <3> QED BY <3>1, <3>3
  <2> QED BY <2>1
<1>4. PICK f \in [0..n -> Seq(R)] : f[0] = <<>> /\ \A k \in 1..n : f[k] = g[<<k, f[k - 1]>>]
  <2>1. <<>> \in Seq(R) OBVIOUS
  <2>2. g \in Steps(n, Seq(R)) BY <1>3 DEF Steps
  <2> HIDE DEF g, n
  <2>3. \E f \in Values(n, Seq(R)) : Unfolds(f, n, <<>>, g) BY <1>1, <2>1, <2>2, Recursion, Zenon
  <2> QED BY <2>3 DEF Values, Unfolds
<1>5. ASSUME NEW k \in 1..n
      PROVE  /\ f[k - 1] \in Seq(R)
             /\ f[k] = IF s[k] \in S THEN Append(f[k - 1], s[k]) ELSE f[k - 1]
  <2>1. k - 1 \in 0..n BY <1>1
  <2>2. f[k - 1] \in Seq(R) BY <1>4, <2>1
  <2> QED BY <1>4, <2>2
<1>6. f = [k \in 0..n |-> IF k = 0 THEN <<>> ELSE IF s[k] \in S THEN Append(f[k - 1], s[k]) ELSE f[k - 1]]
  <2>1. ASSUME NEW k \in 0..n
        PROVE  f[k] = IF k = 0 THEN <<>> ELSE IF s[k] \in S THEN Append(f[k - 1], s[k]) ELSE f[k - 1]
    <3>1. CASE k = 0 BY <1>4, <3>1
    <3>2. CASE k # 0
      <4>1. k \in 1..n BY <1>1, <3>2
      <4> QED BY <1>5, <3>2, <4>1
    <3> QED BY <3>1, <3>2
  <2> QED BY <2>1
<1>7. kept = [k \in 0..n |-> IF k = 0 THEN <<>> ELSE IF s[k] \in S THEN Append(kept[k - 1], s[k]) ELSE kept[k - 1]]
  BY <1>6, Zenon DEF kept
<1> HIDE DEF kept, g
<1> DEFINE Good(k) == kept[k] \in Seq(R) /\ Follows(kept[k], s, k)
                      /\ ((\A j \in 1..k : s[j] \in S) => kept[k] = SubSeq(s, 1, k))
           Bad == {k \in 0..n : ~Good(k)}
<1>8. Good(0)
  <2>1. kept[0] = <<>> BY <1>1, <1>7
  <2>2. Follows(<<>>, s, 0)
    <3>1. <<>> \in [1..Len(<<>>) -> 1..0] OBVIOUS
    <3>2. \A i \in 1..Len(<<>>) : FALSE OBVIOUS
    <3> QED BY <3>1, <3>2 DEF Follows
  <2>3. SubSeq(s, 1, 0) = <<>> OBVIOUS
  <2> QED BY <2>1, <2>2, <2>3
<1>9. ASSUME NEW k \in 1..n, Good(k - 1) PROVE Good(k)
  <2>1. kept[k] = IF s[k] \in S THEN Append(kept[k - 1], s[k]) ELSE kept[k - 1]
    <3>1. k \in 0..n /\ k # 0 BY <1>1
    <3> QED BY <1>7, <3>1, Zenon
  <2>2. kept[k - 1] \in Seq(R) /\ Follows(kept[k - 1], s, k - 1) BY <1>9
  <2>3. CASE s[k] \in S
    <3>1. kept[k] \in Seq(R) /\ Follows(kept[k], s, k) BY <2>1, <2>2, <2>3, FollowsAppend
    <3>2. ASSUME \A j \in 1..k : s[j] \in S PROVE kept[k] = SubSeq(s, 1, k)
      <4>1. \A j \in 1..(k - 1) : s[j] \in S BY <3>2
      <4>2. kept[k - 1] = SubSeq(s, 1, k - 1) BY <1>9, <4>1
      <4>3. SubSeq(s, 1, k) = Append(SubSeq(s, 1, k - 1), s[k]) BY SubSeqRecursiveSecond
      <4> QED BY <2>1, <2>3, <4>2, <4>3
    <3> QED BY <3>1, <3>2
  <2>4. CASE s[k] \notin S
    <3>1. k - 1 \in Nat /\ k \in Nat /\ k - 1 =< k /\ k \in 1..k OBVIOUS
    <3>2. kept[k] = kept[k - 1] BY <2>1, <2>4
    <3>3. Follows(kept[k], s, k) BY <2>2, <3>1, <3>2, FollowsLater
    <3> QED BY <2>2, <2>4, <3>1, <3>2, <3>3
  <2> QED BY <2>3, <2>4
<1>10. Bad = {}
  <2> SUFFICES ASSUME Bad # {} PROVE FALSE
      OBVIOUS
  <2>1. Bad \in SUBSET Nat OBVIOUS
  <2> HIDE DEF Good
  <2>2. PICK m \in Bad : \A y \in Bad : m =< y
    <3> HIDE DEF Bad
    <3> QED BY <2>1, Least1
  <2>3. m # 0 BY <1>8
  <2>4. m \in 1..n /\ m - 1 \in 0..n /\ ~(m =< m - 1) BY <1>1, <2>3
  <2>5. Good(m - 1) BY <2>2, <2>4
  <2> QED BY <1>9, <2>4, <2>5
<1>11. Good(n)
  <2> HIDE DEF Good
  <2>1. n \in 0..n BY <1>1
  <2> QED BY <1>10, <2>1
<1>12. SubSeq(s, 1, n) = s BY SubSeqFull
<1> QED BY <1>2, <1>11, <1>12
-----------------------------------------------------------------------------
(* What the frames of an answer hold. *)

Frame == [pci : Nat, n : Nat, data : Seq(Nat)]

\* A payload with nothing after it but zeros.
Bytes(p) == [b \in Nat |-> IF b \in 1..Len(p) THEN p[b] ELSE 0]

\* A frame on the line is filled up with zeros.
LEMMA PadFacts ==
  ASSUME NEW f \in Frame, NEW size \in Nat, size = (IF f.pci = First THEN 6 ELSE 7), Len(f.data) =< size
  PROVE  /\ Pad(f) \in Frame /\ Pad(f).pci = f.pci /\ Pad(f).n = f.n /\ Len(Pad(f).data) = size
         /\ \A j \in 1..size : Pad(f).data[j] = IF j =< Len(f.data) THEN f.data[j] ELSE 0
<1> DEFINE d == f.data
           zeros == [k \in 1..(size - Len(d)) |-> 0]
<1>1. d \in Seq(Nat) /\ Len(d) \in Nat /\ f.pci \in Nat /\ f.n \in Nat BY LenProperties DEF Frame
<1>2. size - Len(d) \in Nat BY <1>1
<1>3. zeros \in Seq(Nat) /\ Len(zeros) = size - Len(d) /\ \A k \in 1..(size - Len(d)) : zeros[k] = 0
  <2>1. zeros \in [1..(size - Len(d)) -> Nat] OBVIOUS
  <2>2. zeros \in Seq(Nat) BY <1>2, <2>1, SeqDef
  <2>3. Len(zeros) = size - Len(d) BY <1>2, <2>1
  <2> QED BY <2>2, <2>3
<1>4. Pad(f) = [f EXCEPT !.data = d \o zeros] BY DEF Pad
<1> HIDE DEF zeros
<1>5. d \o zeros \in Seq(Nat) BY <1>1, <1>3, ConcatProperties
<1>6. Len(d \o zeros) = size BY <1>1, <1>2, <1>3, ConcatProperties
<1>7. \A j \in 1..size : (d \o zeros)[j] = IF j =< Len(d) THEN d[j] ELSE 0
  <2> TAKE j \in 1..size
  <2>1. (d \o zeros)[j] = IF j =< Len(d) THEN d[j] ELSE zeros[j - Len(d)]
        BY <1>1, <1>2, <1>3, <1>6, ConcatProperties
  <2>2. ~(j =< Len(d)) => j - Len(d) \in 1..(size - Len(d)) BY <1>1
  <2> QED BY <1>3, <2>1, <2>2
<1>8. /\ Pad(f).data = d \o zeros /\ Pad(f).pci = f.pci /\ Pad(f).n = f.n
      /\ Pad(f) = [pci |-> f.pci, n |-> f.n, data |-> d \o zeros]
      BY <1>4 DEF Frame
<1>9. Pad(f) \in Frame BY <1>1, <1>5, <1>8 DEF Frame
<1> QED BY <1>6, <1>7, <1>8, <1>9

\* The beginning of a sequence.
LEMMA UptoFacts ==
  ASSUME NEW S, NEW s \in Seq(S), NEW n \in Nat
  PROVE  /\ Upto(s, n) \in Seq(S) /\ Len(Upto(s, n)) = IF n < Len(s) THEN n ELSE Len(s)
         /\ \A j \in 1..Len(Upto(s, n)) : Upto(s, n)[j] = s[j]
<1>1. Len(s) \in Nat /\ DOMAIN s = 1..Len(s) BY LenProperties
<1> DEFINE m == IF n < Len(s) THEN n ELSE Len(s)
<1>2. m \in Nat /\ m =< Len(s) BY <1>1
<1>3. Upto(s, n) = SubSeq(s, 1, m) BY <1>1 DEF Upto, Least
<1>4. \A i \in 1..m : s[i] \in S
  <2> TAKE i \in 1..m
  <2>1. i \in 1..Len(s) BY <1>1, <1>2
  <2> QED BY <2>1, ElementOfSeq
<1> HIDE DEF m
<1>5. /\ SubSeq(s, 1, m) \in Seq(S) /\ Len(SubSeq(s, 1, m)) = IF 1 =< m THEN m - 1 + 1 ELSE 0
      /\ \A i \in 1..(m - 1 + 1) : SubSeq(s, 1, m)[i] = s[1 + i - 1]
      BY <1>2, <1>4, SubSeqProperties
<1>6. Len(SubSeq(s, 1, m)) = m /\ \A i \in 1..m : SubSeq(s, 1, m)[i] = s[i] BY <1>2, <1>5
<1> QED BY <1>3, <1>5, <1>6 DEF m

\* A payload of one frame.
LEMMA OneFrameAnswer ==
  ASSUME NEW p \in Seq(Nat) \ {<<>>}, Len(p) =< 7
  PROVE  /\ Padded(p) \in Seq(Frame) /\ Len(Padded(p)) = 1 /\ Padded(p)[1].pci = Single
         /\ Padded(p)[1].n = Len(p) /\ OneFrame(Padded(p)[1]).result = p
<1>1. Len(p) \in Nat \ {0} OBVIOUS
<1> DEFINE f == [pci |-> Single, n |-> Len(p), data |-> p]
<1>2. FrameRequest(p) = <<f>> BY DEF FrameRequest
<1>3. f \in Frame /\ f.pci = Single /\ f.n = Len(p) /\ f.data = p /\ f.pci # First
      BY <1>1 DEF Frame, Single, First
<1>4. Padded(p) = <<Pad(f)>>
  <2> HIDE DEF f
  <2>1. Padded(p) = [k \in DOMAIN <<f>> |-> Pad(<<f>>[k])] BY <1>2 DEF Padded
  <2>2. DOMAIN <<f>> = 1..1 /\ <<f>>[1] = f OBVIOUS
  <2>3. Padded(p) = [k \in 1..1 |-> Pad(f)] BY <2>1, <2>2
  <2> QED BY <2>3
<1> HIDE DEF f
<1>5. /\ Pad(f) \in Frame /\ Pad(f).pci = f.pci /\ Pad(f).n = f.n /\ Len(Pad(f).data) = 7
      /\ \A j \in 1..7 : Pad(f).data[j] = IF j =< Len(f.data) THEN f.data[j] ELSE 0
      BY <1>1, <1>3, PadFacts
<1>6. Upto(Pad(f).data, Len(p)) = p
  <2>1. Pad(f).data \in Seq(Nat) BY <1>5 DEF Frame
  <2> DEFINE u == Upto(Pad(f).data, Len(p))
  <2>2. u \in Seq(Nat) /\ Len(u) = Len(p) /\ \A j \in 1..Len(u) : u[j] = Pad(f).data[j]
    <3> DEFINE d == Pad(f).data
    <3>1. d \in Seq(Nat) /\ Len(d) = 7 /\ Len(p) \in Nat BY <1>1, <1>5, <2>1
    <3> HIDE DEF d
    <3>2. /\ Upto(d, Len(p)) \in Seq(Nat) /\ Len(Upto(d, Len(p))) = IF Len(p) < Len(d) THEN Len(p) ELSE Len(d)
          /\ \A j \in 1..Len(Upto(d, Len(p))) : Upto(d, Len(p))[j] = d[j]
          BY <3>1, UptoFacts, Zenon
    <3>3. Len(Upto(d, Len(p))) = Len(p)
      <4> DEFINE L == Len(p)
                 w == Len(Upto(d, Len(p)))
      <4>1. w = (IF L < 7 THEN L ELSE 7) /\ L \in Nat /\ L =< 7 BY <3>1, <3>2
      <4> HIDE DEF L, w
      <4>2. w = L BY <4>1
      <4> QED BY <4>2 DEF L, w
    <3> QED BY <3>2, <3>3 DEF d
  <2> HIDE DEF u
  <2>3. \A j \in 1..Len(u) : u[j] = p[j]
    <3> TAKE j \in 1..Len(u)
    <3>1. j \in 1..7 /\ j =< Len(p) BY <1>1, <2>2
    <3> QED BY <1>3, <1>5, <2>2, <3>1
  <2>4. u = p BY <2>2, <2>3, SeqEqual
  <2> QED BY <2>4 DEF u
<1>7. <<Pad(f)>> \in Seq(Frame) /\ Len(<<Pad(f)>>) = 1 /\ <<Pad(f)>>[1] = Pad(f) BY <1>5
<1> QED BY <1>3, <1>4, <1>5, <1>6, <1>7 DEF OneFrame, Frames

\* A slice of a payload.
LEMMA Slice ==
  ASSUME NEW p \in Seq(Nat), NEW a \in Nat, NEW b \in Nat, a >= 1 /\ a =< b /\ b =< Len(p)
  PROVE  /\ SubSeq(p, a, b) \in Seq(Nat) /\ Len(SubSeq(p, a, b)) = b - a + 1
         /\ \A i \in 1..(b - a + 1) : SubSeq(p, a, b)[i] = p[a + i - 1]
<1>1. Len(p) \in Nat BY LenProperties
<1>2. \A i \in a..b : p[i] \in Nat
  <2> TAKE i \in a..b
  <2>1. i \in 1..Len(p) BY <1>1
  <2> QED BY <2>1, ElementOfSeq
<1> QED BY <1>2, SubSeqProperties

\* A frame that holds a slice of a payload, seven bytes or what is left.
LEMMA LaterFrame ==
  ASSUME NEW p \in Seq(Nat), NEW a \in Nat, NEW b \in Nat,
         a >= 1 /\ a =< b /\ b =< Len(p) /\ b =< a + 6 /\ (b = a + 6 \/ b = Len(p)),
         NEW f \in Frame, f.pci = Next1, Len(f.data) = b - a + 1,
         \A i \in 1..(b - a + 1) : f.data[i] = p[a + i - 1]
  PROVE  /\ Pad(f) \in Frame /\ Pad(f).pci = Next1 /\ Pad(f).n = f.n /\ Len(Pad(f).data) = 7
         /\ \A j \in 1..7 : Pad(f).data[j] = Bytes(p)[a - 1 + j]
<1>1. Len(p) \in Nat BY LenProperties
<1>2. /\ Pad(f) \in Frame /\ Pad(f).pci = f.pci /\ Pad(f).n = f.n /\ Len(Pad(f).data) = 7
      /\ \A j \in 1..7 : Pad(f).data[j] = IF j =< Len(f.data) THEN f.data[j] ELSE 0
  <2>1. Len(f.data) =< 7 /\ 7 = IF f.pci = First THEN 6 ELSE 7 BY DEF Next1, First
  <2> QED BY <2>1, PadFacts
<1>3. ASSUME NEW j \in 1..7 PROVE Pad(f).data[j] = Bytes(p)[a - 1 + j]
  <2> DEFINE x == a - 1 + j
             L == Len(p)
  <2>1. x \in Nat /\ x >= 1 /\ a + j - 1 = x OBVIOUS
  <2>2. CASE j =< b - a + 1
    <3>1. j \in 1..(b - a + 1) BY <2>2
    <3>2. Pad(f).data[j] = p[x] BY <1>2, <2>1, <2>2, <3>1
    <3>3. x =< b BY <2>2
    <3>4. x \in 1..L BY <1>1, <2>1, <3>3
    <3> HIDE DEF x
    <3> QED BY <2>1, <3>2, <3>4, SMTT(30) DEF Bytes
  <2>3. CASE ~(j =< b - a + 1)
    <3>1. Pad(f).data[j] = 0 BY <1>2, <2>3
    <3>2. x > b /\ b # a + 6 BY <2>3
    <3>3. ~(x \in 1..L) BY <1>1, <2>1, <3>2
    <3> HIDE DEF x
    <3> QED BY <2>1, <3>1, <3>3 DEF Bytes
  <2> QED BY <2>2, <2>3
<1> QED BY <1>2, <1>3

\* A payload of more than one frame.
LEMMA ManyFramesAnswer ==
  ASSUME NEW p \in Seq(Nat), Len(p) > 7, Len(p) =< MaxLength
  PROVE  /\ Padded(p) \in Seq(Frame) /\ Len(Padded(p)) = 1 + (Len(p) \div 7)
         /\ Padded(p)[1].pci = First /\ Padded(p)[1].n = Len(p)
         /\ Len(Padded(p)[1].data) = 6 /\ \A j \in 1..6 : Padded(p)[1].data[j] = Bytes(p)[j]
         /\ \A k \in 1..(Len(p) \div 7) :
              /\ Padded(p)[k + 1].pci = Next1 /\ Padded(p)[k + 1].n = k % 16 /\ Len(Padded(p)[k + 1].data) = 7
              /\ \A j \in 1..7 : Padded(p)[k + 1].data[j] = Bytes(p)[7 * k - 1 + j]
<1> DEFINE L == Len(p)
           m == L \div 7
           u == Upto(p, 6)
           f == [pci |-> First, n |-> L % 4096, data |-> u]
           g == [k \in 1..m |->
                  [pci |-> Next1, n |-> SequenceNumber(k), data |-> SubSeq(p, 7 * k, Least(7 * k + 6, L))]]
           P == Padded(p)
<1>1. L \in Nat /\ L > 7 /\ L =< MaxLength BY LenProperties
<1>2. FrameRequest(p) = <<f>> \o g
  <2>1. p # <<>> /\ ~(Len(p) =< 7) BY <1>1
  <2>2. FrameRequest(p) = IF p = <<>> THEN <<>>
                          ELSE IF Len(p) =< 7 THEN <<[pci |-> Single, n |-> Len(p), data |-> p]>>
                          ELSE <<f>> \o g
        BY DEF FrameRequest, ConsecutiveFrames
  <2> HIDE DEF f, g
  <2> QED BY <2>1, <2>2
<1>4. u \in Seq(Nat) /\ Len(u) = 6 /\ \A j \in 1..6 : u[j] = p[j]
  <2>1. p \in Seq(Nat) /\ 6 \in Nat OBVIOUS
  <2>2. /\ u \in Seq(Nat) /\ Len(u) = IF 6 < Len(p) THEN 6 ELSE Len(p)
        /\ \A j \in 1..Len(u) : u[j] = p[j]
        BY <2>1, UptoFacts
  <2>3. Len(u) = IF 6 < L THEN 6 ELSE L BY <2>2
  <2> HIDE DEF u, L
  <2>4. Len(u) = 6 BY <1>1, <2>3
  <2> QED BY <2>2, <2>4
<1>17. \A b \in 1..L : Bytes(p)[b] = p[b]
  <2>1. \A b \in 1..L : b \in Nat OBVIOUS
  <2> QED BY <2>1 DEF Bytes
<1>18. L = Len(p) OBVIOUS
<1>19. m = L \div 7 OBVIOUS
<1> HIDE DEF L, u
<1>3. m \in Nat BY <1>1
<1>5. f \in Frame /\ f.pci = First /\ f.n = L /\ f.data = u
  <2>1. L % 4096 = L BY <1>1 DEF MaxLength
  <2> QED BY <1>1, <1>4, <2>1 DEF Frame, First
<1>20. \A k \in 1..m : 7 * k \in Nat /\ 7 * k >= 1 /\ 7 * k =< L BY <1>1
<1> HIDE DEF f, m
<1>6. /\ Pad(f) \in Frame /\ Pad(f).pci = First /\ Pad(f).n = L /\ Len(Pad(f).data) = 6
      /\ \A j \in 1..6 : Pad(f).data[j] = Bytes(p)[j]
  <2>1. f \in Frame /\ 6 \in Nat /\ 6 = (IF f.pci = First THEN 6 ELSE 7) /\ Len(f.data) =< 6
    <3>1. 6 = IF f.pci = First THEN 6 ELSE 7 BY <1>5
    <3>2. Len(f.data) = 6 BY <1>4, <1>5, Zenon
    <3>3. Len(f.data) =< 6 BY <3>2
    <3> QED BY <1>5, <3>1, <3>3
  <2>2. /\ Pad(f) \in Frame /\ Pad(f).pci = f.pci /\ Pad(f).n = f.n /\ Len(Pad(f).data) = 6
        /\ \A j \in 1..6 : Pad(f).data[j] = IF j =< Len(f.data) THEN f.data[j] ELSE 0
        BY <2>1, PadFacts
  <2>3. \A j \in 1..6 : j \in 1..L /\ j =< 6 BY <1>1
  <2>4. \A j \in 1..6 : Bytes(p)[j] = p[j] BY <1>17, <2>3
  <2> QED BY <1>4, <1>5, <2>2, <2>3, <2>4
<1>7. ASSUME NEW k \in 1..m
      PROVE  /\ Pad(g[k]) \in Frame /\ Pad(g[k]).pci = Next1 /\ Pad(g[k]).n = k % 16 /\ Len(Pad(g[k]).data) = 7
             /\ \A j \in 1..7 : Pad(g[k]).data[j] = Bytes(p)[7 * k - 1 + j]
  <2>1. g[k] = [pci |-> Next1, n |-> SequenceNumber(k), data |-> SubSeq(p, 7 * k, Least(7 * k + 6, L))]
        BY Zenon
  <2> DEFINE a == 7 * k
             b == Least(7 * k + 6, L)
             d == SubSeq(p, a, b)
             h == g[k]
  <2>3. h = [pci |-> Next1, n |-> SequenceNumber(k), data |-> d] BY <2>1
  <2>4. \A j \in 1..7 : a - 1 + j = 7 * k - 1 + j OBVIOUS
  <2>5. a \in Nat /\ a >= 1 /\ a =< L BY <1>20
  <2>6. b = Least(a + 6, L) OBVIOUS
  <2>7. k \in Nat BY <1>3
  <2> HIDE DEF g, a, b, h
  <2>8. b \in Nat /\ a >= 1 /\ a =< b /\ b =< L /\ b =< a + 6 /\ (b = a + 6 \/ b = L)
        BY <1>1, <2>5, <2>6 DEF Least
  <2>9. b =< Len(p) /\ (b = a + 6 \/ b = Len(p)) BY <1>18, <2>8
  <2>10. d \in Seq(Nat) /\ Len(d) = b - a + 1 /\ \A i \in 1..(b - a + 1) : d[i] = p[a + i - 1]
    <3>1. p \in Seq(Nat) /\ a \in Nat /\ b \in Nat /\ (a >= 1 /\ a =< b /\ b =< Len(p)) BY <2>5, <2>8, <2>9
    <3> QED BY <3>1, Slice, Zenon
  <2>11. SequenceNumber(k) = k % 16 /\ k % 16 \in Nat BY <2>7 DEF SequenceNumber
  <2> HIDE DEF d
  <2>12. h \in Frame /\ h.pci = Next1 /\ h.n = k % 16 /\ h.data = d
         BY <2>3, <2>10, <2>11 DEF Frame, Next1
  <2>13. h \in Frame /\ h.pci = Next1 /\ h.n = k % 16 /\ Len(h.data) = b - a + 1
         /\ \A i \in 1..(b - a + 1) : h.data[i] = p[a + i - 1]
         BY <2>10, <2>12
  <2>14. /\ Pad(h) \in Frame /\ Pad(h).pci = Next1 /\ Pad(h).n = h.n /\ Len(Pad(h).data) = 7
         /\ \A j \in 1..7 : Pad(h).data[j] = Bytes(p)[a - 1 + j]
         BY <2>5, <2>8, <2>9, <2>13, LaterFrame
  <2> QED BY <2>4, <2>13, <2>14 DEF h
<1>8. DOMAIN g = 1..m /\ g = [k \in 1..m |-> g[k]] BY Zenon
<1> HIDE DEF g
<1> DEFINE S == {f} \cup {g[k] : k \in 1..m}
<1>9. f \in S /\ g \in [1..m -> S] BY <1>8
<1> HIDE DEF S
<1> DEFINE fs == <<f>> \o g
<1>10. DOMAIN fs = 1..(1 + m) /\ fs[1] = f /\ \A k \in 1..m : fs[k + 1] = g[k]
       BY <1>3, <1>9, JoinedFacts, SMTT(30)
<1>11. P = [k \in 1..(1 + m) |-> Pad(fs[k])]
  <2>1. P = [k \in DOMAIN fs |-> Pad(fs[k])] BY <1>2, Zenon DEF Padded
  <2> HIDE DEF fs, P
  <2> QED BY <1>10, <2>1
<1> HIDE DEF fs, P
<1>12. P[1] = Pad(f)
  <2>1. 1 \in 1..(1 + m) BY <1>3
  <2> QED BY <1>10, <1>11, <2>1
<1>13. \A k \in 1..m : P[k + 1] = Pad(g[k])
  <2> TAKE k \in 1..m
  <2>1. k + 1 \in 1..(1 + m) BY <1>3
  <2> QED BY <1>10, <1>11, <2>1
<1>14. P \in Seq(Frame) /\ Len(P) = 1 + m
  <2>1. \A k \in 1..(1 + m) : k = 1 \/ (k - 1 \in 1..m /\ k - 1 + 1 = k) BY <1>3
  <2>2. ASSUME NEW k \in 1..(1 + m) PROVE P[k] \in Frame
    <3>1. CASE k = 1 BY <1>6, <1>12, <3>1
    <3>2. CASE k # 1
      <4>1. k - 1 \in 1..m /\ P[k - 1 + 1] = P[k] BY <2>1, <3>2
      <4>2. P[k] = Pad(g[k - 1]) /\ Pad(g[k - 1]) \in Frame BY <1>7, <1>13, <4>1
      <4> QED BY <4>2
    <3> QED BY <3>1, <3>2
  <2>3. 1 + m \in Nat BY <1>3
  <2>4. P \in [1..(1 + m) -> Frame]
    <3>1. P = [k \in 1..(1 + m) |-> P[k]] BY <1>11, Zenon
    <3> QED BY <2>2, <3>1
  <2>5. P \in Seq(Frame) BY <2>3, <2>4, SeqDef
  <2> QED BY <2>3, <2>4, <2>5, LenProperties
<1>15. \A k \in 1..m :
         /\ P[k + 1].pci = Next1 /\ P[k + 1].n = k % 16 /\ Len(P[k + 1].data) = 7
         /\ \A j \in 1..7 : P[k + 1].data[j] = Bytes(p)[7 * k - 1 + j]
  BY <1>7, <1>13, Zenon
<1>16. P[1].pci = First /\ P[1].n = Len(p) /\ Len(P[1].data) = 6 /\ \A j \in 1..6 : P[1].data[j] = Bytes(p)[j]
  BY <1>6, <1>12, <1>18, Zenon
<1>21. m = Len(p) \div 7 BY <1>18, <1>19, Zenon
<1> QED BY <1>14, <1>15, <1>16, <1>21, Zenon DEF P

\* Where the bytes of the k-th frame begin: six in the first, seven in each of the others.
Room(k) == IF k = 1 THEN 6 ELSE 7
Before(k) == IF k = 0 THEN 0 ELSE 7 * k - 1

\* The frames hold the bytes of a payload one after the other.
Hold(fs, c) == \A k \in 1..Len(fs) : \A j \in 1..Room(k) : fs[k].data[j] = c[Before(k - 1) + j]

\* Full frames are joined to the bytes they hold.
LEMMA JoinedBytes ==
  ASSUME NEW c \in [Nat -> Nat], NEW fs \in Seq(Frame),
         \A k \in 1..Len(fs) : Len(fs[k].data) = Room(k)
  PROVE  /\ Joined(fs) \in Seq(Nat) /\ Len(Joined(fs)) = Before(Len(fs))
         /\ Hold(fs, c) => \A b \in 1..Before(Len(fs)) : Joined(fs)[b] = c[b]
<1> DEFINE joined[k \in 0..Len(fs)] == IF k = 0 THEN <<>> ELSE joined[k - 1] \o Upto(fs[k].data, IF k = 1 THEN 6 ELSE 7)
           n == Len(fs)
           piece(k) == Upto(fs[k].data, Room(k))
           g == [x \in (1..n) \X Seq(Nat) |-> x[2] \o piece(x[1])]
<1>1. n \in Nat /\ \A k \in 1..n : fs[k] \in Frame /\ fs[k].data \in Seq(Nat)
  <2>1. n \in Nat /\ \A k \in 1..n : fs[k] \in Frame BY LenProperties, ElementOfSeq
  <2>2. \A f \in Frame : f.data \in Seq(Nat) BY DEF Frame
  <2> HIDE DEF n
  <2> QED BY <2>1, <2>2
<1>2. Joined(fs) = joined[n] BY DEF Joined
<1>3. ASSUME NEW k \in 1..n
      PROVE  /\ piece(k) \in Seq(Nat) /\ Len(piece(k)) = Room(k)
             /\ Hold(fs, c) => \A j \in 1..Room(k) : piece(k)[j] = c[Before(k - 1) + j]
  <2> DEFINE d == fs[k].data
             r == Room(k)
             u == Upto(d, r)
  <2>1. d \in Seq(Nat) /\ Len(d) = r /\ (Hold(fs, c) => \A j \in 1..r : d[j] = c[Before(k - 1) + j]) BY <1>1 DEF Hold
  <2>2. r \in Nat BY DEF Room
  <2>3. u = piece(k) OBVIOUS
  <2> HIDE DEF d, r
  <2>4. u \in Seq(Nat) /\ Len(u) = (IF r < Len(d) THEN r ELSE Len(d)) /\ \A j \in 1..Len(u) : u[j] = d[j]
        BY <2>1, <2>2, UptoFacts
  <2> HIDE DEF u, piece
  <2>5. Len(u) = r BY <2>1, <2>4
  <2>6. piece(k) \in Seq(Nat) /\ Len(piece(k)) = r
         /\ (Hold(fs, c) => \A j \in 1..r : piece(k)[j] = c[Before(k - 1) + j])
        BY <2>1, <2>3, <2>4, <2>5
  <2> QED BY <2>6 DEF r
<1>4. g \in Steps(n, Seq(Nat))
  <2> HIDE DEF piece, n
  <2>1. ASSUME NEW x \in (1..n) \X Seq(Nat) PROVE x[2] \o piece(x[1]) \in Seq(Nat)
    <3>1. x[1] \in 1..n /\ x[2] \in Seq(Nat) OBVIOUS
    <3>2. piece(x[1]) \in Seq(Nat) BY <1>3, <3>1
    <3> QED BY <3>1, <3>2, ConcatProperties
  <2> QED BY <2>1 DEF Steps
<1>5. PICK f \in Values(n, Seq(Nat)) : Unfolds(f, n, <<>>, g)
  <2>1. <<>> \in Seq(Nat) OBVIOUS
  <2> HIDE DEF g, n
  <2> QED BY <1>1, <1>4, <2>1, Recursion, Zenon
<1>6. ASSUME NEW k \in 1..n
      PROVE  f[k - 1] \in Seq(Nat) /\ f[k] = f[k - 1] \o piece(k)
  <2>1. k - 1 \in 0..n BY <1>1
  <2>2. f[k - 1] \in Seq(Nat) BY <1>5, <2>1 DEF Values
  <2>3. f[k] = g[<<k, f[k - 1]>>] BY <1>5 DEF Unfolds
  <2> HIDE DEF piece, n
  <2> QED BY <2>2, <2>3
<1>7. f = [k \in 0..n |-> IF k = 0 THEN <<>> ELSE f[k - 1] \o Upto(fs[k].data, IF k = 1 THEN 6 ELSE 7)]
  <2>1. ASSUME NEW k \in 0..n
        PROVE  f[k] = IF k = 0 THEN <<>> ELSE f[k - 1] \o Upto(fs[k].data, IF k = 1 THEN 6 ELSE 7)
    <3>1. CASE k = 0 BY <1>5, <3>1 DEF Unfolds
    <3>2. CASE k # 0
      <4>1. k \in 1..n BY <1>1, <3>2
      <4>2. f[k] = f[k - 1] \o Upto(fs[k].data, IF k = 1 THEN 6 ELSE 7) BY <1>6, <4>1 DEF Room
      <4> QED BY <3>2, <4>2
    <3> QED BY <3>1, <3>2
  <2>2. f = [k \in 0..n |-> f[k]] BY <1>5 DEF Values
  <2> QED BY <2>1, <2>2
<1>8. joined = [k \in 0..n |-> IF k = 0 THEN <<>> ELSE joined[k - 1] \o Upto(fs[k].data, IF k = 1 THEN 6 ELSE 7)]
  BY <1>7, Zenon DEF joined
<1> HIDE DEF joined, g
<1> DEFINE Good(k) == /\ joined[k] \in Seq(Nat) /\ Len(joined[k]) = Before(k)
                      /\ Hold(fs, c) => \A b \in 1..Before(k) : joined[k][b] = c[b]
           Bad == {k \in 0..n : ~Good(k)}
<1>9. Good(0)
  <2>1. joined[0] = <<>> BY <1>1, <1>8
  <2> QED BY <2>1 DEF Before
<1>10. ASSUME NEW k \in 1..n, Good(k - 1) PROVE Good(k)
  <2>1. joined[k] = joined[k - 1] \o piece(k)
    <3>1. k \in 0..n /\ k # 0 BY <1>1
    <3>2. joined[k] = joined[k - 1] \o Upto(fs[k].data, IF k = 1 THEN 6 ELSE 7) BY <1>8, <3>1, Zenon
    <3> QED BY <3>2 DEF Room
  <2> DEFINE s == joined[k - 1]
             t == piece(k)
             p == Before(k - 1)
             r == Room(k)
  <2>2. s \in Seq(Nat) /\ Len(s) = p /\ (Hold(fs, c) => \A b \in 1..p : s[b] = c[b]) BY <1>10
  <2>3. t \in Seq(Nat) /\ Len(t) = r /\ (Hold(fs, c) => \A j \in 1..r : t[j] = c[p + j]) BY <1>3
  <2>4. p \in Nat /\ r \in Nat /\ Before(k) = p + r BY SMTT(30) DEF Before, Room
  <2>5. joined[k] = s \o t BY <2>1
  <2> HIDE DEF s, t, p, r, piece
  <2>6. s \o t \in Seq(Nat) /\ Len(s \o t) = p + r BY <2>2, <2>3, ConcatProperties
  <2>7. ASSUME Hold(fs, c), NEW b \in 1..(p + r) PROVE (s \o t)[b] = c[b]
    <3>1. (s \o t)[b] = IF b =< p THEN s[b] ELSE t[b - p] BY <2>2, <2>3, <2>4, ConcatProperties
    <3>2. CASE b =< p
      <4>1. b \in 1..p BY <2>4, <3>2
      <4> QED BY <2>2, <2>7, <3>1, <3>2, <4>1
    <3>3. CASE ~(b =< p)
      <4>1. b - p \in 1..r /\ p + (b - p) = b BY <2>4, <3>3
      <4>2. t[b - p] = c[p + (b - p)] BY <2>3, <2>7, <4>1
      <4> QED BY <3>1, <3>3, <4>1, <4>2
    <3> QED BY <3>2, <3>3
  <2> QED BY <2>4, <2>5, <2>6, <2>7
<1>11. Bad = {}
  <2> SUFFICES ASSUME Bad # {} PROVE FALSE
      OBVIOUS
  <2>1. Bad \in SUBSET Nat OBVIOUS
  <2> HIDE DEF Good
  <2>2. PICK m \in Bad : \A y \in Bad : m =< y
    <3> HIDE DEF Bad
    <3> QED BY <2>1, Least1
  <2>3. m # 0 BY <1>9
  <2>4. m \in 1..n /\ m - 1 \in 0..n /\ ~(m =< m - 1) BY <1>1, <2>3
  <2>5. Good(m - 1) BY <2>2, <2>4
  <2> QED BY <1>10, <2>4, <2>5
<1>12. Good(n)
  <2> HIDE DEF Good
  <2>1. n \in 0..n BY <1>1
  <2> QED BY <1>11, <2>1
<1> QED BY <1>2, <1>12

\* At least as many places as there are, each after the one before it: they are all of them.
LEMMA InTurn ==
  ASSUME NEW n \in Nat, NEW m \in Nat, m =< n, NEW q \in [1..n -> 1..m],
         \A i \in 1..n : i + 1 =< n => q[i] < q[i + 1]
  PROVE  n = m /\ \A i \in 1..n : q[i] = i
<1>1. \A i \in 1..n : q[i] \in 1..m OBVIOUS
<1>2. ASSUME NEW i \in 1..n PROVE q[i] >= i
  <2> DEFINE Bad == {j \in 1..n : q[j] < j}
  <2> SUFFICES ASSUME q[i] < i PROVE FALSE
      BY <1>1
  <2>1. Bad \in SUBSET Nat /\ Bad # {}
    <3>1. i \in Bad OBVIOUS
    <3>2. Bad \in SUBSET Nat OBVIOUS
    <3> HIDE DEF Bad
    <3> QED BY <3>1, <3>2
  <2>2. PICK j \in Bad : \A y \in Bad : j =< y
    <3> HIDE DEF Bad
    <3> QED BY <2>1, Least1
  <2>3. j \in 1..n /\ q[j] < j OBVIOUS
  <2>4. j # 1 BY <1>1, <2>3
  <2>5. j - 1 \in 1..n /\ j - 1 + 1 = j BY <2>3, <2>4
  <2>6. q[j - 1] < q[j] BY <2>3, <2>5
  <2>7. j - 1 \in Bad BY <1>1, <2>3, <2>5, <2>6
  <2>8. j =< j - 1 BY <2>2, <2>7
  <2> QED BY <2>3, <2>8
<1>3. n = m
  <2>1. CASE n = 0 BY <2>1
  <2>2. CASE n # 0
    <3>1. n \in 1..n BY <2>2
    <3>2. q[n] >= n /\ q[n] =< m BY <1>1, <1>2, <3>1
    <3>3. q[n] \in Nat BY <1>1, <3>1
    <3> QED BY <3>2, <3>3
  <2> QED BY <2>1, <2>2
<1>4. ASSUME NEW i \in 1..n PROVE q[i] =< i
  <2> DEFINE Bad == {j \in 1..n : q[j] > j}
             Far == {n - j : j \in Bad}
  <2> SUFFICES ASSUME q[i] > i PROVE FALSE
      BY <1>1
  <2>1. Far \in SUBSET Nat /\ Far # {}
    <3>1. \A j \in 1..n : n - j \in Nat OBVIOUS
    <3>2. i \in Bad OBVIOUS
    <3> QED BY <3>1, <3>2
  <2>2. PICK x \in Far : \A y \in Far : x =< y
    <3> HIDE DEF Far
    <3> QED BY <2>1, Least1
  <2>3. PICK j \in Bad : x = n - j OBVIOUS
  <2>4. j \in 1..n /\ q[j] > j OBVIOUS
  <2>5. j # n BY <1>1, <1>3, <2>4
  <2>6. j + 1 \in 1..n /\ j + 1 =< n BY <2>4, <2>5
  <2>7. q[j] < q[j + 1] BY <2>4, <2>6
  <2>8. q[j + 1] > j + 1 BY <1>1, <2>4, <2>6, <2>7
  <2>9. n - (j + 1) \in Far BY <2>6, <2>8
  <2>10. n - j =< n - (j + 1) BY <2>2, <2>3, <2>9
  <2> QED BY <2>4, <2>10
<1>5. ASSUME NEW i \in 1..n PROVE q[i] = i
  <2>1. q[i] >= i /\ q[i] =< i /\ q[i] \in Nat /\ i \in Nat BY <1>1, <1>2, <1>4
  <2> QED BY <2>1
<1> QED BY <1>3, <1>5

\* Two frames in a row have different numbers.
LEMMA NextNumber == \A i \in Nat : i % 16 # (i + 1) % 16
OBVIOUS

\* A first frame and frames after it, taken in order from those of an answer: if their numbers go up by one and
\* their bytes are enough, they are the frames of the answer.
LEMMA WholeAnswer ==
  ASSUME NEW p \in Seq(Nat), Len(p) > 7, Len(p) =< MaxLength,
         NEW fs \in Seq(Frame), fs # <<>>, fs[1] = Padded(p)[1],
         NEW q \in [1..(Len(fs) - 1) -> 1..(Len(p) \div 7)],
         \A i \in 1..(Len(fs) - 1) : /\ InSequence(fs[i + 1], i) /\ fs[i + 1] = Padded(p)[q[i] + 1]
                                     /\ \A j \in i..(Len(fs) - 1) : q[i] =< q[j],
         Len(Joined(fs)) >= Len(p)
  PROVE  Upto(Joined(fs), Len(p)) = p
<1> DEFINE L == Len(p)
           m == L \div 7
           n == Len(fs) - 1
           P == Padded(p)
           c == Bytes(p)
<1>1. L \in Nat /\ L > 7 /\ m \in Nat /\ 7 * m =< L /\ L =< 7 * m + 6
  <2>1. L \in Nat /\ L > 7 BY LenProperties
  <2> HIDE DEF L
  <2> QED BY <2>1
<1>2. n \in Nat /\ Len(fs) = n + 1 BY EmptySeq, LenProperties
<1>3. /\ P[1].pci = First /\ Len(P[1].data) = 6 /\ \A j \in 1..6 : P[1].data[j] = c[j]
      /\ \A k \in 1..m : /\ P[k + 1].pci = Next1 /\ P[k + 1].n = k % 16 /\ Len(P[k + 1].data) = 7
                         /\ \A j \in 1..7 : P[k + 1].data[j] = c[7 * k - 1 + j]
      BY ManyFramesAnswer
<1>4. q \in [1..n -> 1..m] /\ fs[1] = P[1] OBVIOUS
<1>5. \A i \in 1..n : /\ fs[i + 1].n = i % 16 /\ fs[i + 1] = P[q[i] + 1] /\ q[i] \in 1..m
                      /\ \A j \in i..n : q[i] =< q[j]
  BY DEF InSequence
<1>6. c \in [Nat -> Nat]
  <2>1. \A b \in 1..Len(p) : p[b] \in Nat BY ElementOfSeq
  <2> QED BY <2>1 DEF Bytes
<1>7. Len(Joined(fs)) >= L OBVIOUS
<1>17. L = Len(p) OBVIOUS
<1> HIDE DEF L, m, n, P, c
<1>8. \A k \in 1..(n + 1) : k = 1 \/ (k - 1 \in 1..n /\ k - 1 + 1 = k) BY <1>2
<1>9. ASSUME NEW k \in 1..Len(fs) PROVE Len(fs[k].data) = Room(k)
  <2>1. CASE k = 1 BY <1>3, <1>4, <2>1 DEF Room
  <2>2. CASE k # 1
    <3>1. k - 1 \in 1..n /\ fs[k] = P[q[k - 1] + 1] BY <1>2, <1>5, <1>8, <2>2
    <3>2. q[k - 1] \in 1..m BY <1>5, <3>1
    <3>3. Len(fs[k].data) = 7 BY <1>3, <3>1, <3>2
    <3> QED BY <2>2, <3>3 DEF Room
  <2> QED BY <2>1, <2>2
<1>10. /\ Joined(fs) \in Seq(Nat) /\ Len(Joined(fs)) = Before(n + 1)
       /\ Hold(fs, c) => \A b \in 1..Before(n + 1) : Joined(fs)[b] = c[b]
  BY <1>2, <1>6, <1>9, JoinedBytes
<1>11. Before(n + 1) = 7 * n + 6 BY <1>2 DEF Before
<1>12. m =< n BY <1>1, <1>2, <1>7, <1>10, <1>11, SMTT(30)
<1>13. ASSUME NEW i \in 1..n, i + 1 =< n PROVE q[i] < q[i + 1]
  <2>1. i + 1 \in 1..n /\ i + 1 \in i..n /\ i \in Nat BY <1>2, <1>13
  <2>2. q[i] =< q[i + 1] /\ q[i] \in 1..m /\ q[i + 1] \in 1..m BY <1>5, <2>1
  <2>3. fs[i + 1].n = q[i] % 16 /\ fs[i + 1].n = i % 16 BY <1>3, <1>5, <2>2
  <2>4. fs[i + 1 + 1].n = q[i + 1] % 16 /\ fs[i + 1 + 1].n = (i + 1) % 16 BY <1>3, <1>5, <2>1, <2>2
  <2>5. i % 16 # (i + 1) % 16 BY <2>1, NextNumber
  <2>6. q[i] # q[i + 1] BY <2>3, <2>4, <2>5
  <2> QED BY <1>1, <2>2, <2>6
<1>14. n = m /\ \A i \in 1..n : q[i] = i BY <1>1, <1>2, <1>4, <1>12, <1>13, InTurn, ZenonT(60)
<1>15. Hold(fs, c)
  <2> SUFFICES ASSUME NEW k \in 1..Len(fs), NEW j \in 1..Room(k) PROVE fs[k].data[j] = c[Before(k - 1) + j]
      BY DEF Hold
  <2>1. CASE k = 1
    <3>1. Room(k) = 6 /\ Before(k - 1) = 0 BY <2>1 DEF Room, Before
    <3>2. j \in 1..6 /\ Before(k - 1) + j = j BY <3>1
    <3> QED BY <1>3, <1>4, <2>1, <3>2
  <2>2. CASE k # 1
    <3>0. k \in 1..(n + 1) BY <1>2
    <3>5. k - 1 \in 1..n /\ k - 1 + 1 = k BY <1>8, <2>2, <3>0
    <3>6. fs[k - 1 + 1] = P[q[k - 1] + 1] /\ q[k - 1] = k - 1 BY <1>5, <1>14, <3>5
    <3>1. k - 1 \in 1..n /\ fs[k] = P[k - 1 + 1] BY <3>5, <3>6
    <3>2. Room(k) = 7 /\ Before(k - 1) = 7 * (k - 1) - 1 BY <1>2, <2>2, <3>1 DEF Room, Before
    <3>3. k - 1 \in 1..m /\ j \in 1..7 BY <1>14, <3>1, <3>2
    <3>4. fs[k].data[j] = c[7 * (k - 1) - 1 + j] BY <1>3, <3>1, <3>3
    <3> QED BY <3>2, <3>4
  <2> QED BY <2>1, <2>2
<1>16. Upto(Joined(fs), L) = p
  <2> DEFINE s == Joined(fs)
             u == Upto(s, L)
  <2>1. s \in Seq(Nat) /\ Len(s) = 7 * n + 6 /\ \A b \in 1..(7 * n + 6) : s[b] = c[b] BY <1>10, <1>11, <1>15
  <2> HIDE DEF s
  <2>2. /\ u \in Seq(Nat) /\ Len(u) = IF L < Len(s) THEN L ELSE Len(s)
        /\ \A j \in 1..Len(u) : u[j] = s[j]
        BY <1>1, <2>1, UptoFacts, SMTT(30)
  <2> HIDE DEF u
  <2>3. Len(u) = L BY <1>1, <1>14, <2>1, <2>2
  <2>4. ASSUME NEW b \in 1..Len(u) PROVE u[b] = p[b]
    <3>1. b \in 1..L /\ b \in Nat /\ b \in 1..(7 * n + 6) BY <1>1, <1>14, <2>3
    <3>2. u[b] = c[b] BY <2>1, <2>2, <3>1
    <3>3. c[b] = p[b] BY <1>17, <3>1 DEF c, Bytes
    <3> QED BY <3>2, <3>3
  <2>5. Len(u) = Len(p) BY <1>17, <2>3
  <2>6. u = p BY <2>2, <2>4, <2>5, SeqEqual
  <2> QED BY <2>6 DEF u, s
<1> QED BY <1>16 DEF L
-----------------------------------------------------------------------------
(* What is returned for lines that come in the order of the ECU's reply. *)

\* Lines of the reply in its order, but for the first frame of the answer, which an ECU that is stuck repeats.
Ordered(s, hi) ==
  \E pos \in [1..Len(s) -> 1..hi] :
    \A i \in 1..Len(s) : /\ s[i] = WholeReply[pos[i]]
                         /\ \A j \in i..Len(s) : pos[i] =< pos[j] \/ pos[j] = Len(prelude) + 1

\* What the reply is made of.
LEMMA ReplyFacts ==
  ASSUME Setting
  PROVE  /\ prelude \in Seq(Frame) /\ AnswerFrames \in Seq(Frame) /\ AnswerFrames # <<>>
         /\ WholeReply \in Seq(Frame) /\ Len(WholeReply) = Len(prelude) + Len(AnswerFrames)
         /\ \A i \in 1..Len(prelude) : WholeReply[i] = prelude[i] /\ prelude[i].pci = Single
         /\ \A i \in 1..Len(AnswerFrames) : WholeReply[Len(prelude) + i] = AnswerFrames[i]
<1>1. answer \in Seq(Nat) \ {<<>>} /\ Len(answer) =< MaxLength
      /\ prelude \in Seq([pci : {Single}, n : Nat, data : Seq(Nat)])
      BY ConstantsAssumption DEF Setting
<1>2. prelude \in Seq(Frame) /\ \A i \in 1..Len(prelude) : prelude[i].pci = Single
  <2> DEFINE R == [pci : {Single}, n : Nat, data : Seq(Nat)]
  <2>1. R \subseteq Frame /\ \A r \in R : r.pci = Single BY DEF Frame, Single
  <2>2. prelude \in Seq(R) BY <1>1
  <2> HIDE DEF R
  <2>3. \A j \in 1..Len(prelude) : prelude[j] \in R BY <2>2, ElementOfSeq
  <2> QED BY <2>1, <2>2, <2>3, SeqMonotonic
<1>3. AnswerFrames \in Seq(Frame) /\ Len(AnswerFrames) >= 1
  <2>1. Len(answer) \in Nat BY <1>1, LenProperties
  <2>2. CASE Len(answer) =< 7
    <3>1. Padded(answer) \in Seq(Frame) /\ Len(Padded(answer)) = 1 BY <1>1, <2>2, OneFrameAnswer
    <3> QED BY <3>1 DEF AnswerFrames
  <2>3. CASE ~(Len(answer) =< 7)
    <3>1. answer \in Seq(Nat) /\ Len(answer) > 7 BY <1>1, <2>1, <2>3
    <3>2. Padded(answer) \in Seq(Frame) /\ Len(Padded(answer)) = 1 + (Len(answer) \div 7)
          BY <1>1, <3>1, ManyFramesAnswer
    <3>3. 1 + (Len(answer) \div 7) >= 1 BY <2>1
    <3> QED BY <3>2, <3>3 DEF AnswerFrames
  <2> QED BY <2>2, <2>3
<1> DEFINE s == prelude
           t == AnswerFrames
<1>4. s \in Seq(Frame) /\ t \in Seq(Frame) /\ Len(s) \in Nat /\ Len(t) \in Nat /\ Len(t) >= 1
      BY <1>2, <1>3, LenProperties
<1>5. WholeReply = s \o t BY DEF WholeReply
<1> HIDE DEF s, t
<1>6. s \o t \in Seq(Frame) /\ Len(s \o t) = Len(s) + Len(t) BY <1>4, ConcatProperties
<1>7. \A i \in 1..Len(s) : (s \o t)[i] = s[i]
  <2> TAKE i \in 1..Len(s)
  <2>1. i \in 1..(Len(s) + Len(t)) /\ i =< Len(s) BY <1>4
  <2> QED BY <1>4, <2>1, ConcatProperties
<1>8. \A i \in 1..Len(t) : (s \o t)[Len(s) + i] = t[i]
  <2> TAKE i \in 1..Len(t)
  <2>1. Len(s) + i \in 1..(Len(s) + Len(t)) /\ ~(Len(s) + i =< Len(s)) /\ Len(s) + i - Len(s) = i BY <1>4
  <2>2. (s \o t)[Len(s) + i] = t[Len(s) + i - Len(s)] BY <1>4, <2>1, ConcatProperties
  <2> QED BY <2>1, <2>2
<1>9. t # <<>> BY <1>4
<1> QED BY <1>2, <1>4, <1>5, <1>6, <1>7, <1>8, <1>9 DEF s, t

\* The kinds of the answer's frames: one single frame, or a first frame and consecutive ones.
LEMMA AnswerFacts ==
  ASSUME Setting
  PROVE  \/ /\ Len(answer) =< 7 /\ Len(AnswerFrames) = 1 /\ AnswerFrames[1].pci = Single
            /\ AnswerFrames[1].n = Len(answer) /\ OneFrame(AnswerFrames[1]).result = answer
         \/ /\ Len(answer) > 7 /\ Len(AnswerFrames) = 1 + (Len(answer) \div 7) /\ AnswerFrames[1].pci = First
            /\ AnswerFrames[1].n = Len(answer)
            /\ \A i \in 1..(Len(answer) \div 7) : AnswerFrames[i + 1].pci = Next1 /\ AnswerFrames[i + 1].n = i % 16
<1>1. answer \in Seq(Nat) \ {<<>>} /\ Len(answer) =< MaxLength
      BY ConstantsAssumption DEF Setting
<1>2. Len(answer) \in Nat BY <1>1, LenProperties
<1>3. AnswerFrames = Padded(answer) BY DEF AnswerFrames
<1>4. CASE Len(answer) =< 7
  <2>1. /\ Len(Padded(answer)) = 1 /\ Padded(answer)[1].pci = Single
        /\ Padded(answer)[1].n = Len(answer) /\ OneFrame(Padded(answer)[1]).result = answer
        BY <1>1, <1>4, OneFrameAnswer
  <2> QED BY <1>3, <1>4, <2>1
<1>5. CASE ~(Len(answer) =< 7)
  <2>1. answer \in Seq(Nat) /\ Len(answer) > 7 BY <1>1, <1>2, <1>5
  <2>2. /\ Len(Padded(answer)) = 1 + (Len(answer) \div 7)
        /\ Padded(answer)[1].pci = First /\ Padded(answer)[1].n = Len(answer)
        /\ \A k \in 1..(Len(answer) \div 7) : Padded(answer)[k + 1].pci = Next1 /\ Padded(answer)[k + 1].n = k % 16
        BY <1>1, <2>1, ManyFramesAnswer
  <2> QED BY <1>3, <2>1, <2>2
<1> QED BY <1>4, <1>5

\* The first place of a batch where something holds.
LEMMA LeastPlace ==
  ASSUME NEW n \in Nat, NEW I \in SUBSET (1..n), I # {}
  PROVE  Min(I) \in I /\ \A j \in I : Min(I) =< j
<1>1. I \in SUBSET Nat OBVIOUS
<1>2. \E x \in I : \A y \in I : x =< y BY <1>1, Least1
<1> QED BY <1>2 DEF Min

LEMMA FirstOfFacts ==
  ASSUME NEW fs \in Seq(Frame)
  PROVE  \/ FirstOf(fs) = 0 /\ \A i \in 1..Len(fs) : fs[i].pci # First
         \/ FirstOf(fs) \in 1..Len(fs) /\ fs[FirstOf(fs)].pci = First
            /\ \A i \in 1..Len(fs) : i < FirstOf(fs) => fs[i].pci # First
<1> DEFINE I == {i \in 1..Len(fs) : fs[i].pci = First}
           n == Len(fs)
<1>1. n \in Nat BY LenProperties
<1>2. FirstOf(fs) = IF I # {} THEN Min(I) ELSE 0 BY DEF FirstOf, SelectInSeq
<1>3. CASE I = {} BY <1>2, <1>3
<1>4. CASE I # {}
  <2>1. I \in SUBSET (1..n) OBVIOUS
  <2>2. Min(I) \in I /\ \A j \in I : Min(I) =< j
    <3> HIDE DEF I, n
    <3> QED BY <1>1, <1>4, <2>1, LeastPlace
  <2>3. FirstOf(fs) = Min(I) BY <1>2, <1>4
  <2> DEFINE x == FirstOf(fs)
  <2>4. x \in I /\ \A j \in I : x =< j BY <2>2, <2>3, Zenon
  <2>5. x \in 1..n /\ fs[x].pci = First BY <2>4
  <2>6. \A i \in 1..n : i < x => fs[i].pci # First BY <1>1, <2>4, <2>5
  <2> QED BY <2>5, <2>6
<1> QED BY <1>3, <1>4

LEMMA DiagnosticFacts ==
  ASSUME NEW fs \in Seq(Frame), NEW sid
  PROVE  LET Fits(f) == f.pci = Single /\ AnswersTo(OneFrame(f).result, sid) IN
         \/ Diagnostic(fs, sid) = 0 /\ \A i \in 1..Len(fs) : ~Fits(fs[i])
         \/ Diagnostic(fs, sid) \in 1..Len(fs) /\ Fits(fs[Diagnostic(fs, sid)])
<1> DEFINE Fits(f) == f.pci = Single /\ AnswersTo(OneFrame(f).result, sid)
           I == {i \in 1..Len(fs) : Fits(fs[i])}
           n == Len(fs)
<1>1. n \in Nat BY LenProperties
<1>2. Diagnostic(fs, sid) = IF I # {} THEN Min(I) ELSE 0 BY DEF Diagnostic, SelectInSeq
<1> HIDE DEF Fits
<1>3. CASE I = {}
  <2>1. Diagnostic(fs, sid) = 0 BY <1>2, <1>3
  <2>2. \A i \in 1..Len(fs) : ~Fits(fs[i]) BY <1>3
  <2> QED BY <2>1, <2>2 DEF Fits
<1>4. CASE I # {}
  <2>1. I \in SUBSET (1..n) OBVIOUS
  <2>2. Min(I) \in I
    <3> HIDE DEF I, n
    <3> QED BY <1>1, <1>4, <2>1, LeastPlace
  <2>3. Diagnostic(fs, sid) \in I BY <1>2, <1>4, <2>2
  <2>4. Diagnostic(fs, sid) \in 1..Len(fs) /\ Fits(fs[Diagnostic(fs, sid)]) BY <2>3
  <2> QED BY <2>4 DEF Fits
<1> QED BY <1>3, <1>4

\* What may be returned.
Whole == {answer, <<>>} \cup {OneFrame(prelude[k]).result : k \in DOMAIN prelude}

\* Whether the contents of a batch are taken for a value, and which.
Enough(c) == c.ok /\ Len(c.result) >= c.declared

\* A line of the reply that is a single frame holds the answer, or what came before it.
LEMMA SingleValue ==
  ASSUME Setting, NEW x \in 1..Len(WholeReply), WholeReply[x].pci = Single, Enough(OneFrame(WholeReply[x]))
  PROVE  Upto(OneFrame(WholeReply[x]).result, OneFrame(WholeReply[x]).declared) \in Whole
<1> DEFINE f == WholeReply[x]
           A == AnswerFrames
           P == Len(prelude)
<1>1. /\ prelude \in Seq(Frame) /\ A \in Seq(Frame) /\ WholeReply \in Seq(Frame)
      /\ Len(WholeReply) = P + Len(A)
      /\ \A i \in 1..P : WholeReply[i] = prelude[i] /\ prelude[i].pci = Single
      /\ \A i \in 1..Len(A) : WholeReply[P + i] = A[i]
      BY ReplyFacts
<1>2. P \in Nat /\ Len(A) \in Nat /\ DOMAIN prelude = 1..P BY <1>1, LenProperties
<1>3. f \in Frame BY <1>1, ElementOfSeq
<1>4. f.n \in Nat /\ f.data \in Seq(Nat) /\ f.pci = Single BY <1>3 DEF Frame
<1>5. OneFrame(f).result = Upto(f.data, f.n) /\ OneFrame(f).declared = f.n BY DEF OneFrame, Frames
<1>6. OneFrame(f).result \in Whole
  <2>1. CASE x \in 1..P
    <3>1. f = prelude[x] /\ x \in DOMAIN prelude BY <1>1, <1>2, <2>1
    <3> QED BY <3>1 DEF Whole
  <2>2. CASE ~(x \in 1..P)
    <3>1. x - P \in 1..Len(A) /\ P + (x - P) = x BY <1>1, <1>2, <2>2
    <3>2. f = A[x - P] BY <1>1, <3>1
    <3> DEFINE i == x - P
    <3>3. i \in 1..Len(A) /\ A[i].pci = Single BY <1>4, <3>1, <3>2
    <3> HIDE DEF i
    <3>4. CASE Len(answer) > 7
      <4>1. /\ Len(A) = 1 + (Len(answer) \div 7) /\ A[1].pci = First
            /\ \A j \in 1..(Len(answer) \div 7) : A[j + 1].pci = Next1
            BY <3>4, AnswerFacts
      <4> DEFINE m == Len(answer) \div 7
      <4>2. Len(A) = 1 + m /\ \A j \in 1..m : A[j + 1].pci = Next1 BY <4>1
      <4> HIDE DEF m
      <4>3. m \in Int BY <1>2, <4>2, <4>1, LenProperties DEF m
      <4>4. CASE i = 1 BY <3>3, <4>1, <4>4 DEF Single, First
      <4>5. CASE i # 1
        <5>1. i - 1 \in 1..m /\ i - 1 + 1 = i BY <3>3, <4>2, <4>3, <4>5
        <5>2. A[i].pci = Next1 BY <4>2, <5>1
        <5> QED BY <3>3, <5>2 DEF Single, Next1
      <4> QED BY <4>4, <4>5
    <3>5. CASE ~(Len(answer) > 7)
      <4>1. Len(A) = 1 /\ OneFrame(A[1]).result = answer BY <3>5, AnswerFacts
      <4>2. i = 1 BY <3>3, <4>1
      <4>3. f = A[1] BY <3>2, <4>2 DEF i
      <4>4. OneFrame(f).result = answer BY <4>1, <4>3
      <4> QED BY <4>4 DEF Whole
    <3> QED BY <3>4, <3>5
  <2> QED BY <2>1, <2>2
<1>7. Upto(OneFrame(f).result, OneFrame(f).declared) = OneFrame(f).result
  <2> DEFINE n == f.n
             s == Upto(f.data, n)
             u == Upto(s, n)
  <2>1. Len(s) >= n BY <1>5 DEF Enough
  <2>2. n \in Nat /\ s \in Seq(Nat) BY <1>4, UptoFacts
  <2> HIDE DEF n, s
  <2>3. Len(s) \in Nat BY <2>2, LenProperties
  <2>4. Len(s) =< n
    <3> DEFINE d == f.data
    <3>1. d \in Seq(Nat) /\ n \in Nat /\ Len(d) \in Nat BY <1>4, <2>2, LenProperties
    <3>2. s = Upto(d, n) BY DEF s
    <3> HIDE DEF d
    <3>3. Len(s) = IF n < Len(d) THEN n ELSE Len(d) BY <3>1, <3>2, UptoFacts
    <3> QED BY <3>1, <3>3
  <2>5. Len(s) = n BY <2>1, <2>2, <2>3, <2>4
  <2>6. u \in Seq(Nat) /\ Len(u) = (IF n < Len(s) THEN n ELSE Len(s)) /\ \A j \in 1..Len(u) : u[j] = s[j]
        BY <2>2, UptoFacts
  <2> HIDE DEF u
  <2>7. Len(u) = Len(s) BY <2>2, <2>5, <2>6
  <2>8. u = s BY <2>2, <2>6, <2>7, SeqEqual
  <2> QED BY <1>5, <2>8 DEF u, s, n
<1> QED BY <1>6, <1>7

\* Lines that begin with the first frame are taken for a value only if they are the frames of the answer.
LEMMA MultiValue ==
  ASSUME Setting, NEW fs \in Seq(Frame), fs # <<>>, Ordered(fs, Len(WholeReply)), fs[1].pci = First,
         Enough(MultiFrame(fs))
  PROVE  Upto(MultiFrame(fs).result, MultiFrame(fs).declared) = answer
<1> DEFINE W == WholeReply
           A == AnswerFrames
           P == Len(prelude)
           n == Len(fs)
           m == Len(answer) \div 7
<1>1. /\ prelude \in Seq(Frame) /\ A \in Seq(Frame) /\ W \in Seq(Frame) /\ Len(W) = P + Len(A)
      /\ \A i \in 1..P : W[i] = prelude[i] /\ prelude[i].pci = Single
      /\ \A i \in 1..Len(A) : W[P + i] = A[i]
      BY ReplyFacts
<1>2. P \in Nat /\ Len(A) \in Nat /\ n \in Nat /\ n >= 1 BY <1>1, EmptySeq, LenProperties
<1>3. PICK pos \in [1..n -> 1..Len(W)] :
        \A i \in 1..n : fs[i] = W[pos[i]] /\ \A j \in i..n : pos[i] =< pos[j] \/ pos[j] = P + 1
      BY DEF Ordered
<1>4. answer \in Seq(Nat) /\ Len(answer) =< MaxLength BY ConstantsAssumption DEF Setting
<1>5. \/ Len(A) = 1 /\ A[1].pci = Single
      \/ /\ Len(answer) > 7 /\ Len(A) = 1 + m /\ A[1].pci = First /\ A[1].n = Len(answer)
         /\ \A i \in 1..m : A[i + 1].pci = Next1
      BY AnswerFacts
<1>20. m \in Int BY <1>4, LenProperties
<1> HIDE DEF m, W, A, P
\* The kind of a line says where it comes from.
<1>6. ASSUME NEW x \in 1..Len(W)
      PROVE  /\ W[x].pci = First => x = P + 1
             /\ W[x].pci = Next1 => x - P - 1 \in 1..m /\ W[x] = A[x - P - 1 + 1]
  <2>1. CASE x \in 1..P
    <3>1. W[x].pci = Single BY <1>1, <2>1
    <3> QED BY <3>1 DEF Single, First, Next1
  <2>2. CASE ~(x \in 1..P)
    <3> DEFINE i == x - P
    <3>1. i \in 1..Len(A) /\ P + i = x BY <1>1, <1>2, <2>2
    <3>2. W[x] = A[i] BY <1>1, <3>1
    <3>3. x - P - 1 = i - 1 /\ i - 1 + 1 = i /\ x - P - 1 + 1 = i BY <1>2, <3>1
    <3>4. i = 1 => x = P + 1 BY <3>1
    <3> HIDE DEF i
    <3>5. CASE i = 1
      <4>1. W[x].pci # Next1 BY <1>5, <3>2, <3>5 DEF Single, First, Next1
      <4> QED BY <3>4, <3>5, <4>1
    <3>6. CASE i # 1
      <4> DEFINE l == Len(A)
      <4>5. i \in 1..l /\ l \in Nat /\ (l = 1 \/ l = 1 + m) BY <1>2, <1>5, <3>1
      <4> HIDE DEF l
      <4>6. l # 1 BY <3>6, <4>5
      <4>1. i - 1 \in 1..m BY <1>20, <3>6, <4>5, <4>6
      <4>3. Len(A) # 1 BY <4>6 DEF l
      <4>4. A[i - 1 + 1].pci = Next1 BY <1>5, <4>1, <4>3
      <4>2. A[i].pci = Next1 BY <3>3, <4>4
      <4> QED BY <3>2, <3>3, <4>1, <4>2 DEF First, Next1
    <3> QED BY <3>5, <3>6
  <2> QED BY <2>1, <2>2
<1>7. \A i \in 1..n : pos[i] \in 1..Len(W) OBVIOUS
<1>8. 1 \in 1..n BY <1>2
<1>9. fs[1] = A[1] /\ A[1].pci = First
  <2>1. pos[1] = P + 1 BY <1>3, <1>6, <1>7, <1>8
  <2>2. 1 \in 1..Len(A) BY <1>5, <1>20, <1>7, <1>8, <2>1, <1>1, <1>2
  <2>3. fs[1] = W[P + 1] BY <1>3, <1>8, <2>1
  <2>4. W[P + 1] = A[1] BY <1>1, <2>2
  <2> QED BY <2>3, <2>4
<1>10. Len(answer) > 7 /\ A[1].n = Len(answer) /\ Len(A) = 1 + m BY <1>5, <1>9 DEF Single, First
<1>11. \A k \in 2..n : InSequence(fs[k], k - 1)
  <2>1. MultiFrame(fs).ok BY DEF Enough
  <2> SUFFICES ASSUME ~(\A k \in 2..Len(fs) : InSequence(fs[k], k - 1)) PROVE FALSE
      OBVIOUS
  <2>2. MultiFrame(fs) = Frames(fs[1].n, Upto(fs[1].data, 6), FALSE) BY Zenon DEF MultiFrame
  <2>3. MultiFrame(fs).ok = FALSE BY <2>2 DEF Frames
  <2> QED BY <2>1, <2>3
<1>12. MultiFrame(fs).result = Joined(fs) /\ MultiFrame(fs).declared = Len(answer)
  <2>1. MultiFrame(fs) = Frames(fs[1].n, Joined(fs), TRUE) BY <1>11, Zenon DEF MultiFrame
  <2>2. fs[1].n = Len(answer) BY <1>9, <1>10
  <2> QED BY <2>1, <2>2 DEF Frames
<1>13. Len(Joined(fs)) >= Len(answer) BY <1>12 DEF Enough
<1> DEFINE q == [i \in 1..(n - 1) |-> pos[i + 1] - P - 1]
<1>14. ASSUME NEW i \in 1..(n - 1)
       PROVE  /\ InSequence(fs[i + 1], i) /\ fs[i + 1] = A[q[i] + 1] /\ q[i] \in 1..m
              /\ \A j \in i..(n - 1) : q[i] =< q[j]
  <2>1. i + 1 \in 2..n /\ i + 1 - 1 = i /\ i + 1 \in 1..n BY <1>2
  <2>2. InSequence(fs[i + 1], i + 1 - 1) BY <1>11, <2>1
  <2>3. InSequence(fs[i + 1], i) BY <2>1, <2>2
  <2>4. fs[i + 1].pci = Next1 BY <2>3 DEF InSequence
  <2>5. fs[i + 1] = W[pos[i + 1]] /\ pos[i + 1] \in 1..Len(W) BY <1>3, <1>7, <2>1
  <2>6. pos[i + 1] - P - 1 \in 1..m /\ fs[i + 1] = A[pos[i + 1] - P - 1 + 1]
        BY <1>6, <2>4, <2>5
  <2>7. ASSUME NEW j \in i..(n - 1) PROVE q[i] =< q[j]
    <3>1. j \in 1..(n - 1) /\ j + 1 \in (i + 1)..n /\ j + 1 \in 1..n /\ j + 1 \in 2..n /\ j + 1 - 1 = j BY <1>2
    <3>2. InSequence(fs[j + 1], j + 1 - 1) BY <1>11, <3>1
    <3>3. fs[j + 1].pci = Next1 BY <3>2 DEF InSequence
    <3>4. fs[j + 1] = W[pos[j + 1]] /\ pos[j + 1] \in 1..Len(W) BY <1>3, <1>7, <3>1
    <3>5. W[pos[j + 1]].pci # First BY <3>3, <3>4 DEF First, Next1
    <3>6. pos[j + 1] # P + 1
      <4>1. pos[j + 1] - P - 1 \in 1..m BY <1>6, <3>3, <3>4
      <4> QED BY <1>2, <1>20, <3>4, <4>1
    <3>7. pos[i + 1] =< pos[j + 1] BY <1>3, <2>1, <3>1, <3>6
    <3>8. q[i] = pos[i + 1] - P - 1 /\ q[j] = pos[j + 1] - P - 1 BY <3>1
    <3> HIDE DEF q
    <3> QED BY <1>2, <2>5, <3>4, <3>7, <3>8
  <2> QED BY <2>3, <2>6, <2>7
<1>15. q \in [1..(n - 1) -> 1..m]
  <2>1. \A i \in 1..(n - 1) : q[i] \in 1..m BY <1>14
  <2>2. q = [i \in 1..(n - 1) |-> q[i]] OBVIOUS
  <2> HIDE DEF q
  <2> QED BY <2>1, <2>2
<1> HIDE DEF q
<1>16. Upto(Joined(fs), Len(answer)) = answer
  <2>1. A = Padded(answer) BY DEF A, AnswerFrames
  <2>2. q \in [1..(Len(fs) - 1) -> 1..(Len(answer) \div 7)] BY <1>15 DEF m
  <2>3. fs[1] = Padded(answer)[1] BY <1>9, <2>1
  <2>4. \A i \in 1..(Len(fs) - 1) : /\ InSequence(fs[i + 1], i) /\ fs[i + 1] = Padded(answer)[q[i] + 1]
                                     /\ \A j \in i..(Len(fs) - 1) : q[i] =< q[j]
        BY <1>14, <2>1
  <2> QED BY <1>4, <1>10, <1>13, <2>2, <2>3, <2>4, WholeAnswer
<1> QED BY <1>12, <1>16

\* What is left of the lines from one of them on is still in order.
LEMMA OrderedFrom ==
  ASSUME NEW s \in Seq(Frame), NEW hi \in Nat, Ordered(s, hi), NEW k \in 1..Len(s)
  PROVE  LET t == SubSeq(s, k, Len(s)) IN t \in Seq(Frame) /\ t # <<>> /\ t[1] = s[k] /\ Ordered(t, hi)
<1> DEFINE n == Len(s)
           t == SubSeq(s, k, n)
           l == n - k + 1
<1>1. n \in Nat /\ \A i \in 1..n : s[i] \in Frame BY LenProperties, ElementOfSeq
<1>2. PICK pos \in [1..n -> 1..hi] :
        \A i \in 1..n : /\ s[i] = WholeReply[pos[i]]
                        /\ \A j \in i..n : pos[i] =< pos[j] \/ pos[j] = Len(prelude) + 1
      BY DEF Ordered
<1>3. l \in Nat /\ l >= 1 /\ k \in Nat /\ k =< n BY <1>1
<1>4. t \in Seq(Frame) /\ Len(t) = l /\ \A i \in 1..l : t[i] = s[k + i - 1]
  <2>1. \A i \in k..n : s[i] \in Frame BY <1>1
  <2> HIDE DEF n
  <2> QED BY <1>1, <1>3, <2>1, SubSeqProperties
<1> DEFINE q == [i \in 1..l |-> pos[k + i - 1]]
<1>5. \A i \in 1..l : k + i - 1 \in 1..n BY <1>1
<1>6. q \in [1..l -> 1..hi] BY <1>5
<1>7. ASSUME NEW i \in 1..l
      PROVE  /\ t[i] = WholeReply[q[i]]
             /\ \A j \in i..l : q[i] =< q[j] \/ q[j] = Len(prelude) + 1
  <2>1. q[i] = pos[k + i - 1] /\ k + i - 1 \in 1..n BY <1>5
  <2>2. t[i] = WholeReply[q[i]] BY <1>2, <1>4, <2>1
  <2>3. ASSUME NEW j \in i..l PROVE q[i] =< q[j] \/ q[j] = Len(prelude) + 1
    <3>1. j \in 1..l /\ k + j - 1 \in (k + i - 1)..n BY <1>1
    <3>2. q[j] = pos[k + j - 1] BY <3>1
    <3> HIDE DEF q
    <3> QED BY <1>2, <2>1, <3>1, <3>2
  <2> QED BY <2>2, <2>3
<1> HIDE DEF q, t, l
<1>8. q \in [1..Len(t) -> 1..hi] BY <1>4, <1>6
<1>9. \A i \in 1..Len(t) : /\ t[i] = WholeReply[q[i]]
                           /\ \A j \in i..Len(t) : q[i] =< q[j] \/ q[j] = Len(prelude) + 1
      BY <1>4, <1>7
<1>10. Ordered(t, hi) BY <1>8, <1>9 DEF Ordered
<1>11. t # <<>> BY <1>3, <1>4
<1>12. 1 \in 1..l /\ k + 1 - 1 = k BY <1>3
<1>13. t[1] = s[k] BY <1>4, <1>12
<1> QED BY <1>4, <1>10, <1>11, <1>13 DEF t

\* Whatever the contents of a batch are taken from, they are the answer or what came before it.
LEMMA ContentsValue ==
  ASSUME Setting, NEW fs \in Seq(Frame), fs # <<>>, Ordered(fs, Len(WholeReply)), NEW sid,
         Enough(Contents(fs, sid))
  PROVE  Upto(Contents(fs, sid).result, Contents(fs, sid).declared) \in Whole
<1> DEFINE c == Contents(fs, sid)
           n == Len(fs)
<1> SUFFICES Upto(c.result, c.declared) \in Whole
    OBVIOUS
<1>1. n \in Nat /\ n >= 1 /\ \A i \in 1..n : fs[i] \in Frame BY EmptySeq, LenProperties, ElementOfSeq
<1>2. PICK pos \in [1..n -> 1..Len(WholeReply)] : \A i \in 1..n : fs[i] = WholeReply[pos[i]] BY DEF Ordered
<1>3. ASSUME NEW i \in 1..n, fs[i].pci = Single, c = OneFrame(fs[i]) PROVE Upto(c.result, c.declared) \in Whole
  <2>1. pos[i] \in 1..Len(WholeReply) /\ fs[i] = WholeReply[pos[i]] BY <1>2
  <2>2. Enough(OneFrame(WholeReply[pos[i]])) /\ WholeReply[pos[i]].pci = Single BY <1>3, <2>1
  <2>3. Upto(OneFrame(WholeReply[pos[i]]).result, OneFrame(WholeReply[pos[i]]).declared) \in Whole
        BY <2>1, <2>2, SingleValue
  <2> QED BY <1>3, <2>1, <2>3
<1>4. ASSUME NEW gs \in Seq(Frame), gs # <<>>, Ordered(gs, Len(WholeReply)), gs[1].pci = First, c = MultiFrame(gs)
      PROVE  Upto(c.result, c.declared) \in Whole
  <2>1. Enough(MultiFrame(gs)) BY <1>4
  <2>2. Upto(MultiFrame(gs).result, MultiFrame(gs).declared) = answer BY <1>4, <2>1, MultiValue
  <2> QED BY <1>4, <2>2 DEF Whole
<1>5. ASSUME c = Broken PROVE FALSE
  <2>1. Enough(Broken) BY <1>5
  <2> QED BY <2>1 DEF Broken, Frames, Enough
<1>6. 1 \in 1..n BY <1>1
<1>7. c = IF Len(fs) = 1 THEN IF fs[1].pci = Single THEN OneFrame(fs[1]) ELSE Broken
          ELSE IF fs[1].pci = First THEN MultiFrame(fs)
          ELSE IF fs[1].pci # Single THEN Broken
          ELSE IF Diagnostic(fs, sid) # 0 THEN OneFrame(fs[Diagnostic(fs, sid)])
          ELSE IF FirstOf(fs) = 0 THEN OneFrame(fs[1]) ELSE MultiFrame(SubSeq(fs, FirstOf(fs), Len(fs)))
      BY DEF Contents
<1> HIDE DEF c
<1>8. CASE c = OneFrame(fs[1]) /\ fs[1].pci = Single BY <1>3, <1>6, <1>8
<1>9. CASE c = MultiFrame(fs) /\ fs[1].pci = First BY <1>4, <1>9
<1>10. CASE c = OneFrame(fs[Diagnostic(fs, sid)]) /\ Diagnostic(fs, sid) # 0
  <2>1. Diagnostic(fs, sid) \in 1..n /\ fs[Diagnostic(fs, sid)].pci = Single BY <1>10, DiagnosticFacts
  <2> QED BY <1>3, <1>10, <2>1
<1>11. CASE c = MultiFrame(SubSeq(fs, FirstOf(fs), Len(fs))) /\ FirstOf(fs) # 0
  <2>1. FirstOf(fs) \in 1..n /\ fs[FirstOf(fs)].pci = First BY <1>11, FirstOfFacts
  <2> DEFINE gs == SubSeq(fs, FirstOf(fs), Len(fs))
  <2>2. Len(WholeReply) \in Nat BY ReplyFacts, LenProperties
  <2>3. gs \in Seq(Frame) /\ gs # <<>> /\ gs[1] = fs[FirstOf(fs)] /\ Ordered(gs, Len(WholeReply))
        BY <2>1, <2>2, OrderedFrom
  <2> HIDE DEF gs
  <2>4. c = MultiFrame(gs) BY <1>11 DEF gs
  <2> QED BY <1>4, <2>1, <2>3, <2>4
<1> QED BY <1>5, <1>7, <1>8, <1>9, <1>10, <1>11, Zenon

\* For lines in the order of the ECU's reply, what request returns as a value is whole.
LEMMA ReassembleValue ==
  ASSUME Setting, NEW s \in Seq(Frame), Ordered(s, Len(WholeReply)), NEW sid, Reassemble(s, sid).kind = "value"
  PROVE  Reassemble(s, sid).value \in Whole
<1>1. CASE s = <<>>
  <2>1. Reassemble(s, sid).value = <<>> BY <1>1 DEF Reassemble
  <2> QED BY <2>1 DEF Whole
<1>2. CASE s # <<>>
  <2> DEFINE fs == IF Len(s) > 1 /\ SaysWait(s[1]) THEN Tail(s) ELSE s
             c == Contents(fs, sid)
  <2>1. Reassemble(s, sid) = IF StartsWith(c.result, Negative) THEN [kind |-> "negative", value |-> c.result]
                             ELSE IF Enough(c) THEN [kind |-> "value", value |-> Upto(c.result, c.declared)]
                             ELSE [kind |-> "error", value |-> <<>>]
        BY <1>2 DEF Reassemble, Enough
  <2>2. fs \in Seq(Frame) /\ fs # <<>> /\ Ordered(fs, Len(WholeReply))
    <3>1. CASE Len(s) > 1 /\ SaysWait(s[1])
      <4>1. Tail(s) = SubSeq(s, 2, Len(s)) BY <1>2, TailIsSubSeq
      <4>2. 2 \in 1..Len(s)
        <5>1. Len(s) \in Nat BY LenProperties
        <5> QED BY <3>1, <5>1
      <4>3. Len(WholeReply) \in Nat BY ReplyFacts, LenProperties
      <4>4. LET t == SubSeq(s, 2, Len(s)) IN t \in Seq(Frame) /\ t # <<>> /\ Ordered(t, Len(WholeReply))
            BY <4>2, <4>3, OrderedFrom
      <4>5. fs = SubSeq(s, 2, Len(s)) BY <3>1, <4>1
      <4> HIDE DEF fs
      <4> QED BY <4>4, <4>5
    <3>2. CASE ~(Len(s) > 1 /\ SaysWait(s[1]))
      <4>1. fs = s BY <3>2
      <4> HIDE DEF fs
      <4> QED BY <1>2, <4>1
    <3> QED BY <3>1, <3>2
  <2> HIDE DEF fs
  <2>3. Enough(c) => Upto(c.result, c.declared) \in Whole BY <2>2, ContentsValue
  <2> HIDE DEF c
  <2>4. CASE StartsWith(c.result, Negative)
    <3>1. Reassemble(s, sid) = [kind |-> "negative", value |-> c.result] BY <2>1, <2>4
    <3> QED BY <3>1
  <2>5. CASE ~StartsWith(c.result, Negative) /\ ~Enough(c)
    <3>1. Reassemble(s, sid) = [kind |-> "error", value |-> <<>>] BY <2>1, <2>5
    <3> QED BY <3>1
  <2>6. CASE ~StartsWith(c.result, Negative) /\ Enough(c)
    <3>1. Reassemble(s, sid) = [kind |-> "value", value |-> Upto(c.result, c.declared)] BY <2>1, <2>6
    <3>2. Reassemble(s, sid).value = Upto(c.result, c.declared) BY <3>1
    <3> QED BY <2>3, <2>6, <3>2
  <2> QED BY <2>4, <2>5, <2>6
<1> QED BY <1>1, <1>2
-----------------------------------------------------------------------------
(* What is kept of an exchange comes in the order of the ECU's reply. *)

\* What the ECU still owes of its answer is its end.
Owes(r) ==
  /\ r \in Seq(Frame) /\ Len(r) < Len(AnswerFrames)
  /\ \A i \in 1..Len(r) : r[i] = WholeReply[Len(WholeReply) - Len(r) + i]

\* Nothing is kept before the last frame of the request; from then on the lines that were kept come in order
\* from the part of the reply that the ECU no longer owes, and the result is what they are put together to.
WholeInv ==
  /\ Setting
  /\ index \in Nat /\ burst \in Nat /\ flow \in Nat /\ taken = index /\ index + burst =< N
  /\ pc # "write" => index = N
  /\ strategy = "manual" => burst = 0 /\ pc # "pull"
  /\ index < N => responses = <<>> /\ rest = <<>>
  /\ responses \in Seq(Frame) /\ Owes(rest)
  /\ Ordered(responses, Len(WholeReply) - Len(rest))
  /\ strategy = "manual" /\ faults = 0 /\ index = N => responses = WholeReply
  /\ result = IF pc = "done" THEN Reassemble(responses, Sid) ELSE NoResult

\* Lines that come from nothing are none.
LEMMA FollowsNothing ==
  ASSUME NEW R, NEW t \in Seq(R), NEW s, Follows(t, s, 0)
  PROVE  t = <<>>
<1>1. PICK pos \in [1..Len(t) -> 1..0] : TRUE BY DEF Follows
<1>2. Len(t) \in Nat BY LenProperties
<1>3. ~(1 \in 1..Len(t))
  <2> SUFFICES ASSUME 1 \in 1..Len(t) PROVE FALSE
      OBVIOUS
  <2>1. pos[1] \in 1..0 BY <1>1
  <2> QED BY <2>1
<1>4. Len(t) = 0 BY <1>2, <1>3
<1> QED BY <1>4, EmptySeq

\* What follows what follows a reply follows the reply.
LEMMA FollowsThrough ==
  ASSUME NEW R, NEW t \in Seq(R), NEW s \in Seq(R), NEW r, NEW hi \in Nat,
         Follows(t, s, Len(s)), Follows(s, r, hi)
  PROVE  Follows(t, r, hi)
<1> DEFINE n == Len(s)
           l == Len(t)
<1>1. n \in Nat /\ l \in Nat BY LenProperties
<1>2. PICK p \in [1..l -> 1..n] : \A i \in 1..l : t[i] = s[p[i]] /\ \A j \in i..l : p[i] =< p[j]
      BY DEF Follows
<1>3. PICK q \in [1..n -> 1..hi] : \A i \in 1..n : s[i] = r[q[i]] /\ \A j \in i..n : q[i] =< q[j]
      BY DEF Follows
<1> HIDE DEF n, l
<1> DEFINE pos == [i \in 1..l |-> q[p[i]]]
<1>4. \A i \in 1..l : p[i] \in 1..n BY <1>2
<1>5. pos \in [1..l -> 1..hi] BY <1>3, <1>4
<1>6. ASSUME NEW i \in 1..l PROVE t[i] = r[pos[i]] /\ \A j \in i..l : pos[i] =< pos[j]
  <2>1. t[i] = r[pos[i]] BY <1>2, <1>3, <1>4
  <2>2. ASSUME NEW j \in i..l PROVE pos[i] =< pos[j]
    <3>1. j \in 1..l /\ p[i] =< p[j] BY <1>1, <1>2
    <3>2. p[j] \in p[i]..n BY <1>4, <3>1
    <3>3. q[p[i]] =< q[p[j]] BY <1>3, <1>4, <3>2
    <3> QED BY <3>1, <3>3
  <2> QED BY <2>1, <2>2
<1> HIDE DEF pos
<1> QED BY <1>5, <1>6 DEF Follows, l

\* A frame lost, or all of them, or the first twice: what is left comes in the order it was sent.
LEMMA WithoutFacts ==
  ASSUME NEW R, NEW s \in Seq(R), NEW k \in 1..Len(s)
  PROVE  Without(s, k) \in Seq(R) /\ Follows(Without(s, k), s, Len(s))
<1> DEFINE n == Len(s)
           u == SubSeq(s, 1, k - 1)
           v == SubSeq(s, k + 1, n)
<1>1. n \in Nat /\ k \in Nat /\ k - 1 \in Nat /\ n - k \in Nat /\ \A i \in 1..n : s[i] \in R
      BY LenProperties, ElementOfSeq
<1>2. u \in Seq(R) /\ Len(u) = k - 1 /\ \A i \in 1..(k - 1) : u[i] = s[i]
  <2>1. \A i \in 1..(k - 1) : s[i] \in R BY <1>1
  <2>2. 1..(k - 1) \subseteq 1..n BY <1>1
  <2> DEFINE m == k - 1
  <2>3. m \in Nat /\ \A i \in 1..m : s[i] \in R BY <1>1, <2>1
  <2> HIDE DEF m, n
  <2>4. /\ SubSeq(s, 1, m) \in Seq(R) /\ Len(SubSeq(s, 1, m)) = IF 1 =< m THEN m - 1 + 1 ELSE 0
        /\ \A i \in 1..(m - 1 + 1) : SubSeq(s, 1, m)[i] = s[1 + i - 1]
        BY <2>3, SubSeqProperties
  <2>5. Len(SubSeq(s, 1, m)) = m /\ \A i \in 1..m : SubSeq(s, 1, m)[i] = s[i] BY <2>3, <2>4
  <2> QED BY <2>4, <2>5 DEF m
<1>3. v \in Seq(R) /\ Len(v) = n - k /\ \A i \in 1..(n - k) : v[i] = s[k + i]
  <2> DEFINE a == k + 1
  <2>1. a \in Nat /\ n \in Nat /\ \A i \in a..n : s[i] \in R BY <1>1
  <2>2. n - a + 1 = n - k /\ (a =< n \/ n - k = 0) /\ \A i \in 1..(n - k) : a + i - 1 = k + i BY <1>1
  <2> HIDE DEF a, n
  <2>3. /\ SubSeq(s, a, n) \in Seq(R) /\ Len(SubSeq(s, a, n)) = IF a =< n THEN n - a + 1 ELSE 0
        /\ \A i \in 1..(n - a + 1) : SubSeq(s, a, n)[i] = s[a + i - 1]
        BY <2>1, SubSeqProperties
  <2>4. ~(a =< n) => n - k = 0 BY <2>2
  <2>5. Len(SubSeq(s, a, n)) = n - k BY <2>2, <2>3, <2>4
  <2>6. \A i \in 1..(n - k) : SubSeq(s, a, n)[i] = s[k + i] BY <2>2, <2>3
  <2> QED BY <2>3, <2>5, <2>6 DEF a
<1>4. Without(s, k) = u \o v BY DEF Without
<1> HIDE DEF u, v, n
<1>5. /\ u \o v \in Seq(R) /\ Len(u \o v) = n - 1
      /\ \A i \in 1..(n - 1) : (u \o v)[i] = IF i =< k - 1 THEN u[i] ELSE v[i - (k - 1)]
  <2>1. k - 1 + (n - k) = n - 1 BY <1>1
  <2>2. /\ u \o v \in Seq(R) /\ Len(u \o v) = Len(u) + Len(v)
        /\ \A i \in 1..(Len(u) + Len(v)) : (u \o v)[i] = IF i =< Len(u) THEN u[i] ELSE v[i - Len(u)]
        BY <1>2, <1>3, ConcatProperties
  <2> QED BY <1>2, <1>3, <2>1, <2>2
<1> DEFINE pos == [i \in 1..(n - 1) |-> IF i =< k - 1 THEN i ELSE i + 1]
<1>6. pos \in [1..(n - 1) -> 1..n] BY <1>1
<1>7. ASSUME NEW i \in 1..(n - 1) PROVE (u \o v)[i] = s[pos[i]] /\ \A j \in i..(n - 1) : pos[i] =< pos[j]
  <2>1. CASE i =< k - 1
    <3>1. i \in 1..(k - 1) /\ pos[i] = i BY <1>1, <2>1
    <3> QED BY <1>1, <1>2, <1>5, <2>1, <3>1
  <2>2. CASE ~(i =< k - 1)
    <3>1. i - (k - 1) \in 1..(n - k) /\ k + (i - (k - 1)) = i + 1 /\ pos[i] = i + 1 BY <1>1, <2>2
    <3>2. (u \o v)[i] = s[i + 1] BY <1>3, <1>5, <2>2, <3>1
    <3>3. \A j \in i..(n - 1) : pos[i] =< pos[j] BY <1>1, <2>2
    <3> QED BY <3>1, <3>2, <3>3
  <2> QED BY <2>1, <2>2
<1> HIDE DEF pos
<1>8. Follows(u \o v, s, n) BY <1>5, <1>6, <1>7 DEF Follows
<1> QED BY <1>4, <1>5, <1>8 DEF n

LEMMA TwiceFacts ==
  ASSUME NEW R, NEW s \in Seq(R), s # <<>>
  PROVE  <<s[1]>> \o s \in Seq(R) /\ Follows(<<s[1]>> \o s, s, Len(s))
<1> DEFINE n == Len(s)
           u == <<s[1]>>
<1>1. n \in Nat /\ n >= 1 BY EmptySeq, LenProperties
<1>2. 1 \in 1..n BY <1>1
<1>3. s[1] \in R BY <1>2, ElementOfSeq
<1>4. u \in Seq(R) /\ Len(u) = 1 /\ u[1] = s[1] BY <1>3
<1> HIDE DEF u, n
<1>5. /\ u \o s \in Seq(R) /\ Len(u \o s) = 1 + n
      /\ \A i \in 1..(1 + n) : (u \o s)[i] = IF i =< 1 THEN u[i] ELSE s[i - 1]
  <2>1. /\ u \o s \in Seq(R) /\ Len(u \o s) = Len(u) + Len(s)
        /\ \A i \in 1..(Len(u) + Len(s)) : (u \o s)[i] = IF i =< Len(u) THEN u[i] ELSE s[i - Len(u)]
        BY <1>4, ConcatProperties
  <2>2. Len(s) = n BY DEF n
  <2> QED BY <1>4, <2>1, <2>2
<1> DEFINE pos == [i \in 1..(1 + n) |-> IF i =< 1 THEN 1 ELSE i - 1]
<1>6. pos \in [1..(1 + n) -> 1..n] BY <1>1
<1>7. ASSUME NEW i \in 1..(1 + n) PROVE (u \o s)[i] = s[pos[i]] /\ \A j \in i..(1 + n) : pos[i] =< pos[j]
  <2>1. CASE i =< 1
    <3>1. i = 1 /\ pos[i] = 1 BY <2>1
    <3>2. (u \o s)[i] = s[1] BY <1>4, <1>5, <3>1
    <3>3. \A j \in i..(1 + n) : 1 =< pos[j] BY <1>1
    <3> QED BY <3>1, <3>2, <3>3
  <2>2. CASE ~(i =< 1) BY <1>1, <1>5, <2>2
  <2> QED BY <2>1, <2>2
<1> HIDE DEF pos
<1>8. Follows(u \o s, s, n) BY <1>5, <1>6, <1>7 DEF Follows
<1> QED BY <1>5, <1>8 DEF u, n

LEMMA ArrivesFacts ==
  ASSUME NEW R, NEW reply \in Seq(R), NEW got, faults \in Nat, Arrives(reply, got)
  PROVE  /\ got \in Seq(R) /\ Follows(got, reply, Len(reply))
         /\ faults' \in Nat /\ (faults' = 0 => got = reply)
<1> DEFINE n == Len(reply)
<1>1. n \in Nat BY LenProperties
<1>2. faults' \in Nat /\ (faults' = 0 => got = reply) BY NothingLost
<1>3. CASE got = reply
  <2> DEFINE pos == [i \in 1..n |-> i]
  <2>1. pos \in [1..n -> 1..n] OBVIOUS
  <2>2. \A i \in 1..n : reply[i] = reply[pos[i]] /\ \A j \in i..n : pos[i] =< pos[j] BY <1>1
  <2> HIDE DEF pos
  <2> QED BY <1>2, <1>3, <2>1, <2>2 DEF Follows
<1>4. ASSUME NEW k \in DOMAIN reply, got = Without(reply, k) PROVE got \in Seq(R) /\ Follows(got, reply, n)
  <2>1. k \in 1..n BY LenProperties
  <2> QED BY <1>4, <2>1, WithoutFacts
<1>5. CASE got = <<>>
  <2>1. <<>> \in Seq(R) /\ <<>> \in [1..Len(<<>>) -> 1..n] /\ \A i \in 1..Len(<<>>) : FALSE OBVIOUS
  <2> QED BY <1>2, <1>5, <2>1 DEF Follows
<1>6. CASE Len(reply) > 1 /\ got = <<reply[1]>> \o reply
  <2>1. reply # <<>> BY <1>1, <1>6
  <2> QED BY <1>2, <1>6, <2>1, TwiceFacts
<1> QED BY <1>2, <1>3, <1>4, <1>5, <1>6 DEF Arrives

\* What is kept of what arrives comes in the order it was sent, and all of it is kept if nothing is lost and
\* nothing of it is left out.
LEMMA KeptArrives ==
  ASSUME NEW R, NEW reply \in Seq(R), NEW got, faults \in Nat, Arrives(reply, got), NEW S
  PROVE  /\ Kept(got, S) \in Seq(R) /\ Follows(Kept(got, S), reply, Len(reply))
         /\ faults' = 0 /\ (\A k \in 1..Len(reply) : reply[k] \in S) => Kept(got, S) = reply
<1>1. got \in Seq(R) /\ Follows(got, reply, Len(reply)) /\ (faults' = 0 => got = reply) BY ArrivesFacts
<1>2. /\ Kept(got, S) \in Seq(R) /\ Follows(Kept(got, S), got, Len(got))
      /\ (\A k \in 1..Len(got) : got[k] \in S) => Kept(got, S) = got
      BY <1>1, KeptFacts
<1>3. Len(reply) \in Nat BY LenProperties
<1>4. Follows(Kept(got, S), reply, Len(reply)) BY <1>1, <1>2, <1>3, FollowsThrough
<1> QED BY <1>1, <1>2, <1>4

\* Lines that follow the beginning of the ECU's reply are in its order.
LEMMA OrderedReply ==
  ASSUME NEW t, NEW r, NEW hi \in Nat, Follows(t, r, hi), \A i \in 1..hi : r[i] = WholeReply[i]
  PROVE  Ordered(t, hi)
<1>1. PICK pos \in [1..Len(t) -> 1..hi] :
        \A i \in 1..Len(t) : t[i] = r[pos[i]] /\ \A j \in i..Len(t) : pos[i] =< pos[j]
      BY DEF Follows
<1>2. \A i \in 1..Len(t) : pos[i] \in 1..hi BY <1>1
<1>3. \A i \in 1..Len(t) : t[i] = WholeReply[pos[i]] BY <1>1, <1>2
<1> QED BY <1>1, <1>3 DEF Ordered

LEMMA OrderedNothing == \A hi : Ordered(<<>>, hi)
<1> TAKE hi
<1>1. <<>> \in [1..Len(<<>>) -> 1..hi] /\ \A i \in 1..Len(<<>>) : FALSE OBVIOUS
<1> QED BY <1>1 DEF Ordered

\* Lines that come at the places q of the reply: later ones than hi, or its first frame, sent again, ...
Placed(t, q, hi, top) ==
  /\ q \in [1..Len(t) -> 1..top]
  /\ \A i \in 1..Len(t) : /\ t[i] = WholeReply[q[i]] /\ \A j \in i..Len(t) : q[i] =< q[j]
                          /\ hi =< q[i] \/ q[i] = Len(prelude) + 1

\* ... keep its order.
LEMMA OrderedConcat ==
  ASSUME NEW s \in Seq(Frame), NEW t \in Seq(Frame), NEW hi \in Nat, NEW top \in Nat, hi =< top, Ordered(s, hi),
         NEW q, Placed(t, q, hi, top)
  PROVE  s \o t \in Seq(Frame) /\ Ordered(s \o t, top)
<1> DEFINE n == Len(s)
           l == Len(t)
           P == Len(prelude) + 1
<1>1. n \in Nat /\ l \in Nat BY LenProperties
<1>2. PICK p \in [1..n -> 1..hi] :
        \A i \in 1..n : s[i] = WholeReply[p[i]] /\ \A j \in i..n : p[i] =< p[j] \/ p[j] = P
      BY DEF Ordered
<1>3. /\ s \o t \in Seq(Frame) /\ Len(s \o t) = n + l
      /\ \A i \in 1..(n + l) : (s \o t)[i] = IF i =< n THEN s[i] ELSE t[i - n]
      BY ConcatProperties
<1>4. \A i \in 1..l : /\ t[i] = WholeReply[q[i]] /\ \A j \in i..l : q[i] =< q[j]
                      /\ hi =< q[i] \/ q[i] = P
      BY DEF Placed
<1>9. q \in [1..l -> 1..top] BY DEF Placed
<1> HIDE DEF n, l, P
<1> DEFINE pos == [i \in 1..(n + l) |-> IF i =< n THEN p[i] ELSE q[i - n]]
<1>5. \A i \in 1..(n + l) : (i =< n => i \in 1..n) /\ (~(i =< n) => i - n \in 1..l) BY <1>1
<1>6. \A i \in 1..n : p[i] \in 1..top /\ p[i] =< hi
  <2> TAKE i \in 1..n
  <2>1. p[i] \in 1..hi BY <1>2
  <2> QED BY <2>1
<1>10. \A i \in 1..l : q[i] \in 1..top BY <1>9
<1>7. pos \in [1..(n + l) -> 1..top] BY <1>5, <1>6, <1>10
<1>8. ASSUME NEW i \in 1..(n + l)
      PROVE  /\ (s \o t)[i] = WholeReply[pos[i]]
             /\ \A j \in i..(n + l) : pos[i] =< pos[j] \/ pos[j] = P
  <2>1. (s \o t)[i] = WholeReply[pos[i]]
    <3>1. CASE i =< n BY <1>2, <1>3, <1>5, <3>1
    <3>2. CASE ~(i =< n) BY <1>3, <1>4, <1>5, <3>2
    <3> QED BY <3>1, <3>2
  <2>2. ASSUME NEW j \in i..(n + l) PROVE pos[i] =< pos[j] \/ pos[j] = P
    <3>1. j \in 1..(n + l) BY <1>1
    <3>2. CASE j =< n
      <4>1. i \in 1..n /\ j \in 1..n /\ j \in i..n /\ pos[i] = p[i] /\ pos[j] = p[j] BY <1>1, <1>5, <3>1, <3>2
      <4> HIDE DEF pos
      <4> QED BY <1>2, <4>1
    <3>3. CASE ~(j =< n) /\ i =< n
      <4>1. i \in 1..n /\ j - n \in 1..l /\ pos[i] = p[i] /\ pos[j] = q[j - n] BY <1>5, <3>1, <3>3
      <4> DEFINE k == j - n
      <4>2. k \in 1..l /\ pos[j] = q[k] BY <4>1
      <4> HIDE DEF pos, k
      <4>3. hi =< q[k] \/ q[k] = P BY <1>4, <4>2
      <4>4. p[i] =< hi /\ p[i] \in 1..top /\ q[k] \in 1..top BY <1>6, <1>10, <4>1, <4>2
      <4> QED BY <4>1, <4>2, <4>3, <4>4
    <3>4. CASE ~(i =< n)
      <4>1. ~(j =< n) BY <1>1, <3>4
      <4>2. i - n \in 1..l /\ j - n \in (i - n)..l BY <1>1, <1>5, <3>1, <3>4, <4>1
      <4>3. pos[i] = q[i - n] /\ pos[j] = q[j - n] BY <3>1, <3>4, <4>1
      <4> HIDE DEF pos
      <4> QED BY <1>4, <4>2, <4>3
    <3> QED BY <3>2, <3>3, <3>4
  <2> QED BY <2>1, <2>2
<1> DEFINE u == s \o t
<1> HIDE DEF pos, u
<1>11. u \in Seq(Frame) /\ Len(u) = n + l BY <1>3 DEF u
<1>12. pos \in [1..Len(u) -> 1..top] BY <1>7, <1>11
<1>13. \A i \in 1..Len(u) : /\ u[i] = WholeReply[pos[i]]
                            /\ \A j \in i..Len(u) : pos[i] =< pos[j] \/ pos[j] = Len(prelude) + 1
       BY <1>8, <1>11 DEF u, P
<1>14. Ordered(u, top) BY <1>12, <1>13 DEF Ordered
<1> QED BY <1>11, <1>14 DEF u

\* The beginning of the reply that a driver is sent that answers flow control, and the rest of it.
LEMMA FirstReplyFacts ==
  ASSUME Setting
  PROVE  /\ FirstReply \in Seq(Frame) /\ Len(FirstReply) = Len(prelude) + 1
         /\ \A i \in 1..(Len(prelude) + 1) : FirstReply[i] = WholeReply[i]
         /\ Owes(Tail(AnswerFrames)) /\ Len(WholeReply) - Len(Tail(AnswerFrames)) = Len(prelude) + 1
         /\ Owes(<<>>) /\ Len(<<>>) = 0
<1> DEFINE A == AnswerFrames
           P == Len(prelude)
           W == WholeReply
           T == Tail(A)
<1>1. /\ prelude \in Seq(Frame) /\ A \in Seq(Frame) /\ A # <<>> /\ W \in Seq(Frame) /\ Len(W) = P + Len(A)
      /\ \A i \in 1..P : W[i] = prelude[i]
      /\ \A i \in 1..Len(A) : W[P + i] = A[i]
      BY ReplyFacts
<1>2. P \in Nat /\ Len(A) \in Nat /\ Len(A) >= 1 BY <1>1, EmptySeq, LenProperties
<1>3. FirstReply = Append(prelude, A[1]) BY <1>1 DEF FirstReply
<1>4. T \in Seq(Frame) /\ Len(T) = Len(A) - 1 /\ \A i \in 1..Len(T) : T[i] = A[i + 1]
      BY <1>1, HeadTailProperties
<1>5. A[1] \in Frame
  <2>1. 1 \in 1..Len(A) BY <1>2
  <2> QED BY <1>1, <2>1, ElementOfSeq
<1> HIDE DEF A, P, W, T
<1>6. /\ FirstReply \in Seq(Frame) /\ Len(FirstReply) = P + 1 /\ FirstReply[P + 1] = A[1]
      /\ \A i \in 1..P : FirstReply[i] = prelude[i]
      BY <1>1, <1>3, <1>5, AppendProperties DEF P
<1>7. ASSUME NEW i \in 1..(P + 1) PROVE FirstReply[i] = W[i]
  <2>1. CASE i = P + 1
    <3>1. 1 \in 1..Len(A) BY <1>2
    <3> QED BY <1>1, <1>6, <2>1, <3>1
  <2>2. CASE i # P + 1
    <3>1. i \in 1..P BY <1>2, <2>2
    <3> QED BY <1>1, <1>6, <3>1
  <2> QED BY <2>1, <2>2
<1>8. \A i \in 1..Len(T) : T[i] = W[Len(W) - Len(T) + i]
  <2> TAKE i \in 1..Len(T)
  <2>1. i + 1 \in 1..Len(A) /\ Len(W) - Len(T) + i = P + (i + 1) BY <1>1, <1>2, <1>4
  <2> QED BY <1>1, <1>4, <2>1
<1>9. Owes(T)
  <2>1. Len(T) < Len(A) BY <1>2, <1>4
  <2> QED BY <1>4, <1>8, <2>1 DEF Owes, A, W
<1>10. Owes(<<>>)
  <2>1. <<>> \in Seq(Frame) /\ Len(<<>>) = 0 /\ \A i \in 1..Len(<<>>) : FALSE OBVIOUS
  <2>2. Len(<<>>) < Len(AnswerFrames) BY <1>2, <2>1 DEF A
  <2> QED BY <2>1, <2>2 DEF Owes
<1>11. Len(W) - Len(T) = P + 1 BY <1>1, <1>2, <1>4
<1>12. Len(<<>>) = 0 OBVIOUS
<1> QED BY <1>6, <1>7, <1>9, <1>10, <1>11, <1>12 DEF P, T, W, A

\* What the ECU does with a frame of the request: only after the last one it answers.
LEMMA TakesWhole ==
  ASSUME Setting, NEW reply, Takes(reply), taken = index, index \in Nat, index < N
  PROVE  /\ taken' = index + 1
         /\ index + 1 = N /\ strategy = "manual" => reply = WholeReply /\ rest' = <<>>
         /\ index + 1 = N /\ strategy # "manual" => reply = FirstReply /\ rest' = Tail(AnswerFrames)
         /\ index + 1 # N => rest' = <<>> /\ (reply = <<>> \/ (reply = <<FlowControl>> /\ strategy = "cfc0"))
<1>1. Len(Written) = N BY DEF N
<1>2. CASE index + 1 = N /\ strategy = "manual" BY <1>1, <1>2 DEF Takes
<1>3. CASE index + 1 = N /\ strategy # "manual" BY <1>1, <1>3 DEF Takes
<1>4. CASE index + 1 # N
  <2>1. taken' = index + 1 /\ rest' = <<>> BY <1>1, <1>4 DEF Takes
  <2>2. reply = <<>> \/ (reply = <<FlowControl>> /\ strategy = "cfc0") BY <1>1, <1>4 DEF Takes
  <2> QED BY <1>4, <2>1, <2>2
<1> QED BY <1>2, <1>3, <1>4

\* The exchange itself does not change: what a step has to leave behind.
LEMMA WholeParts ==
  ASSUME Setting, UNCHANGED exchange, faults' \in Nat,
         index' \in Nat, burst' \in Nat, flow' \in Nat, taken' = index', index' + burst' =< N,
         pc' # "write" => index' = N,
         strategy = "manual" => burst' = 0 /\ pc' # "pull",
         index' < N => responses' = <<>> /\ rest' = <<>>,
         responses' \in Seq(Frame), Owes(rest'), Ordered(responses', Len(WholeReply) - Len(rest')),
         strategy = "manual" /\ faults' = 0 /\ index' = N => responses' = WholeReply,
         result' = IF pc' = "done" THEN Reassemble(responses', Sid) ELSE NoResult
  PROVE  WholeInv'
<1>1. /\ strategy' = strategy /\ request' = request /\ answer' = answer /\ prelude' = prelude
      /\ blockSize' = blockSize
      BY DEF exchange
<1>2. Setting' BY <1>1 DEF Setting
<1>3. N' = N /\ Sid' = Sid BY <1>1 DEF N, Written, Sid
<1>4. AnswerFrames' = AnswerFrames BY <1>1 DEF AnswerFrames
<1>5. WholeReply' = WholeReply BY <1>1, <1>4 DEF WholeReply
<1>6. Owes(rest)'
  <2>1. /\ rest' \in Seq(Frame) /\ Len(rest') < Len(AnswerFrames)
        /\ \A i \in 1..Len(rest') : rest'[i] = WholeReply[Len(WholeReply) - Len(rest') + i]
        BY DEF Owes
  <2> QED BY <1>4, <1>5, <2>1 DEF Owes
<1>7. Ordered(responses, Len(WholeReply) - Len(rest))'
  <2>1. PICK pos \in [1..Len(responses') -> 1..(Len(WholeReply) - Len(rest'))] :
          \A i \in 1..Len(responses') :
            /\ responses'[i] = WholeReply[pos[i]]
            /\ \A j \in i..Len(responses') : pos[i] =< pos[j] \/ pos[j] = Len(prelude) + 1
        BY DEF Ordered
  <2>2. pos \in [1..Len(responses') -> 1..(Len(WholeReply') - Len(rest'))] BY <1>5, <2>1
  <2>3. prelude' = prelude BY <1>1
  <2>4. \A i \in 1..Len(responses') :
          /\ responses'[i] = WholeReply'[pos[i]]
          /\ \A j \in i..Len(responses') : pos[i] =< pos[j] \/ pos[j] = Len(prelude') + 1
        BY <1>5, <2>1, <2>3
  <2> QED BY <2>2, <2>4, Zenon DEF Ordered
<1>8. result' = IF pc' = "done" THEN Reassemble(responses', Sid') ELSE NoResult' BY <1>3 DEF NoResult
<1> QED BY <1>1, <1>2, <1>3, <1>5, <1>6, <1>7, <1>8 DEF WholeInv

\* A frame written whose reply has come: what is kept of it.
LEMMA WholeWritten ==
  ASSUME WholeInv, UNCHANGED <<exchange, pc, result>>, pc = "write", index < N, NEW reply, Takes(reply),
         index' = index + 1, faults' \in Nat, burst' \in Nat, burst' =< N - (index + 1), flow' \in Nat,
         strategy = "manual" => burst' = 0,
         responses' \in Seq(Frame), Follows(responses', reply, Len(reply)),
         reply = <<FlowControl>> => responses' = <<>>,
         index + 1 = N /\ strategy = "manual" /\ faults' = 0 => responses' = reply
  PROVE  WholeInv'
<1>1. Setting /\ index \in Nat /\ taken = index /\ N \in Nat BY SettingFacts DEF WholeInv
<1>2. /\ taken' = index + 1
      /\ index + 1 = N /\ strategy = "manual" => reply = WholeReply /\ rest' = <<>>
      /\ index + 1 = N /\ strategy # "manual" => reply = FirstReply /\ rest' = Tail(AnswerFrames)
      /\ index + 1 # N => rest' = <<>> /\ (reply = <<>> \/ (reply = <<FlowControl>> /\ strategy = "cfc0"))
      BY <1>1, TakesWhole
<1>3. index' \in Nat /\ index' + burst' =< N
  <2>1. index' = index + 1 /\ burst' \in Nat /\ burst' =< N - (index + 1) OBVIOUS
  <2>2. \A i \in Nat : \A b \in Nat : \A n \in Nat : b =< n - (i + 1) => i + 1 \in Nat /\ i + 1 + b =< n OBVIOUS
  <2>3. index + 1 \in Nat /\ index + 1 + burst' =< N BY <1>1, <2>1, <2>2, Zenon
  <2> QED BY <2>1, <2>3, Zenon
<1>4. pc' = "write" /\ UNCHANGED <<exchange, result>> /\ result = NoResult BY DEF WholeInv
<1>5. /\ FirstReply \in Seq(Frame) /\ Len(FirstReply) = Len(prelude) + 1
      /\ \A i \in 1..(Len(prelude) + 1) : FirstReply[i] = WholeReply[i]
      /\ Owes(Tail(AnswerFrames)) /\ Len(WholeReply) - Len(Tail(AnswerFrames)) = Len(prelude) + 1
      /\ Owes(<<>>) /\ Len(<<>>) = 0
      BY <1>1, FirstReplyFacts
<1>6. Len(WholeReply) \in Nat /\ Len(prelude) + 1 \in Nat
  <2>1. prelude \in Seq(Frame) /\ WholeReply \in Seq(Frame) BY <1>1, ReplyFacts
  <2>2. Len(prelude) \in Nat /\ Len(WholeReply) \in Nat BY <2>1, LenProperties
  <2> QED BY <2>2
<1>7. index + 1 < N => responses' = <<>>
  <2> SUFFICES ASSUME index + 1 < N PROVE responses' = <<>>
      OBVIOUS
  <2>1. index + 1 # N BY <1>1
  <2>2. CASE reply = <<>>
    <3>1. Follows(responses', <<>>, 0) BY <1>5, <2>2
    <3> QED BY <3>1, FollowsNothing
  <2> QED BY <1>2, <2>1, <2>2
<1>8. index' < N => responses' = <<>> /\ rest' = <<>>
  <2> SUFFICES ASSUME index' < N PROVE responses' = <<>> /\ rest' = <<>>
      OBVIOUS
  <2>1. index + 1 < N /\ index + 1 # N BY <1>1
  <2> QED BY <1>2, <1>7, <2>1
<1>9. Owes(rest') /\ Ordered(responses', Len(WholeReply) - Len(rest'))
  <2>1. CASE index + 1 = N /\ strategy = "manual"
    <3>1. reply = WholeReply /\ rest' = <<>> BY <1>2, <2>1
    <3>2. Ordered(responses', Len(WholeReply)) BY <1>6, <3>1, OrderedReply
    <3>3. Len(WholeReply) - Len(<<>>) = Len(WholeReply)
      <4> DEFINE w == Len(WholeReply)
      <4>1. w \in Nat /\ Len(<<>>) = 0 BY <1>5, <1>6
      <4> HIDE DEF w
      <4>2. w - 0 = w BY <4>1
      <4> QED BY <4>1, <4>2, Zenon DEF w
    <3> QED BY <1>5, <3>1, <3>2, <3>3
  <2>2. CASE index + 1 = N /\ strategy # "manual"
    <3>1. reply = FirstReply /\ rest' = Tail(AnswerFrames) BY <1>2, <2>2
    <3>2. Follows(responses', FirstReply, Len(prelude) + 1) BY <1>5, <3>1
    <3>3. Ordered(responses', Len(prelude) + 1) BY <1>5, <1>6, <3>2, OrderedReply
    <3> QED BY <1>5, <3>1, <3>3
  <2>3. CASE index + 1 # N
    <3>1. rest' = <<>> BY <1>2, <2>3
    <3>2. index + 1 < N BY <1>1, <2>3
    <3> QED BY <1>5, <1>7, <3>1, <3>2, OrderedNothing
  <2> QED BY <2>1, <2>2, <2>3
<1>10. strategy = "manual" /\ faults' = 0 /\ index' = N => responses' = WholeReply BY <1>2
<1>11. taken' = index' BY <1>2
<1>12. result' = IF pc' = "done" THEN Reassemble(responses', Sid) ELSE NoResult BY <1>4
<1>13. pc' # "write" => index' = N BY <1>4
<1>14. strategy = "manual" => burst' = 0 /\ pc' # "pull" BY <1>4
<1> QED BY <1>1, <1>3, <1>4, <1>8, <1>9, <1>10, <1>11, <1>12, <1>13, <1>14, WholeParts

\* The reply holds no flow control, and not the last frame of the request.
LEMMA NoEcho ==
  ASSUME Setting, NEW k \in 1..Len(WholeReply)
  PROVE  WholeReply[k] \in {f \in Range(WholeReply) : f # Written[N] /\ f.pci # Flow}
<1> DEFINE W == WholeReply
           A == AnswerFrames
           P == Len(prelude)
           m == Len(answer) \div 7
<1>1. /\ prelude \in Seq(Frame) /\ A \in Seq(Frame) /\ W \in Seq(Frame) /\ Len(W) = P + Len(A)
      /\ \A i \in 1..P : W[i] = prelude[i] /\ prelude[i].pci = Single
      /\ \A i \in 1..Len(A) : W[P + i] = A[i]
      BY ReplyFacts
<1>2. P \in Nat /\ Len(A) \in Nat /\ DOMAIN W = 1..Len(W) BY <1>1, LenProperties
<1>3. W[k] \in Range(W) BY <1>2 DEF Range
<1>4. Written[N] \notin Range(W)
  <2>1. request \in Requests /\ answer \in Answers /\ prelude \in Preludes BY DEF Setting
  <2>2. FrameRequest(request)[Len(FrameRequest(request))] \notin Range(prelude \o Padded(answer))
        BY <2>1, DialogueAssumption
  <2> QED BY <2>2 DEF N, Written, WholeReply, AnswerFrames
<1>5. \/ Len(A) = 1 /\ A[1].pci = Single
      \/ Len(A) = 1 + m /\ A[1].pci = First /\ \A i \in 1..m : A[i + 1].pci = Next1
      BY AnswerFacts
<1>6. m \in Int
  <2>1. answer \in Seq(Nat) BY ConstantsAssumption DEF Setting
  <2> QED BY <2>1, LenProperties
<1> HIDE DEF W, A, P, m
<1>7. W[k].pci # Flow
  <2>1. CASE k \in 1..P BY <1>1, <2>1 DEF Single, Flow
  <2>2. CASE ~(k \in 1..P)
    <3> DEFINE i == k - P
    <3>1. k \in 1..Len(W) BY DEF W
    <3>2. i \in 1..Len(A) /\ P + i = k BY <1>1, <1>2, <2>2, <3>1
    <3>3. W[k] = A[i] BY <1>1, <3>2
    <3> HIDE DEF i
    <3>4. CASE i = 1 BY <1>5, <3>3, <3>4 DEF Single, First, Flow
    <3>5. CASE i # 1
      <4> DEFINE l == Len(A)
      <4>1. i \in 1..l /\ l \in Nat /\ (l = 1 \/ l = 1 + m) BY <1>2, <1>5, <3>2
      <4> HIDE DEF l
      <4>2. l # 1 BY <3>5, <4>1
      <4>3. i - 1 \in 1..m /\ i - 1 + 1 = i BY <1>6, <3>5, <4>1, <4>2
      <4>4. \A j \in 1..m : A[j + 1].pci = Next1 BY <1>5, <4>2 DEF l
      <4>5. A[i].pci = Next1 BY <4>3, <4>4
      <4> QED BY <3>3, <4>5 DEF Next1, Flow
    <3> QED BY <3>4, <3>5
  <2> QED BY <2>1, <2>2
<1> QED BY <1>3, <1>4, <1>7 DEF W

\* A frame of sendCan.
LEMMA WholeWrite ==
  ASSUME WholeInv, Write
  PROVE  WholeInv'
<1>1. PICK reply, got : /\ reply \in {<<>>, WholeReply} /\ Takes(reply) /\ Arrives(reply, got)
                        /\ responses' = responses \o UsableLines(got, Written[index + 1])
      BY DEF Write
<1>2. /\ pc = "write" /\ strategy = "manual" /\ index < N /\ index' = index + 1
      /\ UNCHANGED <<exchange, pc, burst, flow, result>>
      BY DEF Write, N
<1>3. /\ Setting /\ faults \in Nat /\ index \in Nat /\ N \in Nat /\ responses = <<>> /\ burst = 0 /\ flow \in Nat
      BY <1>2, SettingFacts DEF WholeInv, Setting
<1>4. WholeReply \in Seq(Frame) /\ <<>> \in Seq(Frame) BY <1>3, ReplyFacts
<1>5. reply \in Seq(Frame) BY <1>1, <1>4
<1> DEFINE S == {f \in Range(got) : f # Written[index + 1] /\ f.pci # Flow}
<1>6. /\ Kept(got, S) \in Seq(Frame) /\ Follows(Kept(got, S), reply, Len(reply))
      /\ faults' = 0 /\ (\A k \in 1..Len(reply) : reply[k] \in S) => Kept(got, S) = reply
  <2> HIDE DEF S
  <2> QED BY <1>1, <1>3, <1>5, KeptArrives
<1>7. faults' \in Nat /\ (faults' = 0 => got = reply) BY <1>1, <1>3, NothingLost
<1>8. responses' = Kept(got, S)
  <2>1. responses' = <<>> \o Kept(got, S) BY <1>1, <1>3 DEF UsableLines
  <2> HIDE DEF S
  <2> QED BY <1>6, <2>1, ConcatEmptySeq
<1>9. reply = <<FlowControl>> => responses' = <<>>
  <2> SUFFICES ASSUME reply = <<FlowControl>> PROVE FALSE
      OBVIOUS
  <2>1. taken = index BY DEF WholeInv
  <2>2. /\ index + 1 = N => reply = WholeReply
        /\ index + 1 # N => reply = <<>> \/ (reply = <<FlowControl>> /\ strategy = "cfc0")
        BY <1>1, <1>2, <1>3, <2>1, TakesWhole
  <2>3. reply # <<>> /\ strategy # "cfc0" BY <1>2
  <2>4. reply = WholeReply BY <2>2, <2>3
  <2>5. 1 \in 1..Len(WholeReply) /\ WholeReply[1].pci = Flow BY <2>4 DEF FlowControl
  <2> QED BY <1>3, <2>5, NoEcho
<1>10. ASSUME index + 1 = N, faults' = 0 PROVE responses' = reply
  <2>1. taken = index BY DEF WholeInv
  <2>2. reply = WholeReply BY <1>1, <1>2, <1>3, <1>10, <2>1, TakesWhole
  <2>3. got = WholeReply BY <1>7, <1>10, <2>2
  <2>4. S = {f \in Range(WholeReply) : f # Written[N] /\ f.pci # Flow} BY <1>10, <2>3
  <2> HIDE DEF S
  <2>5. \A k \in 1..Len(WholeReply) : WholeReply[k] \in S BY <1>3, <2>4, NoEcho
  <2> QED BY <1>6, <1>8, <1>10, <2>2, <2>5
<1> HIDE DEF S
<1>11. /\ UNCHANGED <<exchange, pc, result>> /\ burst' \in Nat /\ burst' = 0 /\ flow' \in Nat
       BY <1>2, <1>3
<1>12. burst' =< N - (index + 1)
  <2>1. \A i \in Nat : \A n \in Nat : i < n => 0 =< n - (i + 1) OBVIOUS
  <2> QED BY <1>2, <1>3, <1>11, <2>1, Zenon
<1>13. responses' \in Seq(Frame) /\ Follows(responses', reply, Len(reply)) BY <1>6, <1>8
<1> QED BY <1>1, <1>2, <1>7, <1>9, <1>10, <1>11, <1>12, <1>13, WholeWritten

\* A frame of sendCanCfc0 whose reply is read.
LEMMA WholeLook ==
  ASSUME WholeInv, WriteAndLook
  PROVE  WholeInv'
<1>1. PICK reply : /\ reply \in {<<>>, <<FlowControl>>, FirstReply} /\ Takes(reply)
                   /\ \E got \in {reply, <<>>} \cup {Without(reply, k) : k \in DOMAIN reply} : Arrives(reply, got) /\
                        LET seen == \E k \in DOMAIN got : got[k].pci = Flow
                            size == IF seen THEN BlockSize(got[1]) ELSE flow
                            allowed == BurstAfter(seen, size)
                        IN /\ flow' = size
                           /\ responses' = IF seen THEN responses ELSE responses \o HexLines(got, Written[index + 1])
                           /\ burst' = IF allowed < 0 THEN 0 ELSE Least(allowed, Len(Written) - (index + 1))
      BY Zenon DEF WriteAndLook
<1>2. PICK got : Arrives(reply, got) /\
                        LET seen == \E k \in DOMAIN got : got[k].pci = Flow
                            size == IF seen THEN BlockSize(got[1]) ELSE flow
                            allowed == BurstAfter(seen, size)
                        IN /\ flow' = size
                           /\ responses' = IF seen THEN responses ELSE responses \o HexLines(got, Written[index + 1])
                           /\ burst' = IF allowed < 0 THEN 0 ELSE Least(allowed, Len(Written) - (index + 1))
      BY <1>1
<1>3. /\ pc = "write" /\ strategy = "cfc0" /\ index < N /\ index' = index + 1
      /\ UNCHANGED <<exchange, pc, result>>
      BY DEF WriteAndLook, N
<1>4. /\ Setting /\ faults \in Nat /\ index \in Nat /\ N \in Nat /\ responses = <<>> /\ flow \in Nat /\ blockSize \in Nat
      BY <1>3, SettingFacts DEF WholeInv, Setting
<1>5. reply \in Seq(Frame)
  <2>1. FirstReply \in Seq(Frame) BY <1>4, FirstReplyFacts
  <2>2. FlowControl \in Frame BY <1>4 DEF FlowControl, Frame, Flow
  <2> HIDE DEF FlowControl
  <2>3. <<FlowControl>> \in Seq(Frame) /\ <<>> \in Seq(Frame) BY <2>2
  <2> QED BY <1>1, <2>1, <2>3
<1> DEFINE S == Range(got) \ {Written[index + 1]}
           seen == \E k \in DOMAIN got : got[k].pci = Flow
           size == IF seen THEN BlockSize(got[1]) ELSE flow
<1>6. /\ got \in Seq(Frame) /\ Follows(got, reply, Len(reply)) /\ faults' \in Nat
      BY <1>2, <1>4, <1>5, ArrivesFacts
<1>7. /\ Kept(got, S) \in Seq(Frame) /\ Follows(Kept(got, S), reply, Len(reply))
      /\ Follows(Kept(got, S), got, Len(got))
  <2> HIDE DEF S, seen, size
  <2> QED BY <1>2, <1>4, <1>5, <1>6, KeptArrives, KeptFacts
<1>8. /\ flow' = size /\ burst' = IF BurstAfter(seen, size) < 0 THEN 0 ELSE Least(BurstAfter(seen, size), N - (index + 1))
      /\ responses' = IF seen THEN <<>> ELSE <<>> \o Kept(got, S)
      BY <1>2, <1>4 DEF N, HexLines
<1>9. responses' = IF seen THEN <<>> ELSE Kept(got, S)
  <2> HIDE DEF S, seen, size
  <2> QED BY <1>7, <1>8, ConcatEmptySeq
<1>10. size \in Nat
  <2>1. CASE seen
    <3>1. PICK k \in DOMAIN got : TRUE BY <2>1
    <3>2. Len(got) \in Nat /\ DOMAIN got = 1..Len(got) BY <1>6, LenProperties
    <3>3. 1 \in 1..Len(got) BY <3>2
    <3>4. got[1] \in Frame BY <1>6, <3>3, ElementOfSeq
    <3> DEFINE d == got[1].data
    <3>5. d \in Seq(Nat) BY <3>4 DEF Frame
    <3>6. BlockSize(got[1]) = IF d = <<>> THEN 3 ELSE d[1] BY DEF BlockSize
    <3> HIDE DEF d
    <3>7. d # <<>> => d[1] \in Nat
      <4>1. d # <<>> => 1 \in 1..Len(d) BY <3>5, EmptySeq, LenProperties
      <4> QED BY <3>5, <4>1, ElementOfSeq
    <3>8. BlockSize(got[1]) \in Nat BY <3>6, <3>7
    <3> QED BY <2>1, <3>8
  <2>2. CASE ~seen BY <1>4, <2>2
  <2> QED BY <2>1, <2>2
<1>11. reply = <<FlowControl>> => responses' = <<>>
  <2> SUFFICES ASSUME reply = <<FlowControl>>, ~seen PROVE Kept(got, S) = <<>>
      BY <1>9
  <2>1. Len(reply) = 1 /\ reply[1] = FlowControl OBVIOUS
  <2>2. PICK pos \in [1..Len(got) -> 1..1] : \A i \in 1..Len(got) : got[i] = reply[pos[i]]
        BY <1>6, <2>1 DEF Follows
  <2>3. Len(got) \in Nat /\ DOMAIN got = 1..Len(got) BY <1>6, LenProperties
  <2>4. FlowControl.pci = Flow BY DEF FlowControl
  <2>5. ~(1 \in 1..Len(got))
    <3> SUFFICES ASSUME 1 \in 1..Len(got) PROVE FALSE
        OBVIOUS
    <3>1. pos[1] = 1 BY <2>2
    <3>2. got[1].pci = Flow BY <2>1, <2>2, <2>4, <3>1
    <3> QED BY <2>3, <3>2
  <2>6. Len(got) = 0 BY <2>3, <2>5
  <2> HIDE DEF S
  <2>7. Follows(Kept(got, S), got, 0) BY <1>7, <2>6
  <2> QED BY <1>7, <2>7, FollowsNothing
<1>12. responses' \in Seq(Frame) /\ Follows(responses', reply, Len(reply))
  <2>1. CASE seen
    <3>1. responses' = <<>> BY <1>9, <2>1
    <3>2. <<>> \in Seq(Frame) OBVIOUS
    <3>3. <<>> \in [1..Len(<<>>) -> 1..Len(reply)] /\ \A i \in 1..Len(<<>>) : FALSE OBVIOUS
    <3>4. Follows(<<>>, reply, Len(reply)) BY <3>3 DEF Follows
    <3> QED BY <3>1, <3>2, <3>4
  <2>2. CASE ~seen
    <3>1. responses' = Kept(got, S) BY <1>9, <2>2
    <3> HIDE DEF S
    <3> QED BY <1>7, <3>1
  <2> QED BY <2>1, <2>2
<1>13. flow' \in Nat BY <1>8, <1>10
<1>16. N - (index + 1) \in Nat BY <1>3, <1>4
<1>14. burst' \in Nat /\ burst' =< N - (index + 1)
  <2>1. seen \in BOOLEAN OBVIOUS
  <2> HIDE DEF seen, size
  <2> DEFINE left == N - (index + 1)
             a == BurstAfter(seen, size)
  <2>2. burst' = IF a < 0 THEN 0 ELSE Least(a, left) BY <1>8, Zenon
  <2>3. left \in Nat BY <1>16
  <2>4. a = N \/ a = size - 1 BY DEF BurstAfter, N
  <2> SUFFICES burst' \in Nat /\ burst' =< left
      OBVIOUS
  <2> HIDE DEF a, left
  <2>5. a \in Int BY <1>4, <1>10, <2>4
  <2> QED BY <2>2, <2>3, <2>5 DEF Least
<1> HIDE DEF S, seen, size
<1>15. strategy # "manual" /\ UNCHANGED <<exchange, pc, result>> BY <1>3
<1> QED BY <1>1, <1>3, <1>6, <1>11, <1>12, <1>13, <1>14, <1>15, WholeWritten

\* A frame of a burst.
LEMMA WholeBurst ==
  ASSUME WholeInv, WriteBurst
  PROVE  WholeInv'
<1>1. PICK reply : Takes(reply) BY DEF WriteBurst
<1>2. /\ pc = "write" /\ burst > 0 /\ index' = index + 1 /\ burst' = burst - 1
      /\ UNCHANGED <<exchange, pc, flow, responses, result, faults>>
      BY DEF WriteBurst
<1>3. /\ Setting /\ faults \in Nat /\ index \in Nat /\ N \in Nat /\ burst \in Nat /\ index + burst =< N
      /\ flow \in Nat /\ taken = index
      BY SettingFacts DEF WholeInv, Setting
<1>4. /\ index < N /\ index + 1 \in Nat /\ burst - 1 \in Nat /\ index + 1 + (burst - 1) =< N
      /\ index + 1 < N => index + 1 # N
      BY <1>2, <1>3
<1>5. responses = <<>> /\ strategy # "manual" /\ result = NoResult
  <2>1. burst # 0 BY <1>2, <1>3
  <2> QED BY <1>2, <1>4, <2>1 DEF WholeInv
<1>6. /\ taken' = index + 1
      /\ index + 1 = N => rest' = Tail(AnswerFrames)
      /\ index + 1 # N => rest' = <<>>
      BY <1>1, <1>3, <1>4, <1>5, TakesWhole
<1>7. Owes(rest')
  <2>1. Owes(Tail(AnswerFrames)) /\ Owes(<<>>) BY <1>3, FirstReplyFacts
  <2> QED BY <1>6, <2>1
<1>8. Ordered(responses', Len(WholeReply) - Len(rest')) BY <1>2, <1>5, OrderedNothing
<1>9. responses' = <<>> /\ <<>> \in Seq(Frame) BY <1>2, <1>5
<1>10. /\ index' \in Nat /\ burst' \in Nat /\ flow' \in Nat /\ taken' = index' /\ index' + burst' =< N
       /\ faults' \in Nat
       BY <1>2, <1>3, <1>4, <1>6
<1>11. index' < N => rest' = <<>> BY <1>2, <1>4, <1>6
<1>12. pc' = "write" /\ result' = NoResult BY <1>2, <1>5
<1> QED BY <1>2, <1>3, <1>5, <1>7, <1>8, <1>9, <1>10, <1>11, <1>12, WholeParts

\* The steps that keep no line.
LEMMA WholeEnds ==
  ASSUME WholeInv, AllWritten \/ EndPull \/ Join \/ UNCHANGED exchangeVars
  PROVE  WholeInv'
<1>1. /\ UNCHANGED <<exchange, index, burst, flow, responses, taken, rest, faults>>
  <2>1. CASE AllWritten BY <2>1 DEF AllWritten
  <2>2. CASE EndPull BY <2>2 DEF EndPull
  <2>3. CASE Join BY <2>3 DEF Join
  <2>4. CASE UNCHANGED exchangeVars BY <2>4 DEF exchangeVars, exchange
  <2> QED BY <2>1, <2>2, <2>3, <2>4
<1>2. /\ Setting /\ faults \in Nat /\ index \in Nat /\ burst \in Nat /\ flow \in Nat /\ taken = index
      /\ index + burst =< N /\ responses \in Seq(Frame) /\ Owes(rest)
      /\ Ordered(responses, Len(WholeReply) - Len(rest))
      /\ index < N => responses = <<>> /\ rest = <<>>
      /\ strategy = "manual" /\ faults = 0 /\ index = N => responses = WholeReply
      /\ strategy = "manual" => burst = 0
      BY DEF WholeInv, Setting
<1>3. pc' # "write" => index = N
  <2>1. CASE AllWritten BY <2>1 DEF AllWritten, N
  <2>2. CASE EndPull BY <2>2 DEF EndPull, WholeInv
  <2>3. CASE Join BY <2>3 DEF Join, WholeInv
  <2>4. CASE UNCHANGED exchangeVars BY <2>4 DEF exchangeVars, WholeInv
  <2> QED BY <2>1, <2>2, <2>3, <2>4
<1>4. strategy = "manual" => pc' # "pull"
  <2>1. CASE AllWritten BY <2>1 DEF AllWritten
  <2>2. CASE EndPull BY <2>2 DEF EndPull
  <2>3. CASE Join BY <2>3 DEF Join
  <2>4. CASE UNCHANGED exchangeVars BY <2>4 DEF exchangeVars, WholeInv
  <2> QED BY <2>1, <2>2, <2>3, <2>4
<1>5. result' = IF pc' = "done" THEN Reassemble(responses', Sid) ELSE NoResult
  <2>1. CASE AllWritten
    <3>1. pc = "write" /\ (pc' = "pull" \/ pc' = "join") /\ result' = result BY <2>1 DEF AllWritten
    <3> QED BY <3>1 DEF WholeInv
  <2>2. CASE EndPull
    <3>1. pc = "pull" /\ pc' = "join" /\ result' = result BY <2>2 DEF EndPull
    <3> QED BY <3>1 DEF WholeInv
  <2>3. CASE Join BY <2>3 DEF Join
  <2>4. CASE UNCHANGED exchangeVars BY <2>4 DEF exchangeVars, WholeInv
  <2> QED BY <2>1, <2>2, <2>3, <2>4
<1> QED BY <1>1, <1>2, <1>3, <1>4, <1>5, WholeParts

\* How many frames the driver asks for is a number.
LEMMA AskedFacts ==
  ASSUME responses \in Seq(Frame), WorthPulling
  PROVE  FlowControlFrame(Total - Have).data[1] \in Nat
<1> DEFINE F == FirstFrame
           I == {k \in (F + 1)..Len(responses) : responses[k].pci = Next1}
           c == Cardinality(I)
           n == responses[F].n
<1>1. Len(responses) \in Nat BY LenProperties
<1>2. F \in 1..Len(responses)
  <2>1. F # 0 BY DEF WorthPulling
  <2>2. F = FirstOf(responses) BY DEF FirstFrame
  <2> HIDE DEF F
  <2> QED BY <2>1, <2>2, FirstOfFacts
<1> HIDE DEF F
<1>3. c \in Nat
  <2>1. IsFiniteSet((F + 1)..Len(responses)) BY <1>1, <1>2, FS_Interval
  <2>2. I \subseteq (F + 1)..Len(responses) OBVIOUS
  <2> HIDE DEF I
  <2>3. IsFiniteSet(I) BY <2>1, <2>2, FS_Subset
  <2> QED BY <2>3, FS_CardinalityType
<1>4. n \in Nat
  <2>1. responses[F] \in Frame BY <1>2, ElementOfSeq
  <2> QED BY <2>1 DEF Frame
<1>5. Have = 1 + c BY DEF Have, Consecutive, F
<1>6. Total = 1 + (n \div 7) BY DEF Total, FramesOf, F
<1> HIDE DEF c, n
<1> DEFINE left == Total - Have
<1>7. left \in Int
  <2>1. n \div 7 \in Int BY <1>4
  <2> QED BY <1>3, <1>5, <1>6, <2>1
<1> HIDE DEF left
<1>8. FlowControlFrame(left).data[1] = IF left < 1 THEN 1 ELSE Least(left, 7) BY DEF FlowControlFrame
<1>9. FlowControlFrame(left).data[1] \in Nat BY <1>7, <1>8 DEF Least
<1> QED BY <1>9 DEF left

\* What the ECU owes after a block of it.
LEMMA OwesLess ==
  ASSUME Setting, NEW r, Owes(r), NEW b \in 0..Len(r)
  PROVE  /\ Owes(SubSeq(r, b + 1, Len(r))) /\ Len(SubSeq(r, b + 1, Len(r))) = Len(r) - b
         /\ SubSeq(r, 1, b) \in Seq(Frame) /\ Len(SubSeq(r, 1, b)) = b
         /\ \A i \in 1..b : SubSeq(r, 1, b)[i] = WholeReply[Len(WholeReply) - Len(r) + i]
<1> DEFINE n == Len(r)
           w == Len(WholeReply)
           v == SubSeq(r, b + 1, n)
           u == SubSeq(r, 1, b)
           A == Len(AnswerFrames)
<1>1. r \in Seq(Frame) /\ n < A /\ \A i \in 1..n : r[i] = WholeReply[w - n + i] BY DEF Owes
<1>2. n \in Nat /\ w \in Nat /\ A \in Nat /\ \A i \in 1..n : r[i] \in Frame
  <2>1. WholeReply \in Seq(Frame) /\ AnswerFrames \in Seq(Frame) BY ReplyFacts
  <2> QED BY <1>1, <2>1, LenProperties, ElementOfSeq
<1>3. b \in 0..n OBVIOUS
<1>4. u \in Seq(Frame) /\ Len(u) = b /\ \A i \in 1..b : u[i] = r[i]
  <2> HIDE DEF n
  <2>1. b \in Nat /\ \A i \in 1..b : r[i] \in Frame BY <1>2, <1>3
  <2>2. /\ SubSeq(r, 1, b) \in Seq(Frame) /\ Len(SubSeq(r, 1, b)) = IF 1 =< b THEN b - 1 + 1 ELSE 0
        /\ \A i \in 1..(b - 1 + 1) : SubSeq(r, 1, b)[i] = r[1 + i - 1]
        BY <2>1, SubSeqProperties
  <2>3. Len(SubSeq(r, 1, b)) = b /\ \A i \in 1..b : SubSeq(r, 1, b)[i] = r[i] BY <2>1, <2>2
  <2> QED BY <2>2, <2>3
<1>5. v \in Seq(Frame) /\ Len(v) = n - b /\ \A i \in 1..(n - b) : v[i] = r[b + i]
  <2> DEFINE a == b + 1
  <2> HIDE DEF n
  <2>1. a \in Nat /\ \A i \in a..n : r[i] \in Frame BY <1>2, <1>3
  <2>2. n - a + 1 = n - b /\ (a =< n \/ n - b = 0) /\ \A i \in 1..(n - b) : a + i - 1 = b + i BY <1>2, <1>3
  <2> HIDE DEF a
  <2>3. /\ SubSeq(r, a, n) \in Seq(Frame) /\ Len(SubSeq(r, a, n)) = IF a =< n THEN n - a + 1 ELSE 0
        /\ \A i \in 1..(n - a + 1) : SubSeq(r, a, n)[i] = r[a + i - 1]
        BY <1>2, <2>1, SubSeqProperties
  <2>4. ~(a =< n) => n - b = 0 BY <2>2
  <2>5. Len(SubSeq(r, a, n)) = n - b BY <2>2, <2>3, <2>4
  <2>6. \A i \in 1..(n - b) : SubSeq(r, a, n)[i] = r[b + i] BY <2>2, <2>3
  <2> QED BY <2>3, <2>5, <2>6 DEF a
<1> HIDE DEF n, w, u, v, A
<1>6. \A i \in 1..b : u[i] = WholeReply[w - n + i]
  <2> TAKE i \in 1..b
  <2>1. i \in 1..n BY <1>2, <1>3
  <2> QED BY <1>1, <1>4, <2>1
<1>7. \A i \in 1..Len(v) : v[i] = WholeReply[w - Len(v) + i]
  <2> TAKE i \in 1..Len(v)
  <2>1. i \in 1..(n - b) /\ b + i \in 1..n /\ w - Len(v) + i = w - n + (b + i) BY <1>2, <1>3, <1>5
  <2> QED BY <1>1, <1>5, <2>1
<1>8. Len(v) < A BY <1>1, <1>2, <1>3, <1>5
<1>9. Owes(v) BY <1>5, <1>7, <1>8 DEF Owes, w, A
<1> QED BY <1>4, <1>5, <1>6, <1>9 DEF n, w, u, v

\* The lines of a round of the pull, added to those before.
LEMMA PulledOrdered ==
  ASSUME Setting, NEW s \in Seq(Frame), NEW r, Owes(r), Ordered(s, Len(WholeReply) - Len(r)),
         NEW b \in 0..Len(r), NEW got \in Seq(Frame), Follows(got, SubSeq(r, 1, b), b)
  PROVE  s \o got \in Seq(Frame) /\ Ordered(s \o got, Len(WholeReply) - (Len(r) - b))
<1> DEFINE n == Len(r)
           w == Len(WholeReply)
           l == Len(got)
           hi == w - n
           top == w - (n - b)
<1>1. r \in Seq(Frame) /\ n < Len(AnswerFrames) BY DEF Owes
<1>2. Len(prelude) \in Nat /\ n \in Nat /\ w = Len(prelude) + Len(AnswerFrames) /\ Len(AnswerFrames) \in Nat
  <2>1. prelude \in Seq(Frame) /\ AnswerFrames \in Seq(Frame) /\ w = Len(prelude) + Len(AnswerFrames) BY ReplyFacts
  <2> QED BY <1>1, <2>1, LenProperties
<1>3. \A i \in 1..b : SubSeq(r, 1, b)[i] = WholeReply[hi + i] BY OwesLess
<1>4. PICK p \in [1..l -> 1..b] :
        \A i \in 1..l : got[i] = SubSeq(r, 1, b)[p[i]] /\ \A j \in i..l : p[i] =< p[j]
      BY DEF Follows
<1>5. b \in 0..n /\ Ordered(s, hi) OBVIOUS
<1> HIDE DEF n, w
<1>6. hi \in Nat /\ top \in Nat /\ hi =< top /\ top = hi + b BY <1>1, <1>2, <1>5
<1>9. l \in Nat BY LenProperties
<1> HIDE DEF l, hi, top
<1> DEFINE q == [i \in 1..l |-> hi + p[i]]
<1>7. \A i \in 1..l : p[i] \in 1..b BY <1>4
<1>8. q \in [1..l -> 1..top] BY <1>5, <1>6, <1>7
<1>10. ASSUME NEW i \in 1..l
       PROVE  /\ got[i] = WholeReply[q[i]] /\ \A j \in i..l : q[i] =< q[j]
              /\ hi =< q[i] \/ q[i] = Len(prelude) + 1
  <2>1. p[i] \in 1..b /\ q[i] = hi + p[i] BY <1>7
  <2>2. got[i] = WholeReply[q[i]] BY <1>3, <1>4, <2>1
  <2>3. ASSUME NEW j \in i..l PROVE q[i] =< q[j]
    <3>1. j \in 1..l /\ p[j] \in 1..b /\ p[i] =< p[j] BY <1>4, <1>7, <1>9
    <3>2. q[j] = hi + p[j] BY <3>1
    <3> HIDE DEF q
    <3> QED BY <1>6, <2>1, <3>1, <3>2
  <2>4. hi =< q[i] BY <1>6, <2>1
  <2> QED BY <2>2, <2>3, <2>4
<1> HIDE DEF q
<1>11. Placed(got, q, hi, top) BY <1>8, <1>10 DEF l, Placed
<1>13. Ordered(s, hi) BY <1>5
<1>12. s \o got \in Seq(Frame) /\ Ordered(s \o got, top) BY <1>6, <1>11, <1>13, OrderedConcat, Zenon
<1> QED BY <1>12 DEF top, w, n

\* ... and the first frame of the answer, sent again.
LEMMA StaleOrdered ==
  ASSUME Setting, NEW s \in Seq(Frame), NEW r, Owes(r), Ordered(s, Len(WholeReply) - Len(r))
  PROVE  s \o <<AnswerFrames[1]>> \in Seq(Frame) /\ Ordered(s \o <<AnswerFrames[1]>>, Len(WholeReply) - Len(r))
<1> DEFINE n == Len(r)
           A == AnswerFrames
           P == Len(prelude)
           hi == Len(WholeReply) - n
           t == <<AnswerFrames[1]>>
<1>1. r \in Seq(Frame) /\ n < Len(A) BY DEF Owes
<1>2. /\ A \in Seq(Frame) /\ prelude \in Seq(Frame) /\ Len(WholeReply) = P + Len(A)
      /\ \A i \in 1..Len(A) : WholeReply[P + i] = A[i]
      BY ReplyFacts
<1>3. P \in Nat /\ n \in Nat /\ Len(A) \in Nat BY <1>1, <1>2, LenProperties
<1>4. 1 \in 1..Len(A) BY <1>1, <1>3
<1>5. A[1] \in Frame /\ A[1] = WholeReply[P + 1] BY <1>2, <1>4, ElementOfSeq
<1>6. t \in Seq(Frame) /\ Len(t) = 1 /\ t[1] = A[1] BY <1>5
<1>10. Ordered(s, hi) OBVIOUS
<1> HIDE DEF n, A, P, t
<1>7. hi \in Nat /\ P + 1 \in 1..hi /\ hi =< hi BY <1>1, <1>2, <1>3
<1> HIDE DEF hi
<1> DEFINE q == [i \in 1..1 |-> P + 1]
<1>8. q \in [1..Len(t) -> 1..hi] BY <1>6, <1>7
<1>9. \A i \in 1..Len(t) : /\ t[i] = WholeReply[q[i]] /\ \A j \in i..Len(t) : q[i] =< q[j]
                           /\ hi =< q[i] \/ q[i] = Len(prelude) + 1
  <2> TAKE i \in 1..Len(t)
  <2>1. i = 1 /\ q[i] = P + 1 BY <1>6
  <2>2. \A j \in i..Len(t) : q[j] = P + 1 /\ P + 1 =< P + 1 BY <1>3, <1>6, <2>1
  <2> QED BY <1>5, <1>6, <2>1, <2>2 DEF P
<1> HIDE DEF q
<1>12. hi \in Nat /\ hi =< hi /\ t \in Seq(Frame) BY <1>6, <1>7
<1>13. Placed(t, q, hi, hi) BY <1>8, <1>9 DEF Placed
<1>11. s \o t \in Seq(Frame) /\ Ordered(s \o t, hi) BY <1>10, <1>12, <1>13, OrderedConcat, Zenon
<1> QED BY <1>11 DEF t, hi, n

\* A round of the pull.
LEMMA WholePull ==
  ASSUME WholeInv, Pull
  PROVE  WholeInv'
<1> DEFINE asked == FlowControlFrame(Total - Have).data[1]
           b == Least(asked, Len(rest))
           block == SubSeq(rest, 1, b)
           stale == <<AnswerFrames[1]>>
<1>1. PICK got : /\ Arrives(block, got) \/ (got \in {<<>>, stale} /\ UNCHANGED faults)
                 /\ rest' = IF got \in {<<>>, stale} THEN rest ELSE SubSeq(rest, Len(block) + 1, Len(rest))
                 /\ responses' = responses \o got
      BY Zenon DEF Pull
<1>2. /\ pc = "pull" /\ WorthPulling /\ (pc' = "pull" \/ pc' = "join")
      /\ UNCHANGED <<exchange, index, burst, flow, result, taken>>
      BY DEF Pull
<1>3. /\ Setting /\ faults \in Nat /\ index = N /\ N \in Nat /\ strategy # "manual" /\ responses \in Seq(Frame)
      /\ index \in Nat /\ burst \in Nat /\ flow \in Nat /\ taken = index /\ index + burst =< N
      /\ Owes(rest) /\ Ordered(responses, Len(WholeReply) - Len(rest)) /\ result = NoResult
      BY <1>2, SettingFacts DEF WholeInv, Setting
<1>4. b \in 0..Len(rest)
  <2>1. asked \in Nat BY <1>2, <1>3, AskedFacts
  <2>2. Len(rest) \in Nat BY <1>3, LenProperties DEF Owes
  <2> HIDE DEF asked
  <2> QED BY <2>1, <2>2 DEF Least
<1> HIDE DEF b
<1>5. /\ Owes(SubSeq(rest, b + 1, Len(rest))) /\ Len(SubSeq(rest, b + 1, Len(rest))) = Len(rest) - b
      /\ block \in Seq(Frame) /\ Len(block) = b
      BY <1>3, <1>4, OwesLess
<1>6. /\ responses' \in Seq(Frame) /\ Owes(rest') /\ Ordered(responses', Len(WholeReply) - Len(rest'))
      /\ faults' \in Nat
  <2>1. CASE got = <<>>
    <3>1. rest' = rest /\ responses' = responses \o <<>> BY <1>1, <2>1
    <3>2. responses' = responses BY <1>3, <3>1, ConcatEmptySeq
    <3>3. faults' \in Nat BY <1>1, <1>3, NothingLost
    <3> QED BY <1>3, <3>1, <3>2, <3>3
  <2>2. CASE got = stale
    <3>1. rest' = rest /\ responses' = responses \o stale BY <1>1, <2>2
    <3>2. responses \o stale \in Seq(Frame) /\ Ordered(responses \o stale, Len(WholeReply) - Len(rest))
          BY <1>3, StaleOrdered
    <3>3. faults' \in Nat BY <1>1, <1>3, NothingLost
    <3> QED BY <1>3, <3>1, <3>2, <3>3
  <2>3. CASE got # <<>> /\ got # stale
    <3> HIDE DEF stale
    <3>1. Arrives(block, got) BY <1>1, <2>3
    <3> HIDE DEF block
    <3>2. got \in Seq(Frame) /\ Follows(got, block, b) /\ faults' \in Nat BY <1>3, <1>5, <3>1, ArrivesFacts
    <3>3. rest' = SubSeq(rest, b + 1, Len(rest)) /\ responses' = responses \o got BY <1>1, <1>5, <2>3
    <3>4. Follows(got, SubSeq(rest, 1, b), b) BY <3>2 DEF block
    <3>5. /\ responses \o got \in Seq(Frame)
          /\ Ordered(responses \o got, Len(WholeReply) - (Len(rest) - b))
          BY <1>3, <1>4, <3>2, <3>4, PulledOrdered
    <3> QED BY <1>5, <3>2, <3>3, <3>5
  <2> QED BY <2>1, <2>2, <2>3
<1>7. index' = N /\ ~(index' < N) /\ pc' # "write" /\ pc' # "done" /\ strategy # "manual" BY <1>2, <1>3
<1>8. /\ UNCHANGED exchange /\ index' \in Nat /\ burst' \in Nat /\ flow' \in Nat /\ taken' = index'
      /\ index' + burst' =< N /\ result' = NoResult
      BY <1>2, <1>3
<1> QED BY <1>3, <1>6, <1>7, <1>8, WholeParts

\* What is kept of an exchange, at every step of it, comes in the order of the ECU's reply (sendCan, sendCanCfc0
\* and pullRemainingFrames of driver.ts).
THEOREM WholeInvariant == ExchangeSpec => []WholeInv
<1>1. ExchangeInit => WholeInv
  <2> SUFFICES ASSUME ExchangeInit PROVE WholeInv
      OBVIOUS
  <2>1. Setting BY ConstantsAssumption DEF Setting, ExchangeInit
  <2>2. N \in Nat \ {0} BY <2>1, SettingFacts
  <2>3. /\ index = 0 /\ burst = 0 /\ flow = 1 /\ taken = 0 /\ pc = "write" /\ responses = <<>> /\ rest = <<>>
        /\ result = NoResult
        BY DEF ExchangeInit
  <2>4. Owes(<<>>) BY <2>1, FirstReplyFacts
  <2>5. Ordered(<<>>, Len(WholeReply) - Len(rest)) BY OrderedNothing
  <2>6. index \in Nat /\ burst \in Nat /\ flow \in Nat /\ index + burst =< N /\ index # N BY <2>2, <2>3
  <2>7. <<>> \in Seq(Frame) OBVIOUS
  <2> QED BY <2>1, <2>3, <2>4, <2>5, <2>6, <2>7 DEF WholeInv
<1>2. WholeInv /\ [ExchangeNext]_exchangeVars => WholeInv'
  <2> SUFFICES ASSUME WholeInv, [ExchangeNext]_exchangeVars PROVE WholeInv'
      OBVIOUS
  <2> QED BY WholeWrite, WholeLook, WholeBurst, WholePull, WholeEnds DEF ExchangeNext
<1> QED BY <1>1, <1>2, PTL DEF ExchangeSpec

\* Whatever is lost or repeated, a value that is returned is the whole answer of the ECU, or a broadcast that came
\* without it, or nothing (reassemble of isotp.ts over what driver.ts keeps).
THEOREM AnswersAreWhole == ExchangeSpec => []WholeOrNothing
<1>1. WholeInv => WholeOrNothing
  <2> SUFFICES ASSUME WholeInv, result.kind = "value" PROVE result.value \in Whole
      BY DEF WholeOrNothing, Whole
  <2>1. /\ Setting /\ responses \in Seq(Frame) /\ Owes(rest) /\ Ordered(responses, Len(WholeReply) - Len(rest))
        /\ result = IF pc = "done" THEN Reassemble(responses, Sid) ELSE NoResult
        BY DEF WholeInv
  <2>2. result = Reassemble(responses, Sid) BY <2>1 DEF NoResult
  <2>3. Ordered(responses, Len(WholeReply))
    <3> DEFINE w == Len(WholeReply)
               n == Len(rest)
               hi == w - n
    <3>1. w \in Nat /\ n \in Nat
      <4>1. WholeReply \in Seq(Frame) /\ rest \in Seq(Frame) BY <2>1, ReplyFacts DEF Owes
      <4> QED BY <4>1, LenProperties
    <3>2. PICK pos \in [1..Len(responses) -> 1..hi] :
            \A i \in 1..Len(responses) :
               /\ responses[i] = WholeReply[pos[i]]
               /\ \A j \in i..Len(responses) : pos[i] =< pos[j] \/ pos[j] = Len(prelude) + 1
          BY <2>1 DEF Ordered
    <3> HIDE DEF w, n
    <3>3. 1..hi \subseteq 1..w BY <3>1
    <3> HIDE DEF hi
    <3>4. pos \in [1..Len(responses) -> 1..w] BY <3>2, <3>3
    <3> QED BY <3>2, <3>4 DEF Ordered, w
  <2>4. Reassemble(responses, Sid).value \in Whole BY <2>1, <2>2, <2>3, ReassembleValue
  <2> QED BY <2>2, <2>4
<1> QED BY <1>1, WholeInvariant, PTL
-----------------------------------------------------------------------------
(* Of a whole reply the answer is returned, whatever came before it. *)

\* All the frames of a longer answer are joined to it.
LEMMA AnswerJoined ==
  ASSUME Setting, Len(answer) > 7
  PROVE  /\ MultiFrame(AnswerFrames) = Frames(Len(answer), Joined(AnswerFrames), TRUE)
         /\ Joined(AnswerFrames) \in Seq(Nat) /\ Len(Joined(AnswerFrames)) >= Len(answer)
         /\ Upto(Joined(AnswerFrames), Len(answer)) = answer
         /\ Joined(AnswerFrames)[1] = answer[1]
<1> DEFINE A == AnswerFrames
           L == Len(answer)
           m == L \div 7
           s == Joined(A)
           c == Bytes(answer)
           q == [i \in 1..m |-> i]
<1>1. answer \in Seq(Nat) /\ L \in Nat /\ L > 7 /\ L =< MaxLength
      BY ConstantsAssumption, LenProperties DEF Setting
<1>2. /\ A \in Seq(Frame) /\ Len(A) = 1 + m /\ A[1].n = L /\ Len(A[1].data) = 6
      /\ \A k \in 1..m : A[k + 1].pci = Next1 /\ A[k + 1].n = k % 16 /\ Len(A[k + 1].data) = 7
  <2>1. Len(answer) > 7 /\ Len(answer) =< MaxLength BY <1>1
  <2>2. /\ Padded(answer) \in Seq(Frame) /\ Len(Padded(answer)) = 1 + (Len(answer) \div 7)
        /\ Padded(answer)[1].n = Len(answer) /\ Len(Padded(answer)[1].data) = 6
        /\ \A k \in 1..(Len(answer) \div 7) :
             /\ Padded(answer)[k + 1].pci = Next1 /\ Padded(answer)[k + 1].n = k % 16
             /\ Len(Padded(answer)[k + 1].data) = 7
        BY <1>1, <2>1, ManyFramesAnswer
  <2> QED BY <2>2 DEF AnswerFrames
<1>3. m \in Nat /\ L =< 7 * m + 6
  <2> HIDE DEF L
  <2> QED BY <1>1
<1>4. c \in [Nat -> Nat]
  <2>1. \A b \in 1..Len(answer) : answer[b] \in Nat BY <1>1, ElementOfSeq
  <2> QED BY <2>1 DEF Bytes
<1>5. L = Len(answer) OBVIOUS
<1> HIDE DEF L, c, A
<1> HIDE DEF m
<1>6. \A k \in 1..Len(A) : k = 1 \/ (k - 1 \in 1..m /\ k - 1 + 1 = k) BY <1>2, <1>3
<1>7. ASSUME NEW k \in 1..Len(A) PROVE Len(A[k].data) = Room(k)
  <2>1. CASE k = 1 BY <1>2, <2>1 DEF Room
  <2>2. CASE k # 1
    <3>1. k - 1 \in 1..m /\ k - 1 + 1 = k BY <1>6, <2>2
    <3>2. Len(A[k - 1 + 1].data) = 7 BY <1>2, <3>1
    <3> QED BY <2>2, <3>1, <3>2 DEF Room
  <2> QED BY <2>1, <2>2
<1>8. s \in Seq(Nat) /\ Len(s) = Before(Len(A)) BY <1>2, <1>4, <1>7, JoinedBytes
<1>9. Len(s) = 7 * m + 6 BY <1>2, <1>3, <1>8 DEF Before
<1>10. Len(s) >= L BY <1>1, <1>3, <1>9
<1>11. \A i \in 1..m : InSequence(A[i + 1], i)
  <2> TAKE i \in 1..m
  <2>1. A[i + 1].pci = Next1 /\ A[i + 1].n = i % 16 BY <1>2
  <2> QED BY <2>1 DEF InSequence
<1>12. Upto(s, L) = answer
  <2>1. Len(A) - 1 = m /\ A # <<>>
    <3>1. Len(A) # 0 BY <1>2, <1>3
    <3> QED BY <1>2, <1>3, <3>1, EmptySeq
  <2>2. q \in [1..m -> 1..m] /\ \A i \in 1..m : q[i] = i OBVIOUS
  <2> HIDE DEF q
  <2>3. ASSUME NEW i \in 1..m
        PROVE  /\ InSequence(A[i + 1], i) /\ A[i + 1] = Padded(answer)[q[i] + 1]
               /\ \A j \in i..m : q[i] =< q[j]
    <3>1. InSequence(A[i + 1], i) BY <1>11
    <3>2. A[i + 1] = Padded(answer)[q[i] + 1] BY <2>2 DEF A, AnswerFrames
    <3>3. \A j \in i..m : q[i] =< q[j]
      <4> TAKE j \in i..m
      <4>1. j \in 1..m BY <1>3
      <4> QED BY <2>2, <4>1
    <3> QED BY <3>1, <3>2, <3>3
  <2>4. q \in [1..(Len(A) - 1) -> 1..(Len(answer) \div 7)] BY <2>1, <2>2 DEF m, L
  <2>5. \A i \in 1..(Len(A) - 1) : /\ InSequence(A[i + 1], i) /\ A[i + 1] = Padded(answer)[q[i] + 1]
                                   /\ \A j \in i..(Len(A) - 1) : q[i] =< q[j]
        BY <2>1, <2>3
  <2>6. A[1] = Padded(answer)[1] BY DEF A, AnswerFrames
  <2>7. answer \in Seq(Nat) /\ Len(answer) > 7 /\ Len(answer) =< MaxLength /\ Len(Joined(A)) >= Len(answer)
        BY <1>1, <1>5, <1>10
  <2>8. Upto(Joined(A), Len(answer)) = answer BY <1>2, <2>1, <2>4, <2>5, <2>6, <2>7, WholeAnswer
  <2> QED BY <1>5, <2>8
<1> HIDE DEF q
<1>13. s[1] = answer[1]
  <2> HIDE DEF s
  <2> DEFINE u == Upto(s, L)
  <2>1. Len(u) = (IF L < Len(s) THEN L ELSE Len(s)) /\ \A j \in 1..Len(u) : u[j] = s[j]
        BY <1>1, <1>8, UptoFacts
  <2>2. u = answer BY <1>12
  <2> HIDE DEF u
  <2>3. 1 \in 1..Len(u) BY <1>1, <1>5, <2>2
  <2> QED BY <2>1, <2>2, <2>3
<1>14. MultiFrame(A) = Frames(L, s, TRUE)
  <2>1. \A k \in 2..Len(A) : InSequence(A[k], k - 1)
    <3> TAKE k \in 2..Len(A)
    <3>1. k \in 1..Len(A) /\ k # 1 BY <1>2, <1>3
    <3>2. k - 1 \in 1..m /\ k - 1 + 1 = k BY <1>6, <3>1
    <3>3. InSequence(A[k - 1 + 1], k - 1) BY <1>11, <3>2
    <3> QED BY <3>2, <3>3
  <2>2. MultiFrame(A) = Frames(A[1].n, Joined(A), TRUE) BY <2>1, Zenon DEF MultiFrame
  <2> QED BY <1>2, <2>2
<1> QED BY <1>5, <1>8, <1>10, <1>12, <1>13, <1>14 DEF A, s

\* What was made of a batch is the answer: as a value, or as the refusal it is.
Answered(c) ==
  /\ c.ok /\ c.declared = Len(answer) /\ Len(c.result) >= c.declared /\ Upto(c.result, c.declared) = answer
  /\ StartsWith(c.result, Negative) => c.result = answer

\* A single frame holds the answer, or a batch of frames does that are just those of the answer.
LEMMA AnswerRead ==
  ASSUME Setting
  PROVE  /\ Len(answer) =< 7 => Answered(OneFrame(AnswerFrames[1]))
         /\ Len(answer) > 7 => Answered(MultiFrame(AnswerFrames))
<1>1. answer \in Seq(Nat) /\ Len(answer) \in Nat BY ConstantsAssumption, LenProperties DEF Setting
<1>2. ASSUME Len(answer) =< 7 PROVE Answered(OneFrame(AnswerFrames[1]))
  <2> DEFINE c == OneFrame(AnswerFrames[1])
  <2>1. c.result = answer /\ AnswerFrames[1].n = Len(answer) BY <1>1, <1>2, AnswerFacts
  <2>2. c.declared = AnswerFrames[1].n /\ c.ok = TRUE BY DEF OneFrame, Frames
  <2> HIDE DEF c
  <2>3. Upto(answer, Len(answer)) = answer
    <3>1. Least(Len(answer), Len(answer)) = Len(answer) BY Zenon DEF Least
    <3>2. SubSeq(answer, 1, Len(answer)) = answer BY <1>1, SubSeqFull
    <3> QED BY <3>1, <3>2 DEF Upto
  <2>4. Len(answer) >= Len(answer) BY <1>1
  <2>5. Answered(c) BY <2>1, <2>2, <2>3, <2>4 DEF Answered
  <2> QED BY <2>5 DEF c
<1>3. ASSUME Len(answer) > 7 PROVE Answered(MultiFrame(AnswerFrames))
  <2> DEFINE s == Joined(AnswerFrames)
             c == MultiFrame(AnswerFrames)
  <2>1. /\ c = Frames(Len(answer), s, TRUE) /\ Len(s) >= Len(answer) /\ Upto(s, Len(answer)) = answer
        /\ s[1] = answer[1]
        BY <1>3, AnswerJoined
  <2> HIDE DEF s, c
  <2>2. c.declared = Len(answer) /\ c.result = s /\ c.ok = TRUE BY <2>1 DEF Frames
  <2>3. answer[1] # Negative
    <3>1. answer \in Answers /\ request \in Requests /\ prelude \in Preludes BY DEF Setting
    <3>2. answer[1] = Negative => Len(answer) =< 7 BY <3>1, DialogueAssumption
    <3> QED BY <1>1, <1>3, <3>2
  <2>4. ~StartsWith(s, Negative) BY <2>1, <2>3 DEF StartsWith
  <2>5. Answered(c) BY <2>1, <2>2, <2>4 DEF Answered
  <2> QED BY <2>5 DEF c
<1> QED BY <1>2, <1>3

\* The whole reply, or what is left of it without a wait, holds the answer.
LEMMA AnswerContents ==
  ASSUME Setting, NEW d \in 0..Len(prelude), NEW fs \in Seq(Frame), Len(fs) = Len(WholeReply) - d,
         \A i \in 1..Len(fs) : fs[i] = WholeReply[d + i],
         \A i \in (d + 1)..Len(prelude) : ~AnswersTo(OneFrame(prelude[i]).result, Sid)
  PROVE  Answered(Contents(fs, Sid))
<1> DEFINE A == AnswerFrames
           P == Len(prelude)
           l == Len(A)
           n == Len(fs)
           Q == P - d
           m == Len(answer) \div 7
           D == Diagnostic(fs, Sid)
           F == FirstOf(fs)
<1>1. /\ prelude \in Seq(Frame) /\ A \in Seq(Frame) /\ A # <<>> /\ Len(WholeReply) = P + l
      /\ \A i \in 1..P : WholeReply[i] = prelude[i] /\ prelude[i].pci = Single
      /\ \A i \in 1..l : WholeReply[P + i] = A[i]
      BY ReplyFacts
<1>2. P \in Nat /\ l \in Nat /\ l >= 1 /\ d \in 0..P BY <1>1, EmptySeq, LenProperties
<1>3. n = P + l - d /\ \A i \in 1..n : fs[i] = WholeReply[d + i] BY <1>1
<1>4. \/ Len(answer) =< 7 /\ l = 1 /\ A[1].pci = Single /\ OneFrame(A[1]).result = answer
      \/ Len(answer) > 7 /\ l = 1 + m /\ A[1].pci = First /\ \A i \in 1..m : A[i + 1].pci = Next1
      BY AnswerFacts
<1>5. Len(answer) \in Nat /\ m \in Int /\ (Len(answer) > 7 => m >= 1)
  <2>1. answer \in Seq(Nat) BY ConstantsAssumption DEF Setting
  <2> DEFINE L == Len(answer)
  <2>2. L \in Nat BY <2>1, LenProperties
  <2> HIDE DEF L
  <2>3. L \div 7 \in Int /\ (L > 7 => (L \div 7) >= 1) BY <2>2
  <2> QED BY <2>2, <2>3 DEF L
<1>6. AnswersTo(answer, Sid)
  <2>1. answer \in Answers /\ request \in Requests /\ prelude \in Preludes BY DEF Setting
  <2> QED BY <2>1, DialogueAssumption DEF Sid
<1>7. \A i \in (d + 1)..P : ~AnswersTo(OneFrame(prelude[i]).result, Sid) OBVIOUS
<1>8. Contents(fs, Sid) = IF n = 1 THEN IF fs[1].pci = Single THEN OneFrame(fs[1]) ELSE Broken
                          ELSE IF fs[1].pci = First THEN MultiFrame(fs)
                          ELSE IF fs[1].pci # Single THEN Broken
                          ELSE IF D # 0 THEN OneFrame(fs[D])
                          ELSE IF F = 0 THEN OneFrame(fs[1]) ELSE MultiFrame(SubSeq(fs, F, n))
      BY DEF Contents
<1>9. \/ D = 0 /\ \A i \in 1..n : ~(fs[i].pci = Single /\ AnswersTo(OneFrame(fs[i]).result, Sid))
      \/ D \in 1..n /\ fs[D].pci = Single /\ AnswersTo(OneFrame(fs[D]).result, Sid)
      BY DiagnosticFacts
<1>10. \/ F = 0 /\ \A i \in 1..n : fs[i].pci # First
       \/ F \in 1..n /\ fs[F].pci = First
      BY FirstOfFacts
<1>20. fs \in Seq(Frame) OBVIOUS
<1> HIDE DEF P, l, n, m, D, F, A
\* What comes before the answer, and where the answer is.
<1>11. ASSUME NEW i \in 1..Q PROVE fs[i].pci = Single /\ ~AnswersTo(OneFrame(fs[i]).result, Sid) /\ i \in 1..n
  <2>1. d + i \in 1..P /\ d + i \in (d + 1)..P /\ i \in 1..n BY <1>2, <1>3
  <2>2. fs[i] = prelude[d + i] BY <1>1, <1>3, <2>1
  <2> QED BY <1>1, <1>7, <2>1, <2>2
<1>12. ASSUME NEW i \in 1..l PROVE fs[Q + i] = A[i] /\ Q + i \in 1..n
  <2>1. Q + i \in 1..n /\ d + (Q + i) = P + i BY <1>2, <1>3
  <2>2. fs[Q + i] = WholeReply[P + i] BY <1>3, <2>1
  <2> QED BY <1>1, <2>1, <2>2
<1>13. \A i \in 1..n : i \in 1..Q \/ (i - Q \in 1..l /\ Q + (i - Q) = i) BY <1>2, <1>3
<1>14. Q \in Nat /\ n = Q + l /\ n \in Nat /\ 1 \in 1..l BY <1>2, <1>3
<1> HIDE DEF Q
<1>15. fs[Q + 1] = A[1] /\ Q + 1 \in 1..n BY <1>12, <1>14
<1>16. CASE Len(answer) =< 7
  <2>1. l = 1 /\ A[1].pci = Single /\ OneFrame(A[1]).result = answer BY <1>4, <1>5, <1>16
  <2>2. D = Q + 1
    <3>1. D \in 1..n /\ AnswersTo(OneFrame(fs[D]).result, Sid) BY <1>6, <1>9, <1>15, <2>1
    <3>2. ~(D \in 1..Q) BY <1>11, <3>1
    <3>3. D - Q \in 1..1 /\ Q + (D - Q) = D BY <1>13, <2>1, <3>1, <3>2
    <3> QED BY <1>14, <3>1, <3>3
  <2>3. Contents(fs, Sid) = OneFrame(A[1])
    <3>1. CASE Q = 0
      <4>1. n = 1 /\ fs[1] = A[1] BY <1>14, <1>15, <2>1, <3>1
      <4> QED BY <1>8, <2>1, <4>1
    <3>2. CASE Q # 0
      <4>1. 1 \in 1..Q /\ n # 1 /\ D # 0 BY <1>14, <2>1, <2>2, <3>2
      <4>2. fs[1].pci = Single /\ fs[1].pci # First BY <1>11, <4>1 DEF Single, First
      <4>3. Contents(fs, Sid) = OneFrame(fs[D]) BY <1>8, <4>1, <4>2
      <4> QED BY <1>15, <2>2, <4>3
    <3> QED BY <3>1, <3>2
  <2>4. Answered(OneFrame(A[1])) BY <1>16, AnswerRead DEF A
  <2> QED BY <2>3, <2>4
<1>17. CASE Len(answer) > 7
  <2>1. l = 1 + m /\ A[1].pci = First /\ m >= 1 /\ \A i \in 1..m : A[i + 1].pci = Next1
    <3>1. ~(Len(answer) =< 7) /\ m >= 1 BY <1>5, <1>17
    <3> QED BY <1>4, <3>1, Zenon
  <2>2. ASSUME NEW i \in 1..n, ~(i \in 1..Q)
        PROVE  fs[i].pci # Single /\ (fs[i].pci = First => i = Q + 1)
    <3> DEFINE k == i - Q
    <3>1. k \in 1..l /\ Q + k = i BY <1>13, <2>2
    <3>2. fs[i] = A[k] BY <1>12, <3>1
    <3> HIDE DEF k
    <3>3. CASE k = 1 BY <2>1, <3>1, <3>2, <3>3 DEF Single, First
    <3>4. CASE k # 1
      <4>1. k - 1 \in 1..m /\ k - 1 + 1 = k BY <1>5, <2>1, <3>1, <3>4
      <4>2. A[k - 1 + 1].pci = Next1 BY <2>1, <4>1
      <4> QED BY <3>2, <4>1, <4>2 DEF Single, First, Next1
    <3> QED BY <3>3, <3>4
  <2>3. D = 0
    <3> SUFFICES ASSUME D # 0 PROVE FALSE
        OBVIOUS
    <3>1. D \in 1..n /\ fs[D].pci = Single /\ AnswersTo(OneFrame(fs[D]).result, Sid) BY <1>9
    <3>2. D \in 1..Q BY <2>2, <3>1
    <3> QED BY <1>11, <3>1, <3>2
  <2>4. F = Q + 1
    <3>1. F \in 1..n /\ fs[F].pci = First BY <1>10, <1>15, <2>1
    <3>2. ~(F \in 1..Q) BY <1>11, <3>1 DEF Single, First
    <3> QED BY <2>2, <3>1, <3>2
  <2> DEFINE gs == IF Q = 0 THEN fs ELSE SubSeq(fs, F, n)
  <2>5. gs = A
    <3>1. \A i \in 1..l : fs[Q + i] = A[i] BY <1>12
    <3>2. CASE Q = 0
      <4>4. n = l BY <1>2, <1>14, <3>2
      <4>1. Len(fs) = Len(A) BY <4>4 DEF n, l
      <4>2. \A i \in 1..Len(fs) : fs[i] = A[i]
        <5> TAKE i \in 1..Len(fs)
        <5>1. i \in 1..l /\ Q + i = i BY <3>2, <4>1 DEF l
        <5> QED BY <3>1, <5>1
      <4>3. fs = A BY <1>1, <1>20, <4>1, <4>2, SeqEqual
      <4> QED BY <3>2, <4>3
    <3>3. CASE Q # 0
      <4> DEFINE u == SubSeq(fs, Q + 1, n)
      <4>1. \A i \in (Q + 1)..n : fs[i] \in Frame
        <5> TAKE i \in (Q + 1)..n
        <5>1. i \in 1..Len(fs) BY <1>14 DEF n
        <5> QED BY <1>20, <5>1, ElementOfSeq
      <4> DEFINE a == Q + 1
      <4>2. a \in Nat /\ n \in Nat /\ a =< n /\ n - a + 1 = l /\ \A i \in 1..l : a + i - 1 = Q + i
        BY <1>14, <1>15, <2>1, <1>2
      <4> HIDE DEF a
      <4>3. \A i \in a..n : fs[i] \in Frame BY <4>1 DEF a
      <4>4. /\ SubSeq(fs, a, n) \in Seq(Frame) /\ Len(SubSeq(fs, a, n)) = IF a =< n THEN n - a + 1 ELSE 0
            /\ \A i \in 1..(n - a + 1) : SubSeq(fs, a, n)[i] = fs[a + i - 1]
            BY <4>2, <4>3, SubSeqProperties
      <4>5. u \in Seq(Frame) /\ Len(u) = l /\ \A i \in 1..l : u[i] = fs[Q + i] BY <4>2, <4>4 DEF a
      <4> HIDE DEF u
      <4>6. Len(u) = Len(A) /\ \A i \in 1..Len(u) : u[i] = A[i] BY <3>1, <4>5 DEF l
      <4>7. u = A BY <1>1, <4>5, <4>6, SeqEqual
      <4> QED BY <2>4, <3>3, <4>7 DEF u
    <3> QED BY <3>2, <3>3
  <2>6. Contents(fs, Sid) = MultiFrame(gs)
    <3>1. CASE Q = 0
      <4>2. n # 1 /\ Q + 1 = 1 BY <1>5, <1>14, <2>1, <3>1
      <4>1. n # 1 /\ fs[1].pci = First BY <1>15, <2>1, <4>2
      <4> QED BY <1>8, <3>1, <4>1
    <3>2. CASE Q # 0
      <4>1. 1 \in 1..Q /\ n # 1 /\ F # 0 BY <1>5, <1>14, <2>1, <2>4, <3>2
      <4>2. fs[1].pci = Single /\ fs[1].pci # First BY <1>11, <4>1 DEF Single, First
      <4>3. Contents(fs, Sid) = MultiFrame(SubSeq(fs, F, n)) BY <1>8, <2>3, <4>1, <4>2
      <4> QED BY <3>2, <4>3
    <3> QED BY <3>1, <3>2
  <2> HIDE DEF gs
  <2>7. Answered(MultiFrame(A)) BY <1>17, AnswerRead DEF A
  <2> QED BY <2>5, <2>6, <2>7
<1> QED BY <1>5, <1>16, <1>17

\* Of the whole reply to a request its answer is returned.
LEMMA ReplyReassembled ==
  ASSUME Setting
  PROVE  Reassemble(WholeReply, Sid).value = answer
<1> DEFINE W == WholeReply
           P == Len(prelude)
           waits == Len(W) > 1 /\ SaysWait(W[1])
           fs == IF waits THEN Tail(W) ELSE W
           c == Contents(fs, Sid)
           d == IF waits THEN 1 ELSE 0
<1>1. /\ prelude \in Seq(Frame) /\ AnswerFrames \in Seq(Frame) /\ AnswerFrames # <<>>
      /\ W \in Seq(Frame) /\ Len(W) = P + Len(AnswerFrames)
      /\ \A i \in 1..P : W[i] = prelude[i] /\ prelude[i].pci = Single
      /\ \A i \in 1..Len(AnswerFrames) : W[P + i] = AnswerFrames[i]
      BY ReplyFacts
<1>2. /\ P \in Nat /\ Len(AnswerFrames) \in Nat /\ Len(AnswerFrames) >= 1 /\ Len(W) \in Nat /\ Len(W) >= 1
      /\ DOMAIN prelude = 1..P
      BY <1>1, EmptySeq, LenProperties
<1>3. W # <<>> BY <1>1, <1>2, EmptySeq
<1>4. \A k \in 1..P : (k = 1 /\ AsksToWait(prelude[k])) \/ ~AnswersTo(OneFrame(prelude[k]).result, Sid)
  <2>1. answer \in Answers /\ request \in Requests /\ prelude \in Preludes BY DEF Setting
  <2> QED BY <1>2, <2>1, DialogueAssumption DEF Sid
<1>5. Reassemble(W, Sid) = IF StartsWith(c.result, Negative) THEN [kind |-> "negative", value |-> c.result]
                           ELSE IF c.ok /\ Len(c.result) >= c.declared
                           THEN [kind |-> "value", value |-> Upto(c.result, c.declared)]
                           ELSE [kind |-> "error", value |-> <<>>]
      BY <1>3 DEF Reassemble
\* A reply that begins with a wait has something before the answer.
<1>6. waits => P >= 1
  <2> SUFFICES ASSUME waits, ~(P >= 1) PROVE FALSE
      OBVIOUS
  <2>1. P = 0 /\ 1 \in 1..Len(AnswerFrames) BY <1>2
  <2>2. W[1] = AnswerFrames[1] /\ Len(AnswerFrames) > 1 BY <1>1, <1>2, <2>1
  <2>3. AnswerFrames[1].pci = First
    <3>1. Len(AnswerFrames) # 1
      <4> DEFINE l == Len(AnswerFrames)
      <4>1. l > 1 /\ l \in Nat BY <1>2, <2>2
      <4> HIDE DEF l
      <4>2. l # 1 BY <4>1
      <4> QED BY <4>2 DEF l
    <3>2. \/ Len(AnswerFrames) = 1
          \/ AnswerFrames[1].pci = First
          BY AnswerFacts
    <3> QED BY <3>1, <3>2
  <2>4. W[1].pci = Single BY DEF SaysWait
  <2> QED BY <2>2, <2>3, <2>4 DEF Single, First
<1>7. \A i \in (d + 1)..P : ~AnswersTo(OneFrame(prelude[i]).result, Sid)
  <2> TAKE i \in (d + 1)..P
  <2>1. i \in 1..P BY <1>2
  <2>2. CASE waits
    <3>1. i # 1 BY <1>2, <2>2
    <3> QED BY <1>4, <2>1, <3>1
  <2>3. CASE ~waits
    <3> SUFFICES ASSUME i = 1, AsksToWait(prelude[1]) PROVE FALSE
        BY <1>4, <2>1
    <3>1. W[1] = prelude[1] /\ prelude[1].pci = Single /\ prelude[1] \in Frame BY <1>1, <2>1, ElementOfSeq
    <3>2. prelude[1].n = 3 /\ Len(prelude[1].data) >= 3 /\ prelude[1].data[1] = Negative
          /\ prelude[1].data[3] = Pending
          BY DEF AsksToWait
    <3>3. SaysWait(W[1]) BY <3>1, <3>2 DEF SaysWait
    <3>4. Len(W) > 1 BY <1>1, <1>2, <2>1
    <3> QED BY <2>3, <3>3, <3>4
  <2> QED BY <2>2, <2>3
<1>8. /\ fs \in Seq(Frame) /\ d \in 0..P /\ Len(fs) = Len(W) - d /\ \A i \in 1..Len(fs) : fs[i] = W[d + i]
  <2>1. CASE waits
    <3>1. Tail(W) \in Seq(Frame) /\ Len(Tail(W)) = Len(W) - 1 /\ \A i \in 1..Len(Tail(W)) : Tail(W)[i] = W[i + 1]
          BY <1>1, <1>3, HeadTailProperties
    <3>2. fs = Tail(W) /\ d = 1 BY <2>1
    <3>3. 1 \in 0..P /\ \A i \in 1..Len(Tail(W)) : i + 1 = 1 + i BY <1>2, <1>6, <2>1
    <3> HIDE DEF fs, d, W
    <3> QED BY <3>1, <3>2, <3>3
  <2>2. CASE ~waits
    <3>1. fs = W /\ d = 0 BY <2>2
    <3>2. 0 \in 0..P /\ Len(W) - 0 = Len(W) /\ \A i \in 1..Len(W) : 0 + i = i BY <1>2
    <3> HIDE DEF fs, d, W
    <3> QED BY <1>1, <3>1, <3>2
  <2> QED BY <2>1, <2>2
<1> HIDE DEF waits, fs, d
<1>9. Answered(c)
  <2>1. /\ fs \in Seq(Frame) /\ d \in 0..Len(prelude) /\ Len(fs) = Len(WholeReply) - d
        /\ \A i \in 1..Len(fs) : fs[i] = WholeReply[d + i]
        /\ \A i \in (d + 1)..Len(prelude) : ~AnswersTo(OneFrame(prelude[i]).result, Sid)
        BY <1>7, <1>8
  <2> QED BY <2>1, AnswerContents
<1> HIDE DEF c
<1>10. Reassemble(W, Sid).value = answer
  <2>1. CASE StartsWith(c.result, Negative)
    <3>1. Reassemble(W, Sid) = [kind |-> "negative", value |-> c.result] BY <1>5, <2>1
    <3> QED BY <1>9, <2>1, <3>1 DEF Answered
  <2>2. CASE ~StartsWith(c.result, Negative)
    <3>1. c.ok /\ Len(c.result) >= c.declared /\ Upto(c.result, c.declared) = answer BY <1>9 DEF Answered
    <3>2. Reassemble(W, Sid) = [kind |-> "value", value |-> Upto(c.result, c.declared)] BY <1>5, <2>2, <3>1
    <3> QED BY <3>1, <3>2
  <2> QED BY <2>1, <2>2
<1> QED BY <1>10

\* Where the adapter answers flow control, an exchange in which nothing is lost returns the ECU's answer
\* (sendCan of driver.ts, reassemble of isotp.ts).
THEOREM ManualAnswersArrive == ExchangeSpec => []ManualAnswerArrives
<1>1. WholeInv => ManualAnswerArrives
  <2> SUFFICES ASSUME WholeInv, strategy = "manual", pc = "done", faults = 0 PROVE result.value = answer
      BY DEF ManualAnswerArrives, AnswerArrives
  <2>1. Setting /\ responses = WholeReply /\ result = Reassemble(responses, Sid) BY DEF WholeInv
  <2>2. Reassemble(WholeReply, Sid).value = answer BY <2>1, ReplyReassembled
  <2> QED BY <2>1, <2>2
<1> QED BY <1>1, WholeInvariant, PTL
=============================================================================
