------------------------------- MODULE ElmDriver -------------------------------
(***************************************************************************)
(* Pointing the adapter at an ECU:                                         *)
(*   packages/elm/src/driver.ts     initCan, setCanAddress, initIso,       *)
(*                                  setIsoAddress, setIso8Address,         *)
(*                                  closeProtocol                          *)
(*   packages/session/src/attach.ts attachEcu                              *)
(*   packages/session/src/scan.ts   sweep, its addressing                  *)
(*                                                                         *)
(* The driver keeps a belief (protocol, currentAddress) that it updates    *)
(* before the first command of a method goes out, and by which a later     *)
(* call is skipped.  The adapter's real settings change one command at a   *)
(* time, other flows' commands come in between, and the reply to a         *)
(* command is not looked at, so one that is lost goes unnoticed.           *)
(***************************************************************************)
EXTENDS Integers, Sequences

CONSTANTS Flows,       \* the asynchronous flows that use one driver
          Ecus,
          Addresses,   \* CAN identifiers and K-line addresses
          None,        \* no flow, no ECU, no address
          Bus,         \* Bus[e]: "can", "kwp" or "iso8"
          Address,     \* Address[e]: the tx id, or the K-line address; several
                       \* ECUs may have one, with one rx id or with different ones
          Receive,     \* Receive[e]: the rx id of a CAN ECU
          FastInit     \* the K-line ECUs whose definition says fastinit

ASSUME NoneAssumption ==
  None \notin Flows /\ None \notin Ecus /\ None \notin Addresses
ASSUME EcusAssumption ==
  /\ Bus \in [Ecus -> {"can", "kwp", "iso8"}]
  /\ Address \in [Ecus -> Addresses] /\ Receive \in [Ecus -> Addresses]
  /\ FastInit \subseteq Ecus

VARIABLES
  protocol,        \* the driver's belief: "none", "can" or "iso"
  currentAddress,  \* ... and the address it takes the adapter to be set to;
                   \* None for "" and for initCan's "7e0", no ECU's spelling
  adapter,         \* external: what the adapter is really set to
  stage,           \* per flow: "idle", "init", "address", "ready", "close"
  at,              \* per flow: the next command of the method it is in
  want,            \* per flow: the ECU it is attaching or attached to
  confirmed,       \* the flows whose K-line init reported success
  sweeping,        \* the flows that are sweeps
  solo             \* history: the flow that last began, while no other flow
                   \* has used the driver since and it has lost no command

belief == <<protocol, currentAddress>>
vars   == <<belief, adapter, stage, at, want, confirmed, sweeping, solo>>

-----------------------------------------------------------------------------
(* The adapter.  header is the address it sends to (AT SH, with the header *)
(* of its flow control), filter the one it listens to (AT CRA), raw is     *)
(* AT CAF0 (with AT S0 and AT AL), wakes the target of the AT WM message,  *)
(* woken the K-line ECU the init handshake reached.                        *)
Reset == [header |-> None, filter |-> None, raw |-> FALSE,
          line |-> "none", wakes |-> None, woken |-> None]

(* AT SP drops the K-line session, and on several clones the formatting.   *)
SelectLine(line) ==
  {[adapter EXCEPT !.line = line, !.woken = None, !.raw = r] :
     r \in {adapter.raw, FALSE}}

(* What the adapter may be set to after a command sent for ECU e.          *)
Effects(command, e) ==
  CASE command = "AT WS"    -> {Reset}
    [] command = "AT CAF0"  -> {[adapter EXCEPT !.raw = TRUE]}
    [] command = "AT SH"    -> {[adapter EXCEPT !.header = Address[e]]}
    [] command = "AT CRA"   -> {[adapter EXCEPT !.filter = Receive[e]]}
    [] command = "AT WM"    -> {[adapter EXCEPT !.wakes = Address[e]]}
    [] command = "AT SP CAN"  -> SelectLine("can")
    [] command = "AT SP KWP"  -> SelectLine("kwp")
    [] command = "AT SP ISO8" -> SelectLine("iso8")
    [] command = "ATPC" -> {[adapter EXCEPT !.line = "none", !.woken = None]}

-----------------------------------------------------------------------------
(* The methods, as the commands they send that change one of those         *)
(* settings.  A sweep does not know the ECU: it forces slow init and uses  *)
(* setIsoAddress for every K-line address.                                 *)
InitCanCommands == <<"AT WS", "AT CAF0">>
InitIsoCommands == <<"AT WS">>

(* Mutant of SetCanAddressCommands: formatting before the protocol.        *)
SetCanAddressCommandsSwapped ==
  <<"AT SH", "AT CAF0", "AT SP CAN", "AT CRA">>

SetCanAddressCommands ==
  <<"AT SH", "AT SP CAN", "AT CAF0", "AT CRA">>

SetIsoAddressCommands(slowInit) ==
  IF slowInit THEN <<"AT SH", "AT WM", "AT SP KWP", "AT SI", "AT SP KWP", "AT FI">>
              ELSE <<"AT SH", "AT WM", "AT SP KWP", "AT FI">>

SetIso8AddressCommands == <<"AT SH", "AT WM", "AT SP ISO8", "AT SI">>

CloseProtocolCommands == <<"ATPC">>

Commands(f) ==
  LET bus == Bus[want[f]] IN
  CASE stage[f] = "init"  -> IF bus = "can" THEN InitCanCommands ELSE InitIsoCommands
    [] stage[f] = "close" -> CloseProtocolCommands
    [] stage[f] = "address" /\ bus = "can" -> SetCanAddressCommands
    [] stage[f] = "address" /\ bus = "iso8" /\ f \notin sweeping ->
         SetIso8AddressCommands
    [] OTHER -> SetIsoAddressCommands(f \in sweeping \/ want[f] \notin FastInit)

Sending(f)  == stage[f] \in {"init", "address", "close"} /\ at[f] =< Len(Commands(f))
Returned(f) == stage[f] \in {"init", "address", "close"} /\ at[f] > Len(Commands(f))

(* The protocol the driver notes for the bus of e.                         *)
Protocol(e) == IF Bus[e] = "can" THEN "can" ELSE "iso"

(* A step of flow f on the shared driver disturbs every other flow.        *)
Touch(f) == solo' = IF solo = f THEN f ELSE None

-----------------------------------------------------------------------------
(* A driver that identify() has just reset.                                *)
Init ==
  /\ protocol = "none" /\ currentAddress = None
  /\ adapter = Reset
  /\ stage = [f \in Flows |-> "idle"]
  /\ at = [f \in Flows |-> 1]
  /\ want = [f \in Flows |-> None]
  /\ confirmed = {} /\ sweeping = {}
  /\ solo = None

(* Mutant of InitProtocol: the address believed before the reset is kept.  *)
InitProtocolKeeps(e) ==
  /\ protocol' = Protocol(e)
  /\ UNCHANGED currentAddress

(* attachEcu, or a sweep of the bus of e: initCan or initIso is entered.   *)
InitProtocol(e) ==
  /\ protocol' = Protocol(e)
  /\ currentAddress' = None

Begin(f, e, sweep) ==
  /\ stage[f] = "idle"
  /\ InitProtocol(e)
  /\ stage' = [stage EXCEPT ![f] = "init"]
  /\ at' = [at EXCEPT ![f] = 1]
  /\ want' = [want EXCEPT ![f] = e]
  /\ sweeping' = IF sweep THEN sweeping \cup {f} ELSE sweeping
  /\ solo' = f
  /\ UNCHANGED <<adapter, confirmed>>

(* setCanAddress, setIsoAddress or setIso8Address is entered: skipped when *)
(* the driver believes it is there, else believed before it is sent.  What *)
(* it compares is the tx id alone, whatever the rx id.                     *)
AlreadyAddressed(e) == protocol = Protocol(e) /\ currentAddress = Address[e]

SetAddress(f, e) ==
  /\ want' = [want EXCEPT ![f] = e]
  /\ \/ /\ AlreadyAddressed(e)
        /\ stage' = [stage EXCEPT ![f] = "ready"]
        /\ confirmed' = IF Bus[e] = "can" THEN confirmed ELSE confirmed \cup {f}
        /\ UNCHANGED <<belief, at>>
     \/ /\ ~AlreadyAddressed(e)
        /\ protocol' = Protocol(e) /\ currentAddress' = Address[e]
        /\ stage' = [stage EXCEPT ![f] = "address"]
        /\ at' = [at EXCEPT ![f] = 1]
        /\ confirmed' = confirmed \ {f}
  /\ Touch(f)
  /\ UNCHANGED <<adapter, sweeping>>

InitReturns(f) == stage[f] = "init" /\ Returned(f) /\ SetAddress(f, want[f])

(* A sweep goes from address to address of one bus without initialising    *)
(* again.  It visits no address twice, but on CAN several of its addresses *)
(* have one tx id, and not all of those one rx id.                         *)
NextAddress(f, e) ==
  /\ stage[f] = "ready" /\ f \in sweeping
  /\ e # want[f] /\ Protocol(e) = Protocol(want[f])
  /\ Bus[e] # "can" => Address[e] # Address[want[f]]
  /\ SetAddress(f, e)

AddressReturns(f) ==
  /\ stage[f] = "address" /\ Returned(f)
  /\ stage' = [stage EXCEPT ![f] = "ready"]
  /\ UNCHANGED <<belief, adapter, at, want, confirmed, sweeping, solo>>

(* One command, obeyed.                                                    *)
Command(f) ==
  /\ Sending(f)
  /\ Commands(f)[at[f]] \notin {"AT SI", "AT FI"}
  /\ adapter' \in Effects(Commands(f)[at[f]], want[f])
  /\ at' = [at EXCEPT ![f] = @ + 1]
  /\ Touch(f)
  /\ UNCHANGED <<belief, stage, want, confirmed, sweeping>>

(* The init handshake, with whatever ECU the header names: OK ends the     *)
(* method, anything else goes on to the next attempt.                      *)
Handshake(f, ok) ==
  /\ Sending(f)
  /\ Commands(f)[at[f]] \in {"AT SI", "AT FI"}
  /\ adapter' = [adapter EXCEPT !.woken = IF ok THEN adapter.header ELSE None]
  /\ at' = [at EXCEPT ![f] = IF ok THEN Len(Commands(f)) + 1 ELSE @ + 1]
  /\ confirmed' = IF ok THEN confirmed \cup {f} ELSE confirmed
  /\ Touch(f)
  /\ UNCHANGED <<belief, stage, want, sweeping>>

(* One command the adapter never saw or did not understand: the flow goes  *)
(* on, as nothing looks at the reply.                                      *)
LoseCommand(f) ==
  /\ Sending(f)
  /\ at' = [at EXCEPT ![f] = @ + 1]
  /\ solo' = None
  /\ UNCHANGED <<belief, adapter, stage, want, confirmed, sweeping>>

(* The flow ends and its local variables with it.                          *)
Return(f) ==
  /\ stage' = [stage EXCEPT ![f] = "idle"]
  /\ at' = [at EXCEPT ![f] = 1]
  /\ want' = [want EXCEPT ![f] = None]
  /\ confirmed' = confirmed \ {f} /\ sweeping' = sweeping \ {f}

(* A write to a closed port throws: the flow ends where it is.             *)
Throw(f) ==
  /\ Sending(f)
  /\ Return(f) /\ Touch(f)
  /\ UNCHANGED <<belief, adapter>>

(* An attached flow is done with its ECU.                                  *)
Detach(f) ==
  /\ stage[f] = "ready" /\ f \notin sweeping
  /\ Return(f)
  /\ UNCHANGED <<belief, adapter, solo>>

(* closeProtocol: the belief is dropped after the command, not before.     *)
CloseProtocol(f) ==
  /\ stage[f] = "ready" /\ f \in sweeping
  /\ stage' = [stage EXCEPT ![f] = "close"]
  /\ at' = [at EXCEPT ![f] = 1]
  /\ UNCHANGED <<belief, adapter, want, confirmed, sweeping, solo>>

CloseReturns(f) ==
  /\ stage[f] = "close" /\ Returned(f)
  /\ protocol' = "none" /\ currentAddress' = None
  /\ Return(f) /\ Touch(f)
  /\ UNCHANGED adapter

-----------------------------------------------------------------------------
Next ==
  \E f \in Flows :
    \/ \E e \in Ecus : Begin(f, e, TRUE) \/ Begin(f, e, FALSE) \/ NextAddress(f, e)
    \/ InitReturns(f) \/ AddressReturns(f)
    \/ Command(f) \/ Handshake(f, TRUE) \/ Handshake(f, FALSE)
    \/ LoseCommand(f) \/ Throw(f)
    \/ Detach(f) \/ CloseProtocol(f) \/ CloseReturns(f)

Spec == Init /\ [][Next]_vars

-----------------------------------------------------------------------------
Settings ==
  [header : Addresses \cup {None}, filter : Addresses \cup {None}, raw : BOOLEAN,
   line : {"none", "can", "kwp", "iso8"},
   wakes : Addresses \cup {None}, woken : Addresses \cup {None}]

TypeOK ==
  /\ protocol \in {"none", "can", "iso"}
  /\ currentAddress \in Addresses \cup {None}
  /\ adapter \in Settings
  /\ stage \in [Flows -> {"idle", "init", "address", "ready", "close"}]
  /\ at \in [Flows -> 1 .. 7]
  /\ want \in [Flows -> Ecus \cup {None}]
  /\ \A f \in Flows : stage[f] # "idle" => want[f] \in Ecus
  /\ confirmed \subseteq Flows /\ sweeping \subseteq Flows
  /\ solo \in Flows \cup {None}

(* The rx ids flow f may find the adapter listening to: that of its ECU,   *)
(* or in a sweep that of any ECU of the same tx id.                        *)
Heard(f, e) ==
  IF f \in sweeping
  THEN {Receive[x] : x \in {y \in Ecus : Bus[y] = "can" /\ Address[y] = Address[e]}}
  ELSE {Receive[e]}

(* Is the adapter set the way a request of flow f to ECU e assumes?        *)
CanSet(f, e) ==
  /\ adapter.line = "can" /\ adapter.raw
  /\ adapter.header = Address[e] /\ adapter.filter \in Heard(f, e)

KlineSet(f, e) ==
  /\ adapter.line \in {"kwp", "iso8"}
  /\ adapter.header = Address[e] /\ adapter.wakes = Address[e]
  /\ f \in confirmed => adapter.woken = Address[e]

SetFor(f, e) == IF Bus[e] = "can" THEN CanSet(f, e) ELSE KlineSet(f, e)

(* Whatever earlier flows did, lost or left half done, a flow that begins  *)
(* with attachEcu or as a sweep, is alone on the driver from then on and   *)
(* loses no command, addresses its requests to the ECU it wants with the   *)
(* settings the framing depends on, and an init reported as successful was *)
(* the init of that ECU.  An attach also listens to that ECU; a sweep may  *)
(* be left listening to the rx id of an earlier address of the same tx id. *)
AddressedWhenReady ==
  \A f \in Flows : stage[f] = "ready" /\ solo = f => SetFor(f, want[f])

(* driver.ts:472, of setCanAddress: "Point the adapter at one ECU."  A CAN *)
(* sweep that is alone and has lost nothing listens to the ECU it is       *)
(* about to ask.  It may not: from an address to the next of the same tx   *)
(* id the call is skipped, and AT CRA stays at the rx id of the first.     *)
SweepListens ==
  \A f \in Flows :
    stage[f] = "ready" /\ solo = f /\ Bus[want[f]] = "can" =>
      adapter.filter = Receive[want[f]]

(* attach.ts, of attachEcu: "Safe to call again for the same ECU: the      *)
(* driver short-circuits when it is already addressing it, so switching    *)
(* between two screens of one ECU costs nothing."  A flow that attaches    *)
(* the ECU the adapter is already set to sends no command for it.          *)
ReattachIsFree ==
  [][\A f \in Flows :
       stage[f] = "idle" /\ stage'[f] = "init" /\ f \notin sweeping' =>
         ~(AlreadyAddressed(want'[f]) /\ SetFor(f, want'[f]))]_vars
=============================================================================
