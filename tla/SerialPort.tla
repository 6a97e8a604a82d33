------------------------------ MODULE SerialPort ------------------------------
(***************************************************************************)
(* The browser's serial port and who holds it: WebSerialTransport          *)
(* (packages/elm/src/webSerial.ts), one instance for each rate connect     *)
(* tries, and connect and disconnect of apps/web/src/lib/state.svelte.ts,  *)
(* any number of which may be under way at once. The instances share one   *)
(* port. It opens and closes asynchronously, and does not close while one  *)
(* of its streams is locked (Web Serial).                                  *)
(*                                                                         *)
(* A flow that has been resumed runs on, from promise to promise, before   *)
(* the page's next task: a click, an answer, a timer or a change of the    *)
(* port is a task, and finds no flow in the middle of its stride (Quiet).  *)
(***************************************************************************)
EXTENDS Integers, FiniteSets

CONSTANTS Candidates,   \* how many rates are tried (CANDIDATE_BAUD_RATES)
          Answers,      \* which of them an adapter may answer at; 0 is none of them
          Connectors,   \* the flows the connect button starts
          Disconnects,  \* the flows the disconnect button starts
          MaxConnects   \* bound: attempts to connect

ASSUME SerialAssumption ==
    /\ Candidates \in Nat \ {0} /\ Answers \subseteq 0..Candidates /\ MaxConnects \in Nat
    /\ Connectors \cap Disconnects = {}

VARIABLES
    portState, by,       \* closed, opening, open or closing; the instance that opened it
    locked,              \* the instance whose reader and writer hold its streams
    lost,                \* the device was unplugged
    answers,             \* the candidate the adapter answers at
    opened, loop,        \* of each instance: this.opened; its read loop: none, reading, unwinding, ended
    connection, transport, \* app.connection; the instance in use
    connects,
    does,                \* of each flow: where it stands, and on which instance
    heard,               \* history: the attempts an adapter has answered
    overlapped           \* history: the attempts during which another flow was under way

Flows == Connectors \cup Disconnects

\* The instance of an attempt to connect, and of a candidate rate.
Instances == (1..MaxConnects) \X (1..Candidates)
None == <<0, 0>>

portVars == <<portState, by, locked>>
instanceVars == <<opened, loop>>
linkVars == <<connection, transport>>
historyVars == <<heard, overlapped>>
serialVars == <<portVars, lost, answers, instanceVars, linkVars, connects, does, historyVars>>

SerialInit ==
    /\ portState = "closed" /\ by = None /\ locked = None
    /\ lost = FALSE /\ answers \in Answers
    /\ opened = [t \in Instances |-> FALSE] /\ loop = [t \in Instances |-> "none"]
    /\ connection = "idle" /\ transport = None /\ connects = 0
    /\ does = [f \in Flows |-> [at |-> "idle", on |-> None]]
    /\ heard = {} /\ overlapped = {}

Stands(f, step) == does[f].at = step
Goes(f, step) == does' = [does EXCEPT ![f].at = step]
GoesOn(f, step, t) == does' = [does EXCEPT ![f] = [at |-> step, on |-> t]]

\* "Wait for the loop to unwind, or the next open() races a live reader."
Unwound(t) == loop[t] # "unwinding"

Runnable(f) == \/ does[f].at \in {"close", "closed", "opening"}
               \/ does[f].at = "unwinding" /\ Unwound(does[f].on)
Quiet == \A f \in Flows : ~Runnable(f)

UnderWay == {f \in Flows : ~Stands(f, "idle")}

------------------------------------------------------------------------------
(* WebSerialTransport.close, awaited by flow f; it has no guard against a  *)
(* second caller.                                                          *)

\* reader.cancel() ends the pending read.
CloseBegins(f) ==
    LET t == does[f].on
    IN /\ Stands(f, "close")
       /\ IF opened[t]
          THEN /\ loop' = [loop EXCEPT ![t] = IF @ = "reading" THEN "unwinding" ELSE @]
               /\ Goes(f, "unwinding")
          ELSE Goes(f, "closed") /\ UNCHANGED loop
       /\ UNCHANGED <<portVars, lost, answers, opened, linkVars, connects, historyVars>>

Unlocked(t) == IF locked = t THEN None ELSE locked

\* The locks are released, and port.close() called. It rejects, which is swallowed, unless the port is
\* open and its streams are free.
CloseShuts(f) ==
    LET t == does[f].on
    IN /\ Stands(f, "unwinding") /\ Unwound(t)
       /\ locked' = Unlocked(t)
       /\ IF portState = "open" /\ Unlocked(t) = None
          THEN portState' = "closing" /\ Goes(f, "shutting") /\ UNCHANGED opened
          ELSE opened' = [opened EXCEPT ![t] = FALSE] /\ Goes(f, "closed") /\ UNCHANGED portState
       /\ UNCHANGED <<by, lost, answers, loop, linkVars, connects, historyVars>>

\* The port has closed, and the caller whose port.close() closed it goes on.
ShutsDown(f) ==
    /\ Stands(f, "shutting") /\ Quiet
    /\ portState' = "closed" /\ by' = None
    /\ opened' = [opened EXCEPT ![does[f].on] = FALSE]
    /\ Goes(f, "closed")
    /\ UNCHANGED <<locked, lost, answers, loop, linkVars, connects, historyVars>>

LoopEnds(t) ==
    /\ loop[t] = "unwinding" /\ Quiet
    /\ loop' = [loop EXCEPT ![t] = "ended"]
    /\ UNCHANGED <<portVars, lost, answers, opened, linkVars, connects, does, historyVars>>

\* The cable is pulled: the pending read throws, the locks stay.
Unplug ==
    /\ ~lost /\ lost' = TRUE /\ Quiet
    /\ loop' = [t \in Instances |-> IF loop[t] = "reading" THEN "unwinding" ELSE loop[t]]
    /\ UNCHANGED <<portVars, answers, opened, linkVars, connects, does, historyVars>>

------------------------------------------------------------------------------
(* connect: requestPort, then every candidate until one is an adapter. Its *)
(* button is there while nothing is connected or being connected.          *)

ConnectBegins(f) ==
    /\ Stands(f, "idle") /\ transport = None /\ connection # "connecting" /\ connects < MaxConnects /\ Quiet
    /\ connects' = connects + 1
    /\ connection' = "connecting"
    /\ GoesOn(f, "asking", <<connects', 1>>)
    /\ heard' = heard \ {f}
    /\ overlapped' = IF UnderWay = {} THEN overlapped \ {f}
                     ELSE overlapped \cup {f} \cup (UnderWay \cap Connectors)
    /\ UNCHANGED <<portVars, lost, answers, instanceVars, transport>>

PortIsPicked(f) ==
    /\ Stands(f, "asking") /\ Quiet
    /\ \/ Goes(f, "opening") /\ UNCHANGED connection
       \/ Goes(f, "idle") /\ connection' = "idle"
    /\ UNCHANGED <<portVars, lost, answers, instanceVars, transport, connects, historyVars>>

TriesNext(f, t) == GoesOn(f, "opening", <<t[1], t[2] + 1>>)

\* port.open() rejects at once unless the port is closed; closing the instance then does nothing.
OpenCalls(f) ==
    LET t == does[f].on
    IN /\ Stands(f, "opening") /\ t[2] <= Candidates
       /\ IF portState = "closed"
          THEN portState' = "opening" /\ Goes(f, "opens")
          ELSE TriesNext(f, t) /\ UNCHANGED portState
       /\ UNCHANGED <<by, locked, lost, answers, instanceVars, linkVars, connects, historyVars>>

\* The port has opened, or a device that is gone cannot be. One that goes away meanwhile leaves the port
\* open with no stream.
OpenResolves(f) ==
    LET t == does[f].on
    IN /\ Stands(f, "opens") /\ Quiet
       /\ \/ /\ ~lost
             /\ portState' = "open" /\ by' = t
             /\ opened' = [opened EXCEPT ![t] = TRUE]
             /\ \/ /\ locked' = t /\ loop' = [loop EXCEPT ![t] = "reading"] /\ UNCHANGED lost
                   /\ Goes(f, "identifying")
                \/ /\ lost' = TRUE /\ UNCHANGED <<locked, loop>>
                   /\ Goes(f, "close")
          \/ /\ lost /\ portState' = "closed"
             /\ TriesNext(f, t) /\ UNCHANGED <<by, locked, lost, instanceVars>>
       /\ UNCHANGED <<answers, linkVars, connects, historyVars>>

\* After an answer that is no version, or a write that throws, the candidate is closed.
AfterNoAdapterLeaves == "closed"
AfterNoAdapter == "close"

Identifies(f) ==
    LET t == does[f].on
    IN /\ Stands(f, "identifying") /\ Quiet
       /\ IF t[2] = answers /\ ~lost
          THEN /\ transport' = t /\ connection' = "connected" /\ heard' = heard \cup {f}
               /\ Goes(f, "reopening")
          ELSE /\ UNCHANGED <<linkVars, heard>>
               /\ Goes(f, AfterNoAdapter)
       /\ UNCHANGED <<portVars, lost, answers, instanceVars, connects, overlapped>>

\* reopenCurrentScreen returns, or what it throws is caught as if the candidate had failed: the candidate,
\* by now the link in use, is closed and the remaining rates are tried.
Reopens(f) ==
    /\ Stands(f, "reopening") /\ Quiet
    /\ Goes(f, "idle") \/ Goes(f, "close")
    /\ UNCHANGED <<portVars, lost, answers, instanceVars, linkVars, connects, historyVars>>

CandidateClosed(f) ==
    /\ Stands(f, "closed") /\ f \in Connectors
    /\ TriesNext(f, does[f].on)
    /\ UNCHANGED <<portVars, lost, answers, instanceVars, linkVars, connects, historyVars>>

ConnectGivesUp(f) ==
    /\ Stands(f, "opening") /\ does[f].on[2] > Candidates
    /\ connection' = "error"
    /\ Goes(f, "idle")
    /\ UNCHANGED <<portVars, lost, answers, instanceVars, transport, connects, historyVars>>

------------------------------------------------------------------------------
(* disconnect. Its button is there until transport is null.                *)

DisconnectBegins(f) ==
    /\ Stands(f, "idle") /\ transport # None /\ Quiet
    /\ GoesOn(f, "parting", None)
    /\ overlapped' = overlapped \cup (UnderWay \cap Connectors)
    /\ UNCHANGED <<portVars, lost, answers, instanceVars, linkVars, connects, heard>>

\* closeProtocol has answered, timed out or thrown; transport is whichever is in use by now.
ProtocolClosed(f) ==
    /\ Stands(f, "parting") /\ Quiet
    /\ GoesOn(f, IF transport = None THEN "closed" ELSE "close", transport)
    /\ UNCHANGED <<portVars, lost, answers, instanceVars, linkVars, connects, historyVars>>

DisconnectEnds(f) ==
    /\ Stands(f, "closed") /\ f \in Disconnects
    /\ transport' = None /\ connection' = "idle"
    /\ GoesOn(f, "idle", None)
    /\ UNCHANGED <<portVars, lost, answers, instanceVars, connects, historyVars>>

------------------------------------------------------------------------------
Closes(f) == CloseBegins(f) \/ CloseShuts(f) \/ ShutsDown(f)
Connecting(f) == \/ ConnectBegins(f) \/ PortIsPicked(f) \/ OpenCalls(f) \/ OpenResolves(f) \/ Identifies(f)
                 \/ Reopens(f) \/ CandidateClosed(f) \/ ConnectGivesUp(f)
Disconnecting(f) == DisconnectBegins(f) \/ ProtocolClosed(f) \/ DisconnectEnds(f)

SerialNext ==
    \/ \E f \in Flows : Closes(f)
    \/ \E f \in Connectors : Connecting(f)
    \/ \E f \in Disconnects : Disconnecting(f)
    \/ \E t \in Instances : LoopEnds(t)
    \/ Unplug

SerialSpec == SerialInit /\ [][SerialNext]_serialVars

------------------------------------------------------------------------------
\* When no flow is under way and nothing is connected the port is closed and its streams are free, so that
\* the next connect can open it (WebSerialTransport.close, whoever calls it and however often).
BrowserReleases == UnderWay = {} /\ transport = None => portState = "closed" /\ locked = None

\* An attempt to connect that nothing overlapped has heard the adapter when it goes past the rate the
\* adapter answers at: no candidate spoils the ones after it (the loop of connect).
HearsEveryRate ==
    \A f \in UnderWay \cap (Connectors \ overlapped) :
        ~lost /\ answers \in 1..(does[f].on[2] - 1) => f \in heard

\* "No ELM327 answered on that port at any baud rate" (link.noAnswer) is said only when none answers.
\* False: what reopenCurrentScreen throws is caught as if the candidate had not answered.
MissesNoAdapter == connection = "error" /\ ~lost => answers = 0
=============================================================================
