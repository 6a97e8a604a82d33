--------------------------- MODULE ScreenRuntime ---------------------------
(***************************************************************************)
(* The screen runtime over one adapter: what a screen asks when it opens,  *)
(* is refreshed and has a button pressed (packages/screens/src/runtime.ts),*)
(* through the response cache of the driver (packages/elm/src/driver.ts,   *)
(* request), which all screens and ECUs of a connection share.             *)
(*                                                                         *)
(* Three activities can be under way at once, each awaiting its own        *)
(* replies: the presend of a screen that opens, one refresh (the flag of   *)
(* the application sees to that) and one press (the adapter lock does).    *)
(***************************************************************************)
EXTENDS Integers, Sequences, FiniteSets, SequencesExt

CONSTANTS Screens,     \* the screens the operator may open
          EcuOf,       \* the ECU each of them belongs to
          Widgets,     \* its widgets: a sequence of [kind, request, data] each
          Presend,     \* the requests it sends on entry
          Buttons,     \* its buttons, each the sequence of requests it fires
          Frame,       \* the bytes of each request, the key of the cache
          ManualSend,  \* the requests that are never polled
          Decodes,     \* the data names a reply to each request carries
          StartsSession, \* the requests that open a diagnostic session
          None,        \* no screen, no answer, no data name
          MaxAnswers,  \* bounds the exchanges over
          MaxOpenings  \* bounds the screens opened

ASSUME ConstantsAssumption ==
  /\ None \notin Screens /\ StartsSession \subseteq DOMAIN Frame
  /\ MaxAnswers \in Nat /\ MaxOpenings \in Nat

\* prepareLayout leaves no request that does not resolve; None is no exchange.
ASSUME LayoutAssumption ==
  \A s \in Screens :
    /\ Len(Widgets[s]) \in Nat /\ DOMAIN Widgets[s] = 1..Len(Widgets[s])
    /\ \A i \in DOMAIN Widgets[s] : Widgets[s][i].request \in DOMAIN Frame
    /\ Presend[s] \in Seq(DOMAIN Frame) /\ Buttons[s] \subseteq Seq(DOMAIN Frame)
ASSUME NoneAssumption ==
  None \notin [request : DOMAIN Frame, by : {EcuOf[s] : s \in Screens} \cup {None}, at : Nat,
               kind : {"data", "refused", "wrong", "error"}]

VARIABLES cache,     \* the driver's response cache
          addressed, \* the ECU the adapter talks to
          session,   \* its diagnostic session: "none" opened, "open", or "lapsed" in a silence
          quiet,     \* more than keepAliveMs have passed since the last command
          screen,    \* the screen the runtime is built over
          act,       \* the activities
          values,    \* the widget values the refresh has collected
          clock,     \* how many exchanges have been answered or have failed
          opened     \* how many screens have been opened

vars == <<cache, addressed, session, quiet, screen, act, values, clock, opened>>

Activities == {"presend", "refresh", "press"}
Requests == DOMAIN Frame
Frames == {Frame[r] : r \in Requests}
Kinds == {"data", "refused", "wrong"}   \* what may come back; wrong decodes to nothing
Empty == [f \in Frames |-> None]
Off == [pc |-> "off", of |-> None, todo |-> <<>>, got |-> <<>>, answer |-> None,
        since |-> 0, late |-> {}, alone |-> FALSE]
-----------------------------------------------------------------------------
(* The constructor: which requests are polled, and which widgets they feed. *)

Displays(s) == {i \in DOMAIN Widgets[s] : Widgets[s][i].kind = "display" /\ Widgets[s][i].data # None}
Inputs(s) == {i \in DOMAIN Widgets[s] : Widgets[s][i].kind = "input" /\ Widgets[s][i].data # None}
Polled(s) == {i \in Displays(s) : Widgets[s][i].request \notin ManualSend}

FirstOf(s, i) == \A j \in Polled(s) : j < i => Widgets[s][j].request # Widgets[s][i].request

Firsts(s) == {i \in Polled(s) : FirstOf(s, i)}
Rises(p) == \A m, n \in DOMAIN p : m < n => p[m] < p[n]

\* Distinct requests, in first-appearance order.
Plan(s) == LET order == CHOOSE p \in [1..Cardinality(Firsts(s)) -> Firsts(s)] : Rises(p)
           IN [n \in DOMAIN order |-> Widgets[s][order[n]].request]

\* What one exchange of a refresh puts on the widgets it feeds: the displays of
\* its request, and every input that shares a data name with what was decoded.
Status(kind, d, r) ==
  CASE kind = "error" -> "error"
    [] kind = "refused" -> "rejected"
    [] kind = "data" /\ d \in Decodes[r] -> "ok"
    [] OTHER -> "no-data"

Fed(s, e) ==
  [i \in {j \in Polled(s) : Widgets[s][j].request = e.request}
     |-> [status |-> Status(e.kind, Widgets[s][i].data, e.request), entry |-> e]]

Filled(s, e) ==
  [i \in {j \in Inputs(s) : e.kind = "data" /\ Widgets[s][j].data \in Decodes[e.request]}
     |-> [status |-> "ok", entry |-> e]]

With(f, g) == [i \in DOMAIN f \cup DOMAIN g |-> IF i \in DOMAIN g THEN g[i] ELSE f[i]]

\* Widgets nothing has given a value are settled as blank.
Settle(s, v) == With([i \in DOMAIN Widgets[s] |-> [status |-> "ok", entry |-> None]], v)
-----------------------------------------------------------------------------
Init ==
  /\ cache = Empty /\ addressed = None /\ session = "none" /\ quiet = FALSE
  /\ screen = None /\ act = [a \in Activities |-> Off]
  /\ values = <<>> /\ clock = 0 /\ opened = 0

\* The answers that have left an ECU and are not yet in anybody's hands.
InHand == {act[a].answer.at : a \in {b \in Activities : act[b].pc = "answered"}}
Awaiting == {a \in Activities : act[a].pc \in {"asked", "answered"}}
Busy == {a \in Activities : act[a].pc # "off"}

Started(s, todo) ==
  [pc |-> "ready", of |-> s, todo |-> todo, got |-> <<>>, answer |-> None,
   since |-> clock, late |-> InHand, alone |-> FALSE]

\* Whatever starts beside another activity ends the claim of both to be alone.
Alone(a, started) ==
  [b \in Activities |->
     IF b = a THEN [started EXCEPT !.alone = Busy \ {a} = {}]
     ELSE [act[b] EXCEPT !.alone = FALSE]]

\* openScreen, with its attach: the adapter is at the ECU, and the presend begins
\* over a new runtime.  An ECU that was not addressed is in its default session.
OpenScreen(s) ==
  /\ opened < MaxOpenings /\ act["presend"].pc = "off"
  /\ opened' = opened + 1
  /\ screen' = s
  /\ addressed' = EcuOf[s] /\ quiet' = FALSE
  /\ session' = IF addressed = EcuOf[s] THEN session ELSE "none"
  /\ act' = Alone("presend", Started(s, Presend[s]))
  /\ UNCHANGED <<cache, values, clock>>

\* Mutant: what a screen polls is kept from one refresh to the next.
BeginRefreshCached ==
  /\ act["refresh"].pc = "off" /\ screen # None
  /\ values' = <<>> /\ UNCHANGED cache

\* ScreenRuntime.refresh up to its first request: the cache is dropped.
BeginRefresh ==
  /\ act["refresh"].pc = "off" /\ screen # None
  /\ values' = <<>> /\ cache' = Empty

\* The refresh of the timer or of the operator.
Refresh ==
  /\ BeginRefresh
  /\ act' = Alone("refresh", Started(screen, Plan(screen)))
  /\ UNCHANGED <<addressed, session, quiet, screen, clock, opened>>

\* pressButton, for a button whose values all encode.
Press(b) ==
  /\ screen # None /\ act["press"].pc = "off" /\ b \in Buttons[screen]
  /\ act' = Alone("press", Started(screen, b))
  /\ UNCHANGED <<cache, addressed, session, quiet, screen, values, clock, opened>>
-----------------------------------------------------------------------------
(* sendRaw of the runtime, request and cmd of the driver. *)

Entry(r, answer) == [request |-> r, by |-> answer.by, at |-> answer.at, kind |-> answer.kind]

\* The exchange of an activity is over: on to the next request.
Took(a, e) ==
  [act[a] EXCEPT !.pc = "ready", !.todo = Tail(@), !.answer = None,
                 !.got = IF a = "presend" THEN @ ELSE Append(@, e)]

\* A refresh puts what it got on its widgets at once.
Decode(a, e) ==
  values' = IF a = "refresh" THEN With(With(values, Fed(act[a].of, e)), Filled(act[a].of, e))
                             ELSE values

\* The cache answers.
CacheHit(a) ==
  /\ act[a].pc = "ready" /\ act[a].todo # <<>>
  /\ LET r == Head(act[a].todo) IN
       /\ cache[Frame[r]] # None
       /\ act' = [act EXCEPT ![a] = Took(a, Entry(r, cache[Frame[r]]))]
       /\ Decode(a, Entry(r, cache[Frame[r]]))
  /\ UNCHANGED <<cache, addressed, session, quiet, screen, clock, opened>>

\* What cmd remembers to re-send, if anything: only startCanSession sets it, which
\* neither the application nor the command line calls.
Remembered == FALSE

\* cmd: after a long silence the session command it remembers goes first.
KeepAlive == session' = IF session = "lapsed" /\ quiet /\ Remembered THEN "open" ELSE session

\* It does not, and the request goes to the ECU the adapter is at.
Ask(a) ==
  /\ act[a].pc = "ready" /\ act[a].todo # <<>>
  /\ cache[Frame[Head(act[a].todo)]] = None
  /\ KeepAlive /\ quiet' = FALSE
  /\ act' = [act EXCEPT ![a].pc = "asked",
                        ![a].answer = [by |-> addressed, at |-> 0, kind |-> "data"]]
  /\ UNCHANGED <<cache, addressed, screen, values, clock, opened>>

EcuAnswers(a, kind) ==
  /\ act[a].pc = "asked" /\ clock < MaxAnswers
  /\ clock' = clock + 1
  /\ act' = [act EXCEPT ![a].pc = "answered", ![a].answer.at = clock + 1, ![a].answer.kind = kind]
  /\ session' = IF kind = "data" /\ Head(act[a].todo) \in StartsSession THEN "open" ELSE session
  /\ UNCHANGED <<cache, addressed, quiet, screen, values, opened>>

\* The reply is back in request: kept, unless it says WRONG.
Resume(a) ==
  /\ act[a].pc = "answered"
  /\ LET r == Head(act[a].todo)
         e == Entry(r, act[a].answer) IN
       /\ cache' = IF e.kind = "wrong" THEN cache ELSE [cache EXCEPT ![Frame[r]] = e]
       /\ act' = [act EXCEPT ![a] = Took(a, e)]
       /\ Decode(a, e)
  /\ UNCHANGED <<addressed, session, quiet, screen, clock, opened>>

\* Mutant: an exchange that fails ends the refresh.
AfterFailureStops(a, e) == [Took(a, e) EXCEPT !.todo = <<>>]

\* The link throws: an exchange with an error, and the loop goes on.
AfterFailure(a, e) == Took(a, e)

Fails(a) ==
  /\ act[a].pc = "asked" /\ clock < MaxAnswers
  /\ clock' = clock + 1
  /\ LET e == [request |-> Head(act[a].todo), by |-> None, at |-> clock', kind |-> "error"] IN
       /\ act' = [act EXCEPT ![a] = AfterFailure(a, e)]
       /\ Decode(a, e)
  /\ UNCHANGED <<cache, addressed, session, quiet, screen, opened>>
-----------------------------------------------------------------------------
Finished(a) == act[a].pc = "ready" /\ act[a].todo = <<>>

\* The snapshot goes to whoever asked for it, whatever is open by then.
Publish ==
  /\ Finished("refresh")
  /\ values' = <<>>
  /\ act' = [act EXCEPT !["refresh"] = Off]
  /\ UNCHANGED <<cache, addressed, session, quiet, screen, clock, opened>>

\* A presend or a press ends with a refresh, unless one is under way.
ThenRefreshes(a) ==
  /\ Finished(a) /\ a # "refresh"
  /\ IF act["refresh"].pc = "off"
     THEN /\ BeginRefresh
          /\ act' = [act EXCEPT ![a] = Off,
                                !["refresh"] = [Started(screen, Plan(screen)) EXCEPT
                                                  !.alone = Busy = {a}]]
     ELSE act' = [act EXCEPT ![a] = Off] /\ UNCHANGED <<cache, values>>
  /\ UNCHANGED <<addressed, session, quiet, screen, clock, opened>>

\* Nobody asks for a while, and the ECU falls back to its default session.
Silence ==
  /\ addressed # None /\ Awaiting = {} /\ ~quiet
  /\ quiet' = TRUE
  /\ session' = IF session = "open" THEN "lapsed" ELSE session
  /\ UNCHANGED <<cache, addressed, screen, act, values, clock, opened>>

Next ==
  \/ \E s \in Screens : OpenScreen(s)
  \/ Refresh
  \/ \E s \in Screens : \E b \in Buttons[s] : Press(b)
  \/ \E a \in Activities : CacheHit(a) \/ Ask(a) \/ Resume(a) \/ Fails(a) \/ ThenRefreshes(a)
  \/ \E a \in Activities, k \in Kinds : EcuAnswers(a, k)
  \/ Publish
  \/ Silence

Spec == Init /\ [][Next]_vars
-----------------------------------------------------------------------------
\* The snapshot a refresh has come to.
Shown == IF Finished("refresh") THEN act["refresh"] ELSE Off
ShownEntries == Range(Shown.got)
ShownValues == Settle(Shown.of, values)

\* What a refresh publishes was answered after it began, or by an exchange that
\* was on its way back when it began: the cache is dropped by each refresh
\* ("The L2 response cache would otherwise serve the previous refresh's answers"),
\* and what other activities put into it later is no older.
\* The cache also knows bytes and no ECUs, and is not dropped when another ECU is
\* addressed: a refresh beside which nothing else ran shows the answers of its own
\* screen's ECU all the same.
FreshSnapshot ==
  \A e \in ShownEntries :
    \/ e.kind = "error"
    \/ /\ e.at > Shown.since \/ e.at \in Shown.late
       /\ Shown.alone => e.by = EcuOf[Shown.of]

\* After a refresh every widget is settled, whichever of its exchanges failed: a
\* display is in error exactly when its own request was, and an input is never
\* marked as failed, since it is not asked for.
Settled ==
  Finished("refresh") =>
    /\ \A i \in Polled(Shown.of) :
         /\ ShownValues[i].status = "error" <=>
              \E e \in ShownEntries : e.request = Widgets[Shown.of][i].request /\ e.kind = "error"
         /\ ShownValues[i].entry # None
    /\ \A i \in Inputs(Shown.of) :
         /\ ShownValues[i].status = "ok"
         /\ ShownValues[i].entry # None =>
              Widgets[Shown.of][i].data \in Decodes[ShownValues[i].entry.request]

\* What is asked is never asked in a session that has lapsed, however long the ECU
\* was left alone: "re-sends the diagnostic session command after a silence longer
\* than the keepalive" (cmd).  Nothing remembers the command, so it does not hold.
InSession ==
  [][\A a \in Activities : act[a].pc = "ready" /\ act'[a].pc = "asked" => session' # "lapsed"]_vars

\* "Fire a button's requests in order, each after its delay": what a press reports
\* as answered was asked of the ECU by that press.
PressReachesEcu ==
  Finished("press") =>
    \A n \in DOMAIN act["press"].got :
      /\ act["press"].got[n].at >= act["press"].since
      /\ act["press"].got[n].kind # "error" =>
           /\ act["press"].got[n].at > act["press"].since
           /\ \A m \in 1..(n - 1) : act["press"].got[m].at < act["press"].got[n].at
=============================================================================
