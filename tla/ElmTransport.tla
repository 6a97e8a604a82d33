----------------------------- MODULE ElmTransport -----------------------------
(***************************************************************************)
(* The byte pipe under the ELM327 driver and the one exchange built on it: *)
(*   packages/elm/src/transport.ts   BufferedTransport                     *)
(*   packages/elm/src/driver.ts      ElmDriver.sendRaw and identify        *)
(*                                                                         *)
(* A caller writes one line and reads to the ">" prompt.  Nothing ties a   *)
(* reply to the line it answers but the order of the prompts, nothing      *)
(* stops two callers from having a line out at once, and a read that gives *)
(* up leaves its reply to arrive later.                                    *)
(*                                                                         *)
(* The adapter answers every line it is sent, in order, after any delay or *)
(* never.  Reply n is then known by its number alone, and the text the     *)
(* buffer holds is described by two cursors: the replies whose prompt has  *)
(* been received and not yet taken are taken+1 .. answered, followed by    *)
(* some text of reply answered+1 when partial holds.                       *)
(***************************************************************************)
EXTENDS Naturals, FiniteSets

CONSTANTS Callers,      \* the asynchronous flows that may call the driver
          None,         \* no caller
          MaxCommands,  \* bound: lines written in a behaviour
          MaxLeftover   \* bound: lines of an earlier session still unanswered

ASSUME CallersAssumption == IsFiniteSet(Callers) /\ None \notin Callers
ASSUME BoundsAssumption  == MaxCommands \in Nat /\ MaxLeftover \in Nat

VARIABLES
  sent,       \* lines written to the port; the n-th line is line n
  answered,   \* replies whose prompt has been received
  partial,    \* is there text of reply answered+1 at the end of the buffer?
  taken,      \* replies removed from the buffer, prompt included
  cut,        \* was the beginning of reply taken+1 removed by another read?
  pc,         \* per caller: "idle", "scan" (top of readUntil's loop), "asleep"
  due,        \* callers whose deadline has passed
  waiter,     \* BufferedTransport.waiter: whose `finish` push will call
  asked,      \* per caller: the last line it wrote (0 before the first)
  answer,     \* per caller: the reply its last sendRaw returned, 0 on TIMEOUT
  beheaded,   \* the callers whose last reply had lost its beginning
  prober,     \* the caller inside identify(), or None
  probes,     \* lines identify() has written
  errorsTimeout, \* ElmDriver.errors.timeout
  timedOut,   \* history: reads that gave up, never reset
  overlap,    \* history: was a line ever written while another was out?
  leftover    \* lines an earlier session left unanswered; fixed by Init

buf  == <<answered, partial, taken, cut>>
hist == <<timedOut, overlap, leftover>>
vars == <<sent, buf, pc, due, waiter, asked, answer, beheaded, prober, probes,
          errorsTimeout, hist>>

Reading == {c \in Callers : pc[c] # "idle"}

-----------------------------------------------------------------------------
(* The driver is created on an open port.  An adapter that is still busy   *)
(* with the lines of an earlier session will answer those first.           *)
Init ==
  /\ leftover \in 0 .. MaxLeftover
  /\ sent = leftover
  /\ answered = 0 /\ taken = 0 /\ partial = FALSE /\ cut = FALSE
  /\ pc = [c \in Callers |-> "idle"]
  /\ due = {} /\ waiter = None
  /\ asked = [c \in Callers |-> 0]
  /\ answer = [c \in Callers |-> 0]
  /\ beheaded = {}
  /\ prober = None /\ probes = 0
  /\ errorsTimeout = 0 /\ timedOut = 0 /\ overlap = FALSE

(* identify(): the buffer is purged before the first line goes out.  The   *)
(* driver is published only after identify() returns, so nobody else is    *)
(* using it.                                                               *)
BeginIdentify(c) ==
  /\ prober = None /\ Reading = {}
  /\ sent + 3 =< MaxCommands
  /\ taken' = answered
  /\ cut' = (partial \/ (taken = answered /\ cut))
  /\ partial' = FALSE
  /\ prober' = c /\ probes' = 0
  /\ UNCHANGED <<sent, answered, pc, due, waiter, asked, answer, beheaded,
                 errorsTimeout, hist>>

(* ATZ and STI always, ATI only when ATZ's reply carried no version.       *)
EndIdentify(c) ==
  /\ prober = c /\ pc[c] = "idle" /\ probes \in {2, 3}
  /\ prober' = None /\ probes' = 0
  /\ errorsTimeout' = 0
  /\ UNCHANGED <<sent, buf, pc, due, waiter, asked, answer, beheaded, hist>>

(* sendRaw up to the first look at the buffer: the line is written and the *)
(* deadline starts.                                                        *)
Send(c) ==
  /\ pc[c] = "idle" /\ sent < MaxCommands
  /\ \/ prober = None /\ UNCHANGED probes
     \/ prober = c /\ probes < 3 /\ probes' = probes + 1
  /\ sent' = sent + 1
  /\ asked' = [asked EXCEPT ![c] = sent + 1]
  /\ pc' = [pc EXCEPT ![c] = "scan"]
  /\ due' = due \ {c}
  /\ overlap' = (overlap \/ Reading # {})
  /\ UNCHANGED <<buf, waiter, answer, beheaded, prober, errorsTimeout,
                 timedOut, leftover>>

(* Mutant of TakeReply: the reply handed out stays in the buffer.          *)
TakeReplyKept(c) ==
  /\ pc[c] = "scan" /\ taken < answered
  /\ answer' = [answer EXCEPT ![c] = taken + 1]
  /\ pc' = [pc EXCEPT ![c] = "idle"]
  /\ UNCHANGED <<sent, buf, due, waiter, asked, beheaded, prober, probes,
                 errorsTimeout, hist>>

(* readUntil finds the delimiter: the reply at the head of the buffer is   *)
(* the caller's, whichever line it answers.                                *)
TakeReply(c) ==
  /\ pc[c] = "scan" /\ taken < answered
  /\ taken' = taken + 1
  /\ answer' = [answer EXCEPT ![c] = taken + 1]
  /\ beheaded' = IF cut THEN beheaded \cup {c} ELSE beheaded \ {c}
  /\ cut' = FALSE
  /\ pc' = [pc EXCEPT ![c] = "idle"]
  /\ UNCHANGED <<sent, answered, partial, due, waiter, asked, prober, probes,
                 errorsTimeout, hist>>

(* readUntil past its deadline with no delimiter: everything buffered is   *)
(* returned with the TIMEOUT marker, which countErrors counts.             *)
GiveUp(c) ==
  /\ pc[c] = "scan" /\ taken = answered /\ c \in due
  /\ answer' = [answer EXCEPT ![c] = 0]
  /\ cut' = (cut \/ partial)
  /\ partial' = FALSE
  /\ pc' = [pc EXCEPT ![c] = "idle"]
  /\ errorsTimeout' = errorsTimeout + 1
  /\ timedOut' = timedOut + 1
  /\ UNCHANGED <<sent, answered, taken, due, waiter, asked, beheaded, prober,
                 probes, overlap, leftover>>

(* Mutant of Sleep: what is buffered is dropped before each wait.          *)
SleepDiscards(c) ==
  /\ pc[c] = "scan" /\ taken = answered /\ c \notin due
  /\ cut' = (cut \/ partial) /\ partial' = FALSE
  /\ waiter' = c
  /\ pc' = [pc EXCEPT ![c] = "asleep"]
  /\ UNCHANGED <<sent, answered, taken, due, asked, answer, beheaded, prober,
                 probes, errorsTimeout, hist>>

(* waitForData: the single waiter slot is overwritten, whoever held it.    *)
Sleep(c) ==
  /\ pc[c] = "scan" /\ taken = answered /\ c \notin due
  /\ waiter' = c
  /\ pc' = [pc EXCEPT ![c] = "asleep"]
  /\ UNCHANGED <<sent, buf, due, asked, answer, beheaded, prober, probes,
                 errorsTimeout, hist>>

(* Mutant of Poll: the timer wakes a reader only while it has the slot.    *)
PollInSlot(c) ==
  /\ pc[c] = "asleep" /\ waiter = c
  /\ waiter' = None
  /\ pc' = [pc EXCEPT ![c] = "scan"]
  /\ UNCHANGED <<sent, buf, due, asked, answer, beheaded, prober, probes,
                 errorsTimeout, hist>>

(* The 20 ms poll: `finish` runs and empties the slot, whoever is in it.   *)
Poll(c) ==
  /\ pc[c] = "asleep"
  /\ waiter' = None
  /\ pc' = [pc EXCEPT ![c] = "scan"]
  /\ UNCHANGED <<sent, buf, due, asked, answer, beheaded, prober, probes,
                 errorsTimeout, hist>>

Deadline(c) ==
  /\ pc[c] # "idle" /\ c \notin due
  /\ due' = due \cup {c}
  /\ UNCHANGED <<sent, buf, pc, waiter, asked, answer, beheaded, prober, probes,
                 errorsTimeout, hist>>

(* push wakes the caller in the slot, which empties it.                    *)
WakeWaiter ==
  /\ pc' = [c \in Callers |-> IF c = waiter THEN "scan" ELSE pc[c]]
  /\ waiter' = None

(* push: some text of the next reply, then its prompt.                     *)
ReceiveText ==
  /\ answered < sent /\ ~partial
  /\ partial' = TRUE
  /\ WakeWaiter
  /\ UNCHANGED <<sent, answered, taken, cut, due, asked, answer, beheaded,
                 prober, probes, errorsTimeout, hist>>

ReceivePrompt ==
  /\ answered < sent
  /\ answered' = answered + 1
  /\ partial' = FALSE
  /\ WakeWaiter
  /\ UNCHANGED <<sent, taken, cut, due, asked, answer, beheaded, prober, probes,
                 errorsTimeout, hist>>

-----------------------------------------------------------------------------
Next ==
  \/ \E c \in Callers :
       \/ BeginIdentify(c) \/ EndIdentify(c) \/ Send(c)
       \/ TakeReply(c) \/ GiveUp(c) \/ Sleep(c)
       \/ Poll(c) \/ Deadline(c)
  \/ ReceiveText \/ ReceivePrompt

(* A caller that can run does run, and the browser's timers fire.  Nothing *)
(* is assumed of the adapter, nor of the callers' wish to send.            *)
Fairness ==
  \A c \in Callers :
    /\ WF_vars(TakeReply(c) \/ GiveUp(c) \/ Sleep(c))
    /\ WF_vars(Poll(c))
    /\ WF_vars(Deadline(c))

Spec     == Init /\ [][Next]_vars
FairSpec == Spec /\ Fairness

-----------------------------------------------------------------------------
FlagsOK == partial \in BOOLEAN /\ cut \in BOOLEAN /\ overlap \in BOOLEAN

TypeOK ==
  /\ FlagsOK
  /\ sent \in Nat /\ answered \in Nat /\ taken \in Nat
  /\ pc \in [Callers -> {"idle", "scan", "asleep"}]
  /\ due \subseteq Callers
  /\ waiter \in Callers \cup {None}
  /\ asked \in [Callers -> Nat] /\ answer \in [Callers -> Nat]
  /\ beheaded \subseteq Callers
  /\ prober \in Callers \cup {None} /\ probes \in 0 .. 3
  /\ errorsTimeout \in Nat /\ timedOut \in Nat /\ leftover \in Nat

(* How far behind its line a caller's answer is.                           *)
Lag(c) == asked[c] - answer[c]

Answered(c) == pc[c] = "idle" /\ answer[c] # 0

(* A caller that sends one line at a time, on a line where nothing has     *)
(* ever timed out and no earlier session left anything behind, gets the    *)
(* reply to its own line: sendRaw is then a request and its response,      *)
(* although readUntil matches nothing but the prompt.                      *)
InStep ==
  ~overlap /\ timedOut = 0 /\ leftover = 0 =>
    \A c \in Callers : Answered(c) => answer[c] = asked[c]

(* After timeouts the answers run behind the questions, for good: nothing  *)
(* but identify() purges.  The slip is never more than one reply for each  *)
(* read that ever gave up, each line left over and each other caller that  *)
(* can have a line out at the same time; and alone it is never negative.   *)
LagBound ==
  \A c \in Callers : Answered(c) =>
    /\ asked[c] < answer[c] + timedOut + leftover + Cardinality(Callers)
    /\ ~overlap => /\ answer[c] =< asked[c]
                   /\ asked[c] =< answer[c] + timedOut + leftover

(* A read that gives up takes the beginning of a reply with it, and the    *)
(* rest is later returned as if it were a reply.  A caller that sends one  *)
(* line at a time never gets such a remainder as the answer to the very    *)
(* line it asked: a mutilated reply is always a stale one.                 *)
OwnAnswerWhole ==
  ~overlap => \A c \in Callers :
    Answered(c) /\ answer[c] = asked[c] => c \notin beheaded

(* No reply is returned twice and none out of order, whoever reads and     *)
(* however the reads interleave.                                           *)
EachReplyOnce ==
  [][\A c \in Callers : answer'[c] # answer[c] /\ answer'[c] # 0 =>
       \A d \in Callers : answer[d] < answer'[c]]_vars

(* The slot remembers one reader and is emptied by any reader's timer, so  *)
(* a reader can lose its wake-up; every sendRaw still returns, because     *)
(* each read keeps its own poll.                                           *)
EveryReadReturns ==
  \A c \in Callers : pc[c] # "idle" ~> pc[c] = "idle"

-----------------------------------------------------------------------------
(* The inductive invariant behind the safety properties.  Its core is an   *)
(* account: every line ever written was answered into some caller's hands  *)
(* (taken), given up on (timedOut), left over, or is still being waited    *)
(* for (Reading).                                                          *)
Cursors == taken =< answered /\ answered =< sent /\ (partial => answered < sent)

Account == sent =< taken + timedOut + leftover + Cardinality(Reading)

AskedSent ==
  /\ \A c \in Callers : asked[c] =< sent /\ answer[c] =< taken
  /\ ~overlap => \A c, d \in Reading : c = d /\ asked[c] = sent

CutIsStale ==
  cut => /\ taken < sent
         /\ ~overlap /\ Reading # {} => taken + 1 < sent

WaiterAsleep == waiter # None => pc[waiter] = "asleep"

IInv ==
  /\ TypeOK /\ Cursors /\ Account /\ AskedSent /\ CutIsStale /\ WaiterAsleep
  /\ LagBound /\ OwnAnswerWhole
=============================================================================
