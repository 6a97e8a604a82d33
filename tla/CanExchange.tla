---------------------------- MODULE CanExchange ----------------------------
(***************************************************************************)
(* One request over CAN and its answer: sendCan, sendCanCfc0 and           *)
(* pullRemainingFrames of packages/elm/src/driver.ts, against an ECU that  *)
(* takes the request frame by frame, asks for flow control, and may lose   *)
(* frames, fall silent or repeat itself.  A frame written and what comes   *)
(* back for it is one step, which is what ElmTransport shows it to be.     *)
(***************************************************************************)
EXTENDS IsoTp, FiniteSets

CONSTANTS Strategies,   \* "manual": the adapter answers flow control; "cfc0": the driver does
          Requests,     \* the payloads asked
          Answers,      \* the payloads answered
          Preludes,     \* what an ECU may send before its answer: nothing, broadcasts, a wait
          BlockSizes,   \* the block sizes an ECU asks for; 0 is no limit
          MaxFaults     \* bounds the frames and replies lost or repeated

ASSUME ConstantsAssumption ==
  /\ Strategies \subseteq {"manual", "cfc0"}
  /\ BlockSizes \subseteq Nat /\ MaxFaults \in Nat
  /\ Requests \cup Answers \subseteq Seq(Nat) \ {<<>>}
  /\ Preludes \subseteq Seq([pci : {Single}, n : Nat, data : Seq(Nat)])
  /\ \A a \in Answers : Len(a) =< MaxLength

Pad(f) == [f EXCEPT !.data = @ \o [k \in 1..((IF f.pci = First THEN 6 ELSE 7) - Len(@)) |-> 0]]
Padded(p) == LET fs == FrameRequest(p) IN [k \in DOMAIN fs |-> Pad(fs[k])]

AsksToWait(f) == f.n = 3 /\ Len(f.data) = 3 /\ f.data[1] = Negative /\ f.data[3] = Pending

\* An ECU answers the request or refuses it, which takes one frame; before that it sends what is no answer, or
\* first of all that the answer is still to come; and it does not send the last frame of the request back.
ASSUME DialogueAssumption ==
  \A q \in Requests, a \in Answers, p \in Preludes :
    /\ AnswersTo(a, q[1]) /\ (a[1] = Negative => Len(a) =< 7)
    /\ \A k \in DOMAIN p : (k = 1 /\ AsksToWait(p[k])) \/ ~AnswersTo(OneFrame(p[k]).result, q[1])
    /\ FrameRequest(q)[Len(FrameRequest(q))] \notin Range(p \o Padded(a))

VARIABLES strategy, request, answer, prelude, blockSize,  \* what this exchange is
          pc,         \* where the driver is
          index,      \* frames written
          burst,      \* frames it may write without looking at the reply
          flow,       \* the block size it goes by
          responses,  \* lines kept
          round,      \* rounds of the pull
          result,     \* what request returns
          taken,      \* frames the ECU has taken
          open,       \* consecutive frames the ECU still allows; -1 is no limit
          missed,     \* the kinds of frames in replies nobody looked at
          rest,       \* frames of the answer the ECU still owes
          faults      \* how much has gone wrong

exchangeVars == <<strategy, request, answer, prelude, blockSize, pc, index, burst, flow, responses, round, result,
                 taken, open, missed, rest, faults>>
exchange == <<strategy, request, answer, prelude, blockSize>>

Written == FrameRequest(request)
Sid == request[1]
AnswerFrames == Padded(answer)
WholeReply == prelude \o AnswerFrames
FirstReply == Append(prelude, Head(AnswerFrames))
NoResult == [kind |-> "none", value |-> <<>>]

ExchangeInit ==
  /\ strategy \in Strategies /\ request \in Requests /\ answer \in Answers
  /\ prelude \in Preludes /\ blockSize \in BlockSizes
  /\ pc = "write" /\ index = 0 /\ burst = 0 /\ flow = 1 /\ responses = <<>> /\ round = 0
  /\ result = NoResult /\ taken = 0 /\ open = 0 /\ missed = {} /\ rest = <<>> /\ faults = 0
-----------------------------------------------------------------------------
(* The ECU, and the adapter before it. *)

Allowed == IF blockSize = 0 THEN -1 ELSE blockSize
FlowControl == [pci |-> Flow, n |-> 0, data |-> <<blockSize, 0>>]

\* A frame of the request arrives.  Its whole answer comes back where the adapter
\* answers flow control, and only its first frame where it does not.
Takes(reply) ==
  LET last == taken + 1 = Len(Written)
      asks == ~last /\ (taken = 0 \/ open = 1) IN
    /\ taken' = taken + 1
    /\ open' = IF asks THEN Allowed ELSE IF open > 0 THEN open - 1 ELSE open
    /\ rest' = IF ~last THEN <<>> ELSE IF strategy = "manual" THEN <<>> ELSE Tail(AnswerFrames)
    /\ reply = IF last THEN IF strategy = "manual" THEN WholeReply ELSE FirstReply
               ELSE IF asks /\ strategy = "cfc0" THEN <<FlowControl>> ELSE <<>>

Without(s, k) == SubSeq(s, 1, k - 1) \o SubSeq(s, k + 1, Len(s))

\* What reaches the driver of a reply.
Arrives(reply, got) ==
  \/ got = reply /\ UNCHANGED faults
  \/ /\ faults < MaxFaults /\ faults' = faults + 1
     /\ \/ \E k \in DOMAIN reply : got = Without(reply, k)                     \* a frame lost
        \/ Len(reply) > 1 /\ got = <<>>                                        \* NO DATA
        \/ Len(reply) > 1 /\ got = <<reply[1]>> \o reply                       \* a frame twice
-----------------------------------------------------------------------------
\* sendCan: the frames go out back to back and every usable line is kept.
Write ==
  /\ pc = "write" /\ strategy = "manual" /\ index < Len(Written)
  /\ \E reply \in {<<>>, WholeReply} : Takes(reply) /\
       \E got \in {reply, <<>>} \cup {Without(reply, k) : k \in DOMAIN reply}
                  \cup (IF Len(reply) > 1 THEN {<<reply[1]>> \o reply} ELSE {}) :
         /\ Arrives(reply, got)
         /\ responses' = responses \o UsableLines(got, Written[index + 1])
  /\ index' = index + 1
  /\ UNCHANGED <<exchange, pc, burst, flow, round, result, missed>>

\* Mutant: a whole block is written before the driver looks at a reply again, so
\* that the ECU's next flow control is not seen.
BurstOfBlock(seen, size) == IF seen /\ size = 0 THEN Len(Written) ELSE size

\* After a frame whose reply is read, the rest of the block goes out in a burst.
BurstAfter(seen, size) == IF seen /\ size = 0 THEN Len(Written) ELSE size - 1

\* sendCanCfc0: one frame whose reply is read, up to the first flow control in it.
WriteAndLook ==
  /\ pc = "write" /\ strategy = "cfc0" /\ burst = 0 /\ index < Len(Written)
  /\ \E reply \in {<<>>, <<FlowControl>>, FirstReply} : Takes(reply) /\
       \E got \in {reply, <<>>} \cup {Without(reply, k) : k \in DOMAIN reply} : Arrives(reply, got) /\
         LET seen == \E k \in DOMAIN got : got[k].pci = Flow
             size == IF seen THEN BlockSize(got[1]) ELSE flow
             allowed == BurstAfter(seen, size)
         IN /\ flow' = size
            /\ responses' = IF seen THEN responses ELSE responses \o HexLines(got, Written[index + 1])
            /\ burst' = IF allowed < 0 THEN 0 ELSE Least(allowed, Len(Written) - (index + 1))
  /\ index' = index + 1
  /\ UNCHANGED <<exchange, pc, round, result, missed>>

\* A frame of a burst: its reply is not looked at.
WriteBurst ==
  /\ pc = "write" /\ burst > 0
  /\ \E reply \in {<<>>, <<FlowControl>>, FirstReply} :
       Takes(reply) /\ missed' = missed \cup {reply[k].pci : k \in DOMAIN reply}
  /\ index' = index + 1 /\ burst' = burst - 1
  /\ UNCHANGED <<exchange, pc, flow, responses, round, result, faults>>

AllWritten ==
  /\ pc = "write" /\ index = Len(Written)
  /\ pc' = IF strategy = "cfc0" THEN "pull" ELSE "join"
  /\ UNCHANGED <<exchange, index, burst, flow, responses, round, result, taken, open, missed, rest, faults>>
-----------------------------------------------------------------------------
(* pullRemainingFrames *)

FirstFrame == FirstOf(responses)
Total == FramesOf(responses[FirstFrame].n)
Consecutive(s, from) == Cardinality({k \in from..Len(s) : s[k].pci = Next1})
Have == 1 + Consecutive(responses, FirstFrame + 1)

WorthPulling == FirstFrame # 0 /\ Have < Total

\* Mutant: it goes on until the answer is whole.
AgainUntilWhole(before, now) == now < Total

\* Another round, unless there have been as many as frames, or this one brought
\* nothing new: "asking again will not help".
Again(before, now) == now < Total /\ round + 1 < Total /\ now > before

Pull ==
  /\ pc = "pull" /\ WorthPulling
  /\ LET asked == FlowControlFrame(Total - Have).data[1]
         block == SubSeq(rest, 1, Least(asked, Len(rest)))
         stale == <<AnswerFrames[1]>> IN
       \E got \in {block, <<>>, stale} \cup {Without(block, k) : k \in DOMAIN block}
                  \cup (IF Len(block) > 1 THEN {<<block[1]>> \o block} ELSE {}) :
         /\ \/ Arrives(block, got)
            \/ got \in {<<>>, stale} /\ faults = MaxFaults /\ UNCHANGED faults  \* an ECU that is stuck
         /\ rest' = IF got \in {<<>>, stale} THEN rest ELSE SubSeq(rest, Len(block) + 1, Len(rest))
         /\ responses' = responses \o got
         /\ pc' = IF Again(Have, Have + Consecutive(got, 1)) THEN "pull" ELSE "join"
  /\ round' = Least(round + 1, Total)
  /\ UNCHANGED <<exchange, index, burst, flow, result, taken, open, missed>>

EndPull ==
  /\ pc = "pull" /\ ~WorthPulling
  /\ pc' = "join"
  /\ UNCHANGED <<exchange, index, burst, flow, responses, round, result, taken, open, missed, rest, faults>>

Join ==
  /\ pc = "join"
  /\ result' = Reassemble(responses, Sid)
  /\ pc' = "done"
  /\ UNCHANGED <<exchange, index, burst, flow, responses, round, taken, open, missed, rest, faults>>

ExchangeNext == Write \/ WriteAndLook \/ WriteBurst \/ AllWritten \/ Pull \/ EndPull \/ Join

ExchangeSpec == ExchangeInit /\ [][ExchangeNext]_exchangeVars /\ WF_exchangeVars(ExchangeNext)
-----------------------------------------------------------------------------
\* Whatever is lost or repeated, a value that is returned is the whole answer of the
\* ECU, or a broadcast that came without it, or nothing at all: a frame that is missing, doubled or out of turn never
\* yields a shorter or mixed one.
WholeOrNothing ==
  result.kind = "value" =>
    result.value \in {answer, <<>>} \cup {OneFrame(prelude[k]).result : k \in DOMAIN prelude}

\* "After our first frame the ECU replies with a flow-control frame saying how many
\* consecutive frames it will accept": while none is lost, each of them comes back
\* to a frame whose reply is read, and the driver never goes by an old one.
FlowControlSeen == faults = 0 => Flow \notin missed

\* An exchange ends, also with an ECU that answers each flow control and brings
\* nothing new ("must not spin here forever").
ExchangeEnds == <>(pc = "done")

\* The answer to a request is what comes back, if nothing is lost.
AnswerArrives == pc = "done" /\ faults = 0 => result.value = answer
ManualAnswerArrives == strategy = "manual" => AnswerArrives
=============================================================================
