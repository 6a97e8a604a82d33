------------------------------- MODULE IsoTp -------------------------------
(***************************************************************************)
(* ISO-TP framing and reassembly in software: packages/elm/src/isotp.ts.   *)
(* A payload is a sequence of bytes, a line of the adapter is a frame: its *)
(* first nibble (pci), the number that follows it (a length or a sequence  *)
(* number) and its bytes.                                                  *)
(***************************************************************************)
EXTENDS Integers, Sequences, SequencesExt

Single == 0     \* 0L dd ..      L bytes
First == 1      \* 1L LL dd ..   L bytes in all, the first 6 of them
Next1 == 2      \* 2N dd ..      the N-th consecutive frame, modulo 16
Flow == 3       \* 3x BS ST      flow control
Negative == 127 \* 7F, the first byte of a negative answer
Pending == 120  \* 78, the code that says the answer is still to come

MaxLength == 4095  \* what the twelve bits of a first frame can say

Least(a, b) == IF a < b THEN a ELSE b
Upto(s, n) == SubSeq(s, 1, Least(n, Len(s)))

SequenceNumber(k) == k % 16

ConsecutiveFrames(p) == Len(p) \div 7

FrameRequest(p) ==
  IF p = <<>> THEN <<>>
  ELSE IF Len(p) =< 7 THEN <<[pci |-> Single, n |-> Len(p), data |-> p]>>
  ELSE <<[pci |-> First, n |-> Len(p) % 4096, data |-> Upto(p, 6)]>> \o
       [k \in 1..ConsecutiveFrames(p) |->
          [pci |-> Next1, n |-> SequenceNumber(k), data |-> SubSeq(p, 7 * k, Least(7 * k + 6, Len(p)))]]

\* The lines of a reply that count, the echo of what was written and, where the
\* adapter answers flow control, the flow control frames left out.
Kept(s, S) ==
  LET kept[k \in 0..Len(s)] ==
        IF k = 0 THEN <<>> ELSE IF s[k] \in S THEN Append(kept[k - 1], s[k]) ELSE kept[k - 1]
  IN kept[Len(s)]

HexLines(reply, sent) == Kept(reply, Range(reply) \ {sent})
UsableLines(reply, sent) == Kept(reply, {f \in Range(reply) : f # sent /\ f.pci # Flow})
-----------------------------------------------------------------------------
Frames(declared, result, ok) == [declared |-> declared, result |-> result, ok |-> ok]
Broken == Frames(0, <<>>, FALSE)

OneFrame(f) == Frames(f.n, Upto(f.data, f.n), TRUE)

\* Mutant: a frame that is out of sequence is taken for the next one.
InSequenceAny(f, expected) == f.pci = Next1
InSequence(f, expected) == f.pci = Next1 /\ f.n = expected % 16

\* The bytes of a first frame and of those that follow it.
Joined(fs) ==
  LET joined[k \in 0..Len(fs)] ==
        IF k = 0 THEN <<>> ELSE joined[k - 1] \o Upto(fs[k].data, IF k = 1 THEN 6 ELSE 7)
  IN joined[Len(fs)]

\* collectMultiFrame; of a batch that is out of sequence only the beginning is told,
\* by which a negative answer is known.
MultiFrame(fs) ==
  IF \A k \in 2..Len(fs) : InSequence(fs[k], k - 1)
  THEN Frames(fs[1].n, Joined(fs), TRUE)
  ELSE Frames(fs[1].n, Upto(fs[1].data, 6), FALSE)

StartsWith(p, b) == p # <<>> /\ p[1] = b

\* Whether a payload can be the answer to a request.
AnswersTo(p, sid) == StartsWith(p, (sid + 64) % 256) \/ StartsWith(p, Negative)

\* pickDiagnosticFrame: where in a batch the first single frame is that can be an answer, and its first frame
\* of a longer one; 0 where there is none.
Diagnostic(fs, sid) == SelectInSeq(fs, LAMBDA f : f.pci = Single /\ AnswersTo(OneFrame(f).result, sid))
FirstOf(fs) == SelectInSeq(fs, LAMBDA f : f.pci = First)

\* Mutant: a wait is taken for an answer.
SaysWaitNever(f) == FALSE

SaysWait(f) ==
  f.pci = Single /\ f.n = 3 /\ Len(f.data) >= 3 /\ f.data[1] = Negative /\ f.data[3] = Pending

\* What the frames of a batch hold.
Contents(fs, sid) ==
  IF Len(fs) = 1 THEN IF fs[1].pci = Single THEN OneFrame(fs[1]) ELSE Broken
  ELSE IF fs[1].pci = First THEN MultiFrame(fs)
  ELSE IF fs[1].pci # Single THEN Broken
  ELSE IF Diagnostic(fs, sid) # 0 THEN OneFrame(fs[Diagnostic(fs, sid)])
  ELSE IF FirstOf(fs) = 0 THEN OneFrame(fs[1]) ELSE MultiFrame(SubSeq(fs, FirstOf(fs), Len(fs)))

Reassemble(responses, sid) ==
  IF responses = <<>> THEN [kind |-> "value", value |-> <<>>]
  ELSE LET fs == IF Len(responses) > 1 /\ SaysWait(responses[1]) THEN Tail(responses) ELSE responses
           c == Contents(fs, sid)
       IN IF StartsWith(c.result, Negative) THEN [kind |-> "negative", value |-> c.result]
          ELSE IF c.ok /\ Len(c.result) >= c.declared
          THEN [kind |-> "value", value |-> Upto(c.result, c.declared)]
          ELSE [kind |-> "error", value |-> <<>>]
-----------------------------------------------------------------------------
\* parseFlowControl: a frame that was cut short asks for three at a time.
BlockSize(f) == IF f.data = <<>> THEN 3 ELSE f.data[1]

\* flowControlFrame: seven frames at most, what an adapter hands back at once.
FlowControlFrame(remaining) ==
  [pci |-> Flow, n |-> 0, data |-> <<IF remaining < 1 THEN 1 ELSE Least(remaining, 7), 0>>]

\* How many frames a payload occupies that declares its length.
FramesOf(declared) == 1 + (declared \div 7)
=============================================================================
