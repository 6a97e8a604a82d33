-------------------------- MODULE ElmTransport_proofs --------------------------
(* The safety of the line exchange for any finite set of callers and any   *)
(* bounds, from the inductive invariant IInv of ElmTransport.              *)
EXTENDS ElmTransport, FiniteSetTheorems, TLAPS

(* How the set of callers waiting for a reply follows the program counters.*)
LEMMA ReadingStarts ==
  ASSUME TypeOK, NEW c \in Callers, pc[c] = "idle", NEW s \in {"scan", "asleep"},
         pc' = [pc EXCEPT ![c] = s]
  PROVE  /\ Reading' = Reading \cup {c}
         /\ Cardinality(Reading') = Cardinality(Reading) + 1
<1>1. Reading' = Reading \cup {c} /\ c \notin Reading
  BY DEF Reading, TypeOK
<1>2. IsFiniteSet(Reading)
  BY CallersAssumption, FS_Subset DEF Reading
<1>3. QED
  BY <1>1, <1>2, FS_AddElement

(* ... and when its readUntil returns.                                     *)
LEMMA ReadingEnds ==
  ASSUME TypeOK, NEW c \in Callers, pc[c] # "idle",
         pc' = [pc EXCEPT ![c] = "idle"]
  PROVE  /\ Reading' = Reading \ {c}
         /\ Cardinality(Reading') = Cardinality(Reading) - 1
<1>1. Reading' = Reading \ {c} /\ c \in Reading
  BY DEF Reading, TypeOK
<1>2. IsFiniteSet(Reading)
  BY CallersAssumption, FS_Subset DEF Reading
<1>3. QED
  BY <1>1, <1>2, FS_RemoveElement

(* There are never more readers than callers.                              *)
LEMMA ReadingBound ==
  ASSUME TypeOK
  PROVE  /\ Cardinality(Reading) \in Nat /\ Cardinality(Callers) \in Nat
         /\ Cardinality(Reading) =< Cardinality(Callers)
         /\ (\A c, d \in Reading : c = d) => Cardinality(Reading) =< 1
<1>1. IsFiniteSet(Callers) /\ Reading \subseteq Callers
  BY CallersAssumption DEF Reading
<1>2. IsFiniteSet(Reading)
  BY <1>1, FS_Subset
<1>3. Cardinality(Reading) \in Nat /\ Cardinality(Callers) \in Nat
  BY <1>1, <1>2, FS_CardinalityType
<1>4. Cardinality(Reading) =< Cardinality(Callers)
  BY <1>1, FS_Subset
<1>5. ASSUME \A c, d \in Reading : c = d
      PROVE  Cardinality(Reading) =< 1
  <2>1. CASE Reading = {}
    BY <2>1, FS_EmptySet
  <2>2. CASE Reading # {}
    <3>1. PICK c \in Reading : TRUE
      BY <2>2
    <3>2. Reading = {c}
      BY <3>1, <1>5
    <3>3. QED
      BY <3>2, FS_Singleton
  <2>3. QED
    BY <2>1, <2>2
<1>6. QED
  BY <1>3, <1>4, <1>5

-----------------------------------------------------------------------------
(* Every variable keeps its type.                                          *)
LEMMA InitTypeOK == Init => TypeOK
<1> SUFFICES ASSUME Init PROVE TypeOK
  OBVIOUS
<1>1. FlagsOK
  BY Zenon DEF Init, FlagsOK
<1>2. QED
  BY <1>1, BoundsAssumption DEF Init, TypeOK

(* No step makes a flag anything but a flag.                               *)
LEMMA NextFlagsOK == FlagsOK /\ [Next]_vars => FlagsOK'
<1> USE DEF FlagsOK
<1>1. ASSUME FlagsOK, NEW c \in Callers,
             \/ BeginIdentify(c) \/ EndIdentify(c) \/ Send(c) \/ TakeReply(c)
             \/ GiveUp(c) \/ Sleep(c) \/ Poll(c) \/ Deadline(c)
      PROVE  FlagsOK'
  BY <1>1, Zenon DEF BeginIdentify, EndIdentify, Send, TakeReply, GiveUp, Sleep,
                     Poll, Deadline, buf, hist
<1>2. ASSUME FlagsOK, ReceiveText \/ ReceivePrompt \/ UNCHANGED vars
      PROVE  FlagsOK'
  BY <1>2, Zenon DEF ReceiveText, ReceivePrompt, vars, buf, hist
<1>3. QED
  BY <1>1, <1>2, Zenon DEF Next

(* No step of a caller, a timer or the adapter leaves the types.           *)
LEMMA NextTypeOK == TypeOK /\ [Next]_vars => TypeOK'
<1> SUFFICES ASSUME TypeOK, [Next]_vars PROVE TypeOK'
  OBVIOUS
<1>0. FlagsOK'
  BY NextFlagsOK DEF TypeOK
<1> USE DEF TypeOK, buf, hist
<1>1. ASSUME NEW c \in Callers, BeginIdentify(c) PROVE TypeOK'
  BY <1>0, <1>1 DEF BeginIdentify
<1>2. ASSUME NEW c \in Callers, EndIdentify(c) PROVE TypeOK'
  BY <1>0, <1>2 DEF EndIdentify
<1>3. ASSUME NEW c \in Callers, Send(c) PROVE TypeOK'
  <2>1. probes' \in 0 .. 3
    BY <1>0, <1>3 DEF Send
  <2>2. QED
    BY <1>0, <1>3, <2>1 DEF Send
<1>4. ASSUME NEW c \in Callers, TakeReply(c) PROVE TypeOK'
  BY <1>0, <1>4 DEF TakeReply
<1>5. ASSUME NEW c \in Callers, GiveUp(c) PROVE TypeOK'
  BY <1>0, <1>5 DEF GiveUp
<1>6. ASSUME NEW c \in Callers, Sleep(c) PROVE TypeOK'
  BY <1>0, <1>6 DEF Sleep
<1>7. ASSUME NEW c \in Callers, Poll(c) PROVE TypeOK'
  BY <1>0, <1>7 DEF Poll
<1>8. ASSUME NEW c \in Callers, Deadline(c) PROVE TypeOK'
  BY <1>0, <1>8 DEF Deadline
<1>9. ASSUME ReceiveText PROVE TypeOK'
  BY <1>0, <1>9 DEF ReceiveText, WakeWaiter
<1>10. ASSUME ReceivePrompt PROVE TypeOK'
  BY <1>0, <1>10 DEF ReceivePrompt, WakeWaiter
<1>11. ASSUME UNCHANGED vars PROVE TypeOK'
  BY <1>0, <1>11 DEF vars
<1>12. QED
  BY <1>1, <1>2, <1>3, <1>4, <1>5, <1>6, <1>7, <1>8, <1>9, <1>10, <1>11 DEF Next

(* Whatever callers, adapter and timers do, the cursors of the buffer, the  *)
(* slot and the counters of transport.ts and driver.ts stay what they are.  *)
THEOREM TypeCorrect == Spec => []TypeOK
  BY InitTypeOK, NextTypeOK, PTL DEF Spec

-----------------------------------------------------------------------------
(* The account and what follows from it.  One step per action; each action *)
(* either leaves Reading alone or adds or removes one caller.              *)
LEMMA InitIInv == Init => IInv
<1> SUFFICES ASSUME Init PROVE IInv
  OBVIOUS
<1>1. TypeOK
  BY InitTypeOK
<1>2. Reading = {} /\ Cardinality(Reading) = 0
  BY FS_EmptySet DEF Init, Reading
<1>3. Cursors /\ Account /\ AskedSent /\ CutIsStale /\ WaiterAsleep
  BY <1>1, <1>2
     DEF Init, TypeOK, Cursors, Account, AskedSent, CutIsStale, WaiterAsleep
<1>4. LagBound /\ OwnAnswerWhole
  BY DEF Init, LagBound, OwnAnswerWhole, Answered
<1>5. QED
  BY <1>1, <1>3, <1>4 DEF IInv

(* sendRaw's write adds a line and a reader to the account.                *)
LEMMA SendIInv ==
  ASSUME IInv, TypeOK', NEW c \in Callers, Send(c)
  PROVE  IInv'
<1> USE DEF IInv, TypeOK, buf, hist
<1>1. /\ Reading' = Reading \cup {c} /\ c \notin Reading
      /\ Cardinality(Reading') = Cardinality(Reading) + 1
      /\ Cardinality(Reading) \in Nat
  BY ReadingStarts, ReadingBound DEF Send, Reading
<1>2. Cursors' /\ Account' /\ WaiterAsleep'
  BY <1>1, CallersAssumption DEF Send, Cursors, Account, WaiterAsleep
<1>a. ~overlap' => ~overlap /\ Reading = {}
  BY Zenon DEF Send, FlagsOK
<1>3. AskedSent'
  BY <1>1, <1>a DEF Send, AskedSent
<1>4. CutIsStale'
  BY <1>1 DEF Send, CutIsStale, Cursors
<1>5. LagBound' /\ OwnAnswerWhole'
  BY DEF Send, LagBound, OwnAnswerWhole, Answered
<1>6. QED
  BY <1>2, <1>3, <1>4, <1>5

(* A reply taken moves its line from the readers to taken.                 *)
LEMMA TakeReplyIInv ==
  ASSUME IInv, TypeOK', NEW c \in Callers, TakeReply(c)
  PROVE  IInv'
<1> USE DEF IInv, TypeOK, buf, hist
<1>1. /\ Reading' = Reading \ {c} /\ c \in Reading
      /\ Cardinality(Reading') = Cardinality(Reading) - 1
      /\ Cardinality(Reading) \in Nat /\ Cardinality(Callers) \in Nat
      /\ Cardinality(Reading) =< Cardinality(Callers)
      /\ ~overlap => Cardinality(Reading) =< 1
  BY ReadingEnds, ReadingBound DEF TakeReply, Reading, AskedSent
<1>2. Cursors' /\ Account' /\ WaiterAsleep'
  BY <1>1, CallersAssumption DEF TakeReply, Cursors, Account, WaiterAsleep
<1>3. AskedSent'
  BY <1>1 DEF TakeReply, AskedSent
<1>4. CutIsStale'
  BY <1>1 DEF TakeReply, CutIsStale, Cursors
<1>5. LagBound'
  <2>1. ASSUME NEW d \in Callers, d # c, Answered(d)'
        PROVE  Answered(d) /\ answer'[d] = answer[d]
    BY <2>1 DEF TakeReply, Answered
  <2>2. /\ answer'[c] = taken + 1 /\ asked'[c] = asked[c] /\ asked[c] =< sent
        /\ ~overlap => asked[c] = sent
    BY <1>1 DEF TakeReply, AskedSent
  <2>3. sent =< taken + timedOut + leftover + Cardinality(Reading)
    BY DEF Account
  <2>4. QED
    BY <1>1, <2>1, <2>2, <2>3 DEF TakeReply, LagBound, Cursors
<1>6. OwnAnswerWhole'
  BY <1>1 DEF TakeReply, OwnAnswerWhole, Answered, AskedSent, CutIsStale
<1>7. QED
  BY <1>2, <1>3, <1>4, <1>5, <1>6

(* A read that gives up moves its line from the readers to timedOut.       *)
LEMMA GiveUpIInv ==
  ASSUME IInv, TypeOK', NEW c \in Callers, GiveUp(c)
  PROVE  IInv'
<1> USE DEF IInv, TypeOK, buf, hist
<1>1. /\ Reading' = Reading \ {c} /\ c \in Reading
      /\ Cardinality(Reading') = Cardinality(Reading) - 1
      /\ Cardinality(Reading) \in Nat /\ Cardinality(Callers) \in Nat
  BY ReadingEnds, ReadingBound DEF GiveUp, Reading
<1>2. Cursors' /\ Account' /\ WaiterAsleep'
  BY <1>1, CallersAssumption DEF GiveUp, Cursors, Account, WaiterAsleep
<1>3. AskedSent'
  BY <1>1 DEF GiveUp, AskedSent
<1>4. CutIsStale'
  BY <1>1 DEF GiveUp, CutIsStale, Cursors, AskedSent
<1>5. LagBound' /\ OwnAnswerWhole'
  BY <1>1 DEF GiveUp, LagBound, OwnAnswerWhole, Answered
<1>6. QED
  BY <1>2, <1>3, <1>4, <1>5

(* A purge, with no reader waiting, can only advance taken.                *)
LEMMA BeginIdentifyIInv ==
  ASSUME IInv, TypeOK', NEW c \in Callers, BeginIdentify(c)
  PROVE  IInv'
<1> USE DEF IInv, TypeOK, buf, hist
<1>1. Reading' = Reading /\ Reading = {} /\ Cardinality(Reading) \in Nat
  BY ReadingBound DEF BeginIdentify, Reading
<1>2. Cursors' /\ Account' /\ WaiterAsleep'
  BY <1>1, CallersAssumption DEF BeginIdentify, Cursors, Account, WaiterAsleep
<1>a. cut' => partial \/ (taken = answered /\ cut)
  BY Zenon DEF BeginIdentify
<1>3. AskedSent' /\ CutIsStale'
  BY <1>1, <1>a DEF BeginIdentify, AskedSent, CutIsStale, Cursors
<1>4. LagBound' /\ OwnAnswerWhole'
  BY DEF BeginIdentify, LagBound, OwnAnswerWhole, Answered
<1>5. QED
  BY <1>2, <1>3, <1>4

(* The steps of the remaining actions move nothing the account counts,     *)
(* except the prompts that become available.                               *)
LEMMA QuietIInv ==
  ASSUME IInv, TypeOK',
         Reading' = Reading, \A c \in Callers : Answered(c)' <=> Answered(c),
         UNCHANGED <<sent, taken, cut, asked, answer, beheaded, hist>>,
         Cursors', WaiterAsleep'
  PROVE  IInv'
<1> USE DEF IInv, TypeOK, hist
<1>1. Account' /\ AskedSent' /\ CutIsStale'
  BY DEF Account, AskedSent, CutIsStale
<1>2. LagBound' /\ OwnAnswerWhole'
  BY DEF LagBound, OwnAnswerWhole
<1>3. QED
  BY <1>1, <1>2

(* Every step keeps the invariant.                                         *)
LEMMA NextIInv == IInv /\ [Next]_vars => IInv'
<1> SUFFICES ASSUME IInv, [Next]_vars PROVE IInv'
  OBVIOUS
<1>0. TypeOK /\ TypeOK' /\ Cursors /\ WaiterAsleep
  BY NextTypeOK DEF IInv
<1>1. ASSUME NEW c \in Callers, BeginIdentify(c) PROVE IInv'
  BY <1>0, <1>1, BeginIdentifyIInv
<1>2. ASSUME NEW c \in Callers, EndIdentify(c) PROVE IInv'
  BY <1>0, <1>2, QuietIInv
     DEF EndIdentify, Cursors, WaiterAsleep, Reading, Answered, buf, hist
<1>3. ASSUME NEW c \in Callers, Send(c) PROVE IInv'
  BY <1>0, <1>3, SendIInv
<1>4. ASSUME NEW c \in Callers, TakeReply(c) PROVE IInv'
  BY <1>0, <1>4, TakeReplyIInv
<1>5. ASSUME NEW c \in Callers, GiveUp(c) PROVE IInv'
  BY <1>0, <1>5, GiveUpIInv
<1>6. ASSUME NEW c \in Callers, Sleep(c) \/ Poll(c) PROVE IInv'
  <2>1. Reading' = Reading /\ \A d \in Callers : Answered(d)' <=> Answered(d)
    BY <1>0, <1>6 DEF Sleep, Poll, Reading, Answered, TypeOK
  <2>2. QED
    BY <1>0, <1>6, <2>1, QuietIInv DEF Sleep, Poll, Cursors, WaiterAsleep, TypeOK, buf, hist
<1>7. ASSUME NEW c \in Callers, Deadline(c) PROVE IInv'
  BY <1>0, <1>7, QuietIInv
     DEF Deadline, Cursors, WaiterAsleep, Reading, Answered, buf, hist
<1>8. ASSUME ReceiveText \/ ReceivePrompt PROVE IInv'
  <2>1. pc' = [c \in Callers |-> IF c = waiter THEN "scan" ELSE pc[c]]
    BY <1>8 DEF ReceiveText, ReceivePrompt, WakeWaiter
  <2>2. \A c \in Callers : pc'[c] = "idle" <=> pc[c] = "idle"
    BY <1>0, <2>1, CallersAssumption DEF TypeOK, WaiterAsleep
  <2>3. Reading' = Reading /\ \A c \in Callers : Answered(c)' <=> Answered(c)
    BY <1>8, <2>2 DEF ReceiveText, ReceivePrompt, Reading, Answered
  <2>4. Cursors' /\ WaiterAsleep'
    BY <1>0, <1>8
       DEF ReceiveText, ReceivePrompt, WakeWaiter, Cursors, WaiterAsleep, TypeOK
  <2>5. QED
    BY <1>0, <1>8, <2>3, <2>4, QuietIInv DEF ReceiveText, ReceivePrompt, hist
<1>9. ASSUME UNCHANGED vars PROVE IInv'
  BY <1>0, <1>9, QuietIInv DEF vars, Cursors, WaiterAsleep, Reading, Answered, buf, hist
<1>10. QED
  BY <1>1, <1>2, <1>3, <1>4, <1>5, <1>6, <1>7, <1>8, <1>9 DEF Next

(* The account holds of every state of the exchange.                       *)
LEMMA Invariant == Spec => []IInv
  BY InitIInv, NextIInv, PTL DEF Spec

(* For any number of callers, the answers a caller receives are at most    *)
(* one reply late for each timed-out read, each line left over and each    *)
(* other caller; a caller that is never overlapped never reads ahead.      *)
THEOREM LagIsBounded == Spec => []LagBound
<1>1. IInv => LagBound
  BY DEF IInv
<1>2. QED
  BY <1>1, Invariant, PTL

(* Until a read times out, an unshared line is a request and its response. *)
THEOREM ExchangesInStep == Spec => []InStep
<1>1. IInv => InStep
  <2>1. ASSUME IInv, ~overlap, timedOut = 0, leftover = 0,
               NEW c \in Callers, Answered(c)
        PROVE  answer[c] = asked[c]
    BY <2>1 DEF IInv, LagBound, TypeOK
  <2>2. QED
    BY <2>1 DEF InStep
<1>2. QED
  BY <1>1, Invariant, PTL

(* With one line out at a time, a reply that lost its beginning to another *)
(* read is never the answer to the line it is returned for.                *)
THEOREM OwnAnswersAreWhole == Spec => []OwnAnswerWhole
<1>1. IInv => OwnAnswerWhole
  BY DEF IInv
<1>2. QED
  BY <1>1, Invariant, PTL

(* Each reply reaches at most one caller, in the order of the lines.       *)
THEOREM RepliesOnceInOrder == Spec => EachReplyOnce
<1> DEFINE Fresh == \A c \in Callers : answer'[c] # answer[c] /\ answer'[c] # 0 =>
                      \A d \in Callers : answer[d] < answer'[c]
<1>1. ASSUME IInv, [Next]_vars PROVE [Fresh]_vars
  <2> USE DEF TypeOK
  <2>0. TypeOK /\ \A d \in Callers : answer[d] =< taken
    BY <1>1 DEF IInv, AskedSent
  <2>1. ASSUME NEW c \in Callers, TakeReply(c) PROVE Fresh
    BY <2>0, <2>1 DEF TakeReply
  <2>2. ASSUME NEW c \in Callers, GiveUp(c) PROVE Fresh
    BY <2>0, <2>2 DEF GiveUp
  <2>3. ASSUME NEW c \in Callers,
               \/ BeginIdentify(c) \/ EndIdentify(c) \/ Send(c)
               \/ Sleep(c) \/ Poll(c) \/ Deadline(c)
        PROVE  Fresh
    BY <2>3 DEF BeginIdentify, EndIdentify, Send, Sleep, Poll, Deadline
  <2>4. ASSUME ReceiveText \/ ReceivePrompt PROVE Fresh
    BY <2>4 DEF ReceiveText, ReceivePrompt
  <2>5. QED
    BY <1>1, <2>1, <2>2, <2>3, <2>4 DEF Next
<1>2. QED
  BY <1>1, Invariant, PTL DEF Spec, EachReplyOnce
=============================================================================
