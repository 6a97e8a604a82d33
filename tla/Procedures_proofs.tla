--------------------------- MODULE Procedures_proofs ---------------------------
(***************************************************************************)
(* Theorems about what holds the adapter, for any ECUs, catalogue, plugins *)
(* and answers: reading and erasing faults, sweeping for modules and       *)
(* recognising them, running a plugin.                                     *)
(***************************************************************************)
EXTENDS Procedures, WellFoundedInduction, TLAPS

(* Erasing: no step but the ECU's acknowledgement leaves a CAN erase       *)
(* cleared, and no later step finds the word of an earlier erase.          *)
EraseInv == outcome = "cleared" => fstep = "done" /\ CanEraseAcknowledged

LEMMA EraseInit == FaultInit => EraseInv
BY DEF FaultInit, EraseInv

LEMMA EraseNext == EraseInv /\ FaultNext => EraseInv'
<1> SUFFICES ASSUME EraseInv, FaultNext PROVE EraseInv'
    OBVIOUS
<1> USE DEF EraseInv, CanEraseAcknowledged, EraseAcknowledged
<1>1. ASSUME NEW ecu \in Ecus, NEW link \in Links, NEW faults \in FaultLists,
             ReadBegin(ecu, link, faults)
      PROVE  EraseInv'
      BY <1>1 DEF ReadBegin
<1>2. ASSUME NEW ecu \in Ecus, NEW link \in Links, NEW faults \in FaultLists,
             ClearBegin(ecu, link, faults)
      PROVE  EraseInv'
      BY <1>2 DEF ClearBegin
<1>3. ASSUME NEW o \in Outcomes, NEW chunk \in Chunks, FirstReply(o, chunk)
      PROVE  EraseInv'
      BY <1>3 DEF FirstReply
<1>4. ASSUME NEW o \in Outcomes, NEW chunk \in Chunks, MoreReply(o, chunk)
      PROVE  EraseInv'
      BY <1>4 DEF MoreReply
<1>5. CASE EnoughAsked BY <1>5 DEF EnoughAsked
<1>6. CASE DecodeRecord BY <1>6 DEF DecodeRecord
<1>7. CASE ReadBack BY <1>7 DEF ReadBack
<1>8. CASE EraseThrows BY <1>8 DEF EraseThrows
<1>9. ASSUME NEW o \in Outcomes, EraseReply(o) PROVE EraseInv'
  <2>1. CASE flink = "can"
        BY <1>9, <2>1 DEF EraseReply, Outcomes, Cleared, Rejected, TextOf
  <2>2. CASE flink # "can"
        BY <1>9, <2>2 DEF EraseReply
  <2> QED BY <2>1, <2>2
<1> QED BY <1>1, <1>2, <1>3, <1>4, <1>5, <1>6, <1>7, <1>8, <1>9 DEF FaultNext, FaultStep

(* Sweeping: of the CAN ECUs only the one being probed may be in a session *)
(* that could be closed and is not, and none between two addresses.        *)
Probing == sstep \in {"uds", "udsClose", "local", "localClose"}
OpenInv ==
  /\ \A s \in open \ uncloseable : s[1] = "can" => Probing /\ s = <<"can", Address>>
  /\ Probing => bus = "can"

LEMMA OpenInit == ScanInit => OpenInv
BY DEF ScanInit, OpenInv

LEMMA OpenNext == OpenInv /\ ScanNext => OpenInv'
<1> SUFFICES ASSUME OpenInv, ScanNext PROVE OpenInv'
    OBVIOUS
<1> USE DEF OpenInv, Probing, Address
<1>1. ASSUME NEW p \in Projects, BeginScan(p) PROVE OpenInv'
      BY <1>1 DEF BeginScan
<1>2. CASE Abort BY <1>2 DEF Abort
<1>3. CASE NextAddress BY <1>3 DEF NextAddress, Report
<1>4. CASE BusDone BY <1>4 DEF BusDone
<1>5. CASE LinkLost BY <1>5 DEF LinkLost
<1>6. ASSUME NEW o \in Outcomes, ClosesUds(o) \/ ClosesLocal(o) PROVE OpenInv'
      BY <1>6 DEF ClosesUds, ClosesLocal, Closes, Identify, Silent, Report
<1>7. ASSUME NEW o \in Outcomes, NEW readable \in BOOLEAN,
             AsksUds(o, readable) \/ AsksLocal(o, readable)
      PROVE  OpenInv'
      BY <1>7 DEF AsksUds, AsksLocal, Asks, Opens, GivesUp
<1>8. ASSUME NEW o \in Outcomes, NEW readable \in BOOLEAN, AsksKline(o, readable)
      PROVE  OpenInv'
  <2>1. /\ UNCHANGED <<bus, uncloseable>>
        /\ open' = open \/ open' = open \cup {<<"kline", Address>>}
        BY <1>8 DEF AsksKline, Opens
  <2>2. sstep = "kline" /\ sstep' \in {"kline", "sweeping"}
        BY <1>8 DEF AsksKline, Identify, Silent, Report
  <2>3. \A s \in open' \ uncloseable' : s[1] = "can" => s \in open \ uncloseable
    <3>1. <<"kline", Address>>[1] # "can" OBVIOUS
    <3> QED BY <2>1, <3>1
  <2>4. \A s \in open' \ uncloseable' : s[1] # "can" BY <2>2, <2>3
  <2> QED BY <2>2, <2>4
<1>9. ASSUME NEW initialised \in BOOLEAN, InitsKline(initialised) PROVE OpenInv'
      BY <1>9 DEF InitsKline, Silent, Report
<1> QED BY <1>1, <1>2, <1>3, <1>4, <1>5, <1>6, <1>7, <1>8, <1>9 DEF ScanNext, ScanStep

-----------------------------------------------------------------------------
(* A script that has come to a command op: what follows a write of it      *)
(* needs the write to have succeeded.                                      *)
Follows(s, op) ==
  /\ \E S : s \in Seq(S)
  /\ Len(s) # 0 /\ s[Len(s)].op = op
  /\ \A n \in 1 .. (Len(s) - 1) : s[n].op = "write" => s[n + 1].needs = "ok"

LEMMA Then ==
  ASSUME NEW s, NEW o, Follows(s, o), NEW x, o = "write" => x.needs = "ok"
  PROVE  Follows(s \o <<x>>, x.op)
<1> DEFINE t == s \o <<x>>
<1>1. PICK S : s \in Seq(S) BY DEF Follows
<1>2. s \in Seq(S \cup {x}) /\ x \in S \cup {x} /\ Len(s) \in Nat /\ Len(s) # 0
      BY <1>1 DEF Follows
<1>3. t \in Seq(S \cup {x}) /\ Len(t) = Len(s) + 1 BY <1>2
<1>4. \A n \in 1 .. Len(s) : t[n] = s[n] BY <1>2
<1>5. t[Len(s) + 1] = x BY <1>2
<1>6. ASSUME NEW n \in 1 .. (Len(t) - 1), t[n].op = "write" PROVE t[n + 1].needs = "ok"
  <2>1. CASE n = Len(s)
    <3>1. t[n] = s[n] BY <1>2, <1>4, <2>1
    <3> QED BY <1>5, <1>6, <2>1, <3>1 DEF Follows
  <2>2. CASE n # Len(s)
    <3>1. n \in 1 .. (Len(s) - 1) /\ n \in 1 .. Len(s) /\ n + 1 \in 1 .. Len(s)
          BY <1>2, <1>3, <2>2
    <3>2. t[n] = s[n] /\ t[n + 1] = s[n + 1] BY <1>4, <3>1
    <3> QED BY <1>6, <3>1, <3>2 DEF Follows
  <2> QED BY <2>1, <2>2
<1>7. t[Len(t)].op = x.op /\ Len(t) # 0 BY <1>2, <1>3, <1>5
<1> QED BY <1>3, <1>6, <1>7 DEF Follows

LEMMA ThenStep ==
  ASSUME NEW s, NEW o, Follows(s, o), NEW a, NEW r, NEW c, o = "write" => c = "ok"
  PROVE  Follows(s \o <<Step(a, r, c)>>, a)
<1> DEFINE x == Step(a, r, c)
<1>1. x.op = a /\ x.needs = c BY DEF Step
<1> HIDE DEF x
<1>2. Follows(s \o <<x>>, x.op) BY <1>1, Then
<1> QED BY <1>1, <1>2 DEF x

LEMMA IfStep ==
  ASSUME NEW a, NEW q, NEW d, NEW c
  PROVE  If(c, <<Step(a, q, d)>>) = <<Step(a, q, c)>>
<1>1. [Step(a, q, d) EXCEPT !.needs = c] = Step(a, q, c) BY DEF Step
<1>2. \A x : <<x>>[1] = x OBVIOUS
<1>3. \A x : If(c, <<x>>) = <<[x EXCEPT !.needs = c]>> BY <1>2 DEF If
<1>4. If(c, <<Step(a, q, d)>>) = <<[Step(a, q, d) EXCEPT !.needs = c]>> BY <1>3
<1> QED BY <1>1, <1>4

LEMMA Builders ==
  ASSUME NEW s, NEW o, Follows(s, o), NEW r, NEW c, o = "write" => c = "ok"
  PROVE  /\ o # "write" => /\ Follows(s \o Session(r), "session")
                           /\ Follows(s \o Read(r), "read")
                           /\ Follows(s \o Write(r), "write")
                           /\ Follows(s \o Log, "log") /\ Follows(s \o Ask, "ask")
         /\ Follows(s \o EndsIf(c), "done")
         /\ Follows(s \o If(c, Session(r)), "session")
         /\ Follows(s \o If(c, Write(r)), "write")
         /\ Follows(s \o If(c, Read(r)), "read")
         /\ Follows(s \o If(c, Log), "log")
<1>1. o # "write" =>
        /\ Follows(s \o <<Step("session", r, "nothing")>>, "session")
        /\ Follows(s \o <<Step("read", r, "nothing")>>, "read")
        /\ Follows(s \o <<Step("write", r, "nothing")>>, "write")
        /\ Follows(s \o <<Step("log", "", "nothing")>>, "log")
        /\ Follows(s \o <<Step("ask", "", "nothing")>>, "ask")
      BY ThenStep, Zenon
<1>2. /\ Follows(s \o <<Step("done", "", c)>>, "done")
      /\ Follows(s \o <<Step("session", r, c)>>, "session")
      /\ Follows(s \o <<Step("write", r, c)>>, "write")
      /\ Follows(s \o <<Step("read", r, c)>>, "read")
      /\ Follows(s \o <<Step("log", "", c)>>, "log")
      BY ThenStep, Zenon
<1>3. /\ If(c, Write(r)) = <<Step("write", r, c)>>
      /\ If(c, Session(r)) = <<Step("session", r, c)>>
      /\ If(c, Read(r)) = <<Step("read", r, c)>>
      /\ If(c, Log) = <<Step("log", "", c)>>
      BY IfStep, Zenon DEF Session, Write, Read, Log
<1> QED BY <1>1, <1>2, <1>3, Zenon DEF Session, Read, Write, Log, Ask, EndsIf

LEMMA After ==
  ASSUME NEW s, NEW r, NEW c,
         \/ Follows(s, "session") \/ Follows(s, "read") \/ Follows(s, "log") \/ Follows(s, "ask")
  PROVE  /\ Follows(s \o Session(r), "session")
         /\ Follows(s \o Read(r), "read")
         /\ Follows(s \o Write(r), "write")
         /\ Follows(s \o Log, "log") /\ Follows(s \o Ask, "ask")
         /\ Follows(s \o EndsIf(c), "done")
         /\ Follows(s \o If(c, Session(r)), "session")
         /\ Follows(s \o If(c, Write(r)), "write")
<1>1. "session" # "write" /\ "read" # "write" /\ "log" # "write" /\ "ask" # "write"
      OBVIOUS
<1>2. PICK o : Follows(s, o) /\ o # "write" BY <1>1, Zenon
<1>3. o = "write" => c = "ok" BY <1>2
<1> QED BY <1>2, <1>3, Builders

LEMMA AfterWrite ==
  ASSUME NEW s, NEW r, Follows(s, "write")
  PROVE  /\ Follows(s \o EndsIf("ok"), "done")
         /\ Follows(s \o If("ok", Write(r)), "write")
         /\ Follows(s \o If("ok", Read(r)), "read")
         /\ Follows(s \o If("ok", Log), "log")
BY Builders, Zenon

LEMMA First ==
  ASSUME NEW r
  PROVE  Follows(Session(r), "session") /\ Follows(Read(r), "read") /\ Follows(Ask, "ask")
<1>1. ASSUME NEW x PROVE Follows(<<x>>, x.op)
  <2>1. <<x>> \in Seq({x}) /\ Len(<<x>>) = 1 /\ <<x>>[1] = x OBVIOUS
  <2>2. \A n \in 1 .. (1 - 1) : FALSE OBVIOUS
  <2>3. Len(<<x>>) # 0 /\ <<x>>[Len(<<x>>)].op = x.op BY <2>1
  <2>4. \A n \in 1 .. (Len(<<x>>) - 1) : FALSE BY <2>1, <2>2
  <2> QED BY <2>1, <2>3, <2>4, Zenon DEF Follows
<1>2. /\ Step("session", r, "nothing").op = "session"
      /\ Step("read", r, "nothing").op = "read"
      /\ Step("ask", "", "nothing").op = "ask"
      BY DEF Step
<1> QED BY <1>1, <1>2, Zenon DEF Session, Read, Ask

LEMMA ResetsFollow ==
  ASSUME NEW s, Follows(s, "session"), NEW r, NEW w
  PROVE  Follows(Resets(s, r, w), "done")
<1>1. Follows(s \o Read(r), "read") BY After, Zenon
<1>2. Follows(s \o Read(r) \o Log, "log") BY <1>1, After, Zenon
<1>3. Follows(s \o Read(r) \o Log \o Write(w), "write") BY <1>2, After, Zenon
<1> QED BY <1>3, AfterWrite, Zenon DEF Resets

LEMMA EveryScriptFollows == \A name \in DOMAIN Scripts : Follows(Scripts[name], "done")
<1>1. /\ Follows(ab90AirbagReset, "done") /\ Follows(rsat4AirbagReset, "done")
      /\ Follows(laguna3UchReset, "done") /\ Follows(megane3UchReset, "done")
      BY First, ResetsFollow, Zenon
         DEF ab90AirbagReset, rsat4AirbagReset, laguna3UchReset, megane3UchReset
<1>2. \A q, r : Follows(Session(q) \o Session(r), "session")
      BY First, After, Zenon
<1>3. /\ Follows(megane3AirbagReset, "done") /\ Follows(laguna2UchReset, "done")
      /\ Follows(megane2UchReset, "done")
      /\ Follows(megane3EpsReset, "done") /\ Follows(clio4EpsReset, "done")
      BY <1>2, ResetsFollow, Zenon
         DEF megane3AirbagReset, laguna2UchReset, megane2UchReset, megane3EpsReset, clio4EpsReset
<1>4. Follows(clio3EpsReset, "done")
  <2> DEFINE a == Read("system frame") \o Log
             b == a \o Session("FB")
             c == b \o Write("erase dongle")
  <2>1. Follows(a, "log") BY First, After, AfterWrite, Zenon
  <2>2. Follows(b, "session") BY <2>1, After, AfterWrite, Zenon
  <2>3. Follows(c, "write") BY <2>2, After, AfterWrite, Zenon
  <2> QED BY <2>3, AfterWrite, Zenon DEF clio3EpsReset
<1>5. Follows(zoeWaterpumpReset, "done")
  <2> DEFINE a == Session("default") \o Read("low") \o Read("mid") \o Read("high") \o Read("timer")
             b == a \o Log \o Session("extended")
             c == b \o Write("low = 0") \o If("ok", Write("mid = 0"))
             d == c \o If("ok", Write("high = 0"))
             e == d \o If("ok", Write("timer = 0"))
  <2>1. Follows(a, "read") BY First, After, AfterWrite, Zenon
  <2>2. Follows(b, "session") BY <2>1, After, AfterWrite, Zenon
  <2>3. Follows(c, "write") BY <2>2, After, AfterWrite, Zenon
  <2>4. Follows(d, "write") BY <2>3, AfterWrite
  <2>5. Follows(e, "write") BY <2>4, AfterWrite
  <2> QED BY <2>5, AfterWrite, Zenon DEF zoeWaterpumpReset
<1>6. Follows(clio3EpsWriteVin, "done")
  <2> DEFINE a == Ask \o If("vin", Session("diagnostic"))
             b == a \o Write("VIN")
  <2>1. Follows(a, "session") BY First, After, AfterWrite, Zenon
  <2>2. Follows(b, "write") BY <2>1, After, AfterWrite, Zenon
  <2> QED BY <2>2, AfterWrite, Zenon DEF clio3EpsWriteVin
<1>7. Follows(vinCrc, "done") BY First, After, Zenon DEF vinCrc
<1>8. Follows(megane2CardProgramming, "done")
  <2> DEFINE a == Session("diagnostic") \o Read("badges bits") \o Log \o Ask
             b == a \o If("answer", Write("enter after-sales mode")) \o If("ok", Log)
             c == b \o Ask \o If("ok", Write("learn")) \o If("ok", Read("badges bytes"))
             d == c \o Log \o Ask
             x == Step("write", "validate or abandon", "ok")
             e == d \o If("ok", <<x>>)
  <2>1. Follows(a, "ask") BY First, After, AfterWrite, Zenon
  <2>2. Follows(b, "log") BY <2>1, After, AfterWrite, Zenon
  <2>3. Follows(c, "read") BY <2>2, After, AfterWrite, Zenon
  <2>4. Follows(d, "ask") BY <2>3, After, AfterWrite, Zenon
  <2>5. If("ok", <<x>>) = <<x>> BY IfStep, Zenon
  <2>6. Follows(e, "write") BY <2>4, <2>5, ThenStep, Zenon
  <2> QED BY <2>6, AfterWrite, Zenon DEF megane2CardProgramming
<1>9. DOMAIN Scripts =
        {"ab90", "megane3Airbag", "rsat4", "laguna2", "laguna3", "megane2Uch", "megane3Uch",
         "megane3Eps", "clio4Eps", "clio3Eps", "zoe", "writeVin", "vinCrc", "card"}
      BY DEF Scripts
<1>10. /\ Scripts.ab90 = ab90AirbagReset /\ Scripts.megane3Airbag = megane3AirbagReset
       /\ Scripts.rsat4 = rsat4AirbagReset /\ Scripts.laguna2 = laguna2UchReset
       /\ Scripts.laguna3 = laguna3UchReset /\ Scripts.megane2Uch = megane2UchReset
       /\ Scripts.megane3Uch = megane3UchReset /\ Scripts.megane3Eps = megane3EpsReset
       /\ Scripts.clio4Eps = clio4EpsReset /\ Scripts.clio3Eps = clio3EpsReset
       /\ Scripts.zoe = zoeWaterpumpReset /\ Scripts.writeVin = clio3EpsWriteVin
       /\ Scripts.vinCrc = vinCrc /\ Scripts.card = megane2CardProgramming
      BY DEF Scripts
<1> QED BY <1>1, <1>3, <1>4, <1>5, <1>6, <1>7, <1>8, <1>9, <1>10, Zenon

-----------------------------------------------------------------------------
(* Running a plugin.  A rogue has declared no write and is given none.     *)
(* With a script, a write that was refused leaves a command that needs it  *)
(* to have succeeded.                                                      *)
Running == pstep # "idle" /\ pstep # "done"
Performs == pstep = "asking" \/ pstep = "gating" \/ pstep = "sending"
Own == Scripts[plugin][at]

RogueInv ==
  plugin \in DOMAIN Rogues =>
    ~refused /\ (Performs => Command.op # "write")

ScriptInv ==
  plugin \notin DOMAIN Rogues /\ Running =>
    /\ plugin \in DOMAIN Scripts /\ at \in DOMAIN Scripts[plugin]
    /\ Performs => Command = Own /\ Own.op # "done"
    /\ pstep = "resuming" => Own.op # "done" /\ (refused => ~result.ok /\ Own.op = "write")
    /\ pstep = "emitting" /\ refused => ~result.ok /\ Own.needs = "ok"

RefusalInv ==
  /\ refused => ~Performs /\ verdict # "ok"
  /\ Running => verdict = "running"

PluginInv == RogueInv /\ ScriptInv /\ RefusalInv

LEMMA PluginInvInit == PluginInit => PluginInv
BY DEF PluginInit, PluginInv, RogueInv, ScriptInv, RefusalInv, Running, Performs

(* A command that is given back to the plugin.                             *)
LEMMA ResumeInv ==
  ASSUME PluginInv, Performs, NEW ok \in BOOLEAN, NEW kind, Resume(ok, kind),
         UNCHANGED <<plugin, at, verdict>>
  PROVE  PluginInv'
<1>1. pstep' = "resuming" /\ result'.ok = ok /\ ~refused
      /\ (refused' <=> Command.op = "write" /\ ~ok)
      BY DEF Resume, PluginInv, RefusalInv
<1>2. Running /\ Running' /\ ~Performs' BY <1>1 DEF Running, Performs
<1>3. RefusalInv' BY <1>1, <1>2 DEF RefusalInv, PluginInv
<1>4. RogueInv' BY <1>1, <1>2 DEF RogueInv, PluginInv
<1>5. ScriptInv' BY <1>1, <1>2 DEF ScriptInv, PluginInv, Own
<1> QED BY <1>3, <1>4, <1>5 DEF PluginInv

LEMMA EmitInv == PluginInv /\ Emit => PluginInv'
<1> SUFFICES ASSUME PluginInv, Emit PROVE PluginInv'
    OBVIOUS
<1>1. pstep = "emitting" /\ Running /\ verdict = "running"
      BY DEF Emit, PluginInv, RefusalInv, Running
<1>2. UNCHANGED <<plugin, at>> BY DEF Emit
<1>3. CASE taken = MaxPluginSteps \/ ~(RequiredCapability(Command.op) \subseteq Declared)
  <2>1. pstep' = "done" /\ verdict' = "aborted" /\ UNCHANGED refused
        BY <1>3 DEF Emit, Finish
  <2> QED BY <1>2, <2>1 DEF PluginInv, RogueInv, ScriptInv, RefusalInv, Running, Performs
<1>4. CASE /\ ~(taken = MaxPluginSteps \/ ~(RequiredCapability(Command.op) \subseteq Declared))
           /\ Command.op = "done"
  <2>1. pstep' = "done" /\ UNCHANGED refused
        /\ verdict' = (IF Command.request = "failed" THEN "failed" ELSE "ok")
        BY <1>4 DEF Emit, Finish
  <2>2. refused => Command.request = "failed"
    <3>1. refused => plugin \notin DOMAIN Rogues /\ ~result.ok /\ Own.needs = "ok"
          BY <1>1 DEF PluginInv, RogueInv, ScriptInv
    <3>2. refused => Command = Step("done", "failed", "nothing")
          BY <3>1 DEF Command, Own, Satisfies
    <3> QED BY <3>2 DEF Step
  <2> QED BY <1>2, <2>1, <2>2 DEF PluginInv, RogueInv, ScriptInv, RefusalInv, Running, Performs
<1>5. CASE /\ ~(taken = MaxPluginSteps \/ ~(RequiredCapability(Command.op) \subseteq Declared))
           /\ Command.op # "done"
  <2>1. ~refused
    <3>1. refused => plugin \notin DOMAIN Rogues /\ ~result.ok /\ Own.needs = "ok"
          BY <1>1 DEF PluginInv, RogueInv, ScriptInv
    <3>2. refused => Command = Step("done", "failed", "nothing")
          BY <3>1 DEF Command, Own, Satisfies
    <3> QED BY <1>5, <3>2 DEF Step
  <2>2. plugin \notin DOMAIN Rogues => Command = Own /\ Own.op # "done"
        BY <1>5 DEF Command, Own, Step
  <2>3. plugin \in DOMAIN Rogues => Command.op # "write"
        BY <1>5 DEF RequiredCapability, Declared
  <2>4. CASE Command.op = "log"
    <3>1. pstep' = "resuming" /\ ~refused' /\ UNCHANGED verdict
          BY <1>5, <2>1, <2>4 DEF Emit, Resume
    <3>2. Running' /\ ~Performs' BY <3>1 DEF Running, Performs
    <3>3. Own' = Own BY <1>2 DEF Own
    <3> QED BY <1>1, <1>2, <2>2, <3>1, <3>2, <3>3 DEF PluginInv, RogueInv, ScriptInv, RefusalInv
  <2>5. CASE Command.op # "log"
    <3>1. (pstep' = "asking" \/ pstep' = "gating" \/ pstep' = "sending")
          /\ UNCHANGED <<result, refused, verdict>>
          BY <1>5, <2>5 DEF Emit
    <3>2. Running' BY <3>1 DEF Running
    <3>3. Own' = Own /\ Command' = Command BY <1>2, <3>1 DEF Own, Command, Satisfies
    <3>4. RogueInv' BY <1>2, <2>1, <2>3, <3>1, <3>3 DEF RogueInv
    <3>5. ScriptInv' BY <1>1, <1>2, <2>2, <3>1, <3>3 DEF ScriptInv, PluginInv
    <3>6. RefusalInv' BY <1>1, <2>1, <3>1 DEF RefusalInv
    <3> QED BY <3>4, <3>5, <3>6 DEF PluginInv
  <2> QED BY <2>4, <2>5
<1> QED BY <1>3, <1>4, <1>5

LEMMA NotLast ==
  \A l \in Nat : \A n \in 1 .. l : n # l => n + 1 \in 1 .. l /\ n \in 1 .. (l - 1)
OBVIOUS

LEMMA ResumedInv == PluginInv /\ Resumed => PluginInv'
<1> SUFFICES ASSUME PluginInv, Resumed PROVE PluginInv'
    OBVIOUS
<1>1. /\ pstep = "resuming" /\ pstep' = "emitting"
      /\ UNCHANGED <<plugin, result, refused, verdict>>
      BY DEF Resumed
<1>2. Running /\ Running' /\ ~Performs' BY <1>1 DEF Running, Performs
<1>3. RogueInv' BY <1>1, <1>2 DEF RogueInv, PluginInv
<1>4. RefusalInv' BY <1>1, <1>2 DEF RefusalInv, PluginInv
<1>5. ASSUME plugin \notin DOMAIN Rogues PROVE ScriptInv'
  <2>1. /\ plugin \in DOMAIN Scripts /\ at \in DOMAIN Scripts[plugin]
        /\ Own.op # "done" /\ (refused => ~result.ok /\ Own.op = "write")
        BY <1>1, <1>2, <1>5 DEF PluginInv, ScriptInv
  <2>2. at' = at + 1 BY <1>5 DEF Resumed
  <2>3. PICK s : s = Scripts[plugin] OBVIOUS
  <2>4. Follows(s, "done") BY <2>1, <2>3, EveryScriptFollows
  <2>5. PICK S : s \in Seq(S) BY <2>4 DEF Follows
  <2>6. Len(s) \in Nat /\ DOMAIN s = 1 .. Len(s) BY <2>5
  <2>7. at \in 1 .. Len(s) /\ s[at].op # "done" BY <2>1, <2>3, <2>6 DEF Own
  <2>8. at # Len(s) BY <2>4, <2>7 DEF Follows
  <2>9. at + 1 \in 1 .. Len(s) /\ at \in 1 .. (Len(s) - 1) BY <2>6, <2>7, <2>8, NotLast, Zenon
  <2>10. at' \in DOMAIN Scripts[plugin] BY <2>2, <2>3, <2>6, <2>9
  <2>11. refused => Own'.needs = "ok"
    <3>1. refused => s[at].op = "write" BY <2>1, <2>3 DEF Own
    <3>2. refused => s[at + 1].needs = "ok" BY <2>4, <2>9, <3>1 DEF Follows
    <3>3. Own' = s[at + 1]
      <4>1. plugin' = plugin BY <1>1
      <4> QED BY <2>2, <2>3, <4>1, Zenon DEF Own
    <3> QED BY <3>2, <3>3, Zenon
  <2> QED BY <1>1, <1>2, <2>1, <2>10, <2>11 DEF ScriptInv
<1>6. ASSUME plugin \in DOMAIN Rogues PROVE ScriptInv' BY <1>1, <1>6 DEF ScriptInv
<1> QED BY <1>3, <1>4, <1>5, <1>6 DEF PluginInv

LEMMA BeginInv ==
  ASSUME PluginInv, NEW name \in Plugins, NEW link, Begin(name, link)
  PROVE  PluginInv'
<1>1. /\ plugin' = name /\ at' = 1 /\ pstep' = "emitting"
      /\ ~refused' /\ verdict' = "running"
      BY DEF Begin
<1>2. ~Performs' BY <1>1 DEF Performs
<1>3. ASSUME name \notin DOMAIN Rogues PROVE name \in DOMAIN Scripts /\ 1 \in DOMAIN Scripts[name]
  <2>1. name \in DOMAIN Scripts BY <1>3, PluginsAssumption
  <2>2. Follows(Scripts[name], "done") BY <2>1, EveryScriptFollows
  <2>3. PICK s : s = Scripts[name] OBVIOUS
  <2>4. PICK S : s \in Seq(S) BY <2>2, <2>3 DEF Follows
  <2>5. Len(s) \in Nat /\ Len(s) # 0 /\ DOMAIN s = 1 .. Len(s) BY <2>2, <2>3, <2>4 DEF Follows
  <2>6. 1 \in DOMAIN s BY <2>5
  <2> QED BY <2>1, <2>3, <2>6
<1>4. RogueInv' BY <1>1, <1>2 DEF RogueInv
<1>5. ScriptInv' BY <1>1, <1>2, <1>3 DEF ScriptInv
<1>6. RefusalInv' BY <1>1, <1>2 DEF RefusalInv
<1> QED BY <1>4, <1>5, <1>6 DEF PluginInv

(* What neither gives a command back nor takes one: the write that passes  *)
(* the gate, the toggles, the end of a run.                                *)
LEMMA OtherInv ==
  ASSUME PluginInv, UNCHANGED <<plugin, at, result, refused>>,
         \/ pstep = "gating" /\ pstep' = "sending" /\ UNCHANGED verdict
         \/ UNCHANGED <<pstep, verdict>>
         \/ pstep = "done" /\ pstep' = "idle" /\ UNCHANGED verdict
         \/ pstep' = "done" /\ verdict' = "aborted"
  PROVE  PluginInv'
<1>1. Own' = Own /\ Command' = Command BY DEF Own, Command, Satisfies
<1>2. RogueInv' BY <1>1 DEF PluginInv, RogueInv, Performs
<1>3. ScriptInv' BY <1>1 DEF PluginInv, ScriptInv, Performs, Running
<1>4. RefusalInv' BY DEF PluginInv, RefusalInv, Performs, Running
<1> QED BY <1>2, <1>3, <1>4 DEF PluginInv

LEMMA PluginStutters == PluginInv /\ UNCHANGED pluginVars => PluginInv'
BY OtherInv DEF pluginVars

LEMMA PluginInvNext == PluginInv /\ PluginNext => PluginInv'
<1> SUFFICES ASSUME PluginInv, PluginNext PROVE PluginInv'
    OBVIOUS
<1>1. ASSUME NEW name \in Plugins, NEW link \in Links, Begin(name, link) PROVE PluginInv'
      BY <1>1, BeginInv
<1>2. CASE Emit BY <1>2, EmitInv
<1>3. CASE Resumed BY <1>3, ResumedInv
<1>4. CASE Traps
  <2>1. UNCHANGED <<plugin, at, result, refused>> /\ pstep' = "done" /\ verdict' = "aborted"
        BY <1>4 DEF Traps, Finish
  <2> QED BY <2>1, OtherInv
<1>5. CASE SendThrows
  <2>1. Performs /\ Resume(FALSE, "threw") /\ UNCHANGED <<plugin, at, verdict>>
        BY <1>5 DEF SendThrows, Performs
  <2> QED BY <2>1, ResumeInv
<1>6. ASSUME NEW kind \in {"declined", "blank", "text", "vin"}, Answers(kind) PROVE PluginInv'
  <2>1. Performs /\ Resume(kind # "declined", kind) /\ UNCHANGED <<plugin, at, verdict>>
        BY <1>6 DEF Answers, Performs
  <2>2. (kind # "declined") \in BOOLEAN OBVIOUS
  <2> QED BY <2>1, <2>2, ResumeInv
<1>7. ASSUME NEW consents \in BOOLEAN, Gate(consents) PROVE PluginInv'
  <2>1. pstep = "gating" /\ UNCHANGED <<plugin, at, verdict>> BY <1>7 DEF Gate
  <2>2. Performs BY <2>1 DEF Performs
  <2>3. \/ Resume(FALSE, "refused") \/ Resume(FALSE, "declined")
        \/ pstep' = "sending" /\ UNCHANGED <<result, refused>>
        BY <1>7 DEF Gate
  <2>4. CASE Resume(FALSE, "refused") \/ Resume(FALSE, "declined") BY <2>1, <2>2, <2>4, ResumeInv
  <2>5. CASE pstep' = "sending" /\ UNCHANGED <<result, refused>> BY <2>1, <2>5, OtherInv
  <2> QED BY <2>3, <2>4, <2>5
<1>8. ASSUME NEW o \in Outcomes, Sends(o) \/ AnsweredFromCache(o) PROVE PluginInv'
  <2> DEFINE ok == Success(TextOf(plink, o))
  <2>1. Performs /\ UNCHANGED <<plugin, at, verdict>>
        BY <1>8 DEF Sends, AnsweredFromCache, Performs
  <2>2. Resume(ok, "reply") \/ Resume(ok, "cached") BY <1>8 DEF Sends, AnsweredFromCache
  <2>3. ok \in BOOLEAN BY DEF Success
  <2> QED BY <2>1, <2>2, <2>3, ResumeInv
<1>9. CASE Toggle
  <2>1. UNCHANGED <<plugin, at, result, refused, pstep, verdict>> BY <1>9 DEF Toggle
  <2> QED BY <2>1, OtherInv
<1>10. ASSUME NEW reopened \in BOOLEAN, Over(reopened) PROVE PluginInv'
  <2>1. /\ UNCHANGED <<plugin, at, result, refused, verdict>>
        /\ pstep = "done" /\ pstep' = "idle"
        BY <1>10 DEF Over
  <2> QED BY <2>1, OtherInv
<1> QED BY <1>1, <1>2, <1>3, <1>4, <1>5, <1>6, <1>7, <1>8, <1>9, <1>10
        DEF PluginNext, PluginStep, Runs

-----------------------------------------------------------------------------
(* One of the three holds the adapter at a time, and leaves what the       *)
(* others keep.                                                            *)
ProceduresInv == EraseInv /\ OpenInv /\ PluginInv

(* Between two procedures and during each of them: the erase that is       *)
(* shown as done was acknowledged, the sweep has left no CAN session open  *)
(* behind it, the plugin has a script and a place in it.                   *)
THEOREM ProceduresInvariant == Spec => []ProceduresInv
<1>1. Init => ProceduresInv
      BY EraseInit, OpenInit, PluginInvInit DEF Init, ProceduresInv
<1>2. ProceduresInv /\ [Next]_vars => ProceduresInv'
  <2> SUFFICES ASSUME ProceduresInv, [Next]_vars PROVE ProceduresInv'
      OBVIOUS
  <2>1. UNCHANGED faultVars => EraseInv'
        BY DEF faultVars, ProceduresInv, EraseInv, CanEraseAcknowledged, EraseAcknowledged
  <2>2. UNCHANGED scanVars => OpenInv'
        BY DEF scanVars, ProceduresInv, OpenInv, Probing, Address
  <2>3. UNCHANGED pluginVars => PluginInv' BY PluginStutters DEF ProceduresInv
  <2>4. CASE Faults BY <2>2, <2>3, <2>4, EraseNext DEF Faults, ProceduresInv
  <2>5. CASE Sweep BY <2>1, <2>3, <2>5, OpenNext DEF Sweep, ProceduresInv
  <2>6. CASE Plugin BY <2>1, <2>2, <2>6, PluginInvNext DEF Plugin, ProceduresInv
  <2>7. CASE UNCHANGED vars BY <2>1, <2>2, <2>3, <2>7 DEF vars, ProceduresInv
  <2> QED BY <2>4, <2>5, <2>6, <2>7 DEF Next
<1> QED BY <1>1, <1>2, PTL DEF Spec

(* Silence after an erase on CAN is never shown as success, whatever the   *)
(* ECU sends, or does not, and wherever the link fails (dtc.ts:437).       *)
THEOREM EraseIsAcknowledged == Spec => []CanEraseAcknowledged
<1>1. ProceduresInv => CanEraseAcknowledged
      BY DEF ProceduresInv, EraseInv, CanEraseAcknowledged, EraseAcknowledged
<1> QED BY <1>1, ProceduresInvariant, PTL

(* A sweep leaves no CAN ECU behind it in a session it could have closed,  *)
(* on every way out of every probe, whatever stays open on the K-line      *)
(* (scan.ts:216).                                                          *)
THEOREM SweepClosesSessions == Spec => []CanSessionsClosed
<1>1. ProceduresInv => CanSessionsClosed
      BY DEF ProceduresInv, OpenInv, CanSessionsClosed
<1> QED BY <1>1, ProceduresInvariant, PTL

(* Of the plugins of the repository, and of any that is given no write,    *)
(* none sends anything after a write that did not succeed, or says it is   *)
(* done: this rests on each of their scripts (EveryScriptFollows).         *)
THEOREM NothingFollowsRefusal == Spec => []NothingAfterRefusal
<1>1. ProceduresInv => NothingAfterRefusal
      BY DEF ProceduresInv, PluginInv, RefusalInv, Performs, NothingAfterRefusal
<1> QED BY <1>1, ProceduresInvariant, PTL

(* Every write of a plugin to a vehicle goes through the gate, with the    *)
(* toggle on and the tab in front at that moment (plugins.ts:167).         *)
THEOREM WritesAreConsented == Spec => WritesConsented
<1> DEFINE Consented == pstep' = "sending" /\ pstep # "sending" /\ Command.op = "write" /\ plink # "demo"
                          => pstep = "gating" /\ enabled /\ visible /\ confirmed'
<1>1. [Next]_vars => [Consented]_pluginVars
  <2> SUFFICES ASSUME PluginNext, pstep' = "sending", pstep # "sending",
                      Command.op = "write", plink # "demo"
               PROVE  pstep = "gating" /\ enabled /\ visible /\ confirmed'
      BY DEF Next, Faults, Sweep, Plugin, vars, pluginVars
  <2>1. ~Emit BY DEF Emit, Finish, Resume
  <2>2. ~Resumed /\ ~Traps /\ ~SendThrows /\ ~Toggle
        BY DEF Resumed, Traps, Finish, SendThrows, Toggle
  <2>3. \A name, link : ~Begin(name, link) BY DEF Begin
  <2>4. \A kind : ~Answers(kind) BY DEF Answers, Resume
  <2>5. \A o : ~Sends(o) /\ ~AnsweredFromCache(o) BY DEF Sends, AnsweredFromCache
  <2>6. \A reopened : ~Over(reopened) BY DEF Over
  <2>7. PICK consents \in BOOLEAN : Gate(consents)
        BY <2>1, <2>2, <2>3, <2>4, <2>5, <2>6 DEF PluginNext, PluginStep, Runs
  <2> QED BY <2>7 DEF Gate, Resume, Refuses
<1> QED BY <1>1, PTL DEF Spec, WritesConsented

-----------------------------------------------------------------------------
(* Reading faults. *)

\* The bytes of the records an ECU holds.
HeldCells == [of : Nat, at : Nat, val : Nat]

\* What has been read of the ECU, and what is decoded from it.
BytesInv ==
  /\ given \in 0..Len(Held) /\ declared = Len(stored)
  /\ bytes \in Seq(HeldCells)
  /\ Len(bytes) >= 2 + given /\ (given < Len(Held) => Len(bytes) = 2 + given)
  /\ \A i \in 3..Len(bytes) : i - 2 =< Len(Held) => bytes[i] = Held[i - 2]

\* A field of record n.
Shown(n, f) ==
  /\ f.byte.of = n
  /\ f.name = "Standard Fault" => stored[n] = 0
  /\ f.name = "Specific Fault" => stored[n] = 1

\* The records decoded so far.
RecordsInv ==
  /\ Len(records) =< declared /\ (fecu.stride = 0 => Len(records) =< 1)
  /\ \E S : records \in Seq(S)
  /\ \A n \in DOMAIN records : \A f \in records[n] : Shown(n, f)

\* The ECU that is read.
EcuInv == fstep # "idle" => fecu \in Ecus /\ stored \in Seq({0, 1})

\* A read, step by step.
ReadingInv ==
  /\ EcuInv
  /\ fstep = "asking" \/ fstep = "continuing" \/ fstep = "decoding" => fecu.read # "none"
  /\ fstep = "asking" => given = 0
  /\ fstep = "asking" \/ fstep = "continuing" => records = <<>>
  /\ fstep = "continuing" \/ fstep = "decoding" => BytesInv
  /\ fstep = "decoding" => RecordsInv
  /\ FaultsAsStored

\* Where byte q of record n is.
LEMMA DivFacts ==
  ASSUME NEW n \in Nat, NEW s \in Nat \ {0}, NEW q \in 1..s
  PROVE  ((n * s + q) - 1) \div s = n /\ ((n * s + q) - 1) % s = q - 1
<1>1. n * s \in Nat OBVIOUS
<1>2. (n * s + q) - 1 = n * s + (q - 1) /\ q - 1 \in 0..(s - 1) BY <1>1
<1> DEFINE r == q - 1
<1>3. r \in 0..(s - 1) BY <1>2
<1> HIDE DEF r
<1>4. (n * s + r) \div s = n /\ (n * s + r) % s = r BY <1>3
<1> QED BY <1>2, <1>4 DEF r

\* Records do not overlap.
LEMMA TimesFacts ==
  ASSUME NEW n \in Nat, NEW m \in Nat, n < m, NEW s \in Nat \ {0}
  PROVE  n * s \in Nat /\ m * s \in Nat /\ n * s + s =< m * s
<1>1. PICK k \in Nat : m = n + 1 + k
  <2>1. m - n - 1 \in Nat /\ m = n + 1 + (m - n - 1) OBVIOUS
  <2> QED BY <2>1
<1>2. m * s = n * s + s + k * s BY <1>1
<1>3. n * s \in Nat /\ k * s \in Nat OBVIOUS
<1> QED BY <1>2, <1>3

\* The ECU's bytes, by record and place.
LEMMA HeldFacts ==
  ASSUME stored \in Seq({0, 1}), fecu.size \in Nat \ {0}
  PROVE  /\ Held \in Seq(HeldCells) /\ Len(Held) = Len(stored) * fecu.size /\ Len(Held) \in Nat
         /\ \A n \in Nat, q \in 1..fecu.size : n < Len(stored) =>
              /\ n * fecu.size + q \in 1..Len(Held)
              /\ Held[n * fecu.size + q] = [of |-> n + 1, at |-> q, val |-> IF q = 1 THEN stored[n + 1] ELSE 7]
<1> DEFINE s == fecu.size
           m == Len(stored)
           N == m * s
           D(i) == (i - 1) \div s
           R(i) == (i - 1) % s
           Cell(i) == [of |-> D(i) + 1, at |-> R(i) + 1, val |-> IF R(i) + 1 = 1 THEN stored[D(i) + 1] ELSE 7]
<1>1. Held = [i \in 1..N |-> Cell(i)] BY DEF Held
<1>2. s \in Nat \ {0} /\ m \in Nat /\ N \in Nat
  <2>1. s \in Nat \ {0} /\ m \in Nat OBVIOUS
  <2> HIDE DEF s, m
  <2> QED BY <2>1
<1>3. \A i \in 1..N : D(i) \in 0..(m - 1) /\ R(i) \in 0..(s - 1)
  <2> HIDE DEF s, m
  <2> SUFFICES ASSUME NEW i \in 1..N PROVE D(i) \in 0..(m - 1) /\ R(i) \in 0..(s - 1)
      OBVIOUS
  <2>1. i - 1 \in Nat /\ i - 1 < m * s BY <1>2
  <2>2. D(i) \in Nat /\ R(i) \in 0..(s - 1) /\ i - 1 = D(i) * s + R(i) BY <1>2, <2>1
  <2>3. ~ (D(i) >= m)
    <3> SUFFICES ASSUME D(i) >= m PROVE FALSE
        OBVIOUS
    <3> HIDE DEF D, R
    <3>1. CASE D(i) = m BY <1>2, <2>1, <2>2, <3>1
    <3>2. CASE m < D(i)
      <4>1. m * s + s =< D(i) * s BY <1>2, <2>2, <3>2, TimesFacts
      <4> DEFINE x == D(i) * s  y == m * s
      <4>2. x \in Nat /\ y \in Nat BY <1>2, <2>2
      <4> HIDE DEF x, y
      <4> QED BY <1>2, <2>1, <2>2, <4>1, <4>2 DEF x, y
    <3> QED BY <1>2, <2>2, <3>1, <3>2
  <2> QED BY <1>2, <2>2, <2>3
<1>4. \A i \in 1..N : Cell(i) \in HeldCells
  <2> SUFFICES ASSUME NEW i \in 1..N PROVE Cell(i) \in HeldCells
      OBVIOUS
  <2>1. D(i) \in 0..(m - 1) /\ R(i) \in 0..(s - 1) BY <1>3
  <2> HIDE DEF D, R
  <2>2. D(i) + 1 \in 1..m /\ R(i) + 1 \in Nat BY <1>2, <2>1
  <2>3. stored[D(i) + 1] \in {0, 1} BY <2>2
  <2> QED BY <2>2, <2>3 DEF HeldCells
<1>5. Held \in Seq(HeldCells) /\ Len(Held) = N
  <2> HIDE DEF Cell, N
  <2> QED BY <1>1, <1>2, <1>4
<1>6. ASSUME NEW n \in Nat, NEW q \in 1..s, n < m
      PROVE  /\ n * s + q \in 1..N
             /\ Held[n * s + q] = [of |-> n + 1, at |-> q, val |-> IF q = 1 THEN stored[n + 1] ELSE 7]
  <2> HIDE DEF s, m
  <2>1. n * s \in Nat /\ n * s + s =< N BY <1>2, <1>6, TimesFacts
  <2> DEFINE i == n * s + q
  <2>2. i \in 1..N
    <3> DEFINE x == n * s
    <3> HIDE DEF x, N
    <3> QED BY <1>2, <2>1 DEF x
  <2>3. D(i) = n /\ R(i) = q - 1 BY <1>2, DivFacts
  <2> HIDE DEF i, D, R, N
  <2>4. Held[i] = Cell(i) BY <1>1, <2>2
  <2>5. Cell(i) = [of |-> n + 1, at |-> q, val |-> IF q = 1 THEN stored[n + 1] ELSE 7]
    BY <1>2, <2>3
  <2> QED BY <2>2, <2>4, <2>5 DEF i
<1> QED BY <1>2, <1>5, <1>6

\* One sequence behind another.
LEMMA JoinFacts ==
  ASSUME NEW C, NEW b \in Seq(C), NEW c \in Seq(C)
  PROVE  /\ b \o c \in Seq(C) /\ Len(b \o c) = Len(b) + Len(c) /\ Len(b) \in Nat /\ Len(c) \in Nat
         /\ \A i \in 1..Len(b) : (b \o c)[i] = b[i]
         /\ \A i \in 1..Len(c) : (b \o c)[Len(b) + i] = c[i]
         /\ SubSeq(b \o c, Len(b) + 1, Len(b \o c)) = c
<1>1. /\ b \o c \in Seq(C) /\ Len(b \o c) = Len(b) + Len(c) /\ Len(b) \in Nat /\ Len(c) \in Nat
      /\ \A i \in 1..Len(b) : (b \o c)[i] = b[i]
      /\ \A i \in 1..Len(c) : (b \o c)[Len(b) + i] = c[i]
  OBVIOUS
<1> DEFINE d == b \o c
           e == SubSeq(d, Len(b) + 1, Len(d))
<1>2. /\ d \in Seq(C) /\ Len(d) = Len(b) + Len(c) /\ Len(b) \in Nat /\ Len(c) \in Nat
      /\ \A i \in 1..Len(c) : d[Len(b) + i] = c[i]
  BY <1>1
<1> HIDE DEF d
<1>3. e \in Seq(C) /\ Len(e) = Len(c) /\ \A i \in 1..Len(c) : e[i] = c[i] BY <1>2
<1> HIDE DEF e
<1>4. e = c BY <1>3
<1> QED BY <1>1, <1>4 DEF d, e

\* What a reply may bring.
LEMMA ChunkFacts ==
  ASSUME stored \in Seq({0, 1}), fecu.size \in Nat \ {0}, given \in 0..Len(Held), NEW chunk \in Chunks
  PROVE  /\ chunk \in Seq(HeldCells)
         /\ \/ given = Len(Held) /\ (chunk = <<>> \/ chunk = Held)
            \/ /\ given < Len(Held) /\ Len(chunk) \in 1..(Len(Held) - given)
               /\ \A i \in 1..Len(chunk) : chunk[i] = Held[given + i]
<1> DEFINE H == Held
           s == fecu.size
           l == Len(H) - given
<1>1. H \in Seq(HeldCells) /\ Len(H) \in Nat /\ s \in Nat \ {0} /\ given \in 0..Len(H) BY HeldFacts
<1>2. chunk \in (IF l = 0 THEN {<<>>, H} ELSE {SubSeq(H, given + 1, given + k * s) : k \in 1..(l \div s)})
  BY Zenon DEF Chunks
<1> HIDE DEF H, s
<1>3. CASE l = 0
  <2>1. chunk = <<>> \/ chunk = H BY <1>2, <1>3
  <2>2. <<>> \in Seq(HeldCells) OBVIOUS
  <2>3. given = Len(H) BY <1>1, <1>3
  <2> QED BY <1>1, <2>1, <2>2, <2>3 DEF H
<1>4. CASE l # 0
  <2>1. PICK k \in 1..(l \div s) : chunk = SubSeq(H, given + 1, given + k * s) BY <1>2, <1>4
  <2>2. l \in Nat \ {0} /\ given < Len(H) BY <1>1, <1>4
  <2>3. k * s \in 1..l
    <3> HIDE DEF l
    <3> DEFINE q == l \div s
    <3>1. q \in Nat /\ q * s =< l /\ q * s \in Nat BY <1>1, <2>2
    <3> HIDE DEF q
    <3>2. k \in 1..q BY DEF q
    <3>3. k \in Nat /\ k >= 1 /\ (k = q \/ k < q) BY <3>1, <3>2
    <3>4. k * s =< q * s
      <4>1. CASE k = q BY <1>1, <3>1, <3>2, <4>1
      <4>2. CASE k < q
        <5>1. k * s + s =< q * s /\ k * s \in Nat BY <1>1, <3>1, <3>3, <4>2, TimesFacts
        <5> DEFINE x == k * s  y == q * s
        <5>2. x + s =< y /\ x \in Nat /\ y \in Nat BY <3>1, <5>1
        <5> HIDE DEF x, y
        <5> QED BY <1>1, <5>2 DEF x, y
      <4> QED BY <3>3, <4>1, <4>2
    <3>5. k * s \in Nat /\ k * s >= 1 BY <1>1, <3>3
    <3> DEFINE x == k * s  y == q * s
    <3>6. x =< y /\ y =< l /\ x \in Nat /\ x >= 1 /\ y \in Nat BY <3>1, <3>4, <3>5
    <3> HIDE DEF x, y
    <3>7. x \in 1..l BY <2>2, <3>6
    <3> QED BY <3>7 DEF x
  <2> DEFINE c == k * s
  <2> HIDE DEF c
  <2>4. c \in 1..l /\ chunk = SubSeq(H, given + 1, given + c) BY <2>1, <2>3 DEF c
  <2>5. chunk \in Seq(HeldCells) /\ Len(chunk) = c /\ \A i \in 1..c : chunk[i] = H[given + i]
    BY <1>1, <2>2, <2>4
  <2> QED BY <1>1, <2>2, <2>4, <2>5 DEF H
<1> QED BY <1>3, <1>4

\* The records of the replies follow one another, as the ECU has them.
LEMMA MoreBytes ==
  ASSUME BytesInv, stored \in Seq({0, 1}), fecu.size \in Nat \ {0}, NEW chunk \in Chunks,
         bytes' = bytes \o chunk, given' = IF given = Len(Held) THEN given ELSE given + Len(chunk),
         UNCHANGED <<stored, fecu, declared>>
  PROVE  BytesInv'
<1> DEFINE H == Held
<1>1. H \in Seq(HeldCells) /\ Len(H) \in Nat BY HeldFacts
<1>2. Held' = H BY DEF Held
<1>3. /\ given \in 0..Len(H) /\ declared = Len(stored) /\ bytes \in Seq(HeldCells)
      /\ Len(bytes) >= 2 + given /\ (given < Len(H) => Len(bytes) = 2 + given)
      /\ \A i \in 3..Len(bytes) : i - 2 =< Len(H) => bytes[i] = H[i - 2]
  BY DEF BytesInv
<1>4. /\ chunk \in Seq(HeldCells)
      /\ \/ given = Len(H) /\ (chunk = <<>> \/ chunk = H)
         \/ /\ given < Len(H) /\ Len(chunk) \in 1..(Len(H) - given)
            /\ \A i \in 1..Len(chunk) : chunk[i] = H[given + i]
  BY <1>3, ChunkFacts
<1>5. given' = IF given = Len(H) THEN given ELSE given + Len(chunk) OBVIOUS
<1> HIDE DEF H
<1>6. /\ bytes' \in Seq(HeldCells) /\ Len(bytes') = Len(bytes) + Len(chunk)
      /\ Len(bytes) \in Nat /\ Len(chunk) \in Nat
      /\ \A i \in 1..Len(bytes) : bytes'[i] = bytes[i]
      /\ \A i \in 1..Len(chunk) : bytes'[Len(bytes) + i] = chunk[i]
  BY <1>3, <1>4, JoinFacts
<1>7. given' \in 0..Len(H) /\ Len(bytes') >= 2 + given' /\ (given' < Len(H) => Len(bytes') = 2 + given')
  <2>1. CASE given = Len(H) BY <1>1, <1>3, <1>5, <1>6, <2>1
  <2>2. CASE given # Len(H)
    <3>1. given < Len(H) /\ Len(chunk) \in 1..(Len(H) - given) BY <1>4, <2>2
    <3>2. given' = given + Len(chunk) BY <1>5, <2>2
    <3>3. given \in Nat /\ Len(bytes) = 2 + given BY <1>1, <1>3, <3>1
    <3> DEFINE c == Len(chunk)
               b == Len(bytes')
               l == Len(H)
               g == given'
    <3>4. c \in 1..(l - given) /\ g = given + c /\ b = (2 + given) + c /\ l \in Nat
      BY <1>1, <1>6, <3>1, <3>2, <3>3
    <3> HIDE DEF c, b, l, g
    <3>5. g \in 0..l /\ b >= 2 + g /\ b = 2 + g BY <3>3, <3>4
    <3> QED BY <3>5 DEF b, l, g
  <2> QED BY <2>1, <2>2
<1>8. ASSUME NEW i \in 3..Len(bytes'), i - 2 =< Len(H) PROVE bytes'[i] = H[i - 2]
  <2>1. CASE i =< Len(bytes) BY <1>3, <1>6, <1>8, <2>1
  <2>2. CASE i > Len(bytes)
    <3> DEFINE j == i - Len(bytes)
    <3>1. j \in 1..Len(chunk) /\ i = Len(bytes) + j BY <1>6, <2>2
    <3> HIDE DEF j
    <3>2. bytes'[i] = chunk[j] BY <1>6, <3>1
    <3>3. given < Len(H) BY <1>1, <1>3, <1>6, <1>8, <2>2
    <3>4. Len(bytes) = 2 + given /\ chunk[j] = H[given + j] BY <1>1, <1>3, <1>4, <3>1, <3>3
    <3>5. i - 2 = given + j BY <1>3, <3>1, <3>4
    <3> QED BY <3>2, <3>4, <3>5
  <2> QED BY <1>6, <2>1, <2>2
<1>9. declared' = Len(stored') BY <1>3
<1> QED BY <1>2, <1>6, <1>7, <1>8, <1>9 DEF BytesInv

\* The first reply, with its header.
LEMMA FirstBytes ==
  ASSUME given = 0, stored \in Seq({0, 1}), fecu.size \in Nat \ {0}, NEW chunk \in Chunks,
         bytes' = Header(Len(stored)) \o chunk, given' = Len(chunk), declared' = Len(stored),
         UNCHANGED <<stored, fecu>>
  PROVE  BytesInv'
<1> DEFINE H == Held
           h == Header(Len(stored))
<1>1. H \in Seq(HeldCells) /\ Len(H) \in Nat BY HeldFacts
<1>2. Held' = H BY DEF Held
<1>3. h \in Seq(HeldCells) /\ Len(h) = 2 BY DEF Header, HeldCells
<1>4. /\ chunk \in Seq(HeldCells)
      /\ \/ given = Len(H) /\ (chunk = <<>> \/ chunk = H)
         \/ /\ given < Len(H) /\ Len(chunk) \in 1..(Len(H) - given)
            /\ \A i \in 1..Len(chunk) : chunk[i] = H[given + i]
  <2>1. given \in 0..Len(Held) BY <1>1
  <2> QED BY <2>1, ChunkFacts
<1> HIDE DEF H, h
<1>5. Len(chunk) \in 0..Len(H) /\ \A i \in 1..Len(chunk) : chunk[i] = H[i]
  <2>1. CASE given = Len(H) /\ (chunk = <<>> \/ chunk = H)
    <3>1. Len(chunk) = 0 BY <1>1, <2>1
    <3> QED BY <1>1, <3>1
  <2>2. CASE /\ given < Len(H) /\ Len(chunk) \in 1..(Len(H) - given)
             /\ \A i \in 1..Len(chunk) : chunk[i] = H[given + i]
    <3>1. \A i \in 1..Len(chunk) : given + i = i BY <1>1, <2>2
    <3> QED BY <1>1, <2>2, <3>1
  <2> QED BY <1>4, <2>1, <2>2
<1>6. /\ bytes' \in Seq(HeldCells) /\ Len(bytes') = 2 + Len(chunk)
      /\ \A i \in 1..Len(chunk) : bytes'[2 + i] = chunk[i]
  <2>1. bytes' = h \o chunk BY DEF h
  <2>2. /\ h \o chunk \in Seq(HeldCells) /\ Len(h \o chunk) = Len(h) + Len(chunk)
        /\ \A i \in 1..Len(chunk) : (h \o chunk)[Len(h) + i] = chunk[i]
    <3>1. h \in Seq(HeldCells) /\ chunk \in Seq(HeldCells) BY <1>3, <1>4
    <3> QED BY <3>1, JoinFacts, ZenonT(40)
  <2> QED BY <1>3, <2>1, <2>2, Zenon
<1>7. \A i \in 3..Len(bytes') : bytes'[i] = H[i - 2]
  <2> SUFFICES ASSUME NEW i \in 3..Len(bytes') PROVE bytes'[i] = H[i - 2]
      OBVIOUS
  <2> DEFINE j == i - 2
  <2>1. j \in 1..Len(chunk) /\ 2 + j = i BY <1>5, <1>6
  <2> HIDE DEF j
  <2>2. bytes'[i] = chunk[j] /\ chunk[j] = H[j] /\ i - 2 = j BY <1>5, <1>6, <2>1
  <2> QED BY <2>2
<1>8. given' \in 0..Len(H) /\ declared' = Len(stored') /\ Len(bytes') >= 2 + given' /\ Len(bytes') = 2 + given'
  BY <1>5, <1>6
<1> QED BY <1>2, <1>6, <1>7, <1>8 DEF BytesInv

\* The window of turn n is where record n + 1 begins: records that do not step are read once.
AtRecord(n) == fecu.stride = fecu.size \/ (n = 0 /\ fecu.stride = 0)

\* Record n + 1 is what the window of turn n shows, behind the two bytes that are not its own.
LEMMA WindowFacts ==
  ASSUME BytesInv, stored \in Seq({0, 1}), fecu.size \in Nat \ {0},
         NEW n \in Nat, n < Len(stored), AtRecord(n), NEW p \in 3..(fecu.size + 2)
  PROVE  /\ p =< Len(Window(n)) =>
              Window(n)[p] = [of |-> n + 1, at |-> p - 2, val |-> IF p = 3 THEN stored[n + 1] ELSE 7]
         /\ given = Len(Held) => p =< Len(Window(n))
<1> DEFINE s == fecu.size
           H == Held
           o == n * s
           q == p - 2
           B == Len(bytes)
           w == Window(n)
<1>1. s \in Nat \ {0} /\ q \in 1..s /\ p = q + 2 /\ p \in Nat /\ p =< s + 2 OBVIOUS
<1>2. /\ H \in Seq(HeldCells) /\ Len(H) \in Nat /\ o + q \in 1..Len(H)
      /\ H[o + q] = [of |-> n + 1, at |-> q, val |-> IF q = 1 THEN stored[n + 1] ELSE 7]
      /\ Len(H) = Len(stored) * s
  BY <1>1, HeldFacts
<1>3. o \in Nat /\ o + s =< Len(stored) * s /\ Len(stored) * s \in Nat
  <2>1. Len(stored) \in Nat OBVIOUS
  <2> HIDE DEF s
  <2> QED BY <1>1, <2>1, TimesFacts DEF s
<1>11. o \in Nat BY <1>3
<1>4. w = SubSeq(bytes, o + 1, B)
  <2>1. CASE fecu.stride = fecu.size BY <2>1 DEF Window
  <2>2. CASE n = 0 /\ fecu.stride = 0
    <3>1. 0 * s = 0 /\ 0 * fecu.stride = 0 BY <1>1, <2>2
    <3> QED BY <2>2, <3>1 DEF Window
  <2> QED BY <2>1, <2>2 DEF AtRecord
<1>5. /\ bytes \in Seq(HeldCells) /\ B \in Nat /\ B >= 2 + given /\ given \in 0..Len(H)
      /\ \A i \in 3..B : i - 2 =< Len(H) => bytes[i] = H[i - 2]
  BY DEF BytesInv
<1> HIDE DEF s, H, o, q, B, w
<1>6. /\ Len(w) = IF o =< B THEN B - o ELSE 0
      /\ \A i \in 1..Len(w) : w[i] = bytes[o + i]
  <2>1. B = Len(bytes) BY DEF B
  <2>2. CASE o =< B BY <1>3, <1>4, <1>5, <2>1, <2>2
  <2>3. CASE o > B BY <1>3, <1>4, <1>5, <2>1, <2>3, SMTT(30)
  <2> QED BY <1>3, <1>5, <2>2, <2>3, SMTT(30)
<1>7. ASSUME p =< Len(w) PROVE w[p] = H[o + q]
  <2>1. o =< B /\ p =< B - o /\ p \in Nat /\ p >= 3 BY <1>1, <1>3, <1>5, <1>6, <1>7
  <2>2. p \in 1..Len(w) BY <1>1, <1>3, <1>5, <1>6, <2>1
  <2>3. w[p] = bytes[o + p] BY <1>6, <2>2
  <2>4. o + p \in 3..B /\ (o + p) - 2 = o + q /\ o + q =< Len(H) BY <1>1, <1>2, <1>3, <1>5, <2>1
  <2> QED BY <1>5, <2>3, <2>4
<1>8. ASSUME given = Len(H) PROVE p =< Len(w)
  <2>1. B >= 2 + Len(H) BY <1>2, <1>5, <1>8
  <2>2. 2 + Len(H) >= 2 + (o + s)
    <3> DEFINE x == Len(stored) * s
               l == Len(H)
    <3>1. l = x /\ o + s =< x /\ x \in Nat BY <1>2, <1>3
    <3> HIDE DEF x, l
    <3>2. 2 + l >= 2 + (o + s) BY <1>1, <1>3, <3>1
    <3> QED BY <3>2 DEF l
  <2> DEFINE l == Len(H)
  <2>3. l \in Nat BY <1>2
  <2> HIDE DEF l
  <2>4. B >= 2 + l /\ 2 + l >= 2 + (o + s) BY <2>1, <2>2 DEF l
  <2>5. o =< B /\ B - o >= s + 2 /\ p =< s + 2 BY <1>1, <1>5, <1>11, <2>3, <2>4, SMTT(30)
  <2> QED BY <1>1, <1>5, <1>6, <1>11, <2>5, SMTT(30)
<1>9. (p = 3) = (q = 1) BY <1>1
<1>10. H[o + q] = [of |-> n + 1, at |-> p - 2, val |-> IF p = 3 THEN stored[n + 1] ELSE 7]
  <2>1. p = 3 <=> q = 1 BY <1>1
  <2>2. p - 2 = q BY <1>1
  <2> QED BY <1>2, <2>1, <2>2
<1> QED BY <1>7, <1>8, <1>10 DEF w, H

\* One turn of the record loop.
LEMMA DecodesInv == ReadingInv /\ DecodeRecord => ReadingInv'
<1> SUFFICES ASSUME ReadingInv, DecodeRecord PROVE ReadingInv'
    OBVIOUS
<1> DEFINE n == Len(records)
           window == Window(n)
           fields == {[name |-> f.name, byte |-> window[f.first]] : f \in Decodable(window)}
           last == n >= declared \/ fields = {} \/ (fecu.stride <= 0 /\ n > 0) \/ window = <<>>
<1>1. /\ fstep = "decoding" /\ UNCHANGED <<fecu, stored, given, bytes, declared>>
      /\ IF last THEN fstep' = "done" /\ outcome' = "ok" /\ UNCHANGED records
         ELSE records' = Append(records, SelectFaultKind(fields)) /\ UNCHANGED <<fstep, outcome>>
  BY DEF DecodeRecord
<1>2. fecu \in Ecus /\ stored \in Seq({0, 1}) /\ BytesInv /\ RecordsInv /\ fecu.read # "none"
  BY <1>1 DEF ReadingInv, EcuInv
<1>3. /\ fecu.size \in Nat \ {0} /\ (fecu.stride = 0 \/ fecu.stride = fecu.size) /\ fecu.fields # {}
      /\ \A f \in fecu.fields : f.first \in 3..(fecu.size + 2)
  BY <1>2, FieldsAssumption
<1>9. \A f \in fecu.fields : f.first \in Nat /\ f.first >= 3 BY <1>3
<1>10. \A f \in fecu.fields :
         /\ f.name = "Type Of Fault" => f.first = 3
         /\ f.name = "Standard Fault" \/ f.name = "Specific Fault"
              => \E k \in fecu.fields : k.name = "Type Of Fault"
  BY <1>2, FieldsAssumption
<1>4. /\ n \in Nat /\ n =< declared /\ declared = Len(stored) /\ Len(stored) \in Nat
      /\ \A m \in DOMAIN records : \A f \in records[m] : Shown(m, f)
      /\ fecu.stride = 0 => n =< 1
  BY <1>2 DEF RecordsInv, BytesInv
<1>5. EcuInv' BY <1>1, <1>2 DEF EcuInv
<1>6. BytesInv'
  <2>1. Held' = Held BY <1>1 DEF Held
  <2> QED BY <1>1, <1>2, <2>1 DEF BytesInv
<1> HIDE DEF last, window, fields
<1>7. CASE last
  <2>1. fstep' = "done" /\ outcome' = "ok" /\ UNCHANGED records BY <1>1, <1>7
  <2>2. \A m \in DOMAIN records : \A f \in records[m] : Shown(m, f) BY <1>4
  <2>3. ASSUME fecu.stride = fecu.size, given = Len(Held) PROVE n = declared
    <3> SUFFICES ASSUME n < declared PROVE FALSE
        BY <1>4
    <3>1. PICK f \in fecu.fields : TRUE BY <1>3
    <3>2. f.first =< Len(window) /\ f.first >= 3
      <4>1. f.first \in 3..(fecu.size + 2) BY <1>3
      <4>2. AtRecord(n) BY <2>3 DEF AtRecord
      <4>3. f.first =< Len(Window(n)) BY <1>2, <1>3, <1>4, <2>3, <4>1, <4>2, WindowFacts
      <4> QED BY <1>9, <4>3 DEF window
    <3>3. fields # {} BY <3>2 DEF fields, Decodable
    <3>4. window # <<>>
      <4>1. f.first \in Nat /\ Len(<<>>) = 0 BY <1>9
      <4> QED BY <3>2, <4>1
    <3>5. ~ (fecu.stride <= 0) BY <1>3, <2>3
    <3> QED BY <1>4, <1>7, <3>3, <3>4, <3>5 DEF last
  <2>4. FaultsAsStored'
    <3>1. Held' = Held BY <1>1 DEF Held
    <3> QED BY <1>1, <2>1, <2>2, <2>3, <3>1 DEF FaultsAsStored, Shown
  <2> QED BY <1>5, <2>1, <2>4 DEF ReadingInv
<1>8. CASE ~last
  <2>1. /\ fstep' = "decoding" /\ records' = Append(records, SelectFaultKind(fields))
        /\ n < declared /\ ~ (fecu.stride <= 0 /\ n > 0)
    BY <1>1, <1>4, <1>8 DEF last
  <2>2. AtRecord(n)
    <3>1. fecu.stride = 0 => n = 0 BY <1>4, <2>1
    <3> QED BY <1>3, <3>1 DEF AtRecord
  <2>3. ASSUME NEW f \in Decodable(window)
        PROVE  /\ f \in fecu.fields /\ f.first =< Len(window)
               /\ window[f.first].of = n + 1
               /\ f.first = 3 => window[f.first].val = stored[n + 1]
    <3>1. f \in fecu.fields /\ f.first =< Len(window) BY DEF Decodable
    <3>2. f.first \in 3..(fecu.size + 2) BY <1>3, <3>1
    <3> DEFINE p == f.first
    <3> HIDE DEF p
    <3>3. window[p] = [of |-> n + 1, at |-> p - 2, val |-> IF p = 3 THEN stored[n + 1] ELSE 7]
      BY <1>2, <1>3, <1>4, <2>1, <2>2, <3>1, <3>2, WindowFacts DEF window, p
    <3> QED BY <3>1, <3>3 DEF p
  <2>4. ASSUME NEW x \in SelectFaultKind(fields) PROVE Shown(n + 1, x)
    <3> DEFINE kinds == {f \in fields : f.name = "Type Of Fault"}
               drop == IF \E f \in kinds : f.byte.val = 0 THEN "Specific Fault" ELSE "Standard Fault"
    <3>1. SelectFaultKind(fields) = IF kinds = {} THEN fields ELSE {f \in fields : f.name # drop}
      BY Zenon DEF SelectFaultKind
    <3>2. x \in fields BY <3>1
    <3>3. PICK g \in Decodable(window) : x = [name |-> g.name, byte |-> window[g.first]]
      BY <3>2 DEF fields
    <3>4. x.byte.of = n + 1 BY <2>3, <3>3
    <3>5. \A k \in kinds : k.byte.val = stored[n + 1]
      <4> SUFFICES ASSUME NEW k \in kinds PROVE k.byte.val = stored[n + 1]
          OBVIOUS
      <4>1. PICK h \in Decodable(window) : k = [name |-> h.name, byte |-> window[h.first]]
        BY DEF fields
      <4>2. h.name = "Type Of Fault" BY <4>1
      <4>3. h \in fecu.fields BY <2>3
      <4>4. h.first = 3 BY <1>10, <4>2, <4>3
      <4>5. window[h.first].val = stored[n + 1] BY <2>3, <4>4
      <4> QED BY <4>1, <4>5
    <3>6. stored[n + 1] = 0 \/ stored[n + 1] = 1
      <4>1. n + 1 \in 1..Len(stored) BY <1>4, <2>1
      <4>2. stored[n + 1] \in {0, 1} BY <1>2, <4>1
      <4> QED BY <4>2
    <3>7. ASSUME x.name = "Standard Fault" \/ x.name = "Specific Fault" PROVE kinds # {}
      <4>1. g.name = x.name /\ g \in fecu.fields /\ g.first =< Len(window) BY <2>3, <3>3
      <4>2. PICK k \in fecu.fields : k.name = "Type Of Fault" BY <1>10, <3>7, <4>1
      <4>3. k.first = 3 /\ g.first >= 3 /\ g.first \in Nat BY <1>9, <1>10, <4>1, <4>2
      <4>4. Len(window) \in Nat
        <5>1. bytes \in Seq(HeldCells) BY <1>2 DEF BytesInv
        <5>2. n * fecu.stride \in Nat BY <1>3, <1>4
        <5> QED BY <5>1, <5>2 DEF window, Window
      <4>5. k \in Decodable(window) BY <4>1, <4>3, <4>4 DEF Decodable
      <4> DEFINE y == [name |-> k.name, byte |-> window[k.first]]
      <4>6. y \in fields BY <4>5 DEF fields
      <4>7. y.name = "Type Of Fault" BY <4>2
      <4>8. y \in kinds BY <4>6, <4>7
      <4> QED BY <4>8
    <3>8. x.name = "Standard Fault" => stored[n + 1] = 0
      <4> SUFFICES ASSUME x.name = "Standard Fault" PROVE stored[n + 1] = 0
          OBVIOUS
      <4>1. kinds # {} BY <3>7
      <4> HIDE DEF kinds
      <4>2. x.name # drop BY <3>1, <4>1
      <4>3. \E f \in kinds : f.byte.val = 0 BY <4>2
      <4> QED BY <3>5, <4>3
    <3>9. x.name = "Specific Fault" => stored[n + 1] = 1
      <4> SUFFICES ASSUME x.name = "Specific Fault" PROVE stored[n + 1] = 1
          OBVIOUS
      <4>1. kinds # {} BY <3>7
      <4> HIDE DEF kinds
      <4>2. x.name # drop BY <3>1, <4>1
      <4>3. ~ \E f \in kinds : f.byte.val = 0 BY <4>2
      <4> QED BY <3>5, <3>6, <4>1, <4>3
    <3> QED BY <3>4, <3>8, <3>9 DEF Shown
  <2>5. RecordsInv'
    <3>1. PICK S : records \in Seq(S) BY <1>2 DEF RecordsInv
    <3> DEFINE R == SelectFaultKind(fields)
    <3> HIDE DEF R
    <3>2. records' = Append(records, R) BY <2>1 DEF R
    <3>3. records' \in Seq(S \cup {R}) /\ Len(records') = n + 1
      <4>1. records \in Seq(S \cup {R}) BY <3>1
      <4> QED BY <3>2, <4>1
    <3>4. \A m \in DOMAIN records' : (m = n + 1 /\ records'[m] = R) \/ (m \in DOMAIN records /\ records'[m] = records[m])
      BY <3>1, <3>2
    <3>5. \A m \in DOMAIN records' : \A f \in records'[m] : Shown(m, f) BY <1>4, <2>4, <3>4 DEF R
    <3>6. \A m, f : Shown(m, f)' <=> Shown(m, f) BY <1>1 DEF Shown
    <3>7. Len(records') =< declared' /\ (fecu'.stride = 0 => Len(records') =< 1)
      BY <1>1, <1>3, <1>4, <2>1, <3>3
    <3> QED BY <3>3, <3>5, <3>6, <3>7 DEF RecordsInv
  <2>6. fecu'.read # "none" BY <1>1, <1>2
  <2> QED BY <1>5, <1>6, <2>1, <2>5, <2>6 DEF ReadingInv, FaultsAsStored
<1> QED BY <1>7, <1>8

\* Nothing has been decoded before the replies are there.
LEMMA NoRecords ==
  ASSUME records = <<>>, declared \in Nat
  PROVE  RecordsInv
<1>1. Len(records) = 0 /\ DOMAIN records = {} /\ records \in Seq({}) OBVIOUS
<1> QED BY <1>1 DEF RecordsInv

\* The ECU answers, refuses or is silent.
LEMMA FirstReplyInv ==
  ASSUME ReadingInv, NEW o, NEW chunk \in Chunks, FirstReply(o, chunk)
  PROVE  ReadingInv'
<1> DEFINE text == TextOf(flink, o)
           reply == Header(Len(stored)) \o chunk
<1>1. /\ fstep = "asking" /\ UNCHANGED <<fecu, stored, records>>
      /\ \/ fstep' = "done" /\ outcome' = "rejected"
         \/ fstep' = "done" /\ outcome' = "none"
         \/ /\ bytes' = reply /\ declared' = Len(stored) /\ given' = Len(chunk)
            /\ fstep' = "continuing" \/ fstep' = "decoding"
  <2> HIDE DEF text, reply
  <2>1. /\ fstep = "asking" /\ UNCHANGED <<fecu, stored, records>>
        /\ CASE Rejected(text) -> outcome' = "rejected" /\ fstep' = "done" /\ UNCHANGED <<bytes, declared, given>>
            [] Empty(text) -> outcome' = "none" /\ fstep' = "done" /\ UNCHANGED <<bytes, declared, given>>
            [] text = "hex" /\ Len(reply) <= 2 -> outcome' = "none" /\ fstep' = "done" /\ UNCHANGED <<bytes, declared, given>>
            [] OTHER -> /\ bytes' = reply
                        /\ declared' = Len(stored)
                        /\ given' = Len(chunk)
                        /\ fstep' = IF fecu.more THEN "continuing" ELSE "decoding"
                        /\ UNCHANGED outcome
    BY Zenon DEF FirstReply, text, reply
  <2> DEFINE short == text = "hex" /\ Len(reply) <= 2
  <2> HIDE DEF short
  <2>2. CASE Rejected(text) \/ Empty(text) \/ short
    BY <2>1, <2>2 DEF short
  <2>3. CASE ~ (Rejected(text) \/ Empty(text) \/ short)
    BY <2>1, <2>3 DEF short
  <2> QED BY <2>1, <2>2, <2>3
<1>2. fecu \in Ecus /\ stored \in Seq({0, 1}) /\ fecu.read # "none" /\ given = 0 /\ records = <<>>
  BY <1>1 DEF ReadingInv, EcuInv
<1>3. EcuInv' BY <1>1, <1>2 DEF EcuInv
<1>4. CASE fstep' = "done" /\ (outcome' = "rejected" \/ outcome' = "none")
  BY <1>3, <1>4 DEF ReadingInv, FaultsAsStored
<1>5. CASE /\ bytes' = reply /\ declared' = Len(stored) /\ given' = Len(chunk)
           /\ fstep' = "continuing" \/ fstep' = "decoding"
  <2>1. fecu.size \in Nat \ {0} BY <1>2, FieldsAssumption
  <2>2. BytesInv' BY <1>1, <1>2, <1>5, <2>1, FirstBytes
  <2>3. declared' \in Nat /\ records' = <<>> BY <1>1, <1>2, <1>5
  <2>4. RecordsInv'
    <3>1. Len(records') = 0 /\ DOMAIN records' = {} /\ records' \in Seq({}) BY <2>3
    <3> QED BY <2>3, <3>1 DEF RecordsInv
  <2> QED BY <1>1, <1>2, <1>3, <1>5, <2>2, <2>3, <2>4 DEF ReadingInv, FaultsAsStored
<1> QED BY <1>1, <1>4, <1>5

\* It continues, or has nothing more.
LEMMA MoreReplyInv ==
  ASSUME ReadingInv, NEW o, NEW chunk \in Chunks, MoreReply(o, chunk)
  PROVE  ReadingInv'
<1> DEFINE reply == Header(Len(stored)) \o chunk
<1>1. /\ fstep = "continuing" /\ UNCHANGED <<fecu, stored, declared, records>>
      /\ \/ fstep' = "decoding" /\ UNCHANGED <<bytes, given>>
         \/ /\ bytes' = Appended(reply)
            /\ given' = IF given = Len(Held) THEN given ELSE given + Len(chunk)
            /\ fstep' = "continuing"
  <2> HIDE DEF reply
  <2> QED BY Zenon DEF MoreReply, reply
<1>2. fecu \in Ecus /\ stored \in Seq({0, 1}) /\ fecu.read # "none" /\ BytesInv /\ records = <<>>
  BY <1>1 DEF ReadingInv, EcuInv
<1>3. EcuInv' BY <1>1, <1>2 DEF EcuInv
<1>4. RecordsInv'
  <2>1. declared' \in Nat /\ records' = <<>> BY <1>1, <1>2 DEF BytesInv
  <2>2. Len(records') = 0 /\ DOMAIN records' = {} /\ records' \in Seq({}) BY <2>1
  <2> QED BY <2>1, <2>2 DEF RecordsInv
<1>5. BytesInv'
  <2>1. CASE UNCHANGED <<bytes, given>>
    <3>1. Held' = Held BY <1>1 DEF Held
    <3> QED BY <1>1, <1>2, <2>1, <3>1 DEF BytesInv
  <2>2. CASE /\ bytes' = Appended(reply)
             /\ given' = IF given = Len(Held) THEN given ELSE given + Len(chunk)
    <3>1. fecu.size \in Nat \ {0} BY <1>2, FieldsAssumption
    <3>2. given \in 0..Len(Held) BY <1>2 DEF BytesInv
    <3>3. chunk \in Seq(HeldCells) BY <1>2, <3>1, <3>2, ChunkFacts
    <3> DEFINE h == Header(Len(stored))
    <3>4. h \in Seq(HeldCells) /\ Len(h) = 2 BY <1>2 DEF Header, HeldCells
    <3> HIDE DEF h
    <3>5. SubSeq(h \o chunk, Len(h) + 1, Len(h \o chunk)) = chunk
      <4>1. h \in Seq(HeldCells) /\ chunk \in Seq(HeldCells) BY <3>3, <3>4
      <4> QED BY <4>1, JoinFacts, Zenon
    <3>6. Len(h) + 1 = 3 BY <3>4
    <3>7. SubSeq(reply, 3, Len(reply)) = chunk BY <3>5, <3>6, Zenon DEF h
    <3>8. bytes' = bytes \o chunk BY <2>2, <3>7, Zenon DEF Appended
    <3> QED BY <1>1, <1>2, <2>2, <3>1, <3>8, MoreBytes
  <2> QED BY <1>1, <2>1, <2>2
<1> QED BY <1>1, <1>2, <1>3, <1>4, <1>5 DEF ReadingInv, FaultsAsStored

\* A read or an erase begins; an erase ends, and what is left is read.
LEMMA BeginsInv ==
  ASSUME ReadingInv, NEW e \in Ecus, NEW link, NEW faults \in FaultLists,
         ReadBegin(e, link, faults) \/ ClearBegin(e, link, faults)
  PROVE  ReadingInv'
<1>1. faults \in Seq({0, 1})
  <2>1. PICK k \in 0..MostRecords : faults \in [1..k -> {0, 1}] BY DEF FaultLists
  <2>2. k \in Nat BY MostAssumption
  <2> QED BY <2>1, <2>2
<1>2. CASE ReadBegin(e, link, faults)
  BY <1>1, <1>2 DEF ReadBegin, SupportsDtcRead, ReadingInv, EcuInv, FaultsAsStored
<1>3. CASE ClearBegin(e, link, faults)
  BY <1>1, <1>3 DEF ClearBegin, ReadingInv, EcuInv, FaultsAsStored
<1> QED BY <1>2, <1>3

\* Steps that decode nothing.
LEMMA EraseStepsInv ==
  ASSUME ReadingInv, EnoughAsked \/ ReadBack \/ EraseThrows \/ \E o \in Outcomes : EraseReply(o)
  PROVE  ReadingInv'
<1>1. CASE EnoughAsked
  <2>1. /\ fstep = "continuing" /\ fstep' = "decoding"
        /\ UNCHANGED <<fecu, stored, given, bytes, declared, records>>
    BY <1>1 DEF EnoughAsked
  <2>2. BytesInv /\ records = <<>> /\ EcuInv /\ fecu.read # "none" BY <2>1 DEF ReadingInv
  <2>3. Held' = Held BY <2>1 DEF Held
  <2>4. BytesInv' BY <2>1, <2>2, <2>3 DEF BytesInv
  <2>5. declared \in Nat BY <2>2 DEF BytesInv, EcuInv, ReadingInv
  <2>6. RecordsInv BY <2>2, <2>5, NoRecords
  <2>7. RecordsInv' BY <2>1, <2>6 DEF RecordsInv, Shown
  <2> QED BY <2>1, <2>2, <2>4, <2>7 DEF ReadingInv, EcuInv, FaultsAsStored
<1>2. CASE ReadBack
  BY <1>2 DEF ReadBack, SupportsDtcRead, ReadingInv, EcuInv, FaultsAsStored
<1>3. CASE EraseThrows
  BY <1>3 DEF EraseThrows, ReadingInv, EcuInv, FaultsAsStored
<1>4. ASSUME NEW o \in Outcomes, EraseReply(o) PROVE ReadingInv'
  <2>1. /\ fstep = "erasing" /\ fstep' = "done" /\ outcome' # "ok" /\ UNCHANGED fecu
        /\ stored' = <<>> \/ stored' = stored
    BY <1>4 DEF EraseReply
  <2>2. EcuInv'
    <3>1. fecu \in Ecus /\ stored \in Seq({0, 1}) BY <2>1 DEF ReadingInv, EcuInv
    <3>2. <<>> \in Seq({0, 1}) OBVIOUS
    <3> QED BY <2>1, <3>1, <3>2 DEF EcuInv
  <2> QED BY <2>1, <2>2 DEF ReadingInv, FaultsAsStored
<1> QED BY <1>1, <1>2, <1>3, <1>4

\* Nothing happens to the faults.
LEMMA FaultsStutter == ReadingInv /\ UNCHANGED faultVars => ReadingInv'
<1> SUFFICES ASSUME ReadingInv, UNCHANGED faultVars PROVE ReadingInv'
    OBVIOUS
<1>1. UNCHANGED <<fstep, fecu, stored, given, bytes, declared, records, outcome>> BY DEF faultVars
<1>2. Held' = Held BY <1>1 DEF Held
<1>3. EcuInv' /\ FaultsAsStored' BY <1>1, <1>2 DEF ReadingInv, EcuInv, FaultsAsStored
<1>4. BytesInv => BytesInv' BY <1>1, <1>2 DEF BytesInv
<1>5. RecordsInv => RecordsInv' BY <1>1 DEF RecordsInv, Shown
<1> QED BY <1>1, <1>3, <1>4, <1>5 DEF ReadingInv

\* Any step of a read or an erase.
LEMMA ReadingNext == ReadingInv /\ FaultNext => ReadingInv'
<1> SUFFICES ASSUME ReadingInv, FaultNext PROVE ReadingInv'
    OBVIOUS
<1>1. CASE \E e \in Ecus, link \in Links, faults \in FaultLists :
             /\ link = "demo" => SimulatedFaults(e, faults)
             /\ ReadBegin(e, link, faults) \/ ClearBegin(e, link, faults)
  BY <1>1, BeginsInv
<1>2. CASE \E o \in Outcomes : \E chunk \in Chunks : FirstReply(o, chunk) \/ MoreReply(o, chunk)
  BY <1>2, FirstReplyInv, MoreReplyInv
<1>3. CASE EnoughAsked \/ ReadBack \/ EraseThrows \/ \E o \in Outcomes : EraseReply(o)
  BY <1>3, EraseStepsInv
<1>4. CASE DecodeRecord BY <1>4, DecodesInv
<1> QED BY <1>1, <1>2, <1>3, <1>4 DEF FaultNext, FaultStep

\* The faults shown are the faults stored: for any size of a record and number of faults, however the
\* ECU divides them among its replies and however often it starts over (dtc.ts:342-395).
THEOREM FaultsAreAsStored == Spec => []FaultsAsStored
<1>1. Init => ReadingInv
  BY DEF Init, FaultInit, ReadingInv, EcuInv, FaultsAsStored
<1>2. ReadingInv /\ [Next]_vars => ReadingInv'
  <2>1. Next => FaultNext \/ UNCHANGED faultVars BY DEF Next, Faults, Sweep, Plugin
  <2>2. UNCHANGED vars => UNCHANGED faultVars BY DEF vars
  <2> QED BY <2>1, <2>2, ReadingNext, FaultsStutter
<1>3. ReadingInv => FaultsAsStored BY DEF ReadingInv
<1> QED BY <1>1, <1>2, <1>3, PTL DEF Spec

-----------------------------------------------------------------------------
(* Recognising the modules of the vehicle. *)

\* The naturals are well founded, so a finite set of them has a greatest member.
LEMMA Least ==
  ASSUME NEW T \in SUBSET Nat, T # {}
  PROVE  \E x \in T : \A y \in T : x =< y
<1>1. PICK x \in T : \A y \in T : ~ (<<y, x>> \in OpToRel(<, Nat))
  BY NatLessThanWellFounded, WFMin
<1>2. \A y \in T : ~ (y < x)
  BY <1>1 DEF OpToRel
<1> QED BY <1>2

\* ... for what an identity block keeps of a text.
LEMMA Greatest ==
  ASSUME NEW n \in Nat, NEW T \in SUBSET (1..n), T # {}
  PROVE  Max(T) \in T /\ \A y \in T : y =< Max(T)
<1> DEFINE U == {n - y : y \in T}
<1>1. U \in SUBSET Nat /\ U # {}
  <2>1. \A y \in T : n - y \in Nat OBVIOUS
  <2> QED BY <2>1
<1>2. PICK x \in U : \A y \in U : x =< y BY <1>1, Least
<1>3. PICK m \in T : x = n - m OBVIOUS
<1>4. \A y \in T : m >= y
  <2> TAKE y \in T
  <2>1. n - y \in U OBVIOUS
  <2> QED BY <1>2, <1>3, <2>1
<1> QED BY <1>4, Zenon DEF Max

\* What the catalogue has of a supplier survives the reading of its bytes.
LEMMA SliceKeeps ==
  ASSUME NEW read \in Seq(STRING), NEW e \in Seq(STRING), Len(e) =< Len(read),
         e # <<>> => Last(e) # "?",
         \A i \in DOMAIN e : e[i] = IF Printable(read[i]) THEN read[i] ELSE "?"
  PROVE  IsPrefix(e, SliceAscii(read))
<1> DEFINE text == [i \in DOMAIN read |-> IF Printable(read[i]) THEN read[i] ELSE "?"]
           kept == {i \in DOMAIN text : text[i] # "?"}
           m == Len(e)
           n == Len(read)
           Texts == STRING \cup {"?"}
<1>1. m \in Nat /\ n \in Nat /\ m =< n /\ DOMAIN read = 1..n /\ DOMAIN e = 1..m OBVIOUS
<1>2. text \in Seq(Texts) /\ Len(text) = n /\ DOMAIN text = 1..n
  <2>1. \A i \in 1..n : (IF Printable(read[i]) THEN read[i] ELSE "?") \in Texts
    <3>1. \A i \in 1..n : read[i] \in STRING BY <1>1
    <3>2. STRING \subseteq Texts /\ "?" \in Texts OBVIOUS
    <3> QED BY <3>1, <3>2, Zenon
  <2> QED BY <1>1, <2>1
<1>3. \A i \in 1..m : e[i] = text[i] BY <1>1
<1>4. SliceAscii(read) = IF kept = {} THEN <<>> ELSE SubSeq(text, 1, Max(kept)) BY Zenon DEF SliceAscii
<1>5. kept \in SUBSET (1..n) BY <1>2
<1> HIDE DEF text, Texts
<1>6. CASE m = 0
  <2>1. SliceAscii(read) \in Seq(Texts)
    <3>1. CASE kept = {} BY <1>4, <3>1
    <3>2. CASE kept # {}
      <4>1. Max(kept) \in kept BY <1>1, <1>5, <3>2, Greatest
      <4> HIDE DEF kept
      <4>3. \A k \in 1..n : SubSeq(text, 1, k) \in Seq(Texts) BY <1>1, <1>2
      <4>2. SubSeq(text, 1, Max(kept)) \in Seq(Texts) BY <1>5, <4>1, <4>3
      <4> QED BY <1>4, <3>2, <4>2
    <3> QED BY <3>1, <3>2
  <2>2. \A t \in Seq(Texts) : Len(t) \in Nat /\ SubSeq(t, 1, 0) = <<>> OBVIOUS
  <2> QED BY <1>6, <2>1, <2>2 DEF IsPrefix
<1>7. CASE m # 0
  <2>1. e # <<>> /\ Last(e) = e[m] BY <1>7 DEF Last
  <2>2. m \in kept BY <1>1, <1>2, <1>3, <1>7, <2>1
  <2>3. Max(kept) \in kept /\ m =< Max(kept) BY <1>1, <1>5, <2>2, Greatest
  <2>4. kept # {} BY <2>2
  <2> DEFINE k == Max(kept)
  <2>5. k \in 1..n /\ m =< k BY <1>5, <2>3
  <2>6. SliceAscii(read) = SubSeq(text, 1, k) BY <1>4, <2>4
  <2> HIDE DEF k, kept
  <2>7. SubSeq(text, 1, k) \in Seq(Texts) /\ Len(SubSeq(text, 1, k)) = k
        /\ \A i \in 1..m : SubSeq(text, 1, k)[i] = text[i]
    BY <1>1, <1>2, <2>5
  <2> DEFINE t == SubSeq(text, 1, k)
  <2>8. t \in Seq(Texts) /\ Len(t) = k /\ \A i \in 1..m : t[i] = e[i] BY <1>3, <2>7
  <2> HIDE DEF t
  <2>9. SubSeq(e, 1, m) = SubSeq(t, 1, m)
    <3>1. \A i \in 1..m : e[i] = t[i] BY <2>8
    <3> QED BY <1>1, <2>5, <2>8, <3>1
  <2> QED BY <2>5, <2>6, <2>8, <2>9 DEF IsPrefix, t
<1> QED BY <1>6, <1>7

\* So a known ECU matches an entry of the catalogue in full.
LEMMA KnownMatches ==
  ASSUME NEW address, NEW scanned, Known(address, scanned)
  PROVE  MatchAutoIdent(address, Reported(Identities[address], "local-id"), scanned) # {}
<1> DEFINE id == Identities[address]
           r == Reported(id, "local-id")
<1>1. PICK s \in At(address, scanned) : \E e \in Range(Catalogue[s].autoidents) :
        /\ e.diag = id.diag /\ IsPrefix(e.version, id.version) /\ IsPrefix(e.soft, id.soft)
        /\ e.diag # NoVersion /\ Len(e.supplier) <= Len(id.supplier)
        /\ e.supplier # <<>> => Last(e.supplier) # "?"
        /\ \A i \in DOMAIN e.supplier :
              e.supplier[i] = IF Printable(id.supplier[i]) THEN id.supplier[i] ELSE "?"
  BY DEF Known
<1>2. PICK e \in Range(Catalogue[s].autoidents) :
        /\ e.diag = id.diag /\ IsPrefix(e.version, id.version) /\ IsPrefix(e.soft, id.soft)
        /\ e.diag # NoVersion /\ Len(e.supplier) <= Len(id.supplier)
        /\ e.supplier # <<>> => Last(e.supplier) # "?"
        /\ \A i \in DOMAIN e.supplier :
              e.supplier[i] = IF Printable(id.supplier[i]) THEN id.supplier[i] ELSE "?"
  BY <1>1
<1>3. s \in Slugs /\ Catalogue[s].address = address BY DEF At
<1>4. /\ id = [diag |-> id.diag, supplier |-> id.supplier, soft |-> id.soft, version |-> id.version]
      /\ id.supplier \in Seq(STRING) /\ e.supplier \in Seq(STRING)
  BY <1>3, TextsAssumption
<1> HIDE DEF id
<1>5. r = [id EXCEPT !.supplier = SliceAscii(@)] BY Zenon DEF Reported
<1>6. r = [diag |-> id.diag, supplier |-> SliceAscii(id.supplier), soft |-> id.soft, version |-> id.version]
  BY <1>4, <1>5
<1>7. r.diag = id.diag /\ r.supplier = SliceAscii(id.supplier) /\ r.soft = id.soft /\ r.version = id.version
  BY <1>6
<1> HIDE DEF r
<1>8. IsPrefix(e.supplier, SliceAscii(id.supplier)) BY <1>2, <1>4, SliceKeeps
<1>9. CheckExact(e, r) BY <1>2, <1>7, <1>8 DEF CheckExact
<1> DEFINE exact == {[slug |-> c, delta |-> 0] : c \in {d \in At(address, scanned) :
                        \E f \in Range(Catalogue[d].autoidents) : CheckExact(f, r)}}
<1>10. [slug |-> s, delta |-> 0] \in exact BY <1>9
<1>11. exact # {} BY <1>10
<1>12. MatchAutoIdent(address, r, scanned) = exact BY <1>11, Zenon DEF MatchAutoIdent
<1> QED BY <1>11, <1>12 DEF r, id

\* A module that was asked for its local identifiers is recognised if the catalogue has a match.
ByIdentity(x) ==
  x.via = "local-id" /\ MatchAutoIdent(x.address, Reported(Identities[x.address], "local-id"), x.bus) # {}
    => x.outcome = "identified"

\* Of every result so far.
RecognitionInv == (\E S : results \in Seq(S)) /\ \A n \in DOMAIN results : ByIdentity(results[n])

\* One more result.
LEMMA Reports ==
  ASSUME RecognitionInv, NEW outcome0, NEW via, Report(outcome0, via),
         via = "local-id" => outcome0 = IF MatchAutoIdent(Address, Reported(Identities[Address], via), bus) # {}
                                        THEN "identified" ELSE "unknown-ecu"
  PROVE  RecognitionInv'
<1> DEFINE x == [bus |-> bus, address |-> Address, outcome |-> outcome0, via |-> via]
<1>1. results' = Append(results, x) BY DEF Report
<1>2. x.bus = bus /\ x.address = Address /\ x.outcome = outcome0 /\ x.via = via OBVIOUS
<1>3. ByIdentity(x) BY <1>2 DEF ByIdentity
<1> HIDE DEF x
<1>4. PICK S : results \in Seq(S) BY DEF RecognitionInv
<1>5. results' \in Seq(S \cup {x})
  <2>1. results \in Seq(S \cup {x}) BY <1>4
  <2> QED BY <1>1, <2>1
<1>6. \A n \in DOMAIN results' : results'[n] = x \/ (n \in DOMAIN results /\ results'[n] = results[n])
  BY <1>1, <1>4
<1>7. \A n \in DOMAIN results' : ByIdentity(results'[n]) BY <1>3, <1>6 DEF RecognitionInv
<1>8. (\A n \in DOMAIN results : ByIdentity(results[n]))' = \A n \in DOMAIN results' : ByIdentity(results'[n])
  BY DEF ByIdentity
<1> QED BY <1>5, <1>7, <1>8 DEF RecognitionInv

\* A step that reports nothing.
LEMMA NothingReported == RecognitionInv /\ UNCHANGED results => RecognitionInv'
BY DEF RecognitionInv, ByIdentity

\* A match is sought by what the module said.
LEMMA Identifies == ASSUME RecognitionInv, NEW via, Identify(via) PROVE RecognitionInv'
<1> DEFINE matches == MatchAutoIdent(Address, Reported(Identities[Address], via), bus)
           outcome0 == IF matches # {} THEN "identified" ELSE "unknown-ecu"
<1>1. Report(outcome0, via) BY Zenon DEF Identify
<1>2. outcome0 = IF MatchAutoIdent(Address, Reported(Identities[Address], via), bus) # {}
                 THEN "identified" ELSE "unknown-ecu" OBVIOUS
<1> HIDE DEF outcome0
<1> QED BY <1>1, <1>2, Reports

\* Silent, or without identifiers.
LEMMA OtherReports == ASSUME RecognitionInv, NEW o, Report(o, "none") PROVE RecognitionInv'
BY Reports

\* Any step of a sweep.
LEMMA RecognitionNext == RecognitionInv /\ ScanNext => RecognitionInv'
<1> SUFFICES ASSUME RecognitionInv, ScanNext PROVE RecognitionInv'
    OBVIOUS
<1>1. Silent => RecognitionInv' BY OtherReports DEF Silent
<1>2. CASE NextAddress
  <2>1. UNCHANGED results \/ Report("unmapped", "none") BY <1>2, Zenon DEF NextAddress
  <2> QED BY <2>1, NothingReported, OtherReports
<1>3. CASE BusDone \/ LinkLost \/ Abort \/ \E p \in Projects : BeginScan(p)
  <2>1. UNCHANGED results BY <1>3 DEF BusDone, LinkLost, Abort, BeginScan
  <2> QED BY <2>1, NothingReported
<1>4. ASSUME NEW o \in Outcomes, ClosesUds(o) \/ ClosesLocal(o) PROVE RecognitionInv'
  <2>1. UNCHANGED results \/ Identify("uds") \/ Identify("local-id") \/ Silent
    BY <1>4, Zenon DEF ClosesUds, ClosesLocal
  <2> QED BY <1>1, <2>1, NothingReported, Identifies
<1>5. ASSUME NEW o \in Outcomes, NEW readable \in BOOLEAN,
             AsksUds(o, readable) \/ AsksLocal(o, readable) \/ AsksKline(o, readable)
      PROVE  RecognitionInv'
  <2>1. AsksUds(o, readable) \/ AsksLocal(o, readable) => UNCHANGED results \/ Silent
    <3>1. ASSUME NEW step, NEW reads, NEW closing, Asks(step, reads, closing, o, readable)
          PROVE  UNCHANGED results \/ Silent
      BY <3>1, Zenon DEF Asks, GivesUp, GivesUpWithoutClose
    <3> QED BY <3>1, Zenon DEF AsksUds, AsksLocal
  <2>2. AsksKline(o, readable) => UNCHANGED results \/ Silent \/ Identify("local-id")
    BY Zenon DEF AsksKline
  <2> QED BY <1>1, <1>5, <2>1, <2>2, NothingReported, Identifies
<1>6. ASSUME NEW initialised \in BOOLEAN, InitsKline(initialised) PROVE RecognitionInv'
  <2>1. UNCHANGED results \/ Silent BY <1>6, Zenon DEF InitsKline
  <2> QED BY <1>1, <2>1, NothingReported
<1> QED BY <1>2, <1>3, <1>4, <1>5, <1>6 DEF ScanNext, ScanStep

\* The divergence from the original at sliceAscii does what it is for (scan.ts:137): with any catalogue
\* and any vehicle, an ECU whose identity the catalogue has is never reported as unknown.
THEOREM KnownAreRecognised == Spec => []KnownEcusRecognised
<1>1. Init => RecognitionInv
  <2> SUFFICES ASSUME ScanInit PROVE RecognitionInv
    BY DEF Init
  <2>1. results = <<>> BY DEF ScanInit
  <2>2. results \in Seq({}) /\ DOMAIN results = {} BY <2>1
  <2> QED BY <2>2 DEF RecognitionInv
<1>2. RecognitionInv /\ [Next]_vars => RecognitionInv'
  <2>1. Next => ScanNext \/ UNCHANGED results BY DEF Next, Faults, Sweep, Plugin, scanVars
  <2>2. UNCHANGED vars => UNCHANGED results BY DEF vars, scanVars
  <2> QED BY <2>1, <2>2, RecognitionNext, NothingReported
<1>3. RecognitionInv => KnownEcusRecognised
  BY KnownMatches DEF RecognitionInv, ByIdentity, KnownEcusRecognised
<1> QED BY <1>1, <1>2, <1>3, PTL DEF Spec
=============================================================================
