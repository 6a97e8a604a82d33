---------------------------- MODULE PluginScripts ----------------------------
(***************************************************************************)
(* The procedures of packages/plugins, each the sequence of commands its   *)
(* assembly/index.ts emits. A plugin is a state machine: one command, then *)
(* the host's result, then the next. A step says what it needs of the      *)
(* result before it: nothing, success, an answer of the operator, or a     *)
(* VIN; what it does not get it reports as its failure.                    *)
(***************************************************************************)
EXTENDS Sequences

Step(op, request, needs) == [op |-> op, request |-> request, needs |-> needs]

Session(request) == <<Step("session", request, "nothing")>>
Read(request)    == <<Step("read", request, "nothing")>>
Write(request)   == <<Step("write", request, "nothing")>>
Log              == <<Step("log", "", "nothing")>>
Ask              == <<Step("ask", "", "nothing")>>

\* The step that reports success, if the command before it succeeded.
EndsIf(needs) == <<Step("done", "", needs)>>

\* The same command, given what it needs of the result before it.
If(needs, steps) == <<[steps[1] EXCEPT !.needs = needs]>>

\* Sessions, a read, a line, the write, and its verdict: what most of them are.
Resets(sessions, read, write) == sessions \o Read(read) \o Log \o Write(write) \o EndsIf("ok")

ab90AirbagReset     == Resets(Session("diagnostic"), "state", "reset crash")
megane3AirbagReset  == Resets(Session("supplier") \o Session("extended"), "state before crash", "reset crash")
rsat4AirbagReset    == Resets(Session("extended"), "state", "reset crash")
laguna2UchReset     == Resets(Session("Etude") \o Session("APV"), "immobiliser", "erase")
laguna3UchReset     == Resets(Session("diagnostic"), "learning status", "reserved")
megane2UchReset     == Resets(Session("Etude") \o Session("diagnostic"), "badges bits", "erase EEPROM")
megane3UchReset     == Resets(Session("diagnostic"), "learning status", "reserved")
megane3EpsReset     == Resets(Session("C0") \o Session("FA"), "dongle state", "blank dongle")
clio4EpsReset       == Resets(Session("extended") \o Session("supplier"), "dongle state", "blank dongle")

clio3EpsReset == Read("system frame") \o Log \o Session("FB") \o Write("erase dongle") \o EndsIf("ok")

\* The four writes one after the other, whatever became of them.
zoeUnchecked ==
    Session("default") \o Read("low") \o Read("mid") \o Read("high") \o Read("timer") \o Log
    \o Session("extended") \o Write("low = 0") \o Write("mid = 0") \o Write("high = 0")
    \o Write("timer = 0") \o EndsIf("ok")

\* The counters are read and reported, then written in a session of their own, each write after
\* the one before it was accepted.
zoeWaterpumpReset ==
    Session("default") \o Read("low") \o Read("mid") \o Read("high") \o Read("timer") \o Log
    \o Session("extended") \o Write("low = 0") \o If("ok", Write("mid = 0")) \o If("ok", Write("high = 0"))
    \o If("ok", Write("timer = 0")) \o EndsIf("ok")

\* The VIN goes out with its checksum, in one write.
clio3EpsWriteVin ==
    Ask \o If("vin", Session("diagnostic")) \o Write("VIN") \o EndsIf("ok")

\* The calculator: a VIN in, its checksum out.
vinCrc == Ask \o EndsIf("answer")

\* After-sales mode is entered with a code, a card learned, and the mode left by validating or by
\* abandoning what was learned.
megane2CardProgramming ==
    Session("diagnostic") \o Read("badges bits") \o Log
    \o Ask \o If("answer", Write("enter after-sales mode")) \o If("ok", Log)
    \o Ask \o If("ok", Write("learn")) \o If("ok", Read("badges bytes")) \o Log
    \o Ask \o If("ok", <<Step("write", "validate or abandon", "ok")>>) \o EndsIf("ok")

\* The plugins by name, and what their manifests declare.
Scripts == [
    ab90 |-> ab90AirbagReset, megane3Airbag |-> megane3AirbagReset, rsat4 |-> rsat4AirbagReset,
    laguna2 |-> laguna2UchReset, laguna3 |-> laguna3UchReset, megane2Uch |-> megane2UchReset,
    megane3Uch |-> megane3UchReset, megane3Eps |-> megane3EpsReset, clio4Eps |-> clio4EpsReset,
    clio3Eps |-> clio3EpsReset, zoe |-> zoeWaterpumpReset, writeVin |-> clio3EpsWriteVin,
    vinCrc |-> vinCrc, card |-> megane2CardProgramming]

Declares(name) ==
    IF name = "vinCrc" THEN {"ask"}
    ELSE {"session", "read", "write"} \cup (IF name \in {"writeVin", "card"} THEN {"ask"} ELSE {})

\* The commands that need a capability name it as they are named themselves; log and done need none.
RequiredCapability(op) == IF op \in {"log", "done"} THEN {} ELSE {op}
==============================================================================
