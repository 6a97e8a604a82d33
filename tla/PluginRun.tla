------------------------------ MODULE PluginRun ------------------------------
(***************************************************************************)
(* Running a plugin: the loop of runPlugin (packages/session/src/          *)
(* plugin.ts) and the host it runs against (hostFor of                     *)
(* apps/web/src/lib/plugins.ts), with the response cache the host's        *)
(* requests go through, while the operator may switch writing off, hide    *)
(* the tab or decline what he is asked.                                    *)
(***************************************************************************)
EXTENDS Integers, PluginScripts, LinkTexts

CONSTANTS
    Plugins,        \* the plugins that may be run: names of scripts, and of rogues
    Rogues,         \* [names -> steps]: plugins that start over and never say done
    MaxPluginSteps, \* the host's step cap
    MaxRuns         \* runs one after the other

ASSUME PluginsAssumption == Plugins \subseteq DOMAIN Scripts \cup DOMAIN Rogues

VARIABLES
    pstep,      \* idle, emitting, asking, gating, sending, resuming, done
    plugin,     \* the plugin being run
    plink,      \* the link of the run
    at,         \* the plugin's own position in its script
    taken,      \* commands performed, by the host's count
    result,     \* the last result: [ok, kind]
    confirmed,  \* the operator has let this run write
    enabled,    \* the write toggle
    visible,    \* the tab is in front
    cached,     \* the driver's response cache may hold answers of an earlier run
    refused,    \* a write of this run was not reported to the plugin as a success
    verdict,    \* the outcome shown
    runs

pluginVars == <<pstep, plugin, plink, at, taken, result, confirmed, enabled, visible, cached, refused, verdict, runs>>

NoResult == [ok |-> FALSE, kind |-> "none"]

PluginInit ==
    /\ pstep = "idle" /\ plugin = "none" /\ plink = "can" /\ at = 1 /\ taken = 0 /\ result = NoResult
    /\ confirmed = FALSE /\ enabled = FALSE /\ visible = TRUE /\ cached = FALSE /\ refused = FALSE
    /\ verdict = "none" /\ runs = 0

------------------------------------------------------------------------------
(* The plugin. *)

\* Whether a result is what a step needs: a refused command, an empty answer or one that is not a
\* VIN is not.
Satisfies(needs) ==
    CASE needs = "nothing" -> TRUE
      [] needs = "ok" -> result.ok
      [] needs = "answer" -> result.ok /\ result.kind # "blank"
      [] needs = "vin" -> result.ok /\ result.kind = "vin"

\* The command the plugin emits next: its own, or a done with the status failed.
Command ==
    IF plugin \in DOMAIN Rogues THEN Rogues[plugin][at]
    ELSE IF Satisfies(Scripts[plugin][at].needs) THEN Scripts[plugin][at]
    ELSE Step("done", "failed", "nothing")

\* A rogue declares reading alone.
Declared == IF plugin \in DOMAIN Rogues THEN {"read"} ELSE Declares(plugin)

------------------------------------------------------------------------------
(* The host. *)

Begin(name, link) ==
    /\ pstep = "idle" /\ runs < MaxRuns
    /\ runs' = runs + 1
    /\ plugin' = name /\ plink' = link
    /\ at' = 1 /\ taken' = 0 /\ result' = NoResult /\ confirmed' = FALSE /\ refused' = FALSE
    /\ pstep' = "emitting" /\ verdict' = "running"
    /\ UNCHANGED <<enabled, visible, cached>>

Finish(v) == pstep' = "done" /\ verdict' = v /\ UNCHANGED <<taken, result>>

\* The result of a command goes back to the plugin.
Resume(ok, kind) ==
    /\ result' = [ok |-> ok, kind |-> kind]
    /\ refused' = (refused \/ (Command.op = "write" /\ ~ok))
    /\ pstep' = "resuming"

\* The host counts no command, and trusts the plugin to be done.
CountsNone == taken

\* One more command.
Counts == taken + 1

\* A command is taken from the plugin. A done ends the run; a command its manifest does not declare
\* aborts it; a line is shown; what touches the ECU goes on to the gate or to the link.
Emit ==
    /\ pstep = "emitting"
    /\ IF taken = MaxPluginSteps \/ ~(RequiredCapability(Command.op) \subseteq Declared)
       THEN Finish("aborted") /\ UNCHANGED refused
       ELSE IF Command.op = "done"
       THEN Finish(IF Command.request = "failed" THEN "failed" ELSE "ok") /\ UNCHANGED refused
       ELSE /\ taken' = Counts
            /\ IF Command.op = "log" THEN Resume(TRUE, "line")
               ELSE /\ pstep' = CASE Command.op = "ask" -> "asking"
                                  [] Command.op = "write" -> "gating"
                                  [] OTHER -> "sending"
                    /\ UNCHANGED <<result, refused>>
            /\ UNCHANGED verdict
    /\ UNCHANGED <<plugin, plink, at, confirmed, enabled, visible, cached, runs>>

\* The plugin goes one step further; a rogue starts over.
Resumed ==
    /\ pstep = "resuming"
    /\ at' = IF plugin \in DOMAIN Rogues /\ at = Len(Rogues[plugin]) THEN 1 ELSE at + 1
    /\ pstep' = "emitting"
    /\ UNCHANGED <<plugin, plink, taken, result, confirmed, enabled, visible, cached, refused, verdict, runs>>

\* The plugin fails in its own code.
Traps ==
    /\ pstep = "resuming"
    /\ Finish("aborted")
    /\ UNCHANGED <<plugin, plink, at, confirmed, enabled, visible, cached, refused, runs>>

\* The operator is asked: declined, or an answer.
Answers(kind) ==
    /\ pstep = "asking"
    /\ Resume(kind # "declined", kind)
    /\ UNCHANGED <<plugin, plink, at, taken, confirmed, enabled, visible, cached, verdict, runs>>

\* The gate is asked about until the operator has confirmed.
RefusesOnce == plink # "demo" /\ ~confirmed /\ (~enabled \/ ~visible)

\* writeRefusal, of every write on a vehicle: the toggle is off, or the tab hidden.
Refuses == plink # "demo" /\ (~enabled \/ ~visible)

\* The confirmation is asked for once in a run.
Gate(consents) ==
    /\ pstep = "gating"
    /\ IF Refuses THEN Resume(FALSE, "refused") /\ UNCHANGED confirmed
       ELSE IF ~confirmed /\ ~consents /\ plink # "demo" THEN Resume(FALSE, "declined") /\ UNCHANGED confirmed
       ELSE confirmed' = TRUE /\ pstep' = "sending" /\ UNCHANGED <<result, refused>>
    /\ UNCHANGED <<plugin, plink, at, taken, enabled, visible, cached, verdict, runs>>

\* What the host makes of a reply: a negative response and an empty reply are failures, every other
\* text is handed to the plugin as a success.
Success(text) == ~Rejected(text) /\ text # ""

\* The ECU answers. The simulated link has no cache and answers everything.
Sends(o) ==
    /\ pstep = "sending"
    /\ plink = "demo" => o = "positive"
    /\ Resume(Success(TextOf(plink, o)), "reply")
    /\ UNCHANGED <<plugin, plink, at, taken, confirmed, enabled, visible, cached, verdict, runs>>

\* The driver has an answer to the request, whatever run and ECU it is from, and sends nothing; what
\* was garbled it has not kept.
AnsweredFromCache(o) ==
    /\ pstep = "sending" /\ plink # "demo" /\ cached
    /\ TextOf(plink, o) # "WRONG"
    /\ Resume(Success(TextOf(plink, o)), "cached")
    /\ UNCHANGED <<plugin, plink, at, taken, confirmed, enabled, visible, cached, verdict, runs>>

\* The link is lost, and the plugin told so as a failed command.
SendThrows ==
    /\ pstep = "sending" /\ plink # "demo"
    /\ Resume(FALSE, "threw")
    /\ UNCHANGED <<plugin, plink, at, taken, confirmed, enabled, visible, cached, verdict, runs>>

\* The run is over. A screen that was open is opened again, and its refresh drops the cache.
Over(reopened) ==
    /\ pstep = "done"
    /\ pstep' = "idle"
    /\ cached' = (~reopened /\ (cached \/ plink # "demo"))
    /\ UNCHANGED <<plugin, plink, at, taken, result, confirmed, enabled, visible, refused, verdict, runs>>

\* The operator's toggle and the browser's visibility, at any time.
Toggle ==
    /\ pstep \notin {"idle", "done"}
    /\ \/ enabled' = ~enabled /\ UNCHANGED visible
       \/ visible' = ~visible /\ UNCHANGED enabled
    /\ UNCHANGED <<pstep, plugin, plink, at, taken, result, confirmed, cached, refused, verdict, runs>>

\* What goes on of itself: the loop, the operator's answers to the modal prompts, and the link.
Runs ==
    \/ Emit \/ Resumed \/ Traps \/ SendThrows
    \/ \E kind \in {"declined", "blank", "text", "vin"} : Answers(kind)
    \/ \E consents \in BOOLEAN : Gate(consents)
    \/ \E o \in Outcomes : Sends(o) \/ AnsweredFromCache(o)

PluginStep == Runs \/ Toggle \/ \E reopened \in BOOLEAN : Over(reopened)

PluginNext == (\E name \in Plugins, link \in Links : Begin(name, link)) \/ PluginStep

------------------------------------------------------------------------------
(* Properties. *)

\* A write of a procedure goes out to a vehicle only past the gate that a button passes, at the
\* time of that very write, and once the operator has let this run write: switching writing off, or
\* hiding the tab, in the middle of a procedure stops the writes that are left (plugins.ts:167).
WritesConsented ==
    [][pstep' = "sending" /\ pstep # "sending" /\ Command.op = "write" /\ plink # "demo"
          => pstep = "gating" /\ enabled /\ visible /\ confirmed']_pluginVars

\* A procedure goes no further past a write that did not succeed: not one of the plugins sends
\* anything more after it, nor says it is done.
NothingAfterRefusal ==
    refused => pstep # "sending" /\ verdict # "ok"

\* Whatever the plugin does, a run that has begun ends (plugin.ts:135, plugin-sdk index.ts:169).
ProcedureEnds == pstep = "emitting" ~> pstep = "done"
==============================================================================
