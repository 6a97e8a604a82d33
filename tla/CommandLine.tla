----------------------------- MODULE CommandLine -----------------------------
(***************************************************************************)
(* The command line, apps/cli/src/index.ts: one invocation, from its       *)
(* arguments to its exit code, over NodeSerialTransport (nodeSerial.ts),   *)
(* with the checkup of checkup.ts. A command is a few awaited steps inside *)
(* try/finally, any of which may throw. What the driver and the session    *)
(* helpers do inside a step is in modules of their own: here a step sends  *)
(* requests, and returns or throws.                                        *)
(***************************************************************************)
EXTENDS Integers, Sequences, SequencesExt, FiniteSetsExt

CONSTANTS CommandLines, \* the argument sequences typed
          Dashed,       \* the arguments that start with "--"
          Requests,     \* the read and write requests a module's definitions may hold:
                        \* [service, first, count, named], see Widest
          FaultServices, \* the services its fault requests may name; readDtcs sends them unchecked
          MaxRequests, MaxModules, \* bounds: requests of one module; modules a sweep finds
          Samples       \* --samples

ASSUME CommandAssumption ==
    /\ \A line \in CommandLines : line \in Seq(STRING)
    /\ Requests \subseteq [service : STRING, first : Nat, count : Nat, named : BOOLEAN]
    /\ FaultServices \subseteq STRING
    /\ MaxRequests \in Nat /\ MaxModules \in Nat /\ Samples \in Nat

VARIABLES
    line,      \* process.argv
    at,        \* where main stands: starting, loading, opening, running, closing, ended
    step,      \* which of the command's steps is next
    nodePort,  \* NodeSerialTransport.port: none or open
    code,      \* the exit code once ended; before, 1 if the body has thrown
    answer,    \* what the operator has answered to "Erase them?"
    found,     \* checkup: how many modules the sweep found
    module,    \* checkup: the one being examined
    doing,     \* checkup: loading, attaching, timing or faults of the module being examined
    requests, timed, \* checkup: what remains to be timed of it, what has been timed
    attached,  \* external: the module the adapter addresses; 0 for none
    findings,  \* checkup: [module, note] of the modules reported on, in order
    sent       \* history: of what was sent to examine modules, to erase and to measure, see Sent

reportVars == <<found, module, doing, requests, timed, attached, findings>>
commandVars == <<line, at, step, nodePort, code, answer, reportVars, sent>>

------------------------------------------------------------------------------
(* parseArgs *)

IsValue(argv, i) == i > 1 /\ argv[i - 1] \in Dashed /\ argv[i] \notin Dashed

parseArgs(argvIn) ==
    LET argv == IF argvIn # <<>> /\ argvIn[1] = "--" THEN Tail(argvIn) ELSE argvIn
        named == {i \in DOMAIN argv : argv[i] \in Dashed}
        valued == {i \in named : i < Len(argv) /\ IsValue(argv, i + 1)}
        positional == {i \in DOMAIN argv \ named : ~IsValue(argv, i)}
    IN [command  |-> IF positional = {} THEN "" ELSE argv[Min(positional)],
        flags    |-> {argv[i] : i \in valued},
        booleans |-> {argv[i] : i \in named \ valued}]

args == parseArgs(line)

------------------------------------------------------------------------------
(* The commands: the flags they fail without, whether they read the        *)
(* database first and look something up in it, and their steps over the    *)
(* port.                                                                   *)

cmdPorts   == [needs |-> {}, database |-> FALSE, looksUp |-> FALSE, steps |-> <<>>]
cmdScreens == [needs |-> {"--ecu"}, database |-> TRUE, looksUp |-> TRUE, steps |-> <<>>]
cmdProbe   == [needs |-> {}, database |-> FALSE, looksUp |-> FALSE, steps |-> <<"identify">>]
cmdBench   == [needs |-> {}, database |-> FALSE, looksUp |-> FALSE,
               steps |-> <<"identify", "measure AT", "address 7E0", "measure 2110", "measure 2180", "measure 2E01">>]
cmdRead    == [needs |-> {"--ecu", "--screen"}, database |-> TRUE, looksUp |-> TRUE,
               steps |-> <<"identify", "attach", "presend", "refresh">>]
cmdScan    == [needs |-> {}, database |-> TRUE, looksUp |-> FALSE, steps |-> <<"identify", "sweep">>]
cmdDtc     == [needs |-> {"--ecu"}, database |-> TRUE, looksUp |-> FALSE,
               steps |-> <<"identify", "attach", "faults", "confirm", "erase">>]
cmdCheckup == [needs |-> {}, database |-> TRUE, looksUp |-> FALSE,
               steps |-> <<"identify", "sweep", "examine", "write the report">>]

Commands == [ports |-> cmdPorts, screens |-> cmdScreens, probe |-> cmdProbe, bench |-> cmdBench,
             read |-> cmdRead, scan |-> cmdScan, dtc |-> cmdDtc, checkup |-> cmdCheckup]

Known == args.command \in DOMAIN Commands
Command == Commands[args.command]
UsesPort == Command.steps # <<>>

\* makeTransport: a mock or a port, or fail() before anything is opened.
HasTransport == "--mock" \in args.booleans \/ "--port" \in args.flags

At(name) == at = "running" /\ Command.steps[step] = name

------------------------------------------------------------------------------
CommandInit ==
    /\ line \in CommandLines /\ at = "starting" /\ step = 1 /\ nodePort = "none" /\ code = 0
    /\ answer = "none" /\ found = 0 /\ module = 1 /\ doing = "loading" /\ requests = <<>> /\ timed = {}
    /\ attached = 0 /\ findings = <<>> /\ sent = {}

Ends(with) == at' = "ended" /\ code' = with

\* main: usage, a missing flag (fail: process.exit(2)), or the command's first await.
Dispatch ==
    /\ at = "starting"
    /\ \/ ~Known /\ Ends(IF args.command = "" THEN 0 ELSE 2)
       \/ /\ Known /\ ~(Command.needs \subseteq args.flags)
          /\ Ends(2)
       \/ /\ Known /\ Command.needs \subseteq args.flags
          /\ \/ (Command.database \/ ~UsesPort) /\ at' = "loading" /\ UNCHANGED code
             \/ ~Command.database /\ UsesPort /\ HasTransport /\ at' = "opening" /\ UNCHANGED code
             \/ ~Command.database /\ UsesPort /\ ~HasTransport /\ Ends(2)
    /\ UNCHANGED <<line, step, nodePort, answer, reportVars, sent>>

\* The files are read, or the ports listed; then makeTransport.
Loaded ==
    /\ at = "loading"
    /\ \/ Ends(1)
       \/ Command.looksUp /\ Ends(2)
       \/ ~UsesPort /\ Ends(0)
       \/ UsesPort /\ ~HasTransport /\ Ends(2)
       \/ UsesPort /\ HasTransport /\ at' = "opening" /\ UNCHANGED code
    /\ UNCHANGED <<line, step, nodePort, answer, reportVars, sent>>

\* transport.open() stands before the try: when it rejects, nothing is closed.
NodeOpens ==
    /\ at = "opening"
    /\ \/ at' = "running" /\ nodePort' = "open" /\ UNCHANGED code
       \/ Ends(1) /\ UNCHANGED nodePort
    /\ UNCHANGED <<line, step, answer, reportVars, sent>>

AfterThrowLeaves == "ended"
\* A step throws, or the command returns: either way the finally block runs.
AfterThrow == "closing"
Throws == at' = AfterThrow /\ code' = 1 /\ UNCHANGED step
ReturnsEarly == at' = "closing" /\ UNCHANGED <<code, step>>
GoesOnToNext ==
    /\ UNCHANGED code
    /\ IF step = Len(Command.steps)
       THEN at' = "closing" /\ UNCHANGED step
       ELSE step' = step + 1 /\ UNCHANGED at

NodeCloses ==
    /\ at = "closing"
    /\ nodePort' = "none" /\ at' = "ended"
    /\ UNCHANGED <<line, step, code, answer, reportVars, sent>>

------------------------------------------------------------------------------
(* Steps that send and go on, or throw. *)

PlainSteps == {"identify", "attach", "presend", "refresh", "measure AT", "address 7E0", "measure 2110",
               "measure 2180"}

TakesStep ==
    /\ at = "running" /\ Command.steps[step] \in PlainSteps
    /\ GoesOnToNext \/ Throws
    /\ UNCHANGED <<line, nodePort, answer, reportVars, sent>>

\* A request: what it is sent as, the module it is meant for (0 outside a checkup), its service, and whom
\* the adapter addresses.
Sent(as, of, service) == [as |-> as, of |-> of, service |-> service, to |-> attached]

\* bench's fourth row: BENCH_LONG_REQUEST, a WriteDataByIdentifier, to 7E0.
MeasuresWrite ==
    /\ At("measure 2E01")
    /\ sent' = sent \cup {Sent("bench", 0, "2E")}
    /\ GoesOnToNext \/ Throws
    /\ UNCHANGED <<line, nodePort, answer, reportVars>>

\* cmdScan shows what the sweep found.
Sweeps ==
    /\ At("sweep") /\ args.command = "scan"
    /\ GoesOnToNext \/ Throws
    /\ UNCHANGED <<line, nodePort, answer, reportVars, sent>>

\* runCheckup goes through what it found, module by module.
CheckupSweeps ==
    /\ At("sweep") /\ args.command = "checkup"
    /\ \/ GoesOnToNext /\ found' \in 0..MaxModules
       \/ Throws /\ UNCHANGED found
    /\ UNCHANGED <<line, nodePort, answer, module, doing, requests, timed, attached, findings, sent>>

\* cmdDtc: only a reading without codes or with codes goes on, and only with --clear.
ReadsFaults ==
    /\ At("faults")
    /\ \/ Throws
       \/ \E outcome \in {"unsupported", "rejected", "unreadable", "none", "ok"} :
              IF outcome \in {"none", "ok"} /\ "--clear" \in args.booleans
              THEN GoesOnToNext
              ELSE ReturnsEarly
    /\ UNCHANGED <<line, nodePort, answer, reportVars, sent>>

\* confirm: false without a terminal. At a terminal only a line settles the promise; an end of input
\* is no line.
confirm ==
    /\ At("confirm") /\ answer = "none"
    /\ answer' \in {"yes", "no", "no terminal", "end of input"}
    /\ \/ answer' = "yes" /\ GoesOnToNext
       \/ answer' \in {"no", "no terminal"} /\ ReturnsEarly
       \/ answer' = "end of input" /\ UNCHANGED <<at, step, code>>
    /\ UNCHANGED <<line, nodePort, reportVars, sent>>

Erases ==
    /\ At("erase")
    /\ sent' = sent \cup {Sent("erase", 0, "14")}
    /\ GoesOnToNext \/ Throws
    /\ UNCHANGED <<line, nodePort, answer, reportVars>>

------------------------------------------------------------------------------
(* runCheckup: every module found is loaded, attached to, timed and asked  *)
(* for its faults. A module that fails is a finding.                       *)

ReadServices == {"22", "21", "1A", "17", "18", "19"}

\* The length it expects of the reply: the byte the data item starts at, and the length of the data item
\* that has the name of the request.
Widest(request) == request.first + (IF request.named THEN request.count ELSE 1)

\* Read services, longest first, the first few of them. A stable sort: a candidate's place is how many
\* come before it.
Timeable(request) == request.service \in ReadServices
timeableRequests(defined) ==
    LET candidates == {i \in DOMAIN defined : Timeable(defined[i])}
        before(i) == {j \in candidates : \/ Widest(defined[j]) > Widest(defined[i])
                                         \/ Widest(defined[j]) = Widest(defined[i]) /\ j < i}
        nth(k) == CHOOSE i \in candidates : Cardinality(before(i)) = k - 1
    IN [k \in 1..Min({Cardinality(candidates), Samples}) |-> defined[nth(k)]]

GoesToNextModule == module' = module + 1 /\ doing' = "loading" /\ requests' = <<>> /\ timed' = {}
Reports(note) == findings' = Append(findings, [module |-> module, note |-> note]) /\ GoesToNextModule

\* No catalogue entry, or its definitions do not load: the finding is the note.
ModuleLoads ==
    /\ At("examine") /\ module <= found /\ doing = "loading"
    /\ \/ Reports("unloaded")
       \/ /\ doing' = "attaching" /\ requests' \in SeqOf(Requests, MaxRequests)
          /\ UNCHANGED <<module, timed, findings>>
    /\ UNCHANGED <<line, at, step, nodePort, code, answer, found, attached, sent>>

GoesOnToTimeIt == doing' = "timing" /\ requests' = timeableRequests(requests) /\ UNCHANGED <<module, timed>>
AfterAttachFailureCarriesOn ==
    GoesOnToTimeIt /\ findings' = Append(findings, [module |-> module, note |-> "unattached"])
AfterAttachFailure == Reports("unattached")

\* attachEcu throws for a protocol no transport reaches before the adapter is touched, and after any
\* command when the link fails. It returns for a handshake that failed too, and after commands that were
\* lost: whom the adapter addresses then, nobody or the module before it, is not looked at.
ModuleAttaches ==
    /\ At("examine") /\ doing = "attaching"
    /\ attached' \in {0, attached, module}
    /\ \/ GoesOnToTimeIt /\ UNCHANGED findings
       \/ AfterAttachFailure
    /\ UNCHANGED <<line, at, step, nodePort, code, answer, found, sent>>

\* One timed request. It throws, or answers, be it NO DATA.
ModuleTimes ==
    /\ At("examine") /\ doing = "timing" /\ requests # <<>>
    /\ sent' = sent \cup {Sent("timing", module, Head(requests).service)}
    /\ requests' = Tail(requests)
    /\ timed' \in {timed, timed \cup {Head(requests)}}
    /\ UNCHANGED <<line, at, step, nodePort, code, answer, found, module, doing, attached, findings>>

ModuleTimed ==
    /\ At("examine") /\ doing = "timing" /\ requests = <<>>
    /\ doing' = "faults"
    /\ UNCHANGED <<line, at, step, nodePort, code, answer, found, module, requests, timed, attached, findings, sent>>

\* readDtcs without a session command, if the definitions describe a way: the request they name, and the
\* one that continues it, whatever their services.
ModuleFaults ==
    /\ At("examine") /\ doing = "faults"
    /\ \E services \in SUBSET FaultServices :
           sent' = sent \cup {Sent("faults", module, service) : service \in services}
    /\ Reports("examined")
    /\ UNCHANGED <<line, at, step, nodePort, code, answer, found, attached>>

Examined ==
    /\ At("examine") /\ module > found
    /\ GoesOnToNext
    /\ UNCHANGED <<line, nodePort, answer, reportVars, sent>>

\* --json writes a file.
WritesReport ==
    /\ At("write the report")
    /\ GoesOnToNext \/ ("--json" \in args.flags /\ Throws)
    /\ UNCHANGED <<line, nodePort, answer, reportVars, sent>>

CommandNext ==
    \/ Dispatch \/ Loaded \/ NodeOpens \/ NodeCloses
    \/ TakesStep \/ MeasuresWrite \/ Sweeps \/ CheckupSweeps \/ ReadsFaults \/ confirm \/ Erases
    \/ ModuleLoads \/ ModuleAttaches \/ ModuleTimes \/ ModuleTimed \/ ModuleFaults \/ Examined
    \/ WritesReport

CommandSpec == CommandInit /\ [][CommandNext]_commandVars

------------------------------------------------------------------------------
\* What a checkup promises ("never calls anything that writes ... Never throws for a module that
\* misbehaves: an ECU that refuses, times out, or answers nonsense is a finding"): it measures with read
\* services only and erases nothing, a module it reports as not loaded or not attached has been asked
\* nothing, and a report that is made lists every module the sweep found, once and in order, whatever failed.
ReportKeepsItsWord ==
    args.command = "checkup" =>
        /\ \A s \in sent : s.as = "faults" \/ (s.as = "timing" /\ s.service \in ReadServices)
        /\ \A i \in DOMAIN findings : findings[i].note # "examined" =>
               \A s \in sent : s.of # findings[i].module
        /\ at = "running" /\ Command.steps[step] = "write the report" =>
               /\ Len(findings) = found
               /\ \A i \in 1..found : findings[i].module = i

\* "Round trips against this module" (EcuFinding.timing): what is timed for a module is sent while the
\* adapter addresses it. False: runCheckup goes on after an attach that addressed nobody, or left the
\* module before addressed.
TimesTheModule == \A s \in sent : s.as = "timing" => s.to = s.of

\* Nothing but a read reaches a vehicle unless the operator asked for an erase and said yes to it.
NothingUnasked ==
    \A s \in sent : s.service \in ReadServices \cup FaultServices \/ ("--clear" \in ToSet(line) /\ answer = "yes")

\* A checkup that cannot time every read times those with the longest replies.
LongestFirst ==
    \A defined \in SeqOf(Requests, MaxRequests) : LET chosen == ToSet(timeableRequests(defined))
        IN \A r \in ToSet(defined) \ chosen : Timeable(r) =>
               \A c \in chosen : c.first + c.count >= r.first + r.count

\* Every invocation comes to its exit code: each awaited step settles.
CommandFair == CommandSpec /\ WF_commandVars(CommandNext)
CommandEnds == <>(at = "ended")
=============================================================================
