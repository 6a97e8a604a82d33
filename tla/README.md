# A TLA+ model of ddtx

ddtx is a browser (and command-line) diagnostics client for Renault ECUs. It
talks to an ELM327 adapter over a serial line, reads a database of ECU
definitions, draws the database's screens, polls them and fires their buttons,
reads and erases faults, sweeps a vehicle for its modules and runs plugins.
Everything is asynchronous TypeScript on one thread: the hard behaviours are
handlers that interleave at their `await`s, a serial line whose replies carry no
identity, an adapter whose real settings the program can only believe in, caches
that outlive what they were filled for, storage whose writes may fail, and a
lock shared with other tabs. This directory models the program, checks it with
TLC, and proves with TLAPS every safety property it checks, for every value of
the constants.

Paths below are relative to the repository's root.

## The system

| Component | State | Operations | What is hard | What makes it correct |
| --- | --- | --- | --- | --- |
| Line exchange: `packages/elm/src/transport.ts`, `driver.ts` `sendRaw`, `identify` | receive buffer, one waiter slot, error counters | write a line, read to the prompt, push bytes, purge | replies are matched by order only; timeouts leave replies behind; callers overlap | a reply belongs to its line; none is seen twice; every read returns |
| Driver: `packages/elm/src/driver.ts` | believed protocol and address, session command, response cache | initialise a bus, address an ECU, request, close | belief is set before the commands go out and holds the tx id alone, replies are not looked at, two flows interleave | when a flow is told it is addressed, the adapter is set for its ECU |
| ISO-TP: `packages/elm/src/isotp.ts`, `sendCan*` | the frames of one exchange | frame, reassemble, flow control | wrap of sequence numbers, lost and doubled frames, an ECU that never advances | an answer comes whole or not at all; every exchange ends |
| Serial ports: `packages/elm/src/webSerial.ts`, `apps/cli/src/nodeSerial.ts` | port, reader, writer, reading loop | open, close, try the next rate | close during a read, a pulled cable, connects and disconnects that overlap | who is done leaves the port closed and its streams free |
| Attach and sweep: `packages/session/src/attach.ts`, `scan.ts`, `packages/db/src/autoident.ts` | progress of a sweep, sessions opened | attach an ECU, probe address after address, identify | stops and failures half-way, bytes that do not print | the adapter ends where the caller thinks it is; no session is left open on CAN; a known ECU is recognised |
| Gates and lock: `packages/session/src/guard.ts` | the Web Lock | check gates, run under the lock | other tabs, a lock held by this one | one procedure at a time on the vehicle |
| Fault codes: `packages/session/src/dtc.ts`, `simulate.ts` | the reply being joined | read (with continuation), erase (with fallback), read back | an ECU that always says "more", silence after an erase | what is shown is what is stored; "cleared" is said of an acknowledged erase |
| Plugins: `packages/session/src/plugin.ts`, `packages/plugin-sdk`, `packages/plugins` | a run's step, its consent | read, write, ask, log | the gate moves during a run, aborts half-way, plugins that never end | no write without gate and consent; nothing after a refusal; every run ends |
| Screen runtime: `packages/screens/src/runtime.ts`, `packages/elm/src/link.ts` | refresh plan, snapshot | presend, refresh, press | all go through one cache keyed by bytes alone | a refresh shows nothing older than itself and settles every widget |
| Application session: `apps/web/src/lib/state.svelte.ts`, components | selected ECU, screen, runtime, snapshot, timer, driver, write switch, fault list | about twenty handlers | every handler awaits and resumes over shared variables | what is shown is what was asked; what is sent goes where the UI says |
| Database source: `apps/web/src/lib/dbSource.ts`, `installStorage.ts` | the stored archive, folder, URL and kind; the database in use | install, choose, resume, fetch, forget, verify, reload | overlapping choices, writes that fail, lapsed permissions, reloads | what is remembered was read; what is described is in use; a working archive is kept |
| Database access: `packages/db` | caches of loads in flight | load definitions, prepare a layout | failures of shared loads, references that do not resolve | a failure is not served again; what is dropped was reported |
| Catalogue: `database.ts`, `state.svelte.ts`, `VehiclePicker.svelte`, `Catalogue.svelte` | filters, facets, picker | choose a vehicle, a group, a bus | filters that outlive what they were chosen from | a choice on offer finds an ECU |
| Translation: `packages/i18n`, `setLocale`, `primeOverlay` | locale, overlay, hashed strings | fetch a bundle, hash an ECU's strings | bundles and ECUs arrive in any order | the words are those of the language chosen |
| Import: `packages/dbimport`, `tools/db-split`, `packages/db/src/archive.ts` | an archive, a tree of files | split, inspect, read in place | a split killed half-way, a tree copied in part | a tree is its archive; a missing stretch of a tree is caught |
| Codec: `packages/codec`, `packages/link` | a frame being built | extract and pack bit fields, format numbers, decode text, simulate an answer | unaligned and little-endian fields, rounding of halves | packing changes its own bits only and reads back |
| Command line: `apps/cli/src` | port, exit code, report | eight commands | any step may throw; an end of input is no line | the port is closed; a checkup measures with reads and reports every module |
| Tables, types, interface messages, geometry, help, the mock adapter | none | lookup, drawing | | |

How they meet: the components call handlers of the session; the session calls
`attachEcu`, `scanAll`, `readDtcs`, `runPlugin` and the screen runtime, each of
which calls the driver, which writes to and reads from the transport. The
transport calls back with bytes. Nothing between the session and the transport
queues or serialises calls, except the Web Lock around presses, fault reads,
erases and plugin runs. The database is opened from whichever source was chosen
last, and every ECU, layout and catalogue is read through it. The command line
uses the same driver and helpers, one command at a time.

## The modules

| Module | Models | Checked by |
| --- | --- | --- |
| `ElmTransport` | `BufferedTransport`, `sendRaw`, `identify` | `transport`; `ElmTransport_proofs` |
| `ElmDriver` | `init*`, `set*Address`, `closeProtocol`, `attachEcu`, the addressing of `sweep` | `driver_alone`, `driver_shared`; `Driver_proofs` |
| `AppSession` | `state.svelte.ts` with the guards of its components and `withAdapterLock` | `session_screens`, `session_link`; `AppSession_proofs` |
| `AdapterMutex` | what `withAdapterLock` promises | refined by `AppSession` (`OneAtATime`); `AppSession_proofs` |
| `ScreenRuntime` | `ScreenRuntime`, `ElmLink`, and the driver's `request` with its cache | `screen_requests`; `ScreenRuntime_proofs` |
| `IsoTp`, `CanExchange` | `isotp.ts`; `sendCan`, `sendCanCfc0`, `pullRemainingFrames` | `can_exchange`; `Driver_proofs` |
| `Codec`, `RequestFrames` | `packages/codec`; a request from its inputs to the values shown, with the simulated link | `request_frames`; `RequestFrames_proofs` |
| `LinkTexts` | what a caller of `request` sees of an exchange on each link | in `procedures` |
| `FaultCodes` | `readDtcs`, `clearDtcs`, `clearFaults`, the simulated ECU | in `procedures`; `Procedures_proofs` |
| `AutoIdent`, `BusScan` | identification; `scanAll`, `sweep` and the probes | in `procedures`; `Procedures_proofs` |
| `PluginScripts`, `PluginRun` | the procedures of `packages/plugins`; `runPlugin` and `hostFor` | in `procedures`; `Procedures_proofs` |
| `Procedures` | the three of them, one at a time | `procedures`, `procedures_silent_erase`; `Procedures_proofs` |
| `DatabaseSource` | choosing, storing, re-opening, removing a database | in `storage`; `Storage_proofs` |
| `LayoutFiles`, `DatabaseLoads` | `prepareLayout` and `validateTree`; `loadEcu`, `loadLayout` | in `storage`; `Storage_proofs` |
| `Catalogue`, `Translation` | filters and picker; `setLocale`, `selectEcu`, `primeOverlay`, `Overlay` | in `storage`; `Storage_proofs` |
| `DatabaseTree` | `archiveDbSource`, `splitArchive`, `db-split`, `inspectTree` | in `storage`; `Storage_proofs` |
| `Storage` | the database and what is read from it | `storage`; `Storage_proofs` |
| `SerialPort`, `CommandLine` | `WebSerialTransport` with `connect` and `disconnect`; `apps/cli` | in `serial_hosts`; `SerialHosts_proofs` |
| `SerialHosts` | the two programs that hold a port | `serial_hosts`; `SerialHosts_proofs` |

The modules are layers, each seen from outside by the next: `ElmDriver` and
`CanExchange` send whole commands that are obeyed or lost, which is what
`ElmTransport` shows an exchange to be; `Procedures` and `ScreenRuntime` see a
request as answered, refused, silent or garbled, which is what `CanExchange`
shows it to be; `AppSession` has an attach leave the adapter at its ECU, nowhere
or where it was, which is what `ElmDriver` shows it to do. `Procedures`,
`Storage` and `SerialHosts` compose parts that share no state but exclude each
other or run on their own: a variable, or the idleness of the others, says which
is running, so that the run of a composition explores each of them and not their
product. Where parts do share state it is composed for good: `Storage` lets
loads go on only in the database that `DatabaseSource` has opened and starts them
afresh with it, and a plugin's requests in `Procedures` meet the response cache.

### ElmTransport

The adapter answers each line in order, after any delay, or never. A reply is
then known by the number of its line, and the buffer by two cursors: replies
`taken+1 .. answered` are in it whole, followed by some text of the next when
`partial` holds. `cut` says that the reply at the head of the buffer has lost its beginning to
another read. One action per stretch of code between awaits: `Send` (`sendRaw`
to the first look at the buffer), `TakeReply`, `GiveUp` and `Sleep` (the three
ways round `readUntil`'s loop), `Poll` (the 20 ms timer), `Deadline`,
`ReceiveText` and `ReceivePrompt` (`push`), `BeginIdentify` and `EndIdentify`.
The waiter slot is modelled as it is: one slot, overwritten by each sleeper and
emptied by anyone's timer.

`timedOut`, `overlap` and `leftover` are history variables the properties use to
say under which circumstances a reply can be trusted. Line errors other than a
timeout are only counted by the code and are left out, and so is the log.

### ElmDriver

The adapter is a record of the settings a request depends on: header, receive
filter, raw formatting, selected line, wake-up target and the K-line ECU the
handshake reached. A method of the driver is the sequence of its commands that change one
of those settings (the others, among them `AT ST`, `AT AT`, `AT FC ..`, are
dropped). Each `Command` changes the adapter; `LoseCommand` does not, and the
flow goes on as the code does; `Throw` ends the flow in the middle, which leaves
belief and adapter apart. `Handshake` is `AT SI` or `AT FI` with its two
outcomes. `AT SP` may reset the formatting, as the comment at
`packages/elm/src/driver.ts:504` says some clones do. `setIso8Address` ignores its handshake's
outcome and so never confirms, except that `AlreadyAddressed` is success, as
for `setIsoAddress`. Several ECUs may claim one address, which is common in the
database; on CAN `Address` is the tx id and `Receive` the rx id, and ECUs of one tx id
need not have one rx id (04 and 402, 2A and 407, 2E and 40B, 1A and 413 in
`packages/core/src/addressing.ts`). `AlreadyAddressed` compares the tx id, as
`driver.ts:480` does, so a skipped call leaves the filter where it was.

`solo` is a history variable: the flow that began last, as long as no other has
used the driver and no command was lost. `AddressedWhenReady` is about such a
flow, whatever happened before it began: an attach forgets the belief first and ends at
its ECU with both ids, a sweep steps on without forgetting it and ends at the tx id, with
the rx id of some ECU that has it (`Heard`). That it be its own rx id is `SweepListens`,
which fails. Overlapping flows do break each
other's addressing; the code does nothing against it, and the property does not
claim it.

### AppSession

A flow is one running handler: one per member of `Users`, and one for the
polling timer. `pc` says at which await it is and `held` what its locals hold.
`link` is 0 for the simulated ECU, else the number of the connection, so that a
runtime made over a connection that is gone is told from one over the present
one. Handlers and actions:

| Handler | Actions |
| --- | --- |
| `selectEcu` | `SelectEcu`, `EcuLoaded`, `EcuPrimed`, `EcuLoadFails` |
| `forgetDatabase` | `ForgetDatabase` |
| `openScreen`, `reopenCurrentScreen` | `OpenScreen` (and `OpensScreen` in those that end with it), `ScreenAttached`, `AttachFails`, `PresendDone` |
| `refresh`, the timer, `setAutoRefresh` | `Refresh`, `ReadNow`, `RefreshDone`, `TimerFires`, `SetAutoRefresh` |
| `reconfigureDemo` | `ReconfigureDemo` |
| `pressButton` | `PressButton`, `PressLocked`, `LockRefused`, `PressDone` |
| `readFaults`, `clearFaults` | `ReadFaults`, `ClearFaults`, `DtcLocked`, `LockRefused`, `FaultsRead`, `FaultsErased`, `DtcFails` |
| `connect`, `disconnect` | `Connect`, `Connected`, `ConnectFails`, `Disconnect`, `ProtocolClosed`, `PortClosed` |
| the write switch | `ToggleWrites` |
| `startScan`, `stopScan` | `StartScan`, `Probe`, `ScanEnds` |
| `runPluginByName` | `RunPlugin`, `PluginLoaded`, `PluginAttached`, `PluginLocked`, `PluginEnds` |
| another tab at the lock | `OtherTabLocks` |

A screen's contents are abstracted to where they came from: a runtime and a
snapshot are the ECU, the screen and the link they were made of, a fault list is
the ECU that answered and the ECU it was asked for.

Left out: the page's visibility (the gate only refuses more), browsers without
Web Locks (every call runs; the lock then promises nothing), plugins that name no
ECU, edits of input fields, `benchLink`, and languages, catalogue filters, start-up
and import, which `DatabaseSource`, `Catalogue` and `Translation` have. `Contents.svelte` and `Faults.svelte` hide their controls while an
ECU loads; the model offers them when the ECU is `ready`, and does not tell
apart the case of an overlay failing after the layout was listed.

### ScreenRuntime

Three activities may be under way: the presend of a screen, a refresh and a press.
An activity is the requests it still has to send (`todo`); `Ask` sends one or finds
it in the cache (`CacheHit`, keyed by the frame alone), `EcuAnswers` has any ECU
that is addressed answer, refuse or garble it, `Resume` decodes it, `Fails`
and `AfterFailure` are the `catch` of `sendRaw`. An answer is a time stamp and the
ECU it came from, which is what staleness and mixing are told by. `Publish` builds
the snapshot. `Silence` is the ECU that drops back to its default session.

### IsoTp and CanExchange

A frame is its first nibble, the number after it and its bytes; lines of the
adapter are frames. `FrameRequest` and `Reassemble` are the functions of
`isotp.ts`; the echo, the pending answer (NRC 78) and broadcasts before an answer
are in. `CanExchange` drives them against an ECU that takes the request frame by
frame: `Write` for the adapter's own flow control; `WriteAndLook`,
`WriteBurst` and `AllWritten` for the software one; `Pull` and `EndPull` for the
flow control of a long answer; `Join` for what is returned. A written frame and
what comes back is one step. `faults` counts frames lost or repeated; frames arrive in the
order they were sent, as on one CAN bus between one ECU and one adapter.

### Codec and RequestFrames

Bytes are numbers, a frame is a sequence of them, and bits a sequence of 0 and 1.
Steps and offsets are integers and what they compute a rational, rounded exactly.
`RequestFrames` builds a request input by input, has the simulated link answer and
decodes every field; the properties compare with a definition by bit positions
(`Own`), by cross-multiplication and by the meaning of a UTF-8 sequence, none of
which is how the code does it.

### FaultCodes, AutoIdent, BusScan

A byte of a fault reply knows the record and the place it belongs to, so that a
window that slips shows. The ECU delivers its records in any whole chunks, says
so, and may start over when it has none left. A sweep is a sequence of probes; the
sessions it opened are a set (`open`) of pairs of bus and address, and so are those an ECU
never acknowledged closing, of which nothing is asked. A K-line probe opens a session too and
none of its ways out closes it. Identification is the matching of
`autoident.ts` over characters, bytes that do not print among them; the cutting of an identity
block by position is left out.

### PluginScripts and PluginRun

A script is the sequence of commands a plugin's `next` emits, each with what it
needs of the result before it. `PluginRun` is the host: `Emit` asks for the next
command, `Gate` is the write gate with the operator's single confirmation, `Sends`
and `AnsweredFromCache` are the exchange, `Resumed`, `Traps` and `Counts` what
ends a run. `Toggle` is the operator switching writing off, or hiding the tab, at
any time. Two plugins that misbehave are run beside the thirteen procedures and the calculator.

### DatabaseSource, DatabaseLoads, LayoutFiles

A flow is a running handler; between two of its steps any other may go on. What
is in storage outlives `Reload`, the rest does not. Writing to `localStorage`
(`Written`) and reading from or writing to IndexedDB (`Recalled`, `FolderIsKept`,
`ForgetFolder`) may fail without a word, as the code has it. A place holds a tree,
an index that opens as none, or nothing. `DatabaseLoads` has the entries of the two
caches and the callers that await them; `LayoutFiles` the two checks of a layout.

### Catalogue, Translation, DatabaseTree

`Catalogue` opens databases one after the other under filters that stay;
`Translation` fetches bundles, loads ECUs and hashes strings in any order;
`DatabaseTree` splits archives file by file, `Dies` between two files or inside
one, splits again over what is left, and inspects trees copied in part, of which any files
may be there: `FileCopied` takes any that is missing, as directories and archives have an
order of their own.

### SerialPort and CommandLine

`SerialPort` has one instance of the transport per attempt and candidate rate over one port,
whose streams are locked and which opens and closes asynchronously. Any number of `connect`s
and `disconnect`s may be under way: the button of the first is there while nothing is
connected or being connected, that of the second until the transport is cleared
(`App.svelte:263`). `does` says where each stands and on which instance. `Reopens` is
`reopenCurrentScreen` inside `connect`'s `try`: when it throws, the candidate, by then the
link in use, is closed and the next rate tried. A flow that was resumed runs through all it
can do without waiting for something outside the page before the page's next task (`Quiet`), as
promise reactions do; a close that rejects is such a step. One port is assumed for all attempts.

`CommandLine` parses an invocation, goes through its command's steps, any of which may throw,
and ends with an exit code; the checkup goes through the modules it found. `ModuleAttaches`
returns with the adapter at the module, at nobody, or where it was, since `attachEcu` returns
after lost commands and after a handshake that failed. `ModuleFaults` sends whatever services
the definitions name for faults, as `readDtcs` does not look at them.

## The runs

| Run | Instance | Distinct states | Shows |
| --- | --- | --- | --- |
| `transport` | two callers, five lines, one left over; fairness | 399 000 | `LagBound`, `OwnAnswerWhole`, `EachReplyOnce`, `EveryReadReturns` |
| `driver_alone` | one flow, six ECUs: two CAN on one tx id with different rx ids and one on its own, slow and fast KWP2000, ISO8 | 271 000 | `AddressedWhenReady` |
| `driver_shared` | two flows, two CAN ECUs on one tx id with different rx ids and one slow-init K-line ECU | 1 270 000 | `AddressedWhenReady` |
| `session_screens` | two handlers and the timer, demo mode, two ECUs, three screens, another tab; fairness | 86 600 | `ReadyIsSelected`, `TimersDrain`, `RefreshSettles` |
| `session_link` | two handlers, two ECUs of which one cannot be reached, a screen of each, one connection that comes and goes, every operation on a vehicle, another tab | 765 300 | `Coherent`, `OneAtATime` |
| `screen_requests` | two ECUs asked the same bytes, a screen of each, three answers, two openings | 687 000 | `FreshSnapshot`, `Settled` |
| `can_exchange` | requests of 2, 8, 27 and 34 bytes, answers of 3, 8, 27 and 130 and a refusal, block sizes 0, 1 and 3, two faults; fairness | 42 000 | `WholeOrNothing`, `FlowControlSeen`, `ManualAnswerArrives`, `ExchangeEnds` |
| `request_frames` | three requests, thirteen fields in both byte orders, up to two inputs of eight, 552 numbers, texts of up to four of eight bytes | 29 200 | `NeighboursKept`, `ReadsBack`, `EveryWidgetWhole`, `RoundsHalfEven`, `AsciiKept` |
| `procedures` | four ECU descriptions with up to three faults; six catalogue entries on five addresses; fourteen plugins and two rogues; fairness | 65 100 | `FaultsAsStored`, `CanEraseAcknowledged`, `CanSessionsClosed`, `KnownEcusRecognised`, `NothingAfterRefusal`, `WritesConsented`, `ProcedureEnds` |
| `procedures_silent_erase` | the same; a violation | | `EraseAcknowledged` |
| `storage` | two archives, three folders, two servers, three choices and a reload; two callers; two databases; three ECUs and four calls of `setLocale`; three archives, three splits; trees of up to eight ECUs and samples of three | 463 000 | `SavedWasRead`, `Described`, `WorkingArchiveKept`, `FailureIsFresh`, `DropsWhatIsReported`, `ChosenIsFound`, `SpeaksTheLanguageChosen`, `TreeIsTheArchive`, `MissingStretchCaught` |
| `serial_hosts` | three rates, two connects and two disconnects at once; eighteen command lines | 1 890 000 | `PortReleased`, `ReportKeepsItsWord` |

### What holds

- One caller at a time on a line where nothing has timed out gets its own replies
  (`InStep`, proved). After a timeout the answers run behind, for good; by how much
  is bounded by the timeouts (`LagBound`). A reply that lost its beginning to a
  timeout is always a stale one (`OwnAnswerWhole`). Even callers that overlap
  never see a reply twice or out of order (`EachReplyOnce`), and the single waiter
  slot can delay a read but not lose it (`EveryReadReturns`).
- An attach that loses no command and meets no other flow leaves the adapter set for its
  ECU, sending and listening, whatever belief and adapter were before
  (`AddressedWhenReady`): the discarding of the belief in `initCan` and
  `initIso` is what it rests on. A sweep step leaves it sending to its ECU, and listening
  to it unless another ECU of the same tx id was addressed just before.
- Racing selections end with the selected ECU shown (`ReadyIsSelected`); a refresh
  is never stuck (`RefreshSettles`); orphaned polling timers die out once polling
  is off (`TimersDrain`), though while polling they multiply, as each refresh a
  click or a press makes sets a timer of its own.
- Procedures on the vehicle exclude each other, as a refinement of `AdapterMutex`
  (`OneAtATime`). Handlers that do not overlap keep the screen, the runtime, the
  connection, the adapter and the busy flags together (`Coherent`): reopening the
  screen after a connection, a disconnection, a sweep and a plugin is what does it.
- The cache of the driver never serves a refresh what was answered before it began,
  nor another ECU's answer when nothing else ran beside it (`FreshSnapshot`), and
  every widget is settled whichever exchange failed (`Settled`).
- What is lost or doubled on CAN makes an answer missing and never shorter
  or mixed (`WholeOrNothing`); no flow control is overlooked (`FlowControlSeen`);
  with the adapter's flow control the answer arrives (`ManualAnswerArrives`); the
  pull loop stops at an ECU that brings nothing new (`ExchangeEnds`).
- Packing leaves a field's neighbours alone (`NeighboursKept`) and reads back
  (`ReadsBack`) for the layouts on which read and write agree; demo mode fills
  every widget (`EveryWidgetWhole`); numbers round half to even and text survives
  malformed bytes (`RoundsHalfEven`, `AsciiKept`).
- The faults shown are those stored, however their reply was cut
  (`FaultsAsStored`); on CAN an erase is reported as done when acknowledged
  (`CanEraseAcknowledged`); a sweep leaves no session open behind it on CAN
  (`CanSessionsClosed`), though all those it opens on a K-line, and recognises the ECUs the
  catalogue has, by their identity blocks (`KnownEcusRecognised`).
- Plugins write behind the gate of that very moment (`WritesConsented`), send
  nothing past a refused write (`NothingAfterRefusal`), and end (`ProcedureEnds`).
- Whatever is remembered as the database was read before (`SavedWasRead`), what is
  shown describes the one in use (`Described`), and a stored archive is replaced
  only by one that opens (`WorkingArchiveKept`). A failed load is not served again
  (`FailureIsFresh`); what a layout loses at an open the import has reported
  (`DropsWhatIsReported`); what is offered finds an ECU (`ChosenIsFound`); the words
  are those of the language chosen (`SpeaksTheLanguageChosen`); a tree is its
  archive (`TreeIsTheArchive`), and a tree that lacks a stretch of half its index or more
  is caught, in whatever order it was written (`MissingStretchCaught`).
- Both hosts leave the port closed and its streams free whichever step failed and however
  connects and disconnects overlap, and in an attempt that nothing overlaps no rate spoils
  the ones after it (`PortReleased`). A checkup measures with reads only, asks nothing of a
  module whose attach threw, and reports every one (`ReportKeepsItsWord`); whether what it
  measures is the module's, the attach does not tell it.

### What does not hold

`procedures_silent_erase` checks what a test says ("Silence after an erase is not
success", `packages/session/src/dtc.test.ts:325`): on a K-line `clearDtcs` takes the
adapter's `NO DATA` for success.

The modules state more of what comments and documents say and the code does
otherwise. These properties stand next to the others and are in no run; of the first
five TLC finds a counterexample on the instances of the runs:

| Property | What the code does |
| --- | --- |
| `ElmDriver.SweepListens` | `setCanAddress` is skipped on the tx id alone (`driver.ts:480`), and a sweep that steps between two addresses of one tx id, with none between them, goes on listening to the first |
| `BusScan.BusAsFound` | every K-line module that accepted `10C0` is left in that session (`scan.ts:391`) |
| `DatabaseTree.HalfTreeCaught` | a tree with the sampled ECUs and less than half of all of them passes the inspection (`inspect.ts:97`) |
| `SerialPort.MissesNoAdapter` | a throw of `reopenCurrentScreen` inside `connect`'s `try` closes the link just made, and it is said that nothing answered (`state.svelte.ts:1062`) |
| `CommandLine.TimesTheModule` | after an attach that returned without addressing the module, another one is measured, or none (`checkup.ts:233`) |
| `ElmDriver.ReattachIsFree` | attaching again sends everything again, as the initialisation discards the belief (`attach.ts:52`) |
| `AppSession.FaultsOfSelected` | with A attached, selecting B and reading faults without opening a screen of B shows A's faults as B's |
| `AppSession.WritesForgotten` | the write switch ticked while the port is closing stays on for the next vehicle |
| `AppSession.LinkTakesEffect` | connecting under the screen of a DoIP ECU leaves the simulated runtime behind it; opening a screen of one leaves the runtime of the screen before |
| `AppSession.PluginLeavesNoTrace` | after a plugin run with no screen open the adapter stays at the plugin's ECU |
| `ScreenRuntime.PressReachesEcu` | a press whose frame was sent in the same refresh period is answered from the cache |
| `ScreenRuntime.InSession` | nothing remembers the session command that the keepalive is to send again |
| `CanExchange.AnswerArrives` | with software flow control, an answer that comes with the last frame of a burst is discarded |
| `RequestFrames.WriteMirrorsRead` | a little-endian field across bytes is written where it is not read |
| `CommandLine.NothingUnasked` | `bench` writes to 7E0 without a gate |
| `CommandLine.LongestFirst` | widths are looked up under the request's name, so every field counts as one byte |
| `CommandLine.CommandEnds` | an end of input leaves the confirmation of an erase pending for ever |
| `DatabaseSource.ReopensLastUsed` | of two overlapping choices the one stored and the one shown may differ |
| `DatabaseSource.VerifiedIsInUse` | a verdict outlives the database it is about |
| `DatabaseSource.GroupsOfDatabase` | the groups on offer are those of the first database opened |
| `DatabaseTree.CurrentIsWhole` | a run killed over a complete tree leaves its manifest, and `--if-needed` trusts it |

`PROJECT.json` quotes the lines each of them goes against, with a few that need no
property to be seen.

### Bounds and why they are enough

`MaxCommands` and `MaxLeftover` count lines; a slip of the answers needs one
timed-out line and one more, an accumulated slip two, and five leave room for
both callers to do it. Two callers are enough for the slot and the buffer, as every
rule about them is between a reader and the rest. Two addresses are
enough to be at the wrong one, and two rx ids of one tx id to listen to the wrong one; the
CAN and the slow K-line methods are the longest, so they interleave most. In `AppSession` two handlers and the timer meet
in every pair of awaits; a connection and its absence tell an old runtime from a
new one; `MaxTimers` stops new polls at three pending timers, which is one armed
and two orphans. `Operations` splits the handlers over the runs by the state they
share.

In `ScreenRuntime` three answers and two openings let an answer of another screen
into the cache and out again. The requests of `CanExchange` take one to five
frames; 130 bytes take nineteen, past the wrap of the sequence number at sixteen;
two faults make a loss meet a doubling. The fields of `RequestFrames` share bytes,
cross byte borders and stand in both orders, with a scale, a sign, a broken scale,
text and one beyond the frame; 45 and three halvings reach every kind of tie. Three
faults, three continuations and chunks of any size cut a reply in every place;
`MaxPluginSteps` is past the longest script, so that only rogues meet it, and
`MaxRuns` lets consent given to one run meet the next. In `DatabaseSource` three
choices and a reload let two overlapping flows meet a third; in `Translation` four
calls let an older bundle arrive after a newer one; three splits kill one over
another; an index of up to 8 with a sample of 3 has every step from 1 to 2, and samples that
end before the index does, with every subset of the ECUs present. Three rates have a first, a
middle and a last; two connects and two disconnects meet what each left behind, and their
instances stand in every pair of stages.

`SYMMETRY` permutes handlers or flows, which run the same code; it is not used
where a liveness property is checked. `CHECK_DEADLOCK` is off where the bounds, or
an operator who does nothing, let the system stop; `ElmDriver` and
`RequestFrames` have no such end and are checked for deadlock.

### Fairness

`ElmTransport`: a reader that can go on does, and its timers fire; both are
promises of the JavaScript event loop. Nothing is assumed of the adapter.
`AppSession`: timers fire and a refresh ends, since each of its requests
ends with a reply or a timeout (`EveryReadReturns`). `CanExchange`: an exchange
takes its next step, whatever the ECU sends, since a frame written is answered or
times out. `Procedures`: the loop of `runPlugin` goes on, as its prompts are modal
and its requests time out. Nothing is assumed of the operator, of the network, of
the lock, of sweeps or of fault reads.

## The proofs

Eight modules prove what TLC checks on a small instance for every value of the
constants: every safety property of the passing runs, be it an invariant, an action property
or a refinement, and none of the liveness properties. Each theorem is a property of the
runs, or the inductive invariant it follows from: `Init => Inv`, `Inv /\ [Next]_vars => Inv'` by one lemma for
each action or group of actions, `Inv => Property`, and a last step in temporal
logic. The invariants were checked by TLC on the runs' instances before they were proved.

| Module | Theorem | Establishes |
| --- | --- | --- |
| `ElmTransport_proofs` | `TypeCorrect`, `LagIsBounded`, `ExchangesInStep`, `OwnAnswersAreWhole`, `RepliesOnceInOrder` | `TypeOK`, `LagBound`, `InStep`, `OwnAnswerWhole`, `EachReplyOnce` |
| `Driver_proofs` | `DriverInvariant`, `TypeCorrect`, `ReadyIsAddressed` | `DriverInv`, `TypeOK`, `AddressedWhenReady` |
| | `FlowInvariant`, `FlowControlIsSeen` | `FlowInv`, `FlowControlSeen`, for `ExchangeSpec` of `CanExchange` |
| | `WholeInvariant`, `AnswersAreWhole`, `ManualAnswersArrive` | `WholeInv`, `WholeOrNothing`, `ManualAnswerArrives` |
| `AppSession_proofs` | `SessionInvariant`, `TypeCorrect`, `ReadyEcuIsSelected`, `SessionCoherent` | `SessionInv`, `TypeOK`, `ReadyIsSelected`, `Coherent` |
| | `ProceduresExclude` | `Spec` of `AppSession` implies `Spec` of `AdapterMutex` (`OneAtATime`) |
| `ScreenRuntime_proofs` | `RuntimeInvariant`, `SnapshotIsFresh`, `WidgetsSettle` | `RuntimeInv`, `FreshSnapshot`, `Settled` |
| `RequestFrames_proofs` | `NeighboursStay`, `InputsReadBack`, `WidgetsWhole` | `NeighboursKept`, `ReadsBack`, `EveryWidgetWhole` |
| | `Rounds`, `TextKept` | `RoundsHalfEven`, `AsciiKept` |
| `Procedures_proofs` | `ProceduresInvariant`, `EraseIsAcknowledged`, `SweepClosesSessions`, `NothingFollowsRefusal`, `WritesAreConsented` | `ProceduresInv`, `CanEraseAcknowledged`, `CanSessionsClosed`, `NothingAfterRefusal`, `WritesConsented` |
| | `FaultsAreAsStored`, `KnownAreRecognised` | `FaultsAsStored`, `KnownEcusRecognised` |
| `Storage_proofs` | `SourceInvariant`, `RememberedWasRead`, `DatabaseDescribed`, `ArchiveIsKept` | `SourceInv`, `SavedWasRead`, `Described`, `WorkingArchiveKept` |
| | `StorageIsSource` | `Spec` of `Storage` implies `SourceSpec` |
| | `LoadsFailFresh`, `DropsAreReported` | `FailureIsFresh`, `DropsWhatIsReported` |
| | `ChosenAreFound`, `WordsAreTheLanguages` | `ChosenIsFound`, `SpeaksTheLanguageChosen` |
| | `TreeIsAnArchive`, `StretchIsCaught` | `TreeIsTheArchive`, `MissingStretchCaught` |
| `SerialHosts_proofs` | `HostsInvariant`, `PortIsReleased`, `ReportIsKept` | `HostsInv`, `PortReleased`, `ReportKeepsItsWord` |

### Along which argument

**The line.** `IInv` adds to the properties an account, `sent =< taken + timedOut +
leftover + Cardinality(Reading)`: a line ever written was taken by somebody,
given up on, left over by an earlier session, or has a reader waiting. `LagBound`
follows at the moment a reply is taken, as the reader that takes it leaves
`Reading`. `CutIsStale` says that a reply that has lost its beginning is never the
last one asked for; `AskedSent` ties each caller's question and answer to the
cursors. Cardinalities of the set of readers come from the library's theorems.

**The driver.** Nothing is known of the adapter when a flow begins, as earlier
flows may have lost commands. `SoloInv` says of the flow that is alone: during the
initialisation nothing is believed to be addressed, so no method of its own is
skipped; during a method, the belief is its own ECU's and each command before the
next has done its part (`CanProgress`, `KlineProgress`); hence all is set at the end. A sweep that is
skipped was there before with the same tx id, and its filter is one that tx id has. A method's
commands are finite sequences of known text, gone through position by position.

**The session.** `SelectionInFlight` says that the selection with the latest ticket
is of the selected ECU, whatever older ones still run. `ScreenOfEcu` rests on a
screen being closed while its ECU loads and on the plugin dialog remembering a
screen of an ECU that cannot change under it. `CalmInv` is what holds as long as no
handler was started while another ran: what a handler holds is what there is, the
runtime is the open screen's and on the present connection, the adapter at its ECU
unless a handler is about to reopen the screen. `Coherent` is that at rest.
`LockHeld` makes `AppSession` implement the lock: a procedure on a vehicle holds it, and every
step goes in, comes out or stutters.

**The screen runtime.** `FreshInv` says of what a refresh has got, of the cache, and
of an answer some activity is about to put there, that it is fresh for the refresh under
way (`Fine`): stamped after its start or on its way when it started, and, if nothing
ran beside it, from the ECU of its screen. The cache is fresh because a refresh
drops it first, the answers in hand because an answer after the start is stamped
later than it. `ProgressInv` says what the exchanges done so far have
put on the widgets; the plan names every polled request, so all are done at the end.

**CAN.** `Driver` relates the two sides of a segmented request while nothing is
lost: what the driver has still to write without looking is one frame less than the
ECU's block has room for, or all that is left. So the ECU asks again exactly where
the driver looks. The number of frames and their kinds come from lemmas about
`FrameRequest`, and hold for any length.

`WholeOrNothing` needs to know where the kept lines come from. `WholeInv` says that they
are lines of the ECU's reply, taken in its order (`Ordered`) and only from the part the ECU
no longer owes (`Owes`); a line may come twice, and the first frame of the answer again at any
time, which is what an ECU that is stuck sends. `reassemble` accepts consecutive frames
only when their numbers go up by one modulo 16, so two it accepts in a row are never the
same frame (`NextNumber`): the places they come from go strictly up. It wants as many
bytes as the first frame declares, so they are no fewer than the answer has frames; hence each
is in its own place (`InTurn`), and the bytes are the
answer's one by one (`JoinedBytes`, `WholeAnswer`). `ManualAnswerArrives` follows the
whole reply (`responses = WholeReply` while nothing is lost) through `Reassemble`: a wait is
skipped, the first frame that can be an answer is found behind what is none
(`DiagnosticFacts`, `FirstOfFacts`), and joins to the answer (`AnswerJoined`).

**Frames.** `FramesInv` says of a frame under construction that every number already
packed stands in it bit by bit (`Bears`), unless a field packed later overlaps it.
`OrderFacts` gives the places a field's bits are written to: different ones, and exactly
those of `Own`. So packing touches nothing else (`PackFacts`, and `NeighboursStay` from it),
and numbers of fields without a bit in common stay. `ReadPlaced` reads the bits back where
read and write agree on the layout: a sequence of bits is the number that is the sum of its
weighted bits (`BinToInt`, `BitsOf`). The answer of the simulated link is as long as the
farthest field wants (`NeededFacts`); a read that starts inside a reply of that length takes
at least one bit in either byte order (`FieldRead`), and `OwnBound` has no field reach past it.

`Rounded` multiplies out: with `p = 2^k` and `D = 10^(k - d)`, the error times `D` is
`-p * r` or `p * (D - r)` for the remainder `r` of the division the code makes, and halves
of a unit are halves of `D`. Text is decoded by a function that each place gets from a later
one, so it is followed from the end (`Backwards`): what a sequence takes after its lead byte
are continuation bytes (`ConsumedFacts`), none of them ASCII (`Skipped`), so at each
place the decoder visits the ASCII bytes still to come are the one-byte characters still to come.

**Procedures.** An erase cleared on CAN carries its acknowledgement; a session a
sweep opened on CAN and could close is the one of the address being probed (`OpenInv`);
after a refused write a plugin is about to abort or to end badly, which is read off the
scripts (`ScriptInv`) one by one and allowed the rogues only when they do not write
(`RogueInv`). The parts share nothing, so `ProceduresInv` is their conjunction.

A reading of faults (`ReadingInv`): what is behind the header in the bytes joined is what
the ECU holds, from its first byte on, and byte `q` of record `n` is at place `n * size + q`.
So the window of turn `n` shows record `n + 1` and no other, and a reading ends early only
when bytes are missing. A recognition (`RecognitionInv`): what the catalogue has of a supplier
is a prefix of what its bytes read as, so the entry made from an ECU's own identity matches it.

**The database.** `SavedWasRead` is not inductive: a flow that has looked into a
place stores it some steps later, while others go on. `SourceInv` adds what each
flow's step says of the place it works on (`PlacesOfFlows`) and that what is
stored, or about to be, was read (`OnlyReadIsStored`). `StorageIsSource` carries
the theorems over to all of `Storage`, where reading, filtering, translating and
splitting are stuttering steps.

The loads: no entry is ever that of a failed load, so an error can only come from a
read in the caller's own time (`LoadInv`). What an open warns of and an import finds is told apart
widget by widget (`WidgetFacts`), then screen by screen. The catalogue: in the opening the
vehicle was chosen in, it is one of the index or any, and the groups on offer are those of
its ECUs (`CatalogueInv`). The words: an overlay still to come has nothing hashed, under
the original nor has the one in place; under another language the ECU's strings are
hashed into the overlay in place, or are about to be (`WordsInv`).

The trees: an index names only what is there, from whichever run; where one archive alone
was split, what is there is the archive's; a run that ended went over all of it
(`TreeInv`). An inspection takes its sample at equal distances, and so close that every stretch
of half the index holds one of it (`SampleFacts`), whatever else is there (`CopyInv`).

**The hosts of a port.** `Held` ties the port to the one instance that opened it, with its
streams and its loop; `Standing` gives each stage of a flow what it may take for granted of it,
and `OneAtOnce` has one flow open it and one close it at a time. `Kept` is the heart of
`BrowserReleases`: a port that is not closed is in use, or some flow is on its way to close it.
It needs `Parting` (what a disconnect is about to drop is closed) and that no instance
is ever opened again once it is behind its attempt (`Order`), or a disconnect that waited
could drop a port that is open. `Alone` says of an attempt nothing overlaps that it finds the
port as it left it and has heard the adapter at every rate it has passed. A flow that is resumed
runs through (`Quiet`), without which a click could come between a close and what follows it.

In a checkup the module being examined counts the findings (`Examining`, `ExaminesInTurn`),
and what was sent was sent while some module was past its attach (`Asked`). Which requests it
times is chosen by rank: `Ranks` shows that in a finite strict order every place is taken.

### From which assumptions

The named assumptions stand in the modules; TLC evaluates them in the runs.

- `CallersAssumption`, `BoundsAssumption`: finitely many callers, `None` none of them.
- `NoneAssumption`, `EcusAssumption` of `ElmDriver`: every ECU has a bus, an
  address and an rx id.
- `ScreensAssumption`, `NamesAssumption`, `LimitsAssumption` of `AppSession`: every
  screen is of an ECU; handlers, the timer and the other tab are told apart.
- `ConstantsAssumption`, `LayoutAssumption`, `NoneAssumption` of `ScreenRuntime`: the
  widgets of a screen and the requests they name exist; `None` is no cache entry.
- `ConstantsAssumption` of `CanExchange`: requests and answers are of bytes, at
  least one, and no answer is longer than the 4095 a first frame can declare; what
  precedes an answer fits one frame. `DialogueAssumption`: the answer is the positive
  one of the request's service or a refusal, which is one frame; before it come frames that
  are neither, and at most one wait, first; none of them equals the last frame of the request, which the
  driver would take for its echo.
- `FieldsAssumption` of `RequestFrames`: a field starts at a bit of its first byte and has bits; it
  is text or scaled, not both; a template has its service identifier. The integer of a label is
  handed on in hexadecimal digits, which a scaled field reads as a decimal number
  (`packages/codec/src/ecuRequest.ts:98`): no such label has the digit E, which would be read as an
  exponent. `InputsAssumption`: what is typed are printable
  characters, and a text that reads as hexadecimal is no negative number.
  `NumbersAssumption`: bytes are bytes, and the numbers formatted are not negative.
- `PluginsAssumption`: the plugins are the repository's and the two rogues.
- `PlacesAssumption`, `HoldsAssumption`, `BoundsAssumption` of `DatabaseSource`: an
  archive that is accepted has an index that opens, as `archiveDbSource` writes it.
  `WordsAssumption`: "none" is no ECU. `DatabasesAssumption`, `SortAssumption`: a database
  is a function, and a sort by labels neither loses nor adds a code.
- `SampleAssumption`, `EntriesAssumption` of `DatabaseTree`: a sample is of two or more; no
  ECU and no layout is in an archive twice.
- `MostAssumption`, `FieldsAssumption` of `FaultCodes`: the fields of a fault file are behind the header and
  within a record, which the reading steps by, or by nothing; the first byte tells the
  kind. `TextsAssumption` of `BusScan`: what is read of a supplier is a text.
- `SerialAssumption`, `CommandAssumption`: the adapter answers at a candidate rate or at
  none; a flow is a connect or a disconnect; requests are records of what `Widest` and
  `Timeable` read, and services are texts.

### Only model-checked

- Liveness: `EveryReadReturns`, `TimersDrain`, `RefreshSettles`, `ExchangeEnds`,
  `ProcedureEnds`. The prover has no rule for fairness.
- That a little-endian field of several bytes is not read where it is written
  (`WriteMirrorsRead`, in no run), and the other properties listed under "What does not hold".

The prover has no law of powers, and the library's induction rules take an operator and do not
instantiate. Where the proofs need an induction over numbers they take the least or greatest
element of a set (`LeastOf`, `Induct`, `Backwards`), or count (`Ranks`). What a
recursive function of a module computes is told by exhibiting a function with the same
equations (`Recursion`, `SuffixRecursion`) and comparing the two place by place. That is why
the modules that are proved about define powers and concatenations by recursive functions
(`Power`, `Concatenated`).

## Mutants

Next to some definitions stands a mutant of it (its comment says so): the definition
as a plausible mistake would have it. Each property of a run is violated by its
mutant, which shows that the run reaches what the property is about. No
specification uses them.

## Not modelled, and why

- The mock adapter: a test double.
- The addressing tables and types of `packages/core`, the interface's messages:
  constant data. Geometry, drawing, help, the trace of exchanges, zoom and
  appearance: no state that another part depends on.
- `benchLink` and the statistics of `bench` and `checkup`: arithmetic on durations.
- `startCanSession`, which only a test calls; `configure` and `setSignals` of the
  ports, the buffering of the node port: straight calls into the operating system.
- The text of the plugins' wire protocol and the loading of their WebAssembly:
  external. The pseudo-random filler of simulated answers.
- A digest that rejects, archives read through compression siblings, the file
  systems behind `csfs`: external and without a failure path of their own here.
- Browsers without Web Locks: every call runs; the lock promises nothing.

## Plan

Abstract specifications
worth having beside `AdapterMutex`: a request-response line that `ElmTransport`
implements for one caller on a clean line, and an addressed bus that `ElmDriver`
implements for one flow. Runs to come: presses, polls and plugins over one
driver cache, as `ScreenRuntime` and `PluginRun` each have it.
