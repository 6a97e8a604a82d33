------------------------------- MODULE BusScan -------------------------------
(***************************************************************************)
(* Sweeping a vehicle for the modules it has: scanAll of                   *)
(* packages/session/src/scan.ts, CAN first and then K-line, one address    *)
(* after the other, each asked by UDS and then by the older local          *)
(* identifier. Any exchange may fail, and the operator may stop the sweep. *)
(***************************************************************************)
EXTENDS AutoIdent, LinkTexts

CONSTANTS
    Projects,       \* the filters a sweep is started with; <<>> is none
    Identities      \* [Addresses -> the bytes the ECU there identifies itself with]

\* The texts of the catalogue and of the modules of the vehicle are characters.
ASSUME TextsAssumption ==
    \A s \in Slugs : LET id == Identities[Catalogue[s].address] IN
        /\ id = [diag |-> id.diag, supplier |-> id.supplier, soft |-> id.soft, version |-> id.version]
        /\ id.supplier \in Seq(STRING)
        /\ \A e \in Range(Catalogue[s].autoidents) : e.supplier \in Seq(STRING)

VARIABLES
    sstep,      \* where the sweep stands
    bus,        \* the bus it is on
    project,    \* the filter
    left,       \* addresses still to probe on this bus
    asked,      \* requests of the probe already answered as hoped
    results,    \* one result per address probed
    progress,   \* what onProgress was last told: [done, total]
    aborted,    \* signal.aborted
    cancelled,
    open,       \* <<bus, address>> of the ECUs in a session other than the default one
    uncloseable \* ... of those that did not acknowledge a close

scanVars == <<sstep, bus, project, left, asked, results, progress, aborted, cancelled, open, uncloseable>>

ScanInit ==
    /\ sstep = "idle" /\ bus = "can" /\ project = <<>> /\ left = <<>> /\ asked = 0 /\ results = <<>>
    /\ progress = [done |-> 0, total |-> 0] /\ aborted = FALSE /\ cancelled = FALSE
    /\ open = {} /\ uncloseable = {}

------------------------------------------------------------------------------

UdsReads == <<"1003", "22F1A0", "22F18A", "22F194", "22F195">>

LocalReads == <<"10C0", "2180">>

Address == Head(left)

Count(b) == Len(AddressesToProbe(b, project))

Total == Count("can") + Count("kline")

\* Where the relay of scanAll starts counting on a bus.
Offset(b) == IF b = "can" THEN 0 ELSE Count("can")

\* One address is done: a result, a line of progress, and on to the next.
Report(outcome, via) ==
    /\ results' = Append(results, [bus |-> bus, address |-> Address, outcome |-> outcome, via |-> via])
    /\ progress' = [done |-> Offset(bus) + Count(bus) - Len(left) + 1, total |-> Total]
    /\ left' = Tail(left)
    /\ sstep' = "sweeping" /\ asked' = 0

\* The identity is matched with the catalogue.
Identify(via) ==
    LET matches == MatchAutoIdent(Address, Reported(Identities[Address], via), bus)
    IN Report(IF matches # {} THEN "identified" ELSE "unknown-ecu", via)

Silent == Report("silent", "none")

------------------------------------------------------------------------------

BeginScan(p) ==
    /\ sstep = "idle"
    /\ project' = p
    /\ bus' = "can" /\ left' = AddressesToProbe("can", p)
    /\ sstep' = "sweeping"
    /\ UNCHANGED <<asked, results, progress, aborted, cancelled, open, uncloseable>>

Abort == sstep \notin {"idle", "swept", "threw"} /\ ~aborted /\ aborted' = TRUE
         /\ UNCHANGED <<sstep, bus, project, left, asked, results, progress, cancelled, open, uncloseable>>

\* Between two addresses: stop, go on with the next, or close the bus. An address without CAN
\* identifiers is reported and skipped.
NextAddress ==
    /\ sstep = "sweeping" /\ left # <<>>
    /\ IF aborted
       THEN /\ cancelled' = TRUE /\ sstep' = "closing"
            /\ UNCHANGED <<left, asked, results, progress>>
       ELSE /\ UNCHANGED cancelled
            /\ CASE bus = "kline" -> sstep' = "init" /\ UNCHANGED <<left, asked, results, progress>>
                 [] bus = "can" /\ Address \in CanMapped -> sstep' = "uds" /\ UNCHANGED <<left, asked, results, progress>>
                 [] OTHER -> Report("unmapped", "none")
    /\ UNCHANGED <<bus, project, aborted, open, uncloseable>>

\* The ECU may have opened the session it was asked for, whatever came back of it. It keeps it
\* until it is told to leave it: that it gives a session up after a while is not relied on.
Opens(b, o) ==
    IF o = "positive" THEN open' = open \cup {<<b, Address>>}
    ELSE IF o = "negative" THEN UNCHANGED open
    ELSE open' \in {open, open \cup {<<b, Address>>}}

\* The probe's own isNegative and isEmpty.
Useless(text) == Rejected(text) \/ Empty(text)

\* A probe that gives up at once, its session left as it is.
GivesUpWithoutClose(closing) ==
    IF closing = "udsClose" THEN sstep' = "local" /\ UNCHANGED <<left, results, progress>> ELSE Silent

\* finally: the session is closed on every way out.
GivesUp(closing) == sstep' = closing /\ UNCHANGED <<left, results, progress>>

\* One request of the probe of a CAN address. A reply that does not parse ends it as well.
Asks(step, reads, closing, o, readable) ==
    /\ sstep = step
    /\ IF Useless(TextOf("can", o)) \/ (~readable /\ asked = 1)
       THEN GivesUp(closing) /\ asked' = 0
       ELSE /\ asked' = asked + 1
            /\ sstep' = IF asked + 1 = Len(reads) THEN closing ELSE step
            /\ UNCHANGED <<left, results, progress>>
    /\ IF asked = 0 THEN Opens("can", o) ELSE UNCHANGED open
    /\ UNCHANGED <<bus, project, aborted, cancelled, uncloseable>>

AsksUds(o, readable) == Asks("uds", UdsReads, "udsClose", o, readable)

AsksLocal(o, readable) == Asks("local", LocalReads, "localClose", o, readable)

\* 1001 or 1081: the ECU returns to its default session if it understands that.
Closes(o) ==
    LET here == <<"can", Address>> IN
    /\ open' \in IF o = "positive" THEN {open \ {here}}
                 ELSE IF o = "negative" THEN {open} ELSE {open, open \ {here}}
    /\ uncloseable' = IF o = "positive" THEN uncloseable ELSE uncloseable \cup {here}

ClosesUds(o) ==
    /\ sstep = "udsClose"
    /\ Closes(o)
    /\ IF asked = Len(UdsReads) THEN Identify("uds")
       ELSE sstep' = "local" /\ asked' = 0 /\ UNCHANGED <<left, results, progress>>
    /\ UNCHANGED <<bus, project, aborted, cancelled>>

ClosesLocal(o) ==
    /\ sstep = "localClose"
    /\ Closes(o)
    /\ IF asked = Len(LocalReads) THEN Identify("local-id") ELSE Silent
    /\ UNCHANGED <<bus, project, aborted, cancelled>>

\* K-line: a handshake for each address, and then the local identifier alone.
InitsKline(initialised) ==
    /\ sstep = "init"
    /\ IF initialised THEN sstep' = "kline" /\ asked' = 0 /\ UNCHANGED <<left, results, progress>> ELSE Silent
    /\ UNCHANGED <<bus, project, aborted, cancelled, open, uncloseable>>

\* 10C0 opens a session here too, and nothing closes it: no 1081 follows on any way out.
AsksKline(o, readable) ==
    /\ sstep = "kline"
    /\ IF asked = 0 THEN Opens("kline", o) ELSE UNCHANGED open
    /\ IF Useless(TextOf("iso", o)) \/ (~readable /\ asked = 1)
       THEN Silent
       ELSE IF asked + 1 = Len(LocalReads) THEN Identify("local-id")
       ELSE asked' = asked + 1 /\ UNCHANGED <<sstep, left, results, progress>>
    /\ UNCHANGED <<bus, project, aborted, cancelled, uncloseable>>

\* The last address is done, or the sweep was stopped, and the protocol closed.
BusDone ==
    /\ sstep = "closing" \/ (sstep = "sweeping" /\ left = <<>>)
    /\ IF bus = "can" /\ ~cancelled
       THEN bus' = "kline" /\ left' = AddressesToProbe("kline", project) /\ sstep' = "sweeping"
       ELSE sstep' = "swept" /\ UNCHANGED <<bus, left>>
    /\ UNCHANGED <<project, asked, results, progress, aborted, cancelled, open, uncloseable>>

\* The link is lost: the sweep is over where it stands, after one last attempt to close.
LinkLost ==
    /\ sstep \in {"uds", "local", "udsClose", "localClose", "init", "kline"}
    /\ sstep' = "threw"
    /\ uncloseable' = uncloseable \cup open
    /\ UNCHANGED <<bus, project, left, asked, results, progress, aborted, cancelled, open>>

ScanStep ==
    \/ NextAddress \/ BusDone \/ LinkLost \/ Abort
    \/ \E o \in Outcomes : ClosesUds(o) \/ ClosesLocal(o)
    \/ \E o \in Outcomes, readable \in BOOLEAN :
          AsksUds(o, readable) \/ AsksLocal(o, readable) \/ AsksKline(o, readable)
    \/ \E initialised \in BOOLEAN : InitsKline(initialised)

ScanNext == (\E p \in Projects : BeginScan(p)) \/ ScanStep

------------------------------------------------------------------------------
(* Properties. *)

\* On CAN an ECU left in a non-default session goes on broadcasting and corrupts the next
\* address's probe (scan.ts:216): when an address is probed, on either bus, no CAN ECU probed
\* before it is in a session still, unless it did not acknowledge the request that closes one.
CanSessionsClosed ==
    sstep \notin {"idle", "swept", "threw"} /\ left # <<>> =>
        \A s \in open \ uncloseable : s[1] = "can" => s = <<bus, Address>>

\* scan.ts:517, of the end of a sweep: "Leave the bus as we found it, whether or not the sweep
\* completed." A sweep that has ended leaves no ECU in a session, unless the ECU was asked to leave
\* it and did not. It does: no module on a K-line is asked to leave its 10C0 session.
BusAsFound == sstep = "swept" => open \subseteq uncloseable

\* An ECU is known when what the catalogue has of it is what its bytes read as, with a question
\* mark for every byte that does not print, but none at the end, where it is padding. Every such
\* ECU that answered is recognised (scan.ts:137, the UCH at address 26 whose supplier begins with an unprintable byte).
Known(address, scanned) ==
    \E s \in At(address, scanned) : \E e \in Range(Catalogue[s].autoidents) :
        LET id == Identities[address]
        IN /\ e.diag = id.diag /\ IsPrefix(e.version, id.version) /\ IsPrefix(e.soft, id.soft)
           /\ e.diag # NoVersion /\ Len(e.supplier) <= Len(id.supplier)
           /\ e.supplier # <<>> => Last(e.supplier) # "?"
           /\ \A i \in DOMAIN e.supplier :
                 e.supplier[i] = IF Printable(id.supplier[i]) THEN id.supplier[i] ELSE "?"

KnownEcusRecognised ==
    \A n \in DOMAIN results :
        results[n].via = "local-id" /\ Known(results[n].address, results[n].bus) => results[n].outcome = "identified"
==============================================================================
