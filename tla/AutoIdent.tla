------------------------------ MODULE AutoIdent ------------------------------
(***************************************************************************)
(* Who an ECU says it is, and which catalogue entries that is              *)
(* (packages/session/src/scan.ts, packages/db/src/autoident.ts). A text is *)
(* a sequence of characters; a byte of a reply is a printable character,   *)
(* "pad" (00 or FF) or "ctl" (any other byte that does not print).         *)
(***************************************************************************)
EXTENDS Integers, Sequences, FiniteSets, SequencesExt, FiniteSetsExt

CONSTANTS
    Catalogue,      \* [Slugs -> [address, protocol, projects, autoidents]]
    CanMapped       \* the addresses that have a pair of CAN identifiers

Slugs == DOMAIN Catalogue

Printable(byte) == byte \notin {"pad", "ctl"}

\* The text up to the first 00 or FF: what a UDS reply carries.
AsciiPayload(bytes) ==
    LET pads == {i \in DOMAIN bytes : bytes[i] = "pad"}
    IN IF pads = {} THEN bytes ELSE SubSeq(bytes, 1, Min(pads) - 1)

\* The same of an identity block, which is to stop there too.
SliceToPad(bytes) == AsciiPayload(bytes)

\* The text of a slice of an identity block: what does not print is a "?", and "?" at the end is
\* padding.
SliceAscii(bytes) ==
    LET text == [i \in DOMAIN bytes |-> IF Printable(bytes[i]) THEN bytes[i] ELSE "?"]
        kept == {i \in DOMAIN text : text[i] # "?"}
    IN IF kept = {} THEN <<>> ELSE SubSeq(text, 1, Max(kept))

\* What is reported by an ECU whose bytes these are, by the way they were asked for.
Reported(id, via) ==
    IF via = "uds"
    THEN [id EXCEPT !.supplier = AsciiPayload(@), !.soft = AsciiPayload(@), !.version = AsciiPayload(@)]
    ELSE [id EXCEPT !.supplier = SliceAscii(@)]

\* A diagnostic version that is missing, or does not parse.
NoVersion == -1

CheckExact(entry, id) ==
    /\ entry.diag # NoVersion /\ entry.diag = id.diag
    /\ IsPrefix(entry.supplier, id.supplier)
    /\ IsPrefix(entry.soft, id.soft)
    /\ IsPrefix(entry.version, id.version)

HexDigits == <<"0", "1", "2", "3", "4", "5", "6", "7", "8", "9", "A", "B", "C", "D", "E", "F">>

\* A version whose characters are all hexadecimal digits has a value.
HasValue(version) == version # <<>> /\ Range(version) \subseteq Range(HexDigits)

Distance(v, w) ==
    LET digit(c) == CHOOSE d \in 0..15 : HexDigits[d + 1] = c
        value(digits) == FoldLeft(LAMBDA n, c : 16 * n + digit(c), 0, digits)
        apart == value(v) - value(w)
    IN IF apart < 0 THEN -apart ELSE apart

CheckApproximate(entry, id) ==
    /\ entry.diag # NoVersion
    /\ entry.supplier = id.supplier /\ entry.soft = id.soft

\* An ISO8 module is reached over K-line; a plain ISO entry matches neither.
ProtocolMatches(protocol, scanned) ==
    IF protocol = "CAN" THEN scanned = "can" ELSE protocol \in {"KWP2000", "ISO8"} /\ scanned = "kline"

At(address, scanned) ==
    {s \in Slugs : Catalogue[s].address = address /\ ProtocolMatches(Catalogue[s].protocol, scanned)}

\* The entries that match in full or, if none does, those that agree on supplier and software
\* with a version that can be compared; they are offered by their distance.
MatchAutoIdent(address, id, scanned) ==
    LET entries(s) == Range(Catalogue[s].autoidents)
        exact == {[slug |-> s, delta |-> 0] : s \in {s \in At(address, scanned) :
                     \E e \in entries(s) : CheckExact(e, id)}}
        near == UNION {{[slug |-> s, delta |-> Distance(e.version, id.version)] :
                           e \in {e \in entries(s) : /\ CheckApproximate(e, id)
                                                      /\ HasValue(e.version) /\ HasValue(id.version)}}
                       : s \in At(address, scanned)}
    IN IF exact # {} THEN exact ELSE near

\* The addresses a sweep of a bus covers: those the catalogue claims for the project, by prefix of
\* its code; without a project and a catalogue, every mapped address. 0 and 255 are no ECU.
AddressesToProbe(bus, project) ==
    LET wanted == IF bus = "can" THEN {"CAN"} ELSE {"KWP2000", "ISO8", "ISO"}
        claimed == {Catalogue[s].address : s \in {s \in Slugs :
                       /\ Catalogue[s].protocol \in wanted
                       /\ project = <<>> \/ \E code \in Catalogue[s].projects : IsPrefix(project, code)}}
        found == IF claimed \ {0, 255} = {} /\ project = <<>> /\ bus = "can" THEN CanMapped ELSE claimed
    IN SetToSortSeq(found \ {0, 255}, <)
==============================================================================
