------------------------------ MODULE FaultCodes ------------------------------
(***************************************************************************)
(* Reading and erasing fault codes (packages/session/src/dtc.ts), on a     *)
(* vehicle and against the simulated ECU of demo mode (simulate.ts). A     *)
(* reply is two header bytes and the bytes of records; a byte knows the    *)
(* record and the place it belongs to, so that a misplaced window shows.   *)
(***************************************************************************)
EXTENDS Integers, Sequences, FiniteSets, LinkTexts

CONSTANTS
    Ecus,           \* ECU descriptions: [read, fields, size, stride, more]
    MostRecords,    \* how many faults an ECU stores at most
    SimulatedRecords, \* how many the simulated ECU reports
    MoreDtcLimit    \* continuation requests of one read

\* Bound: the model has a finite memory for faults.
ASSUME MostAssumption == MostRecords \in Nat

\* A file that describes how faults are read has fields of the record behind the header, steps by a
\* record or not at all, and tells the two kinds of fault apart by the first byte of a record.
ASSUME FieldsAssumption ==
    \A ecu \in Ecus :
        /\ ecu.size \in Nat \ {0} /\ ecu.stride \in {0, ecu.size}
        /\ ecu.read # "none" => ecu.fields # {}
        /\ \A f \in ecu.fields :
              /\ f.first \in 3..(ecu.size + 2)
              /\ f.name = "Type Of Fault" => f.first = 3
              /\ f.name \in {"Standard Fault", "Specific Fault"} => \E k \in ecu.fields : k.name = "Type Of Fault"

VARIABLES
    fstep,      \* where readDtcs or clearDtcs stands
    fecu,       \* the ECU description it works on
    flink,      \* the link: can, iso or demo
    stored,     \* the faults the ECU has: sequence of kinds (0 standard, 1 specific)
    given,      \* how many bytes of its records the ECU has delivered in this read
    bytes,      \* the reply so far, continuations appended
    declared,   \* the count the first reply declares
    continued,  \* continuation requests sent
    records,    \* the records decoded
    outcome,    \* what the call returned
    acked,      \* whether the ECU acknowledged the erase
    wide        \* whether the response timeout is widened for an erase

faultVars == <<fstep, fecu, flink, stored, given, bytes, declared, continued, records, outcome, acked, wide>>

FaultInit ==
    /\ fstep = "idle" /\ fecu = "none" /\ flink = "can" /\ stored = <<>> /\ given = 0
    /\ bytes = <<>> /\ declared = 0 /\ continued = 0 /\ records = <<>>
    /\ outcome = "none yet" /\ acked = FALSE /\ wide = FALSE

------------------------------------------------------------------------------
(* The ECU. *)

Header(count) == <<[of |-> 0, at |-> 1, val |-> 0], [of |-> 0, at |-> 2, val |-> count]>>

\* All the record bytes the ECU holds: the first byte of a record tells its kind.
Held ==
    [i \in 1..(Len(stored) * fecu.size) |->
        LET n == ((i - 1) \div fecu.size) + 1
            p == ((i - 1) % fecu.size) + 1
        IN [of |-> n, at |-> p, val |-> IF p = 1 THEN stored[n] ELSE 7]]

\* The next reply of a read: some whole number of the records left, at least one if any is left. An
\* ECU that has none left sends a bare header, or starts over.
Chunks ==
    LET left == Len(Held) - given
    IN IF left = 0 THEN {<<>>, Held}
       ELSE {SubSeq(Held, given + 1, given + k * fecu.size) : k \in 1..(left \div fecu.size)}

\* simulatedReply: a fault request, which has a stride, is answered with a fixed number of records.
SimulatedFaults(ecu, faults) == ecu.stride > 0 /\ Len(faults) = SimulatedRecords

\* The simulated ECU answers its fault request whole, and knows no continuation unless that is the
\* same frame (simulatedDtcLink).
Possible(o, chunk) ==
    /\ chunk \in Chunks
    /\ flink = "demo" =>
          \/ o = "positive" /\ chunk = Held
          \/ o = "silent" /\ fstep = "continuing"

------------------------------------------------------------------------------
(* readDtcs *)

\* Whether the ECU describes a request to read faults with, and fields in its answer.
SupportsDtcRead(ecu) == ecu.read # "none"

ReadBegin(ecu, link, faults) ==
    /\ fstep = "idle"
    /\ fecu' = ecu /\ flink' = link
    /\ stored' = faults /\ given' = 0 /\ bytes' = <<>> /\ declared' = 0
    /\ continued' = 0 /\ records' = <<>>
    /\ IF SupportsDtcRead(ecu) THEN fstep' = "asking" /\ UNCHANGED outcome
       ELSE fstep' = "done" /\ outcome' = "unsupported"
    /\ UNCHANGED <<acked, wide>>

\* The first reply: the ECU's answer, an answer that is a bare header, or no answer.
FirstReply(o, chunk) ==
    LET text == TextOf(flink, o)
        reply == Header(Len(stored)) \o chunk
    IN /\ fstep = "asking"
       /\ Possible(o, chunk)
       /\ CASE Rejected(text) -> outcome' = "rejected" /\ fstep' = "done" /\ UNCHANGED <<bytes, declared, given>>
            [] Empty(text) -> outcome' = "none" /\ fstep' = "done" /\ UNCHANGED <<bytes, declared, given>>
            [] text = "hex" /\ Len(reply) <= 2 -> outcome' = "none" /\ fstep' = "done" /\ UNCHANGED <<bytes, declared, given>>
            [] OTHER -> /\ bytes' = reply
                        /\ declared' = Len(stored)
                        /\ given' = Len(chunk)
                        /\ fstep' = IF fecu.more THEN "continuing" ELSE "decoding"
                        /\ UNCHANGED outcome
       /\ UNCHANGED <<fecu, flink, stored, continued, records, acked, wide>>

\* The header of a continuation left in.
AppendedWhole(reply) == bytes \o reply

\* Drop the two header bytes and append the records.
Appended(reply) == bytes \o SubSeq(reply, 3, Len(reply))

MayContinue == continued < MoreDtcLimit

\* One continuation request and its reply; a header with nothing behind it ends the read.
MoreReply(o, chunk) ==
    LET text == TextOf(flink, o)
        reply == Header(Len(stored)) \o chunk
        over == Rejected(text) \/ Empty(text) \/ Len(reply) <= 2
    IN /\ fstep = "continuing" /\ MayContinue
       /\ Possible(o, chunk)
       /\ continued' = continued + 1
       /\ IF over THEN fstep' = "decoding" /\ UNCHANGED <<bytes, given>>
          ELSE /\ bytes' = Appended(reply)
               /\ given' = IF given = Len(Held) THEN given ELSE given + Len(chunk)
               /\ UNCHANGED fstep
       /\ UNCHANGED <<fecu, flink, stored, declared, records, outcome, acked, wide>>

EnoughAsked ==
    /\ fstep = "continuing" /\ ~MayContinue
    /\ fstep' = "decoding"
    /\ UNCHANGED <<fecu, flink, stored, given, bytes, declared, continued, records, outcome, acked, wide>>

\* A field of the record a window starts with: its byte, when the window reaches it.
Decodable(window) == {f \in fecu.fields : f.first <= Len(window)}

\* Drop whichever of the two fault fields does not apply, when their discriminator was read.
SelectFaultKind(fields) ==
    LET kinds == {f \in fields : f.name = "Type Of Fault"}
        drop == IF \E f \in kinds : f.byte.val = 0 THEN "Specific Fault" ELSE "Standard Fault"
    IN IF kinds = {} THEN fields ELSE {f \in fields : f.name # drop}

\* The window of record n: the header stays in front of the first record only.
Window(n) == SubSeq(bytes, n * fecu.stride + 1, Len(bytes))

\* One turn of the record loop.
DecodeRecord ==
    LET n == Len(records)
        fields == {[name |-> f.name, byte |-> Window(n)[f.first]] : f \in Decodable(Window(n))}
        last == n >= declared \/ fields = {} \/ (fecu.stride <= 0 /\ n > 0) \/ Window(n) = <<>>
    IN /\ fstep = "decoding"
       /\ IF last THEN fstep' = "done" /\ outcome' = "ok" /\ UNCHANGED records
          ELSE records' = Append(records, SelectFaultKind(fields)) /\ UNCHANGED <<fstep, outcome>>
       /\ UNCHANGED <<fecu, flink, stored, given, bytes, declared, continued, acked, wide>>

------------------------------------------------------------------------------
(* clearDtcs *)

\* The timeout is widened before the frame goes out; the fallback frame when the file has none.
ClearBegin(ecu, link, faults) ==
    /\ fstep = "idle"
    /\ fecu' = ecu /\ flink' = link /\ stored' = faults
    /\ wide' = (link # "demo")
    /\ fstep' = "erasing"
    /\ UNCHANGED <<given, bytes, declared, continued, records, outcome, acked>>

\* The same without the test for an empty reply.
ClearedUnlessWrong(text) == ~Rejected(text) /\ text # "WRONG"

\* Anything but a refusal, WRONG or an empty reply counts as cleared.
Cleared(text) == ~Rejected(text) /\ text \notin {"WRONG", ""}

EraseReply(o) ==
    /\ fstep = "erasing"
    /\ flink = "demo" => o = "positive"
    /\ acked' = (o = "positive")
    /\ stored' = IF o = "positive" THEN <<>> ELSE stored
    /\ outcome' = IF Cleared(TextOf(flink, o)) THEN "cleared" ELSE "not cleared"
    /\ wide' = FALSE
    /\ fstep' = "done"
    /\ UNCHANGED <<fecu, flink, given, bytes, declared, continued, records>>

\* The link is lost: what was widened stays so.
EraseThrows ==
    /\ fstep = "erasing" /\ flink # "demo"
    /\ outcome' = "threw" /\ fstep' = "done"
    /\ UNCHANGED <<fecu, flink, stored, given, bytes, declared, continued, records, acked, wide>>

\* clearFaults reads again after an erase, for "cleared" is a claim until the ECU has nothing left.
ReadBack ==
    /\ fstep = "done" /\ outcome = "cleared"
    /\ given' = 0 /\ bytes' = <<>> /\ declared' = 0 /\ continued' = 0 /\ records' = <<>>
    /\ IF SupportsDtcRead(fecu) THEN outcome' = "none yet" /\ fstep' = "asking"
       ELSE outcome' = "unsupported" /\ UNCHANGED fstep
    /\ UNCHANGED <<fecu, flink, stored, acked, wide>>

FaultStep ==
    \/ /\ fstep \in {"asking", "continuing"}
       /\ \E o \in Outcomes : \E chunk \in Chunks : FirstReply(o, chunk) \/ MoreReply(o, chunk)
    \/ EnoughAsked \/ DecodeRecord \/ ReadBack \/ EraseThrows
    \/ \E o \in Outcomes : EraseReply(o)

FaultLists == UNION {[1..n -> {0, 1}] : n \in 0..MostRecords}

FaultNext ==
    \/ \E ecu \in Ecus, link \in Links, faults \in FaultLists :
          /\ link = "demo" => SimulatedFaults(ecu, faults)
          /\ ReadBegin(ecu, link, faults) \/ ClearBegin(ecu, link, faults)
    \/ FaultStep

------------------------------------------------------------------------------
(* Properties. *)

\* The faults shown are the faults stored: record n is decoded from the bytes of the ECU's n-th
\* record alone, whatever replies they came in; of the two readings of the same bits it shows the
\* one its kind selects; and when the ECU delivered everything, none of them is missing
\* (dtc.ts:342-395).
FaultsAsStored ==
    fstep = "done" /\ outcome = "ok" =>
        /\ \A n \in DOMAIN records : \A f \in records[n] :
              /\ f.byte.of = n
              /\ f.name = "Standard Fault" => stored[n] = 0
              /\ f.name = "Specific Fault" => stored[n] = 1
        /\ fecu.stride = fecu.size /\ given = Len(Held) => Len(records) = declared

\* Silence after an erase is not success (dtc.test.ts:325): "cleared" is said only of an erase the
\* ECU acknowledged.
EraseAcknowledged == fstep = "done" /\ outcome = "cleared" => acked

\* On CAN, where the framing leaves nothing of the adapter's words, it is so.
CanEraseAcknowledged == flink = "can" => EraseAcknowledged
==============================================================================
