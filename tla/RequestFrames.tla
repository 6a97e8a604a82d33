---------------------------- MODULE RequestFrames ----------------------------
(***************************************************************************)
(* One request from the inputs typed on a screen to the values shown on    *)
(* it: buildDataStream packs the inputs one after the other into the       *)
(* request's template, the simulated link of demo mode answers it, and     *)
(* decodeStream reads every field of the answer. Two jobs of their own     *)
(* exercise the arithmetic on its own: rounding a number for display, and  *)
(* decoding text.                                                          *)
(***************************************************************************)
EXTENDS Integers, Sequences, FiniteSets, Codec

CONSTANTS
    Requests,       \* name |-> [sent, sends, receives, minbytes, canned, endian]
    Inputs,         \* what is typed in a box
    Fills,          \* the fill modes of the simulated link
    Fill,           \* the byte it generates
    Numbers,        \* numbers to format: <<m, k, decimals>>, the number being m / 2^k
    Alphabet,       \* bytes of the texts to decode
    TextLength,     \* and their greatest length
    MaxSupplied     \* bounds the boxes supplied at once

Byte == 0..255

None == "none"

Size(n) == IF n < 0 THEN -n ELSE n

\* A field starts at a bit of its first byte and is text or a scaled number, not both. No label of a
\* scaled one has the hexadecimal digit E, which would make its number a power of ten.
IsField(f) ==
    /\ f.first \in Int /\ f.offset \in 0..7 /\ f.bits \in Nat \ {0} /\ f.bytescount \in Nat
    /\ f.ascii \in BOOLEAN /\ f.scaled \in BOOLEAN /\ ~(f.ascii /\ f.scaled)
    /\ f.step \in Int /\ f.shift \in Int /\ f.divideby \in Int
    /\ DOMAIN f.lists \subseteq Int
    /\ f.scaled => \A n \in DOMAIN f.lists : \A i \in DOMAIN HexDigits(Size(n)) : HexDigits(Size(n))[i] # 14

\* A request has its service identifier at least.
ASSUME FieldsAssumption ==
    /\ None \notin DOMAIN Requests
    /\ \A r \in DOMAIN Requests :
          /\ \A name \in DOMAIN Requests[r].sends : IsField(Requests[r].sends[name])
          /\ \A f \in Requests[r].receives : IsField(f)
          /\ IsFiniteSet(Requests[r].receives) /\ Requests[r].minbytes \in Nat
          /\ Requests[r].sent \in Seq(Byte) \ {<<>>} /\ Requests[r].canned \in Seq(Byte)

\* What is typed has printable characters; a text that reads as a number may be infinite.
ASSUME InputsAssumption ==
    \A i \in Inputs :
        /\ i.kind \in {"number", "infinite", "word", "blank"} /\ i.chars \in Seq(16..255)
        /\ i.kind = "number" => i.value \in Nat

ASSUME NumbersAssumption ==
    /\ Fill \in Byte /\ MaxSupplied \in Nat /\ Numbers \subseteq Nat \X Nat \X Nat
    /\ Alphabet \subseteq Byte /\ TextLength \in Nat

VARIABLES
    phase,      \* idle, building, built, refused, threw, answered, decoded, formatted, text
    request,    \* the name of the request being built
    supplied,   \* the inputs, in the order of the record's entries: <<field name, input>>
    at,         \* how many of them are packed
    stream,     \* the bytes so far
    reply,      \* the simulated link's answer
    result      \* what the last job gave

vars == <<phase, request, supplied, at, stream, reply, result>>

Init ==
    /\ phase = "idle" /\ request = None /\ supplied = <<>> /\ at = 0
    /\ stream = <<>> /\ reply = <<>> /\ result = None

------------------------------------------------------------------------------
(* Building. *)

Field(name) == Requests[request].sends[name]

\* buildDataStream starts from the template: what is not supplied keeps what it holds.
Begin(r, s) ==
    /\ phase = "idle"
    /\ phase' = "building" /\ request' = r /\ supplied' = s /\ at' = 0
    /\ stream' = Requests[r].sent
    /\ UNCHANGED <<reply, result>>

Current == Field(supplied[at + 1][1])

\* The integer of a label as it is handed to setValue, in hexadecimal digits behind its sign: text
\* takes the characters, a scaled field reads them as a decimal number if they are one, and the
\* others read them as hexadecimal, which a negative number is not.
LabelText(field, n) ==
    LET digits == HexDigits(Size(n))
        chars == (IF n < 0 THEN <<45>> ELSE <<>>)
                 \o [i \in 1..Len(digits) |-> IF digits[i] < 10 THEN 48 + digits[i] ELSE 55 + digits[i]]
        decimal == \A i \in 1..Len(digits) : digits[i] < 10
    IN CASE field.scaled /\ decimal ->
              [kind |-> "number", value |-> IF n < 0 THEN -Decimal(digits) ELSE Decimal(digits), chars |-> chars]
         [] ~field.scaled /\ n >= 0 -> [kind |-> "number", value |-> n, chars |-> chars]
         [] OTHER -> [kind |-> "word", chars |-> chars]

\* A word that is one of the field's labels stands for the label's integer.
Integer(field, input) ==
    LET keys == {n \in DOMAIN field.lists : input.kind = "word" /\ field.lists[n] = input.label}
    IN IF keys = {} THEN ToInteger(field, input)
       ELSE ToInteger(field, LabelText(field, CHOOSE n \in keys : TRUE))

SetValue ==
    LET n == Integer(Current, supplied[at + 1][2])
    IN /\ phase = "building" /\ at < Len(supplied)
       /\ IF n = Throws THEN phase' = "threw" /\ UNCHANGED <<at, stream>>
          ELSE IF n = Null \/ ~CanPack(Current, Requests[request].endian, stream)
          THEN phase' = "refused" /\ UNCHANGED <<at, stream>>
          ELSE /\ stream' = Pack(Current, Requests[request].endian, n, stream)
               /\ at' = at + 1
               /\ UNCHANGED phase
       /\ UNCHANGED <<request, supplied, reply, result>>

Built ==
    /\ phase = "building" /\ at = Len(supplied)
    /\ phase' = "built"
    /\ UNCHANGED <<request, supplied, at, stream, reply, result>>

------------------------------------------------------------------------------
(* The simulated link. *)

\* The request behind a frame that comes without a hint: the template itself, or one of its length
\* with the same first two bytes.
Resolved(frame) ==
    IF \E r \in DOMAIN Requests : Requests[r].sent = frame
    THEN {r \in DOMAIN Requests : Requests[r].sent = frame}
    ELSE {r \in DOMAIN Requests : /\ Len(Requests[r].sent) = Len(frame)
                                  /\ SubSeq(Requests[r].sent, 1, 2) = SubSeq(frame, 1, 2)}

PositiveSid(frame) == <<(frame[1] + 64) % 256>>

\* The end of a field as the last byte of its own width, its bit offset forgotten.
NeededUnshifted(r) ==
    LET ends == {f.first - 1 + Width(f) : f \in Requests[r].receives} \cup {Requests[r].minbytes}
    IN CHOOSE n \in ends : \A o \in ends : o <= n

\* How many bytes the fields of a request's answer reach into.
Needed(r) == RequiredResponseBytes(Requests[r].receives, Requests[r].minbytes)

Padded(base, length) == [i \in 1..Most(Len(base), length) |-> IF i <= Len(base) THEN base[i] ELSE Fill]

\* No request of the database describes the frame: service not supported.
Unsupported(frame) == <<127, frame[1], 17>>

Simulated(r, frame, fill) ==
    LET canned == Requests[r].canned
        lead == IF canned = <<>> THEN PositiveSid(frame) ELSE canned
    IN CASE fill = "canned" -> canned
         [] fill = "pad" -> Padded(lead, Needed(r))
         [] OTHER -> Padded(SubSeq(lead, 1, 1), Needed(r))

Ask(fill, hinted) ==
    LET candidates == IF hinted THEN {request} ELSE Resolved(stream)
    IN /\ phase = "built"
       /\ \/ \E r \in candidates : /\ reply' = Simulated(r, stream, fill)
                                   /\ result' = [kind |-> "asked", as |-> r, fill |-> fill]
          \/ /\ candidates = {}
             /\ reply' = Unsupported(stream)
             /\ result' = [kind |-> "asked", as |-> None, fill |-> fill]
       /\ phase' = "answered"
       /\ UNCHANGED <<request, supplied, at, stream>>

\* decodeStream: every field the request declares, none of them left out.
Shown == [f \in Requests[request].receives |-> GetDisplayValue(f, Requests[request].endian, reply)]

Decode ==
    /\ phase = "answered"
    /\ phase' = "decoded"
    /\ result' = [kind |-> "decoded", as |-> result.as, fill |-> result.fill, shown |-> Shown]
    /\ UNCHANGED <<request, supplied, at, stream, reply>>

------------------------------------------------------------------------------
(* The arithmetic on its own. *)

Format(n) ==
    /\ phase = "idle"
    /\ phase' = "formatted"
    /\ result' = [kind |-> "digits", of |-> n, digits |-> FormatFixed(n[1], n[2], n[3])]
    /\ UNCHANGED <<request, supplied, at, stream, reply>>

Text(bytes) ==
    /\ phase = "idle"
    /\ phase' = "text"
    /\ result' = [kind |-> "text", of |-> bytes, chars |-> DecodeUtf8Ignore(bytes)]
    /\ UNCHANGED <<request, supplied, at, stream, reply>>

Done ==
    /\ phase \in {"refused", "threw", "decoded", "formatted", "text"}
    /\ phase' = "idle" /\ request' = None /\ supplied' = <<>> /\ at' = 0
    /\ stream' = <<>> /\ reply' = <<>> /\ result' = None

\* The boxes of a request that are supplied, each once, in the order of the record's entries.
Supplies(r) ==
    {s \in UNION {[1..n -> (DOMAIN Requests[r].sends) \X Inputs] : n \in 0..MaxSupplied} :
        \A j, k \in DOMAIN s : s[j][1] = s[k][1] => j = k}

Next ==
    \/ \E r \in DOMAIN Requests : \E s \in Supplies(r) : Begin(r, s)
    \/ SetValue \/ Built \/ Decode \/ Done
    \/ \E fill \in Fills, hinted \in BOOLEAN : Ask(fill, hinted)
    \/ \E n \in Numbers : Format(n)
    \/ \E length \in 0..TextLength : \E bytes \in [1..length -> Alphabet] : Text(bytes)

Spec == Init /\ [][Next]_vars

------------------------------------------------------------------------------
(* Properties. *)

\* The bits of a field, counted from 1 over the whole frame: from the offset on for a big-endian
\* field; for a little-endian one, what the first byte has above the offset (counted from its low
\* end), whole bytes, and the low end of the last byte.
Own(field, little) ==
    LET start == 8 * (field.first - 1)
        room == 8 - field.offset
        over == field.bits - room
    IN IF ~little THEN (start + field.offset + 1)..(start + field.offset + field.bits)
       ELSE IF over <= 0 THEN (start + room - field.bits + 1)..(start + room)
       ELSE ((start + 1)..(start + room))
            \cup ((start + 9)..(start + 8 + 8 * (over \div 8)))
            \cup LET last == start + 16 + 8 * (over \div 8)
                 IN (last - (over % 8) + 1)..(IF over % 8 = 0 THEN last - 1 ELSE last)

OwnHere(field) == Own(field, IsLittleEndian(field, Requests[request].endian))

\* Packing a value never touches a bit of another field: setValue rewrites whole bytes, and what it
\* rewrites outside the field's own bits is what was there (ecuData.ts:352, 410).
NeighboursKept ==
    [][at' = at + 1 =>
         LET old == HexToBin(stream)
             new == HexToBin(stream')
         IN \A b \in DOMAIN old : old[b] # new[b] => b \in OwnHere(Current)]_vars

\* Fields whose read and write agree on a layout: big-endian, or within one byte.
OneLayout(field) ==
    \/ ~IsLittleEndian(field, Requests[request].endian)
    \/ Reach(field) = 1

Fits(field, n) == n >= 0 /\ n < Power(2, field.bits)

\* What was typed is what the ECU reads: in the finished frame every supplied field that no later
\* input overlaps holds its input's integer (setValue against getHexValue).
ReadsBack ==
    phase = "built" =>
        \A j \in DOMAIN supplied :
            LET field == Field(supplied[j][1])
                n == Integer(field, supplied[j][2])
            IN /\ OneLayout(field)
               /\ Fits(field, n)
               /\ \A k \in (j + 1)..Len(supplied) : OwnHere(field) \cap OwnHere(Field(supplied[k][1])) = {}
               => GetHexValue(field, Requests[request].endian, stream) = n

\* The little-endian read and write of fields of several bytes agree as well: setValue's comment
\* calls itself the mirror of the 3-step read (ecuData.ts:352).
WriteMirrorsRead ==
    phase = "built" /\ Len(supplied) = 1 =>
        LET field == Field(supplied[1][1])
            n == Integer(field, supplied[1][2])
        IN Fits(field, n) => GetHexValue(field, Requests[request].endian, stream) = n

\* Demo mode populates every widget: in the fill modes that generate bytes, an answer to the request
\* itself has all the bits of every field, none of them cut short (simulated.ts:50).
EveryWidgetWhole ==
    phase = "decoded" /\ result.fill # "canned" /\ result.as = request =>
        \A f \in Requests[request].receives :
            /\ f.first >= 1 => \A b \in OwnHere(f) : b <= 8 * Len(reply)
            /\ f.first >= 1 /\ f.divideby # 0 => result.shown[f].kind # "none"

\* A number is shown rounded to the nearest, and to the even digit when halfway (python.ts:71): the
\* digits are compared with the exact value by cross-multiplication.
RoundsHalfEven ==
    phase = "formatted" =>
        LET exact == result.of[1] * Power(10, result.of[3])
            unit == Power(2, result.of[2])
            error == result.digits * unit - exact
        IN /\ 2 * error <= unit /\ -2 * error <= unit
           /\ (2 * error = unit \/ -2 * error = unit) => result.digits % 2 = 0

\* One sequence after the other.
Concatenated(pieces) ==
    LET from[i \in 1..(Len(pieces) + 1)] == IF i > Len(pieces) THEN <<>> ELSE pieces[i] \o from[i + 1]
    IN from[1]

\* The ASCII bytes of a text, and the characters of one byte.
Ascii(bytes) == Concatenated([i \in 1..Len(bytes) |-> IF bytes[i] < 128 THEN <<bytes[i]>> ELSE <<>>])

Singles(chars) == Concatenated([i \in 1..Len(chars) |-> IF Len(chars[i]) = 1 THEN chars[i] ELSE <<>>])

\* Decoding text drops invalid bytes and nothing else: every ASCII byte of the input is a character
\* of the output, in order, whatever incomplete sequence comes before it (python.ts:199).
AsciiKept == phase = "text" => Ascii(result.of) = Singles(result.chars)

==============================================================================
