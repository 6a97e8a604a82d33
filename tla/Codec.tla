-------------------------------- MODULE Codec --------------------------------
(***************************************************************************)
(* The value codec of packages/codec: taking a field's bits out of a       *)
(* response, packing a value into a request, and the CPython arithmetic    *)
(* the two rest on. A response or request is a sequence of bytes; a frame  *)
(* that is not hexadecimal is the empty sequence, as getHexValue makes it. *)
(* Integers stand for the floating-point steps and offsets of the          *)
(* database, rationals [num, den] for what they compute.                   *)
(***************************************************************************)
EXTENDS Integers, Sequences

Null == -1

\* A value the program does not catch: BigInt() of an infinite or undefined number throws.
Throws == -2

CeilDiv(a, b) == -((-a) \div b)

Least(a, b) == IF a < b THEN a ELSE b

Most(a, b) == IF a > b THEN a ELSE b

\* b to the n.
Power(b, n) ==
    LET power[k \in 0..n] == IF k = 0 THEN 1 ELSE b * power[k - 1]
    IN power[n]

------------------------------------------------------------------------------
(* Bits and slices. *)

\* CPython's s[start:stop]; JavaScript's Array slice has the same negative indices and clamps.
PySlice(s, start, stop) ==
    LET Clamp(i) == IF i < 0 THEN Most(i + Len(s), 0) ELSE Least(i, Len(s))
    IN SubSeq(s, Clamp(start) + 1, Clamp(stop))

BitsOf(n, width) == [i \in 1..width |-> (n \div Power(2, width - i)) % 2]

\* How many digits bin(n) has; no number has more than itself and one.
BitLength(n) == CHOOSE w \in 1..(n + 1) : n < Power(2, w) /\ (w = 1 \/ n >= Power(2, w - 1))

\* The digits of n.toString(16).
HexDigits(n) ==
    LET width == CeilDiv(BitLength(n), 4) IN [i \in 1..width |-> (n \div Power(16, width - i)) % 16]

\* The number that digits spell in base ten.
Decimal(digits) ==
    LET upTo[i \in 0..Len(digits)] == IF i = 0 THEN 0 ELSE 10 * upTo[i - 1] + digits[i]
    IN upTo[Len(digits)]

\* Eight bits for every byte.
HexToBin(bytes) == [b \in 1..(8 * Len(bytes)) |-> BitsOf(bytes[((b - 1) \div 8) + 1], 8)[((b - 1) % 8) + 1]]

BinToInt(bits) ==
    LET upTo[i \in 0..Len(bits)] == IF i = 0 THEN 0 ELSE 2 * upTo[i - 1] + bits[i]
    IN upTo[Len(bits)]

\* Filling with zeros on the right, as padEnd does.
ZfillRight(n, width) == BitsOf(n, BitLength(n)) \o [i \in 1..Most(width - BitLength(n), 0) |-> 0]

\* bin(n).zfill(width): wider than width when n does not fit.
Zfill(n, width) == BitsOf(n, Most(width, BitLength(n)))

\* -(v & 0x80) | (v & 0x7f), and its 16-bit twin.
HexToSigned(v, bits) ==
    LET half == Power(2, bits - 1) IN (v % half) - half * ((v \div half) % 2)

------------------------------------------------------------------------------
(* Reading. A field is a data definition with the item that places it. *)

IsLittleEndian(field, ecuEndian) ==
    CASE field.endian = "Big" -> FALSE
      [] field.endian = "Little" -> TRUE
      [] OTHER -> ecuEndian = "Little"

Width(field) == CeilDiv(field.bits, 8)

Reach(field) == CeilDiv(field.bits + field.offset, 8)

\* The "3 steps" of the little-endian read: head, middle bytes, tail.
LittleBits(field, window) ==
    LET lastbit == 8 - field.offset
        firstbit == Most(lastbit - field.bits, 0)
        afterHead == field.bits - (lastbit - firstbit)
        inner == IF afterHead > 8 THEN 8 * (Reach(field) - 2) ELSE 0
        afterInner == afterHead - inner
        end == 8 * (Reach(field) - 1)
    IN PySlice(window, firstbit, lastbit)
       \o PySlice(window, 8, 8 + inner)
       \o (IF afterInner > 0 THEN PySlice(window, end - afterInner, end) ELSE <<>>)

\* "null when the frame is too short": the code compares with the field's width, not its reach.
TooShort(field, resp) ==
    \/ field.bits <= 0
    \/ field.first - 1 + Width(field) > Len(resp)
    \/ PySlice(resp, field.first - 1, field.first - 1 + Reach(field)) = <<>>

GetHexValue(field, ecuEndian, resp) ==
    LET window == HexToBin(PySlice(resp, field.first - 1, field.first - 1 + Reach(field)))
        bits == IF IsLittleEndian(field, ecuEndian)
                THEN LittleBits(field, window)
                ELSE PySlice(window, field.offset, field.offset + field.bits)
    IN IF TooShort(field, resp) \/ bits = <<>> THEN Null ELSE BinToInt(bits)

ApplySign(v, field) ==
    IF field.signed /\ field.bytescount \in {1, 2} THEN HexToSigned(v, 8 * field.bytescount) ELSE v

------------------------------------------------------------------------------
(* Numbers to text and bytes to text. *)

\* toFixed: ties away from zero.
FormatFixedAway(m, k, decimals) ==
    IF decimals >= k THEN m * Power(5, k) * Power(10, decimals - k)
    ELSE (2 * m * Power(5, k) + Power(10, k - decimals)) \div (2 * Power(10, k - decimals))

\* formatFixed on the dyadic m / 2^k: the digits of the value times 10^decimals, ties to even.
FormatFixed(m, k, decimals) ==
    LET numerator == m * Power(5, k)
        divisor == Power(10, k - decimals)
        q == numerator \div divisor
        twice == 2 * (numerator % divisor)
    IN IF decimals >= k THEN numerator * Power(10, decimals - k)
       ELSE IF twice > divisor \/ (twice = divisor /\ q % 2 = 1) THEN q + 1 ELSE q

SequenceLength(lead) == CASE lead < 224 -> 2 [] lead < 240 -> 3 [] OTHER -> 4

\* The range of the first continuation byte is narrower after four of the leads.
Continues(lead, k, b) ==
    /\ b >= (CASE k = 1 /\ lead = 224 -> 160 [] k = 1 /\ lead = 240 -> 144 [] OTHER -> 128)
    /\ b <= (CASE k = 1 /\ lead = 237 -> 159 [] k = 1 /\ lead = 244 -> 143 [] OTHER -> 191)

\* How many bytes from position i on belong to the sequence its lead byte opens.
Consumed(bytes, i) ==
    LET ok == {n \in 1..SequenceLength(bytes[i]) :
                  \A k \in 1..(n - 1) : i + k <= Len(bytes) /\ Continues(bytes[i], k, bytes[i + k])}
    IN CHOOSE n \in ok : \A o \in ok : o <= n

\* Resuming past the byte that broke the sequence.
ResumePast(bytes, i) ==
    LET n == Consumed(bytes, i) IN i + (IF n < SequenceLength(bytes[i]) THEN n + 1 ELSE n)

\* An invalid sequence is dropped, and decoding resumes at the byte that broke it.
Resume(bytes, i) == i + Consumed(bytes, i)

\* Where the decoder stands after each character: the positions it visits.
DecodeUtf8Ignore(bytes) ==
    LET from[i \in 1..(Len(bytes) + 5)] ==
            CASE i > Len(bytes) -> <<>>
              [] i <= Len(bytes) /\ bytes[i] < 128 -> <<<<bytes[i]>>>> \o from[i + 1]
              [] i <= Len(bytes) /\ bytes[i] >= 128 /\ (bytes[i] < 194 \/ bytes[i] > 244) -> from[i + 1]
              [] OTHER ->
                   (IF Consumed(bytes, i) = SequenceLength(bytes[i])
                    THEN <<SubSeq(bytes, i, i + Consumed(bytes, i) - 1)>> ELSE <<>>)
                   \o from[Resume(bytes, i)]
    IN from[1]

------------------------------------------------------------------------------
(* Displaying. *)

Bytes(v, width) == [i \in 1..width |-> (v \div Power(256, width - i)) % 256]

\* What the screen shows: text, a label, raw hexadecimal, or the rational of a scaled value.
GetDisplayValue(field, ecuEndian, resp) ==
    LET v == GetHexValue(field, ecuEndian, resp)
        signed == ApplySign(v, field)
    IN CASE v = Null -> [kind |-> "none"]
         [] v # Null /\ field.ascii ->
              [kind |-> "text", chars |-> DecodeUtf8Ignore(Bytes(v, Width(field)))]
         [] v # Null /\ ~field.ascii /\ ~field.scaled ->
              IF signed \in DOMAIN field.lists THEN [kind |-> "label", label |-> field.lists[signed]]
              ELSE [kind |-> "hex", value |-> v]
         [] OTHER ->
              IF field.divideby = 0 THEN [kind |-> "none"]
              ELSE [kind |-> "number", num |-> signed * field.step + field.shift, den |-> field.divideby]

------------------------------------------------------------------------------
(* Writing. *)

\* int(num / den): truncation towards zero.
Truncated(num, den) ==
    LET Abs(n) == IF n < 0 THEN -n ELSE n
        q == Abs(num) \div Abs(den)
    IN IF num * den >= 0 THEN q ELSE -q

\* The ASCII branch: as many characters as the field has bytes, blanks for the missing ones.
TextBytes(field, chars) ==
    [i \in 1..field.bytescount |-> IF i <= Len(chars) THEN chars[i] ELSE 32]

\* pyFloat: what reads as a decimal number. An empty text is none, where Number() would make it 0.
ReadsAsFloat(input) == input.kind \in {"number", "infinite"}

\* isHex, of a text that is not empty.
ReadsAsHex(input) == input.kind = "number"

\* The integer an input stands for: a number is what its text means to the field, decimal when it
\* is scaled and hexadecimal otherwise; an ASCII field takes any text.
ToInteger(field, input) ==
    CASE field.ascii -> BinToInt(HexToBin(TextBytes(field, input.chars)))
      [] ~field.ascii /\ field.scaled ->
           IF ~ReadsAsFloat(input) THEN Null
           ELSE IF input.kind = "infinite" \/ field.step = 0 THEN Throws
           ELSE Most(Truncated(input.value * field.divideby - field.shift, field.step), Null)
      [] OTHER -> IF ReadsAsHex(input) THEN input.value ELSE Null

\* A field's bits written from the front of its first byte: the offset forgotten.
WriteOrderUnshifted(field, ecuEndian) == [i \in 1..field.bits |-> i]

\* The field's bits in the bytes it reaches into, in the order the value's bits are written.
WriteOrder(field, ecuEndian) ==
    LET lastbit == 8 - field.offset
        firstbit == Most(lastbit - field.bits, 0)
        head == lastbit - firstbit
        whole == 8 * ((field.bits - head) \div 8)
        rest == (field.bits - head) % 8
    IN IF ~IsLittleEndian(field, ecuEndian) THEN [i \in 1..field.bits |-> i + field.offset]
       ELSE [i \in 1..field.bits |->
                CASE i <= head -> firstbit + i
                  [] i > head /\ i <= head + whole -> 8 + i - head
                  [] OTHER -> 8 + whole + (8 - rest) + (i - head - whole)]

Outside(field, stream) ==
    \/ field.first < 1
    \/ field.first - 1 + Reach(field) > Len(stream)

\* The bytes of the stream with the leading bits of the value put at the field's places.
Pack(field, ecuEndian, v, stream) ==
    LET order == WriteOrder(field, ecuEndian)
        bin == Zfill(v, field.bits)
        old == HexToBin(SubSeq(stream, field.first, field.first - 1 + Reach(field)))
        new == [b \in DOMAIN old |->
                   IF \E i \in DOMAIN order : order[i] = b
                   THEN bin[CHOOSE i \in DOMAIN order : order[i] = b] ELSE old[b]]
    IN [j \in DOMAIN stream |->
           IF j \in field.first..(field.first - 1 + Reach(field))
           THEN BinToInt(SubSeq(new, 8 * (j - field.first) + 1, 8 * (j - field.first) + 8))
           ELSE stream[j]]

CanPack(field, ecuEndian, stream) ==
    /\ ~Outside(field, stream)
    /\ \A i \in 1..field.bits : WriteOrder(field, ecuEndian)[i] <= 8 * Reach(field)

------------------------------------------------------------------------------
(* The simulated link's reply lengths. *)

\* How many bytes of response the fields of a request reach into, floored at minbytes.
RequiredResponseBytes(fields, minbytes) ==
    LET ends == {f.first - 1 + Reach(f) : f \in fields} \cup {minbytes}
    IN CHOOSE n \in ends : \A o \in ends : o <= n

==============================================================================
