--------------------------- MODULE MCRequestFrames ---------------------------
(* Fields that share bytes, cross byte borders and stand in both byte orders. *)
EXTENDS RequestFrames

Plain == [first |-> 2, offset |-> 0, bits |-> 8, bytescount |-> 1, endian |-> "", signed |-> FALSE,
          scaled |-> FALSE, ascii |-> FALSE, step |-> 1, shift |-> 0, divideby |-> 1,
          lists |-> [n \in {0, 3} |-> IF n = 0 THEN "Off" ELSE "On"]]

Flag == [Plain EXCEPT !.offset = 2, !.bits = 3]
Across == [Plain EXCEPT !.offset = 5, !.bits = 6, !.lists = <<>>]
LowFlag == [Flag EXCEPT !.endian = "Little"]
LowAcross == [Across EXCEPT !.endian = "Little", !.offset = 3]
LowWord == [Plain EXCEPT !.endian = "Little", !.bits = 16, !.bytescount = 2]
Scaled == [Plain EXCEPT !.first = 3, !.scaled = TRUE, !.step = 2, !.shift = -4, !.signed = TRUE,
                          !.lists = [n \in {-3, 16} |-> IF n = 16 THEN "On" ELSE "Error"]]
Broken == [Plain EXCEPT !.first = 3, !.scaled = TRUE, !.step = 0, !.divideby = 0, !.lists = [n \in {26} |-> "On"]]
Name == [Plain EXCEPT !.lists = [n \in {-27} |-> "On"], !.ascii = TRUE, !.bits = 16, !.bytescount = 2]
BigInLittle == [Across EXCEPT !.endian = "Big"]
Beyond == [Plain EXCEPT !.first = 9]
Signed == [Plain EXCEPT !.signed = TRUE, !.lists = [n \in {-1} |-> "Error"]]

MCRequests == [
    big |-> [sent |-> <<49, 170, 85, 15>>, endian |-> "Big", minbytes |-> 2, canned |-> <<113, 7>>,
             sends |-> [flag |-> Flag, across |-> Across, low |-> LowFlag, scaled |-> Scaled,
                        broken |-> Broken, name |-> Name, beyond |-> Beyond],
             receives |-> {Flag, Across, Scaled, Broken, Name}],
    little |-> [sent |-> <<49, 170, 90, 240>>, endian |-> "Little", minbytes |-> 0, canned |-> <<>>,
             sends |-> [flag |-> LowFlag, across |-> LowAcross, word |-> LowWord, big |-> BigInLittle, signed |-> Signed],
             receives |-> {LowFlag, LowWord, BigInLittle, Signed}],
    other |-> [sent |-> <<33, 1>>, endian |-> "", minbytes |-> 1, canned |-> <<97, 1>>,
             sends |-> [flag |-> [Flag EXCEPT !.first = 1]], receives |-> {Plain, Across}]]

MCInputs ==
    {[kind |-> "number", value |-> n, chars |-> <<52, 53>>] : n \in {0, 5, 45, 300}}
    \cup {[kind |-> "word", label |-> l, chars |-> <<79, 110, 101>>] : l \in {"On", "Error"}}
    \cup {[kind |-> "blank", chars |-> <<>>], [kind |-> "infinite", chars |-> <<105, 110, 102>>]}

MCNumbers == (0..45) \X (0..3) \X (0..2)
==============================================================================
