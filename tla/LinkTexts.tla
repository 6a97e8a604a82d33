------------------------------ MODULE LinkTexts ------------------------------
(***************************************************************************)
(* What a caller of ElmDriver.request sees of an exchange with an ECU. On  *)
(* CAN the framing reduces a silent ECU to the empty string and a broken   *)
(* answer to WRONG RESPONSE; on K-line the adapter's own words come        *)
(* through as the reply (driver.ts:271-300).                               *)
(***************************************************************************)

Outcomes == {"positive", "negative", "silent", "garbled"}

Links == {"can", "iso", "demo"}

\* The text an outcome becomes: hex, 7F, empty, WRONG, or NODATA for the adapter's complaints.
TextOf(link, outcome) ==
    CASE outcome = "positive" -> "hex"
      [] outcome = "negative" -> "7F"
      [] outcome = "silent" /\ link = "iso" -> "NODATA"
      [] outcome = "silent" /\ link # "iso" -> ""
      [] OTHER -> IF link = "can" THEN "WRONG" ELSE "NODATA"

\* negativeResponse
Rejected(text) == text = "7F"

\* Nothing usable, for the readers of faults and identities: isEmpty.
Empty(text) == text \in {"", "WRONG", "NODATA"}
==============================================================================
