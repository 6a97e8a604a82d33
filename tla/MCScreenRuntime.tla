-------------------------- MODULE MCScreenRuntime --------------------------
(* Two ECUs that are asked the same bytes, a screen of each.  The screen of  *)
(* a polls two requests, one display of which shares its data name with an  *)
(* input; it has a button that writes and then fires a polled request.      *)
EXTENDS ScreenRuntime
CONSTANTS sa, sb, ea, eb, read, temp, write, start, d1, d2

W(k, r, d) == [kind |-> k, request |-> r, data |-> d]
McEcuOf == (sa :> ea) @@ (sb :> eb)
McWidgets ==
  (sa :> <<W("display", read, d1), W("display", temp, d2), W("display", read, d2),
           W("input", write, d1), W("display", write, d2), W("label", write, None)>>) @@
  (sb :> <<W("display", read, d1), W("input", write, d2)>>)
McPresend == (sa :> <<>>) @@ (sb :> <<start>>)
McButtons == (sa :> {<<write, read>>}) @@ (sb :> {})
McFrame == (read :> 1) @@ (temp :> 2) @@ (write :> 3) @@ (start :> 4)
McStarts == {start}
McManual == {write}
McDecodes == (read :> {d1, d2}) @@ (temp :> {d2}) @@ (write :> {}) @@ (start :> {})
=============================================================================
