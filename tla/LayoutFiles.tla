----------------------------- MODULE LayoutFiles -----------------------------
(***************************************************************************)
(* An ECU's screens, checked against its definitions twice: prepareLayout  *)
(* (packages/db/src/layout.ts) drops at every open what does not resolve,  *)
(* validateTree (packages/dbimport/src/validate.ts) reports at import what *)
(* does not. A definition file is its requests, each with the data its     *)
(* response carries, and its data names.                                   *)
(***************************************************************************)
EXTENDS Sequences, FiniteSets

Decoration == "decoration"
NotNamed == ""

WidgetKinds == {"displays", "inputs"}
Requests(def) == DOMAIN def.receives

------------------------------------------------------------------------------
(* layout.ts *)

Warning(kind, detail) == [kind |-> kind, detail |-> detail]

\* The definition the caption names comes first: some ECUs define a data entry named "".
Binding(def, w) == IF w.text \in def.data THEN w.text ELSE Decoration

\* A wrong build of it: an input is only looked up when it is written.
WidgetWarningsOfDisplays(def, kind, w) ==
    IF kind = "inputs" THEN {}
    ELSE IF w.request \notin Requests(def) THEN {Warning("widget-missing-request", w.request)}
    ELSE IF w.text \notin def.data /\ w.text # NotNamed THEN {Warning("widget-missing-data", w.text)}
    ELSE IF w.text \in def.data /\ w.text \notin def.receives[w.request]
         THEN {Warning("display-not-in-response", w.text)}
    ELSE {}

\* Why a widget cannot be drawn: at most one reason.
WidgetWarnings(def, kind, w) ==
    IF w.request \notin Requests(def) THEN {Warning("widget-missing-request", w.request)}
    ELSE IF w.text \notin def.data /\ w.text # NotNamed THEN {Warning("widget-missing-data", w.text)}
    ELSE IF kind = "displays" /\ w.text \in def.data /\ w.text \notin def.receives[w.request]
         THEN {Warning("display-not-in-response", w.text)}
    ELSE {}

\* The id counts the widgets that were dropped before it.
Prepared(def, kind, list) ==
    {[id |-> <<kind, n>>, request |-> list[n].request, bound |-> Binding(def, list[n])] :
        n \in {m \in DOMAIN list : WidgetWarnings(def, kind, list[m]) = {}}}

\* The names that no request has.
Unresolved(def, names) == {n \in DOMAIN names : names[n] \notin Requests(def)}

ScreenWarnings(def, raw) ==
    (UNION {UNION {WidgetWarnings(def, kind, raw[kind][n]) : n \in DOMAIN raw[kind]} : kind \in WidgetKinds})
    \cup {Warning("button-send-missing-request", raw.sends[n]) : n \in Unresolved(def, raw.sends)}
    \cup {Warning("presend-missing-request", raw.presend[n]) : n \in Unresolved(def, raw.presend)}

prepareScreen(def, raw) ==
    [widgets |-> UNION {Prepared(def, kind, raw[kind]) : kind \in WidgetKinds},
     sends |-> SelectSeq(raw.sends, LAMBDA r : r \in Requests(def)),
     presend |-> SelectSeq(raw.presend, LAMBDA r : r \in Requests(def)),
     warnings |-> ScreenWarnings(def, raw)]

\* The places of a category that name no screen.
Absent(raw, c) == {n \in DOMAIN raw.categories[c] : raw.categories[c][n] \notin DOMAIN raw.screens}

\* A category keeps the screens there are, at their places in the file; one whose every screen is missing
\* is dropped as well.
Kept(raw, c) == [n \in DOMAIN raw.categories[c] \ Absent(raw, c) |-> raw.categories[c][n]]

prepareLayout(def, raw) ==
    [screens |-> [s \in DOMAIN raw.screens |-> prepareScreen(def, raw.screens[s])],
     categories |-> {<<c, Kept(raw, c)>> : c \in {d \in DOMAIN raw.categories : DOMAIN Kept(raw, d) # {}}},
     warnings |-> (UNION {ScreenWarnings(def, raw.screens[s]) : s \in DOMAIN raw.screens})
                  \cup (UNION {{Warning("category-missing-screen", raw.categories[c][n]) : n \in Absent(raw, c)}
                               : c \in DOMAIN raw.categories})]

------------------------------------------------------------------------------
(* validate.ts *)

WidgetFindings(def, kind, w) ==
    IF w.request \notin Requests(def) THEN {<<kind, "names missing request", w.request>>}
    ELSE IF w.text # NotNamed /\ w.text \notin def.data THEN {<<kind, "names missing data", w.text>>}
    ELSE {}

ScreenFindings(def, raw) ==
    (UNION {UNION {WidgetFindings(def, kind, raw[kind][n]) : n \in DOMAIN raw[kind]} : kind \in WidgetKinds})
    \cup {<<"button send", "names missing request", raw.sends[n]>> : n \in Unresolved(def, raw.sends)}
    \cup {<<"presend", "names missing request", raw.presend[n]>> : n \in Unresolved(def, raw.presend)}

validateTree(def, raw) ==
    (UNION {ScreenFindings(def, raw.screens[s]) : s \in DOMAIN raw.screens})
    \cup (UNION {{<<"category", "names missing screen", raw.categories[c][n]>> : n \in Absent(raw, c)}
                 : c \in DOMAIN raw.categories})
    \cup {<<"dataitem", "names missing data", d>> : d \in (UNION {def.receives[r] : r \in Requests(def)}) \ def.data}

------------------------------------------------------------------------------
\* The warnings of an open in the words of the import: what the two have in common.
AsFinding(w) ==
    CASE w.kind = "widget-missing-request" -> {<<k, "names missing request", w.detail>> : k \in WidgetKinds}
      [] w.kind = "widget-missing-data" -> {<<k, "names missing data", w.detail>> : k \in WidgetKinds}
      [] w.kind = "button-send-missing-request" -> {<<"button send", "names missing request", w.detail>>}
      [] w.kind = "presend-missing-request" -> {<<"presend", "names missing request", w.detail>>}
      [] w.kind = "category-missing-screen" -> {<<"category", "names missing screen", w.detail>>}
      [] OTHER -> {}
=============================================================================
