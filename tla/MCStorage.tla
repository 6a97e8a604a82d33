------------------------------ MODULE MCStorage ------------------------------
(* An archive and a file that is none, a split tree, a folder of something   *)
(* else and one whose index cannot be opened, a server and one that is down; *)
(* layouts with one widget of each kind, over an ECU that names some of it.  *)
(* Two databases whose codes differ in case, and one without vehicles. Three *)
(* ECUs that share strings, translated under every scope. Two snapshots, the *)
(* newer without an ECU and a layout of the older, and an archive without an *)
(* index.                                                                    *)
EXTENDS Storage
CONSTANTS good, junk, tree, stray, downloads, site, down

MCHolds == [p \in Places |-> CASE p \in {good, tree, site} -> "tree"
                               [] p = stray -> "alien"
                               [] OTHER -> "nothing"]

MCDefinitions ==
    {[data |-> d, receives |-> [r |-> {"speed"}, q |-> {"lost"}]] : d \in {{"speed", "oil"}, {"speed", ""}}}

AtMostOne(S) == {<<>>} \cup {<<x>> : x \in S}
Widgets == [request : {"r", "gone"}, text : {"speed", "oil", "lost", ""}]
MCLayouts ==
    {[screens |-> [main |-> [displays |-> w[1], inputs |-> w[2], sends |-> s, presend |-> <<"gone", "r">>]],
      categories |-> [first |-> c, second |-> <<"main">>]] :
        w \in (AtMostOne(Widgets) \X {<<>>}) \cup ({<<>>} \X AtMostOne(Widgets)),
        s \in {<<"q">>, <<"gone">>}, c \in {<<"main", "nowhere">>, <<"nowhere">>}}

Entry(group, protocol, projects) == [group |-> group, protocol |-> protocol, projects |-> projects]
MCDatabases ==
    {[a |-> Entry("Injection", "CAN", {"x84", "#text"}), b |-> Entry("ABS", "KWP", {"X84", "x61"}),
      c |-> Entry("", "CAN", {"x61", ""})],
     [d |-> Entry("ABS", "CAN", {"x44"}), e |-> Entry("", "CAN", {})]}
MCUpper(code) == CASE code = "x84" -> "X84" [] code = "x61" -> "X61" [] code = "x44" -> "X44" [] OTHER -> code
Labels == <<"X84", "x84", "x61", "x44">>
MCInLabelOrder(S) == SelectSeq(Labels, LAMBDA code : code \in S)
MCHits(query) == IF query = "84" THEN {"X84", "x84"} ELSE {}

MCGroupOf(slug) == IF slug = "c" THEN "Body" ELSE "Engine"
MCStrings(slug) ==
    CASE slug = "a" -> {"vitesse", "marche"} [] slug = "b" -> {"vitesse", "arret"} [] OTHER -> {"arret", "inconnu"}
Key(scope, of, s) == <<[scope |-> scope, of |-> of], s>>
MCSource(s) == Key("source", "", s)
MCBundle ==
    [k \in {Key("all", "", "vitesse"), Key("ecu", "a", "vitesse"), Key("group", "Engine", "vitesse"),
            Key("group", "Engine", "arret"), Key("all", "", "arret")} |-> k]

File(sort, slug, bytes) == [kind |-> sort, slug |-> slug, bytes |-> bytes]
MCEntries ==
    [old |-> <<File("ecu", "a", "old"), File("db", "", {"a", "b", "ghost"}), File("layout", "a", "old"),
               File("ecu", "b", "old"), File("graphics", "g", "old")>>,
     new |-> <<File("db", "", {"a", "ghost"}), File("ecu", "a", "new"), File("ecu", "c", "new"),
               File("readme", "r", "new")>>,
     bad |-> <<File("ecu", "a", "bad")>>]
=============================================================================
