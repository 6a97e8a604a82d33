---------------------------- MODULE DatabaseLoads ----------------------------
(***************************************************************************)
(* The loads of one EcuDatabase (packages/db/src/database.ts): callers     *)
(* that ask for the same ECU share one read of its definitions and one of  *)
(* its screens, which waits for both files. clearCache has no caller.      *)
(***************************************************************************)
EXTENDS LayoutFiles

CONSTANTS Callers,
          Definitions, Layouts   \* what the two files of the ECU may hold

VARIABLES
    ecuEntry,       \* ecuCache's entry for the ECU: none, reading, loaded
    layoutEntry,    \* layoutCache's: none, reading, waiting (its file is read, the ECU is not), loaded
    def, raw,       \* what was read of the two files
    waits,          \* the call each caller awaits
    told,           \* how its last call ended
    failed          \* history: a read has failed since its call

loadVars == <<ecuEntry, layoutEntry, def, raw, waits, told, failed>>

NoFile == "no file"

LoadInit ==
    /\ ecuEntry = "none" /\ layoutEntry = "none" /\ def = NoFile /\ raw = NoFile
    /\ waits = [c \in Callers |-> "idle"] /\ told = [c \in Callers |-> "nothing"]
    /\ failed = [c \in Callers |-> FALSE]

\* The callers of what is settled go on.
Tell(calls, result) ==
    /\ waits' = [c \in Callers |-> IF waits[c] \in calls THEN "idle" ELSE waits[c]]
    /\ told' = [c \in Callers |-> IF waits[c] \in calls THEN result ELSE told[c]]

\* A call finds an entry, in flight or settled, or makes one. A load that failed and was kept would
\* be an entry "failed"; there is none as long as AfterRejection is what it is.
loadEcu(c) ==
    /\ waits[c] = "idle"
    /\ failed' = [failed EXCEPT ![c] = FALSE]
    /\ IF ecuEntry \in {"loaded", "failed"}
       THEN /\ told' = [told EXCEPT ![c] = IF ecuEntry = "loaded" THEN "value" ELSE "error"]
            /\ UNCHANGED <<ecuEntry, waits>>
       ELSE /\ ecuEntry' = "reading"
            /\ waits' = [waits EXCEPT ![c] = "ecu"] /\ told' = [told EXCEPT ![c] = "nothing"]
    /\ UNCHANGED <<layoutEntry, def, raw>>

loadLayout(c) ==
    /\ waits[c] = "idle"
    /\ failed' = [failed EXCEPT ![c] = FALSE]
    /\ \/ /\ layoutEntry = "loaded" \/ ecuEntry = "failed"
          /\ told' = [told EXCEPT ![c] = IF layoutEntry = "loaded" THEN "value" ELSE "error"]
          /\ UNCHANGED <<ecuEntry, layoutEntry, waits>>
       \/ /\ layoutEntry # "loaded" /\ ecuEntry # "failed"
          /\ layoutEntry' = IF layoutEntry = "none" THEN "reading" ELSE layoutEntry
          /\ ecuEntry' = IF ecuEntry = "none" THEN "reading" ELSE ecuEntry
          /\ waits' = [waits EXCEPT ![c] = "layout"] /\ told' = [told EXCEPT ![c] = "nothing"]
    /\ UNCHANGED <<def, raw>>

\* A rejected load is not remembered: a later call reads again.
AfterRejectionKept == "failed"
AfterRejection == "none"

ReadFails == failed' = [c \in Callers |-> TRUE]

EcuRead(d) ==
    /\ ecuEntry = "reading"
    /\ ecuEntry' = "loaded" /\ def' = d
    /\ IF layoutEntry = "waiting"
       THEN layoutEntry' = "loaded" /\ Tell({"ecu", "layout"}, "value")
       ELSE UNCHANGED layoutEntry /\ Tell({"ecu"}, "value")
    /\ UNCHANGED <<raw, failed>>

\* The layout that waits for the ECU fails with it, whatever its own file says.
EcuUnread ==
    /\ ecuEntry = "reading"
    /\ ecuEntry' = AfterRejection
    /\ layoutEntry' = IF layoutEntry \in {"reading", "waiting"} THEN "none" ELSE layoutEntry
    /\ raw' = IF layoutEntry' = "loaded" THEN raw ELSE NoFile
    /\ Tell({"ecu", "layout"}, "error") /\ ReadFails
    /\ UNCHANGED def

LayoutRead(l) ==
    /\ layoutEntry = "reading"
    /\ raw' = l
    /\ IF ecuEntry = "loaded"
       THEN layoutEntry' = "loaded" /\ Tell({"layout"}, "value")
       ELSE layoutEntry' = "waiting" /\ UNCHANGED <<waits, told>>
    /\ UNCHANGED <<ecuEntry, def, failed>>

LayoutUnread ==
    /\ layoutEntry = "reading"
    /\ layoutEntry' = "none"
    /\ Tell({"layout"}, "error") /\ ReadFails
    /\ UNCHANGED <<ecuEntry, def, raw>>

LoadNext ==
    \/ \E c \in Callers : loadEcu(c) \/ loadLayout(c)
    \/ \E d \in Definitions : EcuRead(d)
    \/ \E l \in Layouts : LayoutRead(l)
    \/ EcuUnread \/ LayoutUnread

------------------------------------------------------------------------------
\* A failure is never served again: whoever is told of one was waiting when a read failed, however
\* the calls for the definitions and for the screens overlap.
FailureIsFresh == \A c \in Callers : told[c] = "error" => failed[c]

\* The two checks of a layout agree: what an open drops is what the import reported, but for a
\* display of data its request does not return, and nothing that is left fails to resolve.
DropsWhatIsReported ==
    layoutEntry = "loaded" =>
        LET p == prepareLayout(def, raw)
            reported == validateTree(def, raw)
        IN /\ \A w \in p.warnings : w.kind = "display-not-in-response" \/ AsFinding(w) \cap reported # {}
           /\ \A f \in reported : f[1] = "dataitem" \/ \E w \in p.warnings : f \in AsFinding(w)
           /\ \A s \in DOMAIN p.screens : \A w \in p.screens[s].widgets :
                 w.request \in Requests(def) /\ w.bound \in def.data \cup {Decoration}
           /\ \A c \in p.categories : \A n \in DOMAIN c[2] : c[2][n] \in DOMAIN p.screens
=============================================================================
