------------------------------- MODULE Storage -------------------------------
(***************************************************************************)
(* The database in use and what is read from it: a source that is opened   *)
(* makes a new EcuDatabase, whose caches are empty. The catalogue, the     *)
(* words of the ECU that is shown and the database outside the browser     *)
(* share no state with it, and one of the four runs at a time.             *)
(***************************************************************************)
EXTENDS DatabaseSource, DatabaseLoads, Catalogue, Translation, DatabaseTree

CONSTANT LoadsAfter  \* bound: loads are explored after this many choices: they do not depend on them

VARIABLE part        \* which of the four runs

catalogueAndWords == <<catalogueVars, wordsVars>>
vars == <<sourceVars, loadVars, catalogueVars, wordsVars, treeVars, part>>

Init ==
    /\ SourceInit /\ LoadInit /\ CatalogueInit /\ WordsInit
    /\ part \in {"database", "catalogue", "words", "tree"}
    /\ IF part = "tree" THEN TreeInit ELSE TreeRest

Quiet == \A c \in Callers : waits[c] = "idle" /\ told[c] = "nothing"

Sources == Quiet /\ SourceNext /\ UNCHANGED <<loadVars, catalogueAndWords, treeVars, part>>

Loads ==
    /\ database # None /\ \A f \in Flows : at[f] = "idle"
    /\ choices = LoadsAfter /\ reloads = 0
    /\ LoadNext
    /\ UNCHANGED <<sourceVars, catalogueAndWords, treeVars, part>>

Offers == CatalogueNext /\ UNCHANGED <<sourceVars, loadVars, wordsVars, treeVars, part>>
Words == WordsNext /\ UNCHANGED <<sourceVars, loadVars, catalogueVars, treeVars, part>>
Trees == TreeNext /\ UNCHANGED <<sourceVars, loadVars, catalogueAndWords, part>>

Next ==
    \/ part = "database" /\ (Sources \/ Loads)
    \/ part = "catalogue" /\ Offers
    \/ part = "words" /\ Words
    \/ part = "tree" /\ Trees

Spec == Init /\ [][Next]_vars
=============================================================================
