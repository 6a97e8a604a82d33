------------------------------ MODULE Catalogue ------------------------------
(***************************************************************************)
(* The catalogue of the database that is open: the vehicles, groups and    *)
(* protocols offered (state.svelte.ts), the searchable vehicle picker      *)
(* (VehiclePicker.svelte), and the ECUs that pass the filters              *)
(* (EcuDatabase.list). The filters outlive the database they were set for. *)
(***************************************************************************)
EXTENDS Integers, Sequences, FiniteSets, Functions

CONSTANTS
    Databases,      \* the databases that may be opened: each a function from slugs to index entries
    Upper(_),       \* a project code in capitals
    Artefacts,      \* project codes that begin with "#": node names of the XML the database came from
    InLabelOrder(_),   \* codes, sorted by their labels (Array.sort with localeCompare)
    Queries, Hits(_),  \* what may be typed into the picker, and the codes whose code or label holds it
    MaxOpened       \* bound: databases opened

VARIABLES
    opened,         \* the database, or no entries at all when there is none
    filters,        \* app.project, app.group, app.protocol
    groupFacet,     \* app.groups
    vehicles,       \* app.vehicles, in order
    results,        \* app.results
    picker,         \* the picker's open, query and highlighted
    openings,       \* databases opened
    chosenIn        \* history: the opening the vehicle was last chosen in

catalogueVars == <<opened, filters, groupFacet, vehicles, results, picker, openings, chosenIn>>

Unset == ""           \* a filter that does not constrain
Nothing == <<>>     \* no database
Closed == [open |-> FALSE, query |-> "", highlighted |-> 0]

------------------------------------------------------------------------------
(* What is derived from the index. *)

\* EcuDatabase.list, of the criteria the application uses.
list(db, f) ==
    {s \in DOMAIN db : /\ f.group \in {Unset, db[s].group}
                       /\ f.protocol \in {Unset, db[s].protocol}
                       /\ f.project = Unset \/ \E p \in db[s].projects : Upper(p) = Upper(f.project)}

Codes(db) == (UNION {db[s].projects : s \in DOMAIN db}) \ (Artefacts \cup {""})

\* A database is a function; a sort loses no code and adds none.
ASSUME DatabasesAssumption == \A db \in Databases : db = [s \in DOMAIN db |-> db[s]]
ASSUME SortAssumption ==
    \A db \in Databases : \A S \in SUBSET Codes(db) :
        InLabelOrder(S) \in Seq(S) /\ Range(InLabelOrder(S)) = S

\* The vehicles of the index, under each spelling of their code.
buildVehicles(db) ==
    InLabelOrder(Codes(db))

buildGroups(db, project) ==
    {db[s].group : s \in list(db, [project |-> project, group |-> Unset, protocol |-> Unset])} \ {""}

\* applyFilters, over what the handler before it has set.
applyFilters(groups) ==
    /\ groupFacet' = IF groups = {} THEN buildGroups(opened', filters'.project) ELSE groups
    /\ results' = list(opened', filters')

\* The picker's rows: "any vehicle" is a row only when nothing is typed.
matches == IF picker.query = "" THEN <<Unset>> \o vehicles
           ELSE InLabelOrder(Range(vehicles) \cap Hits(picker.query))

CatalogueInit ==
    /\ opened = Nothing /\ filters = [project |-> Unset, group |-> Unset, protocol |-> Unset]
    /\ groupFacet = {} /\ vehicles = <<>> /\ results = {} /\ picker = Closed
    /\ openings = 0 /\ chosenIn = 1

------------------------------------------------------------------------------
(* Databases come and go under the filters. *)

\* The end of useSource: the facets are the new database's, but for the groups; the filters stay.
Shows(db) ==
    /\ openings < MaxOpened
    /\ opened' = db /\ openings' = openings + 1
    /\ vehicles' = buildVehicles(db)
    /\ UNCHANGED filters
    /\ applyFilters(groupFacet)
    /\ UNCHANGED <<picker, chosenIn>>

\* forgetDatabase: the catalogue is replaced by the picker of databases.
Forgets ==
    /\ opened # Nothing
    /\ opened' = Nothing /\ results' = {} /\ picker' = Closed
    /\ UNCHANGED <<filters, groupFacet, vehicles, openings, chosenIn>>

------------------------------------------------------------------------------
(* The filters. *)

\* A wrong build of it: the group chosen before stays, whatever the vehicle has.
GroupKept(groups) == filters.group

\* A group the new vehicle does not have is dropped.
GroupFor(groups) == IF filters.group \in groups THEN filters.group ELSE Unset

selectVehicle(code) ==
    LET groups == buildGroups(opened, code)
    IN /\ filters' = [filters EXCEPT !.project = code, !.group = GroupFor(groups)]
       /\ chosenIn' = openings
       /\ UNCHANGED <<opened, vehicles, openings>>
       /\ applyFilters(groups)

\* The picker's choose: the list is hidden.
ChoosesVehicle(code) == opened # Nothing /\ selectVehicle(code) /\ picker' = Closed

\* The two selects of the catalogue, which offer what the facets hold.
ChoosesGroup(g) ==
    /\ opened # Nothing
    /\ filters' = [filters EXCEPT !.group = g]
    /\ UNCHANGED <<opened, vehicles, picker, openings, chosenIn>>
    /\ applyFilters(groupFacet)

ChoosesProtocol(p) ==
    /\ opened # Nothing
    /\ filters' = [filters EXCEPT !.protocol = p]
    /\ UNCHANGED <<opened, vehicles, picker, openings, chosenIn>>
    /\ applyFilters(groupFacet)

------------------------------------------------------------------------------
(* The picker. *)

PickerTo(p) ==
    /\ opened # Nothing
    /\ picker' = p
    /\ UNCHANGED <<opened, filters, groupFacet, vehicles, results, openings, chosenIn>>

\* Focus shows every row.
Focuses == ~picker.open /\ PickerTo([Closed EXCEPT !.open = TRUE])
Leaves == picker.open /\ PickerTo(Closed)
Types(query) == PickerTo([open |-> TRUE, query |-> query, highlighted |-> 0])

\* An arrow opens a closed list, and moves within an open one.
Arrow(step) ==
    IF ~picker.open THEN PickerTo([Closed EXCEPT !.open = TRUE])
    ELSE /\ matches # <<>>
         /\ LET row == picker.highlighted + step
            IN PickerTo([picker EXCEPT !.highlighted = IF row < 0 THEN 0
                                                       ELSE IF row > Len(matches) - 1 THEN Len(matches) - 1
                                                       ELSE row])

\* The pointer highlights the row it is over.
Hovers == picker.open /\ \E n \in DOMAIN matches : PickerTo([picker EXCEPT !.highlighted = n - 1])

\* Enter chooses the highlighted row, if there is one.
Enter ==
    /\ picker.open /\ picker.highlighted < Len(matches)
    /\ ChoosesVehicle(matches[picker.highlighted + 1])

\* The pointer chooses any row, and the cross beside the field chooses any vehicle.
Points == \/ picker.open /\ \E n \in DOMAIN matches : ChoosesVehicle(matches[n])
          \/ filters.project # Unset /\ ChoosesVehicle(Unset)

CatalogueNext ==
    \/ \E db \in Databases : Shows(db)
    \/ Forgets
    \/ \E g \in groupFacet \cup {Unset} : ChoosesGroup(g)
    \/ \E p \in {opened[s].protocol : s \in DOMAIN opened} \cup {Unset} : ChoosesProtocol(p)
    \/ Focuses \/ Leaves \/ Hovers \/ Enter \/ Points
    \/ \E query \in Queries : Types(query)
    \/ \E step \in {-1, 1} : Arrow(step)

------------------------------------------------------------------------------
\* Choosing never comes to nothing: in the database the vehicle was chosen in, every vehicle and every
\* group on offer has an ECU, on some bus, whatever spelling its code has and whatever the group and
\* the vehicle were before ("dropping a group the new vehicle doesn't have rather than silently
\* returning no results", state.svelte.ts:935).
ChosenIsFound ==
    opened # Nothing /\ chosenIn = openings =>
        /\ \A g \in groupFacet \cup {Unset, filters.group} :
               list(opened, [project |-> filters.project, group |-> g, protocol |-> Unset]) # {}
        /\ filters.protocol = Unset => results # {}
=============================================================================
