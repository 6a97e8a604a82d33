--------------------------- MODULE Storage_proofs ---------------------------
(***************************************************************************)
(* Theorems about the database in use: where it comes from, for any        *)
(* archives, folders and servers and any number of overlapping choices and *)
(* reloads; its loads, for any callers and files; the words of the ECU     *)
(* that is shown, for any ECUs, strings and translations; the trees that   *)
(* runs of db-split leave, and what an inspection sees of a copy of one.   *)
(***************************************************************************)
EXTENDS Storage, FiniteSetTheorems, TLAPS

USE DEF Flows, Places, Steps

\* A fresh page stores and shows nothing.
LEMMA InitInv == SourceInit => SourceInv
<1> SUFFICES ASSUME SourceInit PROVE SourceInv
    OBVIOUS
<1> USE PlacesAssumption DEF SourceInit
<1>1. SourceTypeOK BY DEF SourceTypeOK
<1>2. PlacesOfFlows /\ OnlyReadIsStored BY DEF PlacesOfFlows, OnlyReadIsStored
<1>3. Described BY DEF Described
<1> QED BY <1>1, <1>2, <1>3 DEF SourceInv

\* Starting stores nothing but a URL that has answered.
LEMMA StartsInv == SourceInv /\ Starts => SourceInv'
<1> SUFFICES ASSUME SourceInv, Starts PROVE SourceInv'
    OBVIOUS
<1> USE PlacesAssumption DEF SourceInv, stored, inUse, counters, Advance, Ends, Fails, Resolves
<1>1. CASE StartResolves
  <2> USE <1>1 DEF StartResolves
  <2>1. SourceTypeOK' BY DEF SourceTypeOK, PlacesOfFlows
  <2>2. PlacesOfFlows' BY DEF PlacesOfFlows, SourceTypeOK
  <2>3. OnlyReadIsStored' BY DEF OnlyReadIsStored, PlacesOfFlows, SourceTypeOK, Readable
  <2>4. Described' BY DEF Described, PlacesOfFlows, SourceTypeOK
  <2> QED BY <2>1, <2>2, <2>3, <2>4
<1>2. CASE StartAsks
  <2> USE <1>2 DEF StartAsks, Recalled
  <2>1. SourceTypeOK' BY DEF SourceTypeOK, PlacesOfFlows
  <2>2. PlacesOfFlows' BY DEF PlacesOfFlows, SourceTypeOK
  <2>3. OnlyReadIsStored' BY DEF OnlyReadIsStored, PlacesOfFlows, SourceTypeOK, Readable
  <2>4. Described' BY DEF Described, PlacesOfFlows, SourceTypeOK
  <2> QED BY <2>1, <2>2, <2>3, <2>4
<1>3. CASE StartReads
  <2> USE <1>3 DEF StartReads
  <2>1. SourceTypeOK' BY DEF SourceTypeOK, PlacesOfFlows
  <2>2. PlacesOfFlows' BY DEF PlacesOfFlows, SourceTypeOK
  <2>3. OnlyReadIsStored' BY DEF OnlyReadIsStored, PlacesOfFlows, SourceTypeOK, Readable
  <2>4. Described' BY DEF Described, PlacesOfFlows, SourceTypeOK
  <2> QED BY <2>1, <2>2, <2>3, <2>4
<1>4. CASE StartUnpacks
  <2> USE <1>4 DEF StartUnpacks
  <2>1. SourceTypeOK' BY DEF SourceTypeOK, PlacesOfFlows
  <2>2. PlacesOfFlows' BY DEF PlacesOfFlows, SourceTypeOK
  <2>3. OnlyReadIsStored' BY DEF OnlyReadIsStored, PlacesOfFlows, SourceTypeOK, Readable
  <2>4. Described' BY DEF Described, PlacesOfFlows, SourceTypeOK
  <2> QED BY <2>1, <2>2, <2>3, <2>4
<1>5. CASE StartFindsNothing
  <2> USE <1>5 DEF StartFindsNothing
  <2>1. SourceTypeOK' BY DEF SourceTypeOK, PlacesOfFlows
  <2>2. PlacesOfFlows' BY DEF PlacesOfFlows, SourceTypeOK
  <2>3. OnlyReadIsStored' BY DEF OnlyReadIsStored, PlacesOfFlows, SourceTypeOK, Readable
  <2>4. Described' BY DEF Described, PlacesOfFlows, SourceTypeOK
  <2> QED BY <2>1, <2>2, <2>3, <2>4
<1>6. CASE StartSaysWhy
  <2> USE <1>6 DEF StartSaysWhy, Recalled
  <2>1. SourceTypeOK' BY DEF SourceTypeOK, PlacesOfFlows
  <2>2. PlacesOfFlows' BY DEF PlacesOfFlows, SourceTypeOK
  <2>3. OnlyReadIsStored' BY DEF OnlyReadIsStored, PlacesOfFlows, SourceTypeOK, Readable
  <2>4. Described' BY DEF Described, PlacesOfFlows, SourceTypeOK
  <2> QED BY <2>1, <2>2, <2>3, <2>4
<1> QED BY <1>1, <1>2, <1>3, <1>4, <1>5, <1>6 DEF Starts

\* An archive is copied once it has been opened where it was picked.
LEMMA InstallsInv == SourceInv /\ Installs => SourceInv'
<1> SUFFICES ASSUME SourceInv, Installs PROVE SourceInv'
    OBVIOUS
<1> USE PlacesAssumption DEF SourceInv, stored, inUse, counters, Advance, Ends, Fails, Resolves
<1>1. CASE InstallChecks
  <2> USE <1>1 DEF InstallChecks, Acceptable, Readable
  <2>1. SourceTypeOK' BY DEF SourceTypeOK, PlacesOfFlows
  <2>2. PlacesOfFlows' BY DEF PlacesOfFlows, SourceTypeOK
  <2>3. OnlyReadIsStored' BY DEF OnlyReadIsStored, PlacesOfFlows, SourceTypeOK, Readable
  <2>4. Described' BY DEF Described, PlacesOfFlows, SourceTypeOK
  <2> QED BY <2>1, <2>2, <2>3, <2>4
<1>2. CASE InstallCopies
  <2> USE <1>2 DEF InstallCopies
  <2>1. SourceTypeOK' BY DEF SourceTypeOK, PlacesOfFlows
  <2>2. PlacesOfFlows' BY DEF PlacesOfFlows, SourceTypeOK
  <2>3. OnlyReadIsStored' BY DEF OnlyReadIsStored, PlacesOfFlows, SourceTypeOK, Readable
  <2>4. Described' BY DEF Described, PlacesOfFlows, SourceTypeOK
  <2> QED BY <2>1, <2>2, <2>3, <2>4
<1>3. CASE InstallRemembers
  <2> USE <1>3 DEF InstallRemembers, Written
  <2>1. SourceTypeOK' BY DEF SourceTypeOK, PlacesOfFlows
  <2>2. PlacesOfFlows' BY DEF PlacesOfFlows, SourceTypeOK
  <2>3. OnlyReadIsStored' BY DEF OnlyReadIsStored, PlacesOfFlows, SourceTypeOK, Readable
  <2>4. Described' BY DEF Described, PlacesOfFlows, SourceTypeOK
  <2> QED BY <2>1, <2>2, <2>3, <2>4
<1>4. CASE InstallReopens
  <2> USE <1>4 DEF InstallReopens
  <2>1. SourceTypeOK' BY DEF SourceTypeOK, PlacesOfFlows
  <2>2. PlacesOfFlows' BY DEF PlacesOfFlows, SourceTypeOK
  <2>3. OnlyReadIsStored' BY DEF OnlyReadIsStored, PlacesOfFlows, SourceTypeOK, Readable
  <2>4. Described' BY DEF Described, PlacesOfFlows, SourceTypeOK
  <2> QED BY <2>1, <2>2, <2>3, <2>4
<1> QED BY <1>1, <1>2, <1>3, <1>4 DEF Installs

\* A folder is remembered once its index has been read, and removing only removes.
LEMMA ContinuesInv == SourceInv /\ Continues => SourceInv'
<1> SUFFICES ASSUME SourceInv, Continues PROVE SourceInv'
    OBVIOUS
<1> USE PlacesAssumption DEF SourceInv, stored, inUse, counters, Advance, Ends, Fails, Resolves
<1>1. CASE FolderVerifies
  <2> USE <1>1 DEF FolderVerifies
  <2>1. SourceTypeOK' BY DEF SourceTypeOK, PlacesOfFlows
  <2>2. PlacesOfFlows' BY DEF PlacesOfFlows, SourceTypeOK
  <2>3. OnlyReadIsStored' BY DEF OnlyReadIsStored, PlacesOfFlows, SourceTypeOK, Readable
  <2>4. Described' BY DEF Described, PlacesOfFlows, SourceTypeOK
  <2> QED BY <2>1, <2>2, <2>3, <2>4
<1>2. CASE FolderIsKept
  <2> USE <1>2 DEF FolderIsKept
  <2>1. SourceTypeOK' BY DEF SourceTypeOK, PlacesOfFlows
  <2>2. PlacesOfFlows' BY DEF PlacesOfFlows, SourceTypeOK
  <2>3. OnlyReadIsStored' BY DEF OnlyReadIsStored, PlacesOfFlows, SourceTypeOK, Readable
  <2>4. Described' BY DEF Described, PlacesOfFlows, SourceTypeOK
  <2> QED BY <2>1, <2>2, <2>3, <2>4
<1>3. CASE FolderKindIsKept
  <2> USE <1>3 DEF FolderKindIsKept, Written
  <2>1. SourceTypeOK' BY DEF SourceTypeOK, PlacesOfFlows
  <2>2. PlacesOfFlows' BY DEF PlacesOfFlows, SourceTypeOK
  <2>3. OnlyReadIsStored' BY DEF OnlyReadIsStored, PlacesOfFlows, SourceTypeOK, Readable
  <2>4. Described' BY DEF Described, PlacesOfFlows, SourceTypeOK
  <2> QED BY <2>1, <2>2, <2>3, <2>4
<1>4. CASE ResumeAsks
  <2> USE <1>4 DEF ResumeAsks
  <2>1. SourceTypeOK' BY DEF SourceTypeOK, PlacesOfFlows
  <2>2. PlacesOfFlows' BY DEF PlacesOfFlows, SourceTypeOK
  <2>3. OnlyReadIsStored' BY DEF OnlyReadIsStored, PlacesOfFlows, SourceTypeOK, Readable
  <2>4. Described' BY DEF Described, PlacesOfFlows, SourceTypeOK
  <2> QED BY <2>1, <2>2, <2>3, <2>4
<1>5. CASE ResumeVerifies
  <2> USE <1>5 DEF ResumeVerifies
  <2>1. SourceTypeOK' BY DEF SourceTypeOK, PlacesOfFlows
  <2>2. PlacesOfFlows' BY DEF PlacesOfFlows, SourceTypeOK
  <2>3. OnlyReadIsStored' BY DEF OnlyReadIsStored, PlacesOfFlows, SourceTypeOK, Readable
  <2>4. Described' BY DEF Described, PlacesOfFlows, SourceTypeOK
  <2> QED BY <2>1, <2>2, <2>3, <2>4
<1>6. CASE ForgetRemoves
  <2> USE <1>6 DEF ForgetRemoves
  <2>1. SourceTypeOK' BY DEF SourceTypeOK, PlacesOfFlows
  <2>2. PlacesOfFlows' BY DEF PlacesOfFlows, SourceTypeOK
  <2>3. OnlyReadIsStored' BY DEF OnlyReadIsStored, PlacesOfFlows, SourceTypeOK, Readable
  <2>4. Described' BY DEF Described, PlacesOfFlows, SourceTypeOK
  <2> QED BY <2>1, <2>2, <2>3, <2>4
<1>7. CASE ForgetFolder
  <2> USE <1>7 DEF ForgetFolder
  <2>1. SourceTypeOK' BY DEF SourceTypeOK, PlacesOfFlows
  <2>2. PlacesOfFlows' BY DEF PlacesOfFlows, SourceTypeOK
  <2>3. OnlyReadIsStored' BY DEF OnlyReadIsStored, PlacesOfFlows, SourceTypeOK, Readable
  <2>4. Described' BY DEF Described, PlacesOfFlows, SourceTypeOK
  <2> QED BY <2>1, <2>2, <2>3, <2>4
<1>8. CASE ForgetEnds
  <2> USE <1>8 DEF ForgetEnds, Written
  <2>1. SourceTypeOK' BY DEF SourceTypeOK, PlacesOfFlows
  <2>2. PlacesOfFlows' BY DEF PlacesOfFlows, SourceTypeOK
  <2>3. OnlyReadIsStored' BY DEF OnlyReadIsStored, PlacesOfFlows, SourceTypeOK, Readable
  <2>4. Described' BY DEF Described, PlacesOfFlows, SourceTypeOK
  <2> QED BY <2>1, <2>2, <2>3, <2>4
<1>9. CASE VerifyEnds
  <2> USE <1>9 DEF VerifyEnds
  <2>1. SourceTypeOK' BY DEF SourceTypeOK, PlacesOfFlows
  <2>2. PlacesOfFlows' BY DEF PlacesOfFlows, SourceTypeOK
  <2>3. OnlyReadIsStored' BY DEF OnlyReadIsStored, PlacesOfFlows, SourceTypeOK, Readable
  <2>4. Described' BY DEF Described, PlacesOfFlows, SourceTypeOK
  <2> QED BY <2>1, <2>2, <2>3, <2>4
<1> QED BY <1>1, <1>2, <1>3, <1>4, <1>5, <1>6, <1>7, <1>8, <1>9 DEF Continues

\* What is shown changes at once, when the index has been read.
LEMMA UseInv ==
    ASSUME SourceInv, NEW f \in Flows, useSource(f) PROVE SourceInv'
<1> USE PlacesAssumption DEF SourceInv, stored, inUse, counters, Advance, Ends, Fails, Resolves, useSource, Uses
<1>1. SourceTypeOK' BY DEF SourceTypeOK, PlacesOfFlows
<1>2. PlacesOfFlows' BY DEF PlacesOfFlows, SourceTypeOK
<1>3. OnlyReadIsStored' BY DEF OnlyReadIsStored, PlacesOfFlows, SourceTypeOK, Readable
<1>4. Described' BY DEF Described, PlacesOfFlows, SourceTypeOK
<1> QED BY <1>1, <1>2, <1>3, <1>4

\* A URL is remembered when it has answered.
LEMMA RemoteInv ==
    ASSUME SourceInv, NEW f \in {"start", "remote"}, RemoteAnswers(f) PROVE SourceInv'
<1> USE PlacesAssumption DEF SourceInv, stored, inUse, counters, Advance, Ends, Fails, Resolves, RemoteAnswers, Written
<1>1. SourceTypeOK' BY DEF SourceTypeOK, PlacesOfFlows
<1>2. PlacesOfFlows' BY DEF PlacesOfFlows, SourceTypeOK
<1>3. OnlyReadIsStored' BY DEF OnlyReadIsStored, PlacesOfFlows, SourceTypeOK, Readable
<1>4. Described' BY DEF Described, PlacesOfFlows, SourceTypeOK
<1> QED BY <1>1, <1>2, <1>3, <1>4

\* A reload keeps what is stored and nothing else.
LEMMA ReloadInv ==
    ASSUME SourceInv, Reload PROVE SourceInv'
<1> USE PlacesAssumption DEF SourceInv, stored, inUse, counters, Advance, Ends, Fails, Resolves, Reload
<1>1. SourceTypeOK' BY DEF SourceTypeOK, PlacesOfFlows
<1>2. PlacesOfFlows' BY DEF PlacesOfFlows, SourceTypeOK
<1>3. OnlyReadIsStored' BY DEF OnlyReadIsStored, PlacesOfFlows, SourceTypeOK, Readable
<1>4. Described' BY DEF Described, PlacesOfFlows, SourceTypeOK
<1> QED BY <1>1, <1>2, <1>3, <1>4

\* A choice stores nothing yet.
LEMMA ChoosesInv == SourceInv /\ Chooses => SourceInv'
<1> SUFFICES ASSUME SourceInv, Chooses PROVE SourceInv'
    OBVIOUS
<1> USE PlacesAssumption DEF SourceInv, stored, inUse, counters, Advance, Ends, Fails, Resolves, Begins
<1>1. CASE \E a \in Archives : InstallBegins(a)
  <2> USE <1>1 DEF InstallBegins
  <2>1. SourceTypeOK' BY DEF SourceTypeOK, PlacesOfFlows
  <2>2. PlacesOfFlows' BY DEF PlacesOfFlows, SourceTypeOK
  <2>3. OnlyReadIsStored' BY DEF OnlyReadIsStored, PlacesOfFlows, SourceTypeOK, Readable
  <2>4. Described' BY DEF Described, PlacesOfFlows, SourceTypeOK
  <2> QED BY <2>1, <2>2, <2>3, <2>4
<1>2. CASE \E d \in Folders : FolderBegins(d)
  <2> USE <1>2 DEF FolderBegins
  <2>1. SourceTypeOK' BY DEF SourceTypeOK, PlacesOfFlows
  <2>2. PlacesOfFlows' BY DEF PlacesOfFlows, SourceTypeOK
  <2>3. OnlyReadIsStored' BY DEF OnlyReadIsStored, PlacesOfFlows, SourceTypeOK, Readable
  <2>4. Described' BY DEF Described, PlacesOfFlows, SourceTypeOK
  <2> QED BY <2>1, <2>2, <2>3, <2>4
<1>3. CASE \E u \in Urls : RemoteBegins(u)
  <2> USE <1>3 DEF RemoteBegins
  <2>1. SourceTypeOK' BY DEF SourceTypeOK, PlacesOfFlows
  <2>2. PlacesOfFlows' BY DEF PlacesOfFlows, SourceTypeOK
  <2>3. OnlyReadIsStored' BY DEF OnlyReadIsStored, PlacesOfFlows, SourceTypeOK, Readable
  <2>4. Described' BY DEF Described, PlacesOfFlows, SourceTypeOK
  <2> QED BY <2>1, <2>2, <2>3, <2>4
<1>4. CASE ResumeBegins
  <2> USE <1>4 DEF ResumeBegins
  <2>1. SourceTypeOK' BY DEF SourceTypeOK, PlacesOfFlows
  <2>2. PlacesOfFlows' BY DEF PlacesOfFlows, SourceTypeOK
  <2>3. OnlyReadIsStored' BY DEF OnlyReadIsStored, PlacesOfFlows, SourceTypeOK, Readable
  <2>4. Described' BY DEF Described, PlacesOfFlows, SourceTypeOK
  <2> QED BY <2>1, <2>2, <2>3, <2>4
<1>5. CASE ForgetBegins
  <2> USE <1>5 DEF ForgetBegins
  <2>1. SourceTypeOK' BY DEF SourceTypeOK, PlacesOfFlows
  <2>2. PlacesOfFlows' BY DEF PlacesOfFlows, SourceTypeOK
  <2>3. OnlyReadIsStored' BY DEF OnlyReadIsStored, PlacesOfFlows, SourceTypeOK, Readable
  <2>4. Described' BY DEF Described, PlacesOfFlows, SourceTypeOK
  <2> QED BY <2>1, <2>2, <2>3, <2>4
<1>6. CASE VerifyBegins
  <2> USE <1>6 DEF VerifyBegins
  <2>1. SourceTypeOK' BY DEF SourceTypeOK, PlacesOfFlows
  <2>2. PlacesOfFlows' BY DEF PlacesOfFlows, SourceTypeOK
  <2>3. OnlyReadIsStored' BY DEF OnlyReadIsStored, PlacesOfFlows, SourceTypeOK, Readable
  <2>4. Described' BY DEF Described, PlacesOfFlows, SourceTypeOK
  <2> QED BY <2>1, <2>2, <2>3, <2>4
<1> QED BY <1>1, <1>2, <1>3, <1>4, <1>5, <1>6 DEF Chooses

\* Nothing changes in a stuttering step.
LEMMA StutterInv == SourceInv /\ UNCHANGED sourceVars => SourceInv'
<1> SUFFICES ASSUME SourceInv, UNCHANGED sourceVars PROVE SourceInv'
    OBVIOUS
<1> USE DEF SourceInv, sourceVars, stored, inUse, flow, counters
<1>1. SourceTypeOK' BY DEF SourceTypeOK
<1>2. PlacesOfFlows' BY DEF PlacesOfFlows
<1>3. OnlyReadIsStored' BY DEF OnlyReadIsStored, Readable
<1>4. Described' BY DEF Described
<1> QED BY <1>1, <1>2, <1>3, <1>4

\* Any step of the source's.
LEMMA NextInv == SourceInv /\ [SourceNext]_sourceVars => SourceInv'
BY StartsInv, InstallsInv, ContinuesInv, ChoosesInv, UseInv, RemoteInv, ReloadInv, StutterInv DEF SourceNext

\* The invariant of the whole behaviour: what is stored was read, what is shown is in use.
THEOREM SourceInvariant == SourceSpec => []SourceInv
BY InitInv, NextInv, PTL DEF SourceSpec

\* What resolveSavedSource would open after a reload has been read before it was remembered, however
\* choices overlap and whichever writes fail.
THEOREM RememberedWasRead == SourceSpec => []SavedWasRead
<1>1. SourceInv => SavedWasRead BY DEF SourceInv, OnlyReadIsStored, SavedWasRead, Saved
<1> QED BY <1>1, SourceInvariant, PTL

\* The label, the facts and the reader of the database are those of the database in use.
THEOREM DatabaseDescribed == SourceSpec => []Described
<1>1. SourceInv => Described BY DEF SourceInv
<1> QED BY <1>1, SourceInvariant, PTL

\* Only installArchive and forgetDatabase touch the stored archive.
LEMMA ArchiveStep ==
    SourceInv /\ [SourceNext]_sourceVars =>
        (opfs # None /\ opfs' # opfs =>
            \/ opfs' # None /\ Readable(opfs')
            \/ opfs' = None /\ at["forget"] = "removing")
<1> SUFFICES ASSUME SourceInv, [SourceNext]_sourceVars, opfs' # opfs
             PROVE \/ opfs' # None /\ Readable(opfs')
                   \/ opfs' = None /\ at["forget"] = "removing"
    OBVIOUS
<1>1. CASE InstallCopies
  BY <1>1, PlacesAssumption DEF InstallCopies, SourceInv, SourceTypeOK, PlacesOfFlows, OnlyReadIsStored, Readable
<1>2. CASE ForgetRemoves BY <1>2 DEF ForgetRemoves
<1>3. CASE Starts
  BY <1>3 DEF Starts, StartResolves, StartAsks, StartReads, StartUnpacks, StartFindsNothing, StartSaysWhy, stored
<1>4. CASE InstallChecks \/ InstallRemembers \/ InstallReopens
  BY <1>4 DEF InstallChecks, InstallRemembers, InstallReopens, stored
<1>5. CASE FolderVerifies \/ FolderIsKept \/ FolderKindIsKept \/ ResumeAsks \/ ResumeVerifies
  BY <1>5 DEF FolderVerifies, FolderIsKept, FolderKindIsKept, ResumeAsks, ResumeVerifies, stored
<1>6. CASE ForgetFolder \/ ForgetEnds \/ VerifyEnds
  BY <1>6 DEF ForgetFolder, ForgetEnds, VerifyEnds, stored
<1>7. CASE Chooses
  BY <1>7 DEF Chooses, InstallBegins, FolderBegins, RemoteBegins, ResumeBegins, ForgetBegins, VerifyBegins, Begins, stored
<1>8. CASE Reload BY <1>8 DEF Reload, stored
<1>9. CASE \E f \in Flows : useSource(f) BY <1>9 DEF useSource, stored
<1>10. CASE \E f \in {"start", "remote"} : RemoteAnswers(f) BY <1>10 DEF RemoteAnswers
<1>11. CASE UNCHANGED sourceVars BY <1>11 DEF sourceVars, stored
<1> QED
  BY <1>1, <1>2, <1>3, <1>4, <1>5, <1>6, <1>7, <1>8, <1>9, <1>10, <1>11 DEF SourceNext, Installs, Continues

\* A stored archive that opens is only replaced by one that opens, or removed on request.
THEOREM ArchiveIsKept == SourceSpec => WorkingArchiveKept
BY SourceInvariant, ArchiveStep, PTL DEF SourceSpec, WorkingArchiveKept

\* Reading from the database is a stuttering step of where it comes from, so that the theorems above
\* hold of the whole of Storage.
THEOREM StorageIsSource == Spec => SourceSpec
<1>1. Init => SourceInit BY DEF Init
<1>2. [Next]_vars => [SourceNext]_sourceVars
  BY DEF Next, Sources, Loads, Offers, Words, Trees, vars, sourceVars
<1> QED BY <1>1, <1>2, PTL DEF Spec, SourceSpec

HIDE DEF Flows, Places, Steps

-----------------------------------------------------------------------------
(* The loads. No entry is ever that of a failed load, so an error can only *)
(* come from a read.                                                       *)
LoadInv ==
    /\ ecuEntry # "failed"
    /\ told \in [Callers -> {"nothing", "value", "error"}] /\ failed \in [Callers -> BOOLEAN]
    /\ FailureIsFresh

\* Nothing is loaded at first.
LEMMA LoadInitInv == LoadInit => LoadInv
BY DEF LoadInit, LoadInv, FailureIsFresh

\* Any step of the loads.
LEMMA LoadNextInv == LoadInv /\ LoadNext => LoadInv'
<1> SUFFICES ASSUME LoadInv, LoadNext PROVE LoadInv'
    OBVIOUS
<1> USE DEF LoadInv, FailureIsFresh
<1>1. ASSUME NEW c \in Callers, loadEcu(c) PROVE LoadInv'
      BY <1>1 DEF loadEcu
<1>2. ASSUME NEW c \in Callers, loadLayout(c) PROVE LoadInv'
      BY <1>2 DEF loadLayout
<1>3. ASSUME NEW d \in Definitions, EcuRead(d) PROVE LoadInv'
      BY <1>3 DEF EcuRead, Tell
<1>4. ASSUME NEW l \in Layouts, LayoutRead(l) PROVE LoadInv'
      BY <1>4 DEF LayoutRead, Tell
<1>5. CASE EcuUnread BY <1>5 DEF EcuUnread, AfterRejection, Tell, ReadFails
<1>6. CASE LayoutUnread BY <1>6 DEF LayoutUnread, Tell, ReadFails
<1> QED BY <1>1, <1>2, <1>3, <1>4, <1>5, <1>6 DEF LoadNext

(* A failure is never served again, however the calls for the definitions  *)
(* and for the screens overlap (database.ts:127).                          *)
THEOREM LoadsFailFresh == Spec => []FailureIsFresh
<1>1. Init => LoadInv BY LoadInitInv DEF Init
<1>2. LoadInv /\ [Next]_vars => LoadInv'
  <2>1. LoadInv /\ UNCHANGED loadVars => LoadInv' BY DEF LoadInv, FailureIsFresh, loadVars
  <2>2. [Next]_vars => LoadNext \/ UNCHANGED loadVars
        BY DEF Next, Sources, Loads, Offers, Words, Trees, vars
  <2> QED BY <2>1, <2>2, LoadNextInv
<1>3. LoadInv => FailureIsFresh BY DEF LoadInv
<1> QED BY <1>1, <1>2, <1>3, PTL DEF Spec

(* The screens. What keeps a widget from an open is what an import reports *)
(* of it, but for a display of data its request does not return.           *)

\* One widget.
LEMMA WidgetFacts ==
  ASSUME NEW d, NEW k \in WidgetKinds, NEW w
  PROVE  /\ \A x \in WidgetWarnings(d, k, w) :
              x.kind = "display-not-in-response" \/ AsFinding(x) \cap WidgetFindings(d, k, w) # {}
         /\ \A f \in WidgetFindings(d, k, w) : \E x \in WidgetWarnings(d, k, w) : f \in AsFinding(x)
         /\ WidgetWarnings(d, k, w) = {} =>
              w.request \in Requests(d) /\ Binding(d, w) \in d.data \cup {Decoration}
<1> DEFINE gone == w.request \notin Requests(d)
           unnamed == w.text \notin d.data /\ w.text # NotNamed
<1>1. CASE gone
  <2> DEFINE x == Warning("widget-missing-request", w.request)
             f == <<k, "names missing request", w.request>>
  <2>1. WidgetWarnings(d, k, w) = {x} BY <1>1 DEF WidgetWarnings
  <2>2. WidgetFindings(d, k, w) = {f} BY <1>1 DEF WidgetFindings
  <2>3. f \in AsFinding(x) BY DEF AsFinding, Warning, WidgetKinds
  <2> HIDE DEF x, f
  <2> QED BY <2>1, <2>2, <2>3
<1>2. CASE ~gone /\ unnamed
  <2> DEFINE x == Warning("widget-missing-data", w.text)
             f == <<k, "names missing data", w.text>>
  <2>1. WidgetWarnings(d, k, w) = {x} BY <1>2 DEF WidgetWarnings
  <2>2. WidgetFindings(d, k, w) = {f} BY <1>2 DEF WidgetFindings
  <2>3. f \in AsFinding(x) BY DEF AsFinding, Warning, WidgetKinds
  <2> HIDE DEF x, f
  <2> QED BY <2>1, <2>2, <2>3
<1>3. CASE ~gone /\ ~unnamed
  <2>1. WidgetFindings(d, k, w) = {} BY <1>3 DEF WidgetFindings
  <2>2. \A x \in WidgetWarnings(d, k, w) : x.kind = "display-not-in-response"
    BY <1>3 DEF WidgetWarnings, Warning
  <2>3. Binding(d, w) \in d.data \cup {Decoration} BY DEF Binding
  <2> QED BY <1>3, <2>1, <2>2, <2>3
<1> QED BY <1>1, <1>2, <1>3

\* One screen.
LEMMA ScreenFacts ==
  ASSUME NEW d, NEW r
  PROVE  /\ \A x \in ScreenWarnings(d, r) :
              x.kind = "display-not-in-response" \/ AsFinding(x) \cap ScreenFindings(d, r) # {}
         /\ \A f \in ScreenFindings(d, r) : \E x \in ScreenWarnings(d, r) : f \in AsFinding(x)
         /\ \A w \in prepareScreen(d, r).widgets :
              w.request \in Requests(d) /\ w.bound \in d.data \cup {Decoration}
<1> DEFINE W(k) == UNION {WidgetWarnings(d, k, r[k][n]) : n \in DOMAIN r[k]}
           F(k) == UNION {WidgetFindings(d, k, r[k][n]) : n \in DOMAIN r[k]}
           sw == {Warning("button-send-missing-request", r.sends[n]) : n \in Unresolved(d, r.sends)}
           sf == {<<"button send", "names missing request", r.sends[n]>> : n \in Unresolved(d, r.sends)}
           pw == {Warning("presend-missing-request", r.presend[n]) : n \in Unresolved(d, r.presend)}
           pf == {<<"presend", "names missing request", r.presend[n]>> : n \in Unresolved(d, r.presend)}
<1>1. ASSUME NEW k \in WidgetKinds
      PROVE  /\ \A x \in W(k) : x.kind = "display-not-in-response" \/ AsFinding(x) \cap F(k) # {}
             /\ \A f \in F(k) : \E x \in W(k) : f \in AsFinding(x)
  <2>1. ASSUME NEW x \in W(k) PROVE x.kind = "display-not-in-response" \/ AsFinding(x) \cap F(k) # {}
    <3>1. PICK n \in DOMAIN r[k] : x \in WidgetWarnings(d, k, r[k][n]) OBVIOUS
    <3>2. x.kind = "display-not-in-response" \/ AsFinding(x) \cap WidgetFindings(d, k, r[k][n]) # {}
      BY <3>1, WidgetFacts
    <3> QED BY <3>2
  <2>2. ASSUME NEW f \in F(k) PROVE \E x \in W(k) : f \in AsFinding(x)
    <3>1. PICK n \in DOMAIN r[k] : f \in WidgetFindings(d, k, r[k][n]) OBVIOUS
    <3>2. \E x \in WidgetWarnings(d, k, r[k][n]) : f \in AsFinding(x) BY <3>1, WidgetFacts
    <3> QED BY <3>2
  <2> QED BY <2>1, <2>2
<1>2. \A n : AsFinding(Warning("button-send-missing-request", n)) = {<<"button send", "names missing request", n>>}
  BY DEF AsFinding, Warning
<1>3. \A n : AsFinding(Warning("presend-missing-request", n)) = {<<"presend", "names missing request", n>>}
  BY DEF AsFinding, Warning
<1>4. /\ \A x \in sw : AsFinding(x) \cap sf # {}
      /\ \A f \in sf : \E x \in sw : f \in AsFinding(x)
  BY <1>2
<1>5. /\ \A x \in pw : AsFinding(x) \cap pf # {}
      /\ \A f \in pf : \E x \in pw : f \in AsFinding(x)
  BY <1>3
<1>6. ScreenWarnings(d, r) = (UNION {W(k) : k \in WidgetKinds}) \cup sw \cup pw BY DEF ScreenWarnings
<1>7. ScreenFindings(d, r) = (UNION {F(k) : k \in WidgetKinds}) \cup sf \cup pf BY DEF ScreenFindings
<1>8. ASSUME NEW w \in prepareScreen(d, r).widgets
      PROVE  w.request \in Requests(d) /\ w.bound \in d.data \cup {Decoration}
  <2>1. PICK k \in WidgetKinds : w \in Prepared(d, k, r[k]) BY DEF prepareScreen
  <2>2. PICK n \in DOMAIN r[k] :
          /\ WidgetWarnings(d, k, r[k][n]) = {}
          /\ w.request = r[k][n].request /\ w.bound = Binding(d, r[k][n])
    BY <2>1 DEF Prepared
  <2> QED BY <2>2, WidgetFacts
<1> HIDE DEF W, F, sw, sf, pw, pf
<1>9. \A x \in ScreenWarnings(d, r) :
        x.kind = "display-not-in-response" \/ AsFinding(x) \cap ScreenFindings(d, r) # {}
  <2> SUFFICES ASSUME NEW x \in ScreenWarnings(d, r), x.kind # "display-not-in-response"
               PROVE  \E f \in AsFinding(x) : f \in ScreenFindings(d, r)
      OBVIOUS
  <2>1. CASE x \in sw
    <3>1. \E f \in AsFinding(x) : f \in sf BY <1>4, <2>1
    <3> QED BY <1>7, <3>1
  <2>2. CASE x \in pw
    <3>1. \E f \in AsFinding(x) : f \in pf BY <1>5, <2>2
    <3> QED BY <1>7, <3>1
  <2>3. ASSUME NEW k \in WidgetKinds, x \in W(k) PROVE \E f \in AsFinding(x) : f \in ScreenFindings(d, r)
    <3>1. \E f \in AsFinding(x) : f \in F(k) BY <1>1, <2>3
    <3> QED BY <1>7, <3>1
  <2> QED BY <1>6, <2>1, <2>2, <2>3
<1>10. \A f \in ScreenFindings(d, r) : \E x \in ScreenWarnings(d, r) : f \in AsFinding(x)
  <2> SUFFICES ASSUME NEW f \in ScreenFindings(d, r) PROVE \E x \in ScreenWarnings(d, r) : f \in AsFinding(x)
      OBVIOUS
  <2>1. CASE f \in sf \/ f \in pf
    <3>1. \E x \in sw \cup pw : f \in AsFinding(x) BY <1>4, <1>5, <2>1
    <3> QED BY <1>6, <3>1
  <2>2. ASSUME NEW k \in WidgetKinds, f \in F(k) PROVE \E x \in ScreenWarnings(d, r) : f \in AsFinding(x)
    <3>1. \E x \in W(k) : f \in AsFinding(x) BY <1>1, <2>2
    <3> QED BY <1>6, <3>1
  <2> QED BY <1>7, <2>1, <2>2
<1> QED BY <1>8, <1>9, <1>10

(* The two checks of a layout agree, for any definitions and any layouts:  *)
(* what prepareLayout drops at an open (layout.ts) is what validateTree    *)
(* reports at an import (validate.ts), but for a display of data its       *)
(* request does not return, and nothing that is left fails to resolve.     *)
THEOREM DropsAreReported == Spec => []DropsWhatIsReported
<1> DEFINE d == def
           l == raw
           p == prepareLayout(d, l)
           reported == validateTree(d, l)
           cw == UNION {{Warning("category-missing-screen", l.categories[c][n]) : n \in Absent(l, c)}
                        : c \in DOMAIN l.categories}
           cf == UNION {{<<"category", "names missing screen", l.categories[c][n]>> : n \in Absent(l, c)}
                        : c \in DOMAIN l.categories}
           items == {<<"dataitem", "names missing data", e>> :
                        e \in (UNION {d.receives[q] : q \in Requests(d)}) \ d.data}
           W(s) == ScreenWarnings(d, l.screens[s])
           F(s) == ScreenFindings(d, l.screens[s])
<1>1. p.warnings = (UNION {W(s) : s \in DOMAIN l.screens}) \cup cw BY DEF prepareLayout
<1>2. reported = (UNION {F(s) : s \in DOMAIN l.screens}) \cup cf \cup items BY DEF validateTree
<1>3. /\ \A x \in cw : AsFinding(x) \cap cf # {}
      /\ \A f \in cf : \E x \in cw : f \in AsFinding(x)
  <2>1. \A n : AsFinding(Warning("category-missing-screen", n)) = {<<"category", "names missing screen", n>>}
    BY DEF AsFinding, Warning
  <2>2. ASSUME NEW x \in cw PROVE AsFinding(x) \cap cf # {}
    <3>0. PICK c \in DOMAIN l.categories : \E n \in Absent(l, c) :
            x = Warning("category-missing-screen", l.categories[c][n])
      OBVIOUS
    <3>1. PICK n \in Absent(l, c) : x = Warning("category-missing-screen", l.categories[c][n])
      BY <3>0
    <3>2. <<"category", "names missing screen", l.categories[c][n]>> \in cf OBVIOUS
    <3> QED BY <2>1, <3>1, <3>2, ZenonT(40)
  <2>3. ASSUME NEW f \in cf PROVE \E x \in cw : f \in AsFinding(x)
    <3>0. PICK c \in DOMAIN l.categories : \E n \in Absent(l, c) :
            f = <<"category", "names missing screen", l.categories[c][n]>>
      OBVIOUS
    <3>1. PICK n \in Absent(l, c) : f = <<"category", "names missing screen", l.categories[c][n]>>
      BY <3>0
    <3> DEFINE x == Warning("category-missing-screen", l.categories[c][n])
    <3>2. x \in {Warning("category-missing-screen", l.categories[c][m]) : m \in Absent(l, c)} OBVIOUS
    <3> HIDE DEF x
    <3>3. x \in cw BY <3>2
    <3>4. f \in AsFinding(x) BY <2>1, <3>1 DEF x
    <3> QED BY <3>3, <3>4
  <2> QED BY <2>2, <2>3
<1>4. ASSUME NEW f \in items PROVE f[1] = "dataitem"
  <2>1. PICK e : f = <<"dataitem", "names missing data", e>> OBVIOUS
  <2> QED BY <2>1
<1>5. \A s \in DOMAIN l.screens :
        /\ \A x \in W(s) : x.kind = "display-not-in-response" \/ AsFinding(x) \cap F(s) # {}
        /\ \A f \in F(s) : \E x \in W(s) : f \in AsFinding(x)
  BY ScreenFacts
<1>6. p.screens = [s \in DOMAIN l.screens |-> prepareScreen(d, l.screens[s])] BY DEF prepareLayout
<1>7. \A s \in DOMAIN p.screens : \A w \in p.screens[s].widgets :
        w.request \in Requests(d) /\ w.bound \in d.data \cup {Decoration}
  <2> HIDE DEF p
  <2> QED BY <1>6, ScreenFacts
<1>8. \A c \in p.categories : \A n \in DOMAIN c[2] : c[2][n] \in DOMAIN p.screens
  <2> SUFFICES ASSUME NEW c \in p.categories, NEW n \in DOMAIN c[2] PROVE c[2][n] \in DOMAIN p.screens
      OBVIOUS
  <2>1. PICK e \in DOMAIN l.categories : c = <<e, Kept(l, e)>> BY DEF prepareLayout
  <2>2. n \in DOMAIN l.categories[e] \ Absent(l, e) /\ c[2][n] = l.categories[e][n] BY <2>1 DEF Kept
  <2>3. l.categories[e][n] \in DOMAIN l.screens BY <2>2 DEF Absent
  <2>4. DOMAIN p.screens = DOMAIN l.screens BY <1>6
  <2> HIDE DEF p
  <2> QED BY <2>2, <2>3, <2>4
<1> HIDE DEF p, reported, cw, cf, items, W, F
<1>9. \A x \in p.warnings : x.kind = "display-not-in-response" \/ AsFinding(x) \cap reported # {}
  <2> SUFFICES ASSUME NEW x \in p.warnings, x.kind # "display-not-in-response"
               PROVE  \E f \in AsFinding(x) : f \in reported
      OBVIOUS
  <2>1. CASE x \in cw
    <3>1. \E f \in AsFinding(x) : f \in cf BY <1>3, <2>1
    <3> QED BY <1>2, <3>1
  <2>2. ASSUME NEW s \in DOMAIN l.screens, x \in W(s) PROVE \E f \in AsFinding(x) : f \in reported
    <3>1. \E f \in AsFinding(x) : f \in F(s) BY <1>5, <2>2
    <3> QED BY <1>2, <3>1
  <2> QED BY <1>1, <2>1, <2>2
<1>10. \A f \in reported : f[1] = "dataitem" \/ \E x \in p.warnings : f \in AsFinding(x)
  <2> SUFFICES ASSUME NEW f \in reported, f[1] # "dataitem" PROVE \E x \in p.warnings : f \in AsFinding(x)
      OBVIOUS
  <2>1. CASE f \in cf
    <3>1. \E x \in cw : f \in AsFinding(x) BY <1>3, <2>1
    <3> QED BY <1>1, <3>1
  <2>2. ASSUME NEW s \in DOMAIN l.screens, f \in F(s) PROVE \E x \in p.warnings : f \in AsFinding(x)
    <3>1. \E x \in W(s) : f \in AsFinding(x) BY <1>5, <2>2
    <3> QED BY <1>1, <3>1
  <2> QED BY <1>2, <1>4, <2>1, <2>2
<1>11. DropsWhatIsReported
  BY <1>7, <1>8, <1>9, <1>10 DEF DropsWhatIsReported, p, reported
<1> QED BY <1>11, PTL

-----------------------------------------------------------------------------
(* The catalogue. In the opening the vehicle was chosen in, it is one of   *)
(* the index or any, and the groups are those of its ECUs.                 *)

Filter(project, group, protocol) == [project |-> project, group |-> group, protocol |-> protocol]

IsVehicle(code) == code = Unset \/ \E s \in DOMAIN opened : code \in opened[s].projects

ChosenHere ==
    /\ IsVehicle(filters.project)
    /\ groupFacet = buildGroups(opened, filters.project)
    /\ filters.group \in groupFacet \cup {Unset}

CatalogueInv ==
    /\ openings \in Nat /\ chosenIn \in Nat \ {0} /\ chosenIn <= openings + 1
    /\ chosenIn = openings + 1 => /\ openings = 0 /\ opened = Nothing
                                  /\ filters = Filter(Unset, Unset, Unset) /\ groupFacet = {}
    /\ filters = Filter(filters.project, filters.group, filters.protocol)
    /\ picker.highlighted \in Nat
    /\ opened # Nothing => /\ DOMAIN opened # {} /\ results = list(opened, filters)
                           /\ opened \in Databases /\ vehicles \in Seq(Codes(opened))
                           /\ chosenIn = openings => ChosenHere

\* Nothing has been opened at first.
LEMMA CatalogueInitInv == CatalogueInit => CatalogueInv
<1> SUFFICES ASSUME CatalogueInit PROVE CatalogueInv
    OBVIOUS
<1>1. /\ opened = Nothing /\ openings = 0 /\ chosenIn = 1 /\ groupFacet = {}
      /\ filters = Filter(Unset, Unset, Unset) /\ picker = Closed
  BY DEF CatalogueInit, Filter
<1>2. filters = Filter(filters.project, filters.group, filters.protocol) BY <1>1 DEF Filter
<1>3. picker.highlighted = 0 BY <1>1 DEF Closed
<1> QED BY <1>1, <1>2, <1>3 DEF CatalogueInv

\* The rows of the picker are vehicles of the index, or any.
LEMMA RowsAreVehicles ==
  ASSUME CatalogueInv, opened # Nothing
  PROVE  /\ matches \in Seq(Codes(opened) \cup {Unset})
         /\ \A n \in DOMAIN matches : IsVehicle(matches[n])
<1>1. vehicles \in Seq(Codes(opened)) /\ opened \in Databases BY DEF CatalogueInv
<1>2. \A code \in Codes(opened) : IsVehicle(code) BY DEF Codes, IsVehicle
<1>3. CASE picker.query = ""
  <2>1. matches = <<Unset>> \o vehicles BY <1>3 DEF matches
  <2>2. matches \in Seq(Codes(opened) \cup {Unset})
    <3>1. <<Unset>> \in Seq(Codes(opened) \cup {Unset}) /\ vehicles \in Seq(Codes(opened) \cup {Unset}) BY <1>1
    <3> QED BY <2>1, <3>1
  <2>3. \A n \in DOMAIN matches : matches[n] \in Codes(opened) \cup {Unset} BY <2>2
  <2>4. IsVehicle(Unset) BY DEF IsVehicle
  <2> QED BY <1>2, <2>2, <2>3, <2>4
<1>4. CASE picker.query # ""
  <2> DEFINE S == Range(vehicles) \cap Hits(picker.query)
  <2>1. S \in SUBSET Codes(opened) BY <1>1 DEF Range
  <2>2. matches = InLabelOrder(S) BY <1>4 DEF matches
  <2>3. InLabelOrder(S) \in Seq(S)
    <3> HIDE DEF S
    <3> QED BY <1>1, <2>1, SortAssumption
  <2> HIDE DEF S
  <2>4. matches \in Seq(Codes(opened) \cup {Unset}) /\ \A n \in DOMAIN matches : matches[n] \in S
    BY <2>1, <2>2, <2>3
  <2> QED BY <1>2, <2>1, <2>4
<1> QED BY <1>3, <1>4

\* A database is shown: nothing is chosen in it yet, unless nothing has been chosen at all.
LEMMA ShowsInv == ASSUME CatalogueInv, NEW db \in Databases, Shows(db) PROVE CatalogueInv'
<1>1. /\ opened' = db /\ openings' = openings + 1 /\ vehicles' = buildVehicles(db)
      /\ UNCHANGED <<filters, picker, chosenIn>>
      /\ results' = list(opened', filters')
      /\ groupFacet' = IF groupFacet = {} THEN buildGroups(opened', filters'.project) ELSE groupFacet
  BY DEF Shows, applyFilters
<1>2. /\ openings \in Nat /\ chosenIn \in Nat \ {0} /\ chosenIn <= openings + 1
      /\ chosenIn = openings + 1 => /\ filters = Filter(Unset, Unset, Unset) /\ groupFacet = {} /\ openings = 0
      /\ filters = Filter(filters.project, filters.group, filters.protocol)
  BY DEF CatalogueInv
<1>3. openings' \in Nat /\ chosenIn' \in Nat \ {0} /\ chosenIn' <= openings' /\ chosenIn' # openings' + 1
  BY <1>1, <1>2
<1>4. filters' = Filter(filters'.project, filters'.group, filters'.protocol) BY <1>1, <1>2
<1>5. db # Nothing => DOMAIN db # {}
  <2> SUFFICES ASSUME DOMAIN db = {} PROVE db = <<>>
      BY DEF Nothing
  <2>1. db = [s \in DOMAIN db |-> db[s]] BY DatabasesAssumption
  <2> QED BY <2>1
<1>6. vehicles' \in Seq(Codes(opened'))
  <2>1. Codes(db) \in SUBSET Codes(db) OBVIOUS
  <2>2. InLabelOrder(Codes(db)) \in Seq(Codes(db)) BY <2>1, SortAssumption
  <2> QED BY <1>1, <2>2 DEF buildVehicles
<1>7. chosenIn' = openings' => ChosenHere'
  <2> SUFFICES ASSUME chosenIn' = openings' PROVE ChosenHere'
      OBVIOUS
  <2>1. filters = Filter(Unset, Unset, Unset) /\ groupFacet = {} BY <1>1, <1>2
  <2>2. filters'.project = Unset /\ filters'.group = Unset BY <1>1, <2>1 DEF Filter
  <2>3. groupFacet' = buildGroups(opened', filters'.project) BY <1>1, <2>1
  <2> QED BY <2>2, <2>3 DEF ChosenHere, IsVehicle
<1> QED BY <1>1, <1>3, <1>4, <1>5, <1>6, <1>7 DEF CatalogueInv

\* A vehicle is chosen: the groups become its own, and a group it does not have is dropped.
LEMMA VehicleInv ==
  ASSUME CatalogueInv, NEW code, IsVehicle(code), ChoosesVehicle(code)
  PROVE  CatalogueInv'
<1> DEFINE own == buildGroups(opened, code)
<1>1. /\ opened # Nothing /\ chosenIn' = openings /\ UNCHANGED <<opened, vehicles, openings>>
      /\ picker' = Closed /\ Closed.highlighted = 0
      /\ filters' = [filters EXCEPT !.project = code, !.group = GroupFor(own)]
      /\ results' = list(opened', filters')
      /\ groupFacet' = IF own = {} THEN buildGroups(opened', filters'.project) ELSE own
  BY DEF ChoosesVehicle, selectVehicle, applyFilters, Closed
<1>2. /\ openings \in Nat \ {0} /\ DOMAIN opened # {} /\ opened \in Databases /\ vehicles \in Seq(Codes(opened))
      /\ filters = Filter(filters.project, filters.group, filters.protocol)
  <2>1. openings \in Nat /\ chosenIn \in Nat \ {0} /\ chosenIn <= openings + 1 /\ chosenIn # openings + 1
    BY <1>1 DEF CatalogueInv
  <2> QED BY <1>1, <2>1 DEF CatalogueInv
<1>3. filters' = Filter(code, GroupFor(own), filters.protocol)
  BY <1>1, <1>2 DEF Filter
<1>4. filters'.project = code /\ filters'.group = GroupFor(own) BY <1>3 DEF Filter
<1>5. groupFacet' = own BY <1>1, <1>4
<1>6. filters'.group \in groupFacet' \cup {Unset} BY <1>4, <1>5 DEF GroupFor
<1>7. ChosenHere'
  <2>1. IsVehicle(code)' BY <1>1 DEF IsVehicle
  <2>2. groupFacet' = buildGroups(opened', filters'.project) BY <1>1, <1>4, <1>5
  <2> QED BY <1>4, <1>6, <2>1, <2>2 DEF ChosenHere, IsVehicle
<1>8. filters' = Filter(filters'.project, filters'.group, filters'.protocol) BY <1>3 DEF Filter
<1>9. openings' \in Nat /\ chosenIn' \in Nat \ {0} /\ chosenIn' <= openings' + 1 /\ chosenIn' # openings' + 1
  BY <1>1, <1>2
<1> QED BY <1>1, <1>2, <1>7, <1>8, <1>9 DEF CatalogueInv

\* A group of those on offer is chosen.
LEMMA GroupInv ==
  ASSUME CatalogueInv, NEW g \in groupFacet \cup {Unset}, ChoosesGroup(g)
  PROVE  CatalogueInv'
<1>1. /\ opened # Nothing /\ UNCHANGED <<opened, vehicles, picker, openings, chosenIn>>
      /\ filters' = [filters EXCEPT !.group = g]
      /\ results' = list(opened', filters')
      /\ groupFacet' = IF groupFacet = {} THEN buildGroups(opened', filters'.project) ELSE groupFacet
  BY DEF ChoosesGroup, applyFilters
<1>2. filters = Filter(filters.project, filters.group, filters.protocol) BY DEF CatalogueInv
<1>3. filters' = Filter(filters.project, g, filters.protocol) BY <1>1, <1>2 DEF Filter
<1>4. filters'.project = filters.project /\ filters'.group = g BY <1>3 DEF Filter
<1>5. filters' = Filter(filters'.project, filters'.group, filters'.protocol) BY <1>3 DEF Filter
<1>6. ASSUME ChosenHere PROVE ChosenHere'
  <2>1. groupFacet' = groupFacet BY <1>1, <1>4, <1>6 DEF ChosenHere
  <2> QED BY <1>1, <1>4, <1>6, <2>1 DEF ChosenHere, IsVehicle
<1> QED BY <1>1, <1>5, <1>6 DEF CatalogueInv

\* A protocol is chosen.
LEMMA ProtocolInv == ASSUME CatalogueInv, NEW p, ChoosesProtocol(p) PROVE CatalogueInv'
<1>1. /\ opened # Nothing /\ UNCHANGED <<opened, vehicles, picker, openings, chosenIn>>
      /\ filters' = [filters EXCEPT !.protocol = p]
      /\ results' = list(opened', filters')
      /\ groupFacet' = IF groupFacet = {} THEN buildGroups(opened', filters'.project) ELSE groupFacet
  BY DEF ChoosesProtocol, applyFilters
<1>2. filters = Filter(filters.project, filters.group, filters.protocol) BY DEF CatalogueInv
<1>3. filters' = Filter(filters.project, filters.group, p) BY <1>1, <1>2 DEF Filter
<1>4. filters'.project = filters.project /\ filters'.group = filters.group BY <1>3 DEF Filter
<1>5. filters' = Filter(filters'.project, filters'.group, filters'.protocol) BY <1>3 DEF Filter
<1>6. ASSUME ChosenHere PROVE ChosenHere'
  <2>1. groupFacet' = groupFacet BY <1>1, <1>4, <1>6 DEF ChosenHere
  <2> QED BY <1>1, <1>4, <1>6, <2>1 DEF ChosenHere, IsVehicle
<1> QED BY <1>1, <1>5, <1>6 DEF CatalogueInv

\* The picker's own steps change no filter.
LEMMA PickerInv ==
  ASSUME CatalogueInv, NEW p, PickerTo(p), p.highlighted \in Nat
  PROVE  CatalogueInv'
BY DEF PickerTo, CatalogueInv, ChosenHere, IsVehicle

LEMMA ArrowInv == ASSUME CatalogueInv, NEW d \in {-1, 1}, Arrow(d) PROVE CatalogueInv'
<1>1. CASE ~picker.open
  <2> DEFINE p == [Closed EXCEPT !.open = TRUE]
  <2>1. PickerTo(p) BY <1>1 DEF Arrow
  <2>2. p.highlighted \in Nat BY DEF Closed
  <2> HIDE DEF p
  <2> QED BY <2>1, <2>2, PickerInv
<1>2. CASE picker.open
  <2> DEFINE row == picker.highlighted + d
             l == Len(matches)
             h == IF row < 0 THEN 0 ELSE IF row > l - 1 THEN l - 1 ELSE row
             p == [picker EXCEPT !.highlighted = h]
  <2>1. matches # <<>> /\ PickerTo(p) BY <1>2 DEF Arrow
  <2>2. opened # Nothing BY <2>1 DEF PickerTo
  <2>3. l \in Nat /\ l > 0
    <3>1. matches \in Seq(Codes(opened) \cup {Unset}) BY <2>2, RowsAreVehicles
    <3> QED BY <2>1, <3>1
  <2>4. row \in Int BY DEF CatalogueInv
  <2>5. h \in Nat
    <3> HIDE DEF row, l
    <3> QED BY <2>3, <2>4
  <2>6. p.highlighted = h \/ p.highlighted = picker.highlighted
    <3> HIDE DEF h
    <3> QED OBVIOUS
  <2>7. picker.highlighted \in Nat BY DEF CatalogueInv
  <2> HIDE DEF p, h
  <2> QED BY <2>1, <2>5, <2>6, <2>7, PickerInv
<1> QED BY <1>1, <1>2

LEMMA HoversInv == CatalogueInv /\ Hovers => CatalogueInv'
<1> SUFFICES ASSUME CatalogueInv, Hovers PROVE CatalogueInv'
    OBVIOUS
<1>1. PICK n \in DOMAIN matches : PickerTo([picker EXCEPT !.highlighted = n - 1]) BY DEF Hovers
<1>2. opened # Nothing BY <1>1 DEF PickerTo
<1>3. n - 1 \in Nat
  <2>1. matches \in Seq(Codes(opened) \cup {Unset}) BY <1>2, RowsAreVehicles
  <2> QED BY <2>1
<1> DEFINE h == n - 1
           p == [picker EXCEPT !.highlighted = h]
<1>4. p.highlighted = h \/ p.highlighted = picker.highlighted
  <2> HIDE DEF h
  <2> QED OBVIOUS
<1>5. picker.highlighted \in Nat /\ h \in Nat BY <1>3 DEF CatalogueInv
<1>6. PickerTo(p) BY <1>1
<1> HIDE DEF p, h
<1> QED BY <1>4, <1>5, <1>6, PickerInv

\* Any step of the catalogue.
LEMMA CatalogueNextInv == CatalogueInv /\ [CatalogueNext]_catalogueVars => CatalogueInv'
<1> SUFFICES ASSUME CatalogueInv, [CatalogueNext]_catalogueVars PROVE CatalogueInv'
    OBVIOUS
<1> DEFINE Still == UNCHANGED <<opened, filters, groupFacet, vehicles, results, openings, chosenIn>>
<1>1. ASSUME NEW db \in Databases, Shows(db) PROVE CatalogueInv' BY <1>1, ShowsInv
<1>2. CASE Forgets
  <2>1. /\ opened' = Nothing /\ UNCHANGED <<filters, groupFacet, vehicles, openings, chosenIn>>
        /\ picker' = Closed /\ Closed.highlighted = 0
    BY <1>2 DEF Forgets, Closed
  <2> QED BY <2>1 DEF CatalogueInv
<1>3. ASSUME NEW g \in groupFacet \cup {Unset}, ChoosesGroup(g) PROVE CatalogueInv' BY <1>3, GroupInv
<1>4. ASSUME NEW p, ChoosesProtocol(p) PROVE CatalogueInv' BY <1>4, ProtocolInv
<1>5. ASSUME NEW n \in DOMAIN matches, ChoosesVehicle(matches[n]) PROVE CatalogueInv'
  <2>1. opened # Nothing BY <1>5 DEF ChoosesVehicle
  <2>2. IsVehicle(matches[n]) BY <2>1, RowsAreVehicles
  <2> QED BY <1>5, <2>2, VehicleInv
<1>6. CASE Enter \/ Points
  <2>1. CASE \E n \in DOMAIN matches : ChoosesVehicle(matches[n]) BY <1>5, <2>1
  <2>2. CASE ChoosesVehicle(Unset)
    <3>1. IsVehicle(Unset) BY DEF IsVehicle
    <3> QED BY <2>2, <3>1, VehicleInv
  <2>3. Points => (\E n \in DOMAIN matches : ChoosesVehicle(matches[n])) \/ ChoosesVehicle(Unset) BY DEF Points
  <2>4. Enter => \E n \in DOMAIN matches : ChoosesVehicle(matches[n])
    <3> SUFFICES ASSUME Enter PROVE picker.highlighted + 1 \in DOMAIN matches
        BY DEF Enter
    <3>1. opened # Nothing /\ picker.highlighted < Len(matches) BY DEF Enter, ChoosesVehicle
    <3>2. matches \in Seq(Codes(opened) \cup {Unset}) BY <3>1, RowsAreVehicles
    <3>3. picker.highlighted \in Nat BY DEF CatalogueInv
    <3> QED BY <3>1, <3>2, <3>3
  <2> QED BY <1>6, <2>1, <2>2, <2>3, <2>4
<1>7. ASSUME NEW p, PickerTo(p), p.highlighted = 0 PROVE CatalogueInv'
  BY <1>7, PickerInv
<1>8. CASE Focuses \/ Leaves \/ \E q \in Queries : Types(q)
  <2>1. Closed.highlighted = 0 /\ [Closed EXCEPT !.open = TRUE].highlighted = 0 BY DEF Closed
  <2>2. \A q : [open |-> TRUE, query |-> q, highlighted |-> 0].highlighted = 0 OBVIOUS
  <2>3. Focuses => PickerTo([Closed EXCEPT !.open = TRUE]) BY DEF Focuses
  <2>4. Leaves => PickerTo(Closed) BY DEF Leaves
  <2>5. \A q : Types(q) => PickerTo([open |-> TRUE, query |-> q, highlighted |-> 0]) BY DEF Types
  <2> QED BY <1>7, <1>8, <2>1, <2>2, <2>3, <2>4, <2>5
<1>9. CASE UNCHANGED catalogueVars BY <1>9 DEF catalogueVars, CatalogueInv, ChosenHere, IsVehicle
<1> QED BY <1>1, <1>2, <1>3, <1>4, <1>6, <1>8, <1>9, ArrowInv, HoversInv DEF CatalogueNext

(* Choosing never comes to nothing (state.svelte.ts:935), for any           *)
(* databases: in the one the vehicle was chosen in, every group on offer    *)
(* has an ECU, and so has the vehicle alone.                               *)
THEOREM ChosenAreFound == Spec => []ChosenIsFound
<1>1. Init => CatalogueInv BY CatalogueInitInv DEF Init
<1>2. CatalogueInv /\ [Next]_vars => CatalogueInv'
  <2>1. [Next]_vars => [CatalogueNext]_catalogueVars
    BY DEF Next, Sources, Loads, Offers, Words, Trees, vars, catalogueAndWords
  <2> QED BY <2>1, CatalogueNextInv
<1>3. CatalogueInv => ChosenIsFound
  <2> SUFFICES ASSUME CatalogueInv, opened # Nothing, chosenIn = openings
               PROVE  /\ \A g \in groupFacet \cup {Unset, filters.group} :
                           list(opened, [project |-> filters.project, group |-> g, protocol |-> Unset]) # {}
                      /\ filters.protocol = Unset => results # {}
      BY DEF ChosenIsFound
  <2> DEFINE Pass(g) == list(opened, [project |-> filters.project, group |-> g, protocol |-> Unset])
  <2>1. /\ ChosenHere /\ DOMAIN opened # {} /\ results = list(opened, filters)
        /\ filters = Filter(filters.project, filters.group, filters.protocol)
    BY DEF CatalogueInv
  <2>2. Pass(Unset) # {}
    <3>1. CASE filters.project = Unset BY <2>1, <3>1 DEF list
    <3>2. CASE filters.project # Unset
      <4>1. PICK s \in DOMAIN opened : filters.project \in opened[s].projects
        BY <2>1, <3>2 DEF ChosenHere, IsVehicle
      <4>2. s \in Pass(Unset) BY <4>1 DEF list
      <4> QED BY <4>2
    <3> QED BY <3>1, <3>2
  <2>3. ASSUME NEW g \in groupFacet PROVE Pass(g) # {}
    <3>1. g \in buildGroups(opened, filters.project) BY <2>1 DEF ChosenHere
    <3>2. PICK s \in Pass(Unset) : g = opened[s].group BY <3>1 DEF buildGroups
    <3>3. s \in Pass(g) BY <3>2 DEF list
    <3> QED BY <3>3
  <2>4. filters.group \in groupFacet \cup {Unset} BY <2>1 DEF ChosenHere
  <2>5. filters.protocol = Unset => results = Pass(filters.group) BY <2>1 DEF Filter
  <2> HIDE DEF Pass
  <2>6. \A g \in groupFacet \cup {Unset, filters.group} : Pass(g) # {} BY <2>2, <2>3, <2>4
  <2> QED BY <2>5, <2>6 DEF Pass
<1> QED BY <1>1, <1>2, <1>3, PTL DEF Spec

-----------------------------------------------------------------------------
(* The words. An overlay that is still to come has nothing hashed, and     *)
(* under the original nor has the one in place; under another language the *)
(* strings of the ECU are hashed into the overlay in place, or about to    *)
(* be.                                                                     *)
Untouched(n) == hashed[n] = {} /\ \A b \in priming : b.into # n

Primed ==
    \/ ecu = "none" \/ Strings(ecu) \subseteq hashed[overlay]
    \/ \E b \in priming : b.into = overlay /\ b.of = ecu

WordsTypeOK ==
    /\ calls \in 0..MaxCalls /\ overlay \in 0..calls /\ fetching \subseteq 1..calls
    /\ selections \in Nat /\ (locale = "fr" \/ locale = "en")
    /\ overlay \notin fetching

NewIsUntouched == \A n \in 1..MaxCalls : n \in fetching \/ n > calls => Untouched(n)
OriginalIsUntouched == locale = "fr" => overlay = 0 \/ Untouched(overlay)
TranslatedIsPrimed == locale = "en" /\ fetching = {} /\ ~fetchFailed => overlay # 0 /\ Primed
RenderedIsCurrent == priming = {} => rendered = Rendered(overlay, hashed, selected)

Current(token) == token = selections
LoadsAreSelections ==
    \A l \in loading : l.token \in 1..selections /\ l.of \in Ecus /\ (Current(l.token) => l.of = selected)
BatchesAreSelections ==
    \A b \in priming :
        /\ b.token \in 0..selections
        /\ b.token # 0 /\ Current(b.token) => ecu = selected /\ selected \in Ecus
ReadyIsLoaded == ecuPhase = "ready" => ecu = selected /\ selected \in Ecus

OverlayInv ==
    WordsTypeOK /\ NewIsUntouched /\ OriginalIsUntouched /\ TranslatedIsPrimed /\ RenderedIsCurrent
SelectionInv == selections \in Nat /\ LoadsAreSelections /\ BatchesAreSelections /\ ReadyIsLoaded
WordsInv == OverlayInv /\ SelectionInv

\* The original text at first.
LEMMA WordsInitInv == WordsInit => WordsInv
<1> SUFFICES ASSUME WordsInit PROVE WordsInv
    OBVIOUS
<1> USE WordsAssumption DEF WordsInit
<1>1. WordsTypeOK BY DEF WordsTypeOK
<1>2. NewIsUntouched BY DEF NewIsUntouched, Untouched
<1>3. OriginalIsUntouched /\ TranslatedIsPrimed BY DEF OriginalIsUntouched, TranslatedIsPrimed
<1>4. RenderedIsCurrent BY DEF RenderedIsCurrent, Rendered
<1>5. SelectionInv BY DEF SelectionInv, LoadsAreSelections, BatchesAreSelections, ReadyIsLoaded
<1> QED BY <1>1, <1>2, <1>3, <1>4, <1>5 DEF WordsInv, OverlayInv

\* The original text is asked for.
LEMMA OriginalInv == WordsInv /\ Original => WordsInv'
<1> SUFFICES ASSUME WordsInv, Original PROVE WordsInv'
    OBVIOUS
<1> USE WordsAssumption DEF WordsInv, OverlayInv, Original, chosenEcu
<1>1. WordsTypeOK' BY DEF WordsTypeOK
<1>2. NewIsUntouched' BY DEF NewIsUntouched, Untouched, WordsTypeOK
<1>3. OriginalIsUntouched' /\ TranslatedIsPrimed' BY DEF OriginalIsUntouched, TranslatedIsPrimed
<1>4. RenderedIsCurrent' BY DEF RenderedIsCurrent, Rendered, resolve
<1>5. SelectionInv' BY DEF SelectionInv, LoadsAreSelections, BatchesAreSelections, ReadyIsLoaded, Current
<1> QED BY <1>1, <1>2, <1>3, <1>4, <1>5

\* A translation is asked for.
LEMMA TranslatedInv == WordsInv /\ Translated => WordsInv'
<1> SUFFICES ASSUME WordsInv, Translated PROVE WordsInv'
    OBVIOUS
<1> USE WordsAssumption DEF WordsInv, OverlayInv, Translated, chosenEcu
<1>1. WordsTypeOK' BY DEF WordsTypeOK
<1>2. NewIsUntouched' BY DEF NewIsUntouched, Untouched, WordsTypeOK
<1>3. OriginalIsUntouched' /\ TranslatedIsPrimed' BY DEF OriginalIsUntouched, TranslatedIsPrimed
<1>4. RenderedIsCurrent' BY DEF RenderedIsCurrent, Rendered, resolve
<1>5. SelectionInv' BY DEF SelectionInv, LoadsAreSelections, BatchesAreSelections, ReadyIsLoaded, Current
<1> QED BY <1>1, <1>2, <1>3, <1>4, <1>5

\* A translation arrives.
LEMMA BundleInv ==
    ASSUME WordsInv, NEW n \in 1..MaxCalls, NEW arrived \in BOOLEAN, BundleArrives(n, arrived)
    PROVE  WordsInv'
<1> USE WordsAssumption DEF WordsInv, OverlayInv, BundleArrives, chosenEcu, primeOverlay, Primes
<1>1. WordsTypeOK' BY DEF WordsTypeOK
<1>2. NewIsUntouched' BY DEF NewIsUntouched, Untouched, WordsTypeOK
<1>3. OriginalIsUntouched' BY DEF OriginalIsUntouched, NewIsUntouched, Untouched, WordsTypeOK
<1>4. TranslatedIsPrimed'
  <2> SUFFICES ASSUME locale' = "en", fetching' = {}, ~fetchFailed' PROVE overlay' # 0 /\ Primed'
      BY DEF TranslatedIsPrimed
  <2>1. n # 0 /\ arrived
    <3>1. n # 0 OBVIOUS
    <3>2. arrived OBVIOUS
    <3> QED BY <3>1, <3>2
  <2>2. overlay' = n /\ ecu' = ecu /\ locale = "en" BY <2>1
  <2>3. CASE ecu = "none" BY <2>1, <2>2, <2>3 DEF Primed
  <2>4. CASE ecu # "none"
    <3>1. priming' = priming \cup {[into |-> n, of |-> ecu, token |-> 0]} BY <2>2, <2>4
    <3>2. [into |-> n, of |-> ecu, token |-> 0] \in priming' BY <3>1
    <3> QED BY <2>1, <2>2, <3>2 DEF Primed
  <2> QED BY <2>3, <2>4
<1>5. RenderedIsCurrent' BY DEF RenderedIsCurrent
<1>6. SelectionInv' BY DEF SelectionInv, LoadsAreSelections, BatchesAreSelections, ReadyIsLoaded, Current
<1> QED BY <1>1, <1>2, <1>3, <1>4, <1>5, <1>6

\* An ECU is selected.
LEMMA SelectsInv == ASSUME WordsInv, NEW slug \in Ecus, Selects(slug) PROVE WordsInv'
<1> USE WordsAssumption DEF WordsInv, OverlayInv, Selects, languages
<1>1. WordsTypeOK' BY DEF WordsTypeOK
<1>2. NewIsUntouched' BY DEF NewIsUntouched, Untouched, WordsTypeOK
<1>3. OriginalIsUntouched' BY DEF OriginalIsUntouched, Untouched
<1>4. TranslatedIsPrimed' BY DEF TranslatedIsPrimed, Primed
<1>5. RenderedIsCurrent' BY DEF RenderedIsCurrent, Rendered, resolve
<1>6. SelectionInv' BY DEF SelectionInv, LoadsAreSelections, BatchesAreSelections, ReadyIsLoaded, Current
<1> QED BY <1>1, <1>2, <1>3, <1>4, <1>5, <1>6

\* Its definition arrives, late or not.
LEMMA ArrivesInv == ASSUME WordsInv, NEW load \in loading, EcuArrives(load) PROVE WordsInv'
<1> USE WordsAssumption DEF WordsInv, OverlayInv, EcuArrives, languages, primeOverlay, Primes
<1>1. WordsTypeOK' BY DEF WordsTypeOK
<1>2. NewIsUntouched' BY DEF NewIsUntouched, Untouched, WordsTypeOK
<1>3. OriginalIsUntouched' BY DEF OriginalIsUntouched, Untouched
<1>4. TranslatedIsPrimed'
  <2> SUFFICES ASSUME locale' = "en", fetching' = {}, ~fetchFailed' PROVE overlay' # 0 /\ Primed'
      BY DEF TranslatedIsPrimed
  <2>1. overlay' = overlay /\ overlay # 0 /\ Primed /\ locale # "fr" /\ hashed' = hashed
        BY DEF TranslatedIsPrimed
  <2>2. CASE load.token # selections
    <3>1. ecu' = ecu /\ priming' = priming BY <2>2
    <3> QED BY <2>1, <3>1 DEF Primed
  <2>3. CASE load.token = selections /\ load.of # "none"
    <3> DEFINE b == [into |-> overlay, of |-> load.of, token |-> load.token]
    <3>1. priming' = priming \cup {b} /\ ecu' = load.of BY <2>1, <2>3
    <3>2. b \in priming' /\ b.into = overlay /\ b.of = load.of BY <3>1
    <3> QED BY <2>1, <3>1, <3>2 DEF Primed
  <2>4. CASE load.token = selections /\ load.of = "none"
    <3>1. ecu' = "none" BY <2>4
    <3> QED BY <2>1, <3>1 DEF Primed
  <2> QED BY <2>2, <2>3, <2>4
<1>5. RenderedIsCurrent' BY DEF RenderedIsCurrent, Rendered, resolve
<1>6. SelectionInv' BY DEF SelectionInv, LoadsAreSelections, BatchesAreSelections, ReadyIsLoaded, Current
<1> QED BY <1>1, <1>2, <1>3, <1>4, <1>5, <1>6

\* ... or does not.
LEMMA EcuFailsInv == ASSUME WordsInv, NEW load \in loading, EcuFails(load) PROVE WordsInv'
<1> USE WordsAssumption DEF WordsInv, OverlayInv, EcuFails, languages
<1>1. WordsTypeOK' BY DEF WordsTypeOK
<1>2. NewIsUntouched' BY DEF NewIsUntouched, Untouched, WordsTypeOK
<1>3. OriginalIsUntouched' BY DEF OriginalIsUntouched, Untouched
<1>4. TranslatedIsPrimed' BY DEF TranslatedIsPrimed, Primed
<1>5. RenderedIsCurrent' BY DEF RenderedIsCurrent, Rendered, resolve
<1>6. SelectionInv' BY DEF SelectionInv, LoadsAreSelections, BatchesAreSelections, ReadyIsLoaded, Current
<1> QED BY <1>1, <1>2, <1>3, <1>4, <1>5, <1>6

\* A batch of strings is hashed.
LEMMA HashedInv == ASSUME WordsInv, NEW batch \in priming, Hashed(batch) PROVE WordsInv'
<1> USE WordsAssumption DEF WordsInv, OverlayInv, Hashed, languages, chosenEcu
<1>1. WordsTypeOK' BY DEF WordsTypeOK
<1>2. NewIsUntouched' BY DEF NewIsUntouched, Untouched, WordsTypeOK
<1>3. OriginalIsUntouched' BY DEF OriginalIsUntouched, Untouched, WordsTypeOK
<1>4. TranslatedIsPrimed' BY DEF TranslatedIsPrimed, Primed, WordsTypeOK
<1>5. RenderedIsCurrent' BY DEF RenderedIsCurrent
<1>6. SelectionInv' BY DEF SelectionInv, LoadsAreSelections, BatchesAreSelections, ReadyIsLoaded, Current
<1> QED BY <1>1, <1>2, <1>3, <1>4, <1>5, <1>6

\* Nothing happens to the words.
LEMMA WordsStutter == WordsInv /\ UNCHANGED wordsVars => WordsInv'
<1> SUFFICES ASSUME WordsInv, UNCHANGED wordsVars PROVE WordsInv'
    OBVIOUS
<1> USE DEF WordsInv, OverlayInv, wordsVars
<1>1. WordsTypeOK' BY DEF WordsTypeOK
<1>2. NewIsUntouched' /\ OriginalIsUntouched' /\ TranslatedIsPrimed'
      BY DEF NewIsUntouched, OriginalIsUntouched, TranslatedIsPrimed, Untouched, Primed
<1>3. RenderedIsCurrent' BY DEF RenderedIsCurrent
<1>4. SelectionInv' BY DEF SelectionInv, LoadsAreSelections, BatchesAreSelections, ReadyIsLoaded, Current
<1> QED BY <1>1, <1>2, <1>3, <1>4

(* When everything has arrived, what is on screen is in the language       *)
(* chosen, whatever order bundles and ECUs arrived in and whichever were   *)
(* no longer wanted (overlay.ts:9).                                        *)
THEOREM WordsAreTheLanguages == Spec => []SpeaksTheLanguageChosen
<1>1. Init => WordsInv BY WordsInitInv DEF Init
<1>2. WordsInv /\ [Next]_vars => WordsInv'
  <2>1. WordsInv /\ WordsNext => WordsInv'
        BY OriginalInv, TranslatedInv, BundleInv, SelectsInv, ArrivesInv, EcuFailsInv, HashedInv DEF WordsNext
  <2>2. [Next]_vars => WordsNext \/ UNCHANGED wordsVars
        BY DEF Next, Sources, Loads, Offers, Words, Trees, vars, catalogueAndWords
  <2> QED BY <2>1, <2>2, WordsStutter
<1>3. WordsInv => SpeaksTheLanguageChosen
  <2> SUFFICES ASSUME WordsInv, fetching = {}, priming = {}, loading = {}, ecuPhase = "ready"
               PROVE  /\ locale = "fr" => rendered = [s \in Strings(selected) |-> Source(s)]
                      /\ locale = "en" /\ ~fetchFailed =>
                            rendered = [s \in Strings(selected) |-> Narrowest(selected, s)]
      BY DEF SpeaksTheLanguageChosen
  <2>1. ecu = selected /\ selected # "none"
        BY WordsAssumption DEF WordsInv, SelectionInv, ReadyIsLoaded
  <2>2. rendered = [s \in Strings(selected) |-> resolve(overlay, hashed, selected, s)]
        BY <2>1 DEF WordsInv, OverlayInv, RenderedIsCurrent, Rendered
  <2>3. locale = "fr" => \A s : resolve(overlay, hashed, selected, s) = Source(s)
        BY DEF WordsInv, OverlayInv, OriginalIsUntouched, Untouched, resolve
  <2>4. locale = "en" /\ ~fetchFailed =>
            \A s \in Strings(selected) : resolve(overlay, hashed, selected, s) = Narrowest(selected, s)
        BY <2>1 DEF WordsInv, OverlayInv, TranslatedIsPrimed, Primed, resolve
  <2> QED BY <2>2, <2>3, <2>4
<1> QED BY <1>1, <1>2, <1>3, PTL DEF Spec

-----------------------------------------------------------------------------
(* The tree db-split leaves. *)

FileKinds == {"ecu", "layout"}
Index == Single("index")
IsFile(e) == e.kind \in FileKinds
PathOf(e) == Path(e.kind, e.slug)

\* The run, if one is under way: the entries before the next have been collected.
RunInv ==
  /\ begun \in Seq(Snapshots)
  /\ split = [at |-> split.at, zip |-> split.zip, next |-> split.next, written |-> split.written]
  /\ split.at = "idle" \/ split.at = "streaming" \/ split.at = "indexed"
  /\ begun = <<>> => split.at = "idle" /\ DOMAIN disk = {}
  /\ split.at # "idle" =>
       /\ split.zip \in Snapshots /\ begun # <<>> /\ begun[Len(begun)] = split.zip
       /\ split.next \in Nat \ {0} /\ split.next =< Len(Entries[split.zip]) + 1
       /\ split.written = [n \in 1..(split.next - 1) |-> Entries[split.zip][n]]
  /\ split.at = "indexed" => split.next = Len(Entries[split.zip]) + 1

\* ... and written, whole or not.
EmittedInv ==
  split.at # "idle" =>
    \A n \in DOMAIN Entries[split.zip] :
      n < split.next /\ IsFile(Entries[split.zip][n]) => PathOf(Entries[split.zip][n]) \in DOMAIN disk

\* An index names what is there, from whichever run.
ListedInv == Index \in DOMAIN disk => \A s \in disk[Index].of : Path("ecu", s) \in DOMAIN disk

\* Only z has been split into the directory.
Only(z) == begun # <<>> /\ \A i \in DOMAIN begun : begun[i] = z

\* What is there is of z.
OfArchive(z) ==
  /\ Index \in DOMAIN disk => disk[Index].of = IndexOf(z)
  /\ \A p \in DOMAIN disk : p.kind \in FileKinds =>
       \E n \in DOMAIN Entries[z] : PathOf(Entries[z][n]) = p /\ disk[p].of = Entries[z][n].bytes

\* The files of the entries before k are there, none of them torn.
WholeBefore(z, k) ==
  \A n \in DOMAIN Entries[z] : n < k /\ IsFile(Entries[z][n]) =>
    PathOf(Entries[z][n]) \in DOMAIN disk /\ disk[PathOf(Entries[z][n])].whole

Entire(z) == WholeBefore(z, Len(Entries[z]) + 1)

\* A first run writes the index when all else is written, and a run that has ended was over all of it.
WholeInv(z) ==
  /\ Len(begun) = 1 /\ split.at = "streaming" => Index \notin DOMAIN disk /\ WholeBefore(z, split.next)
  /\ Len(begun) = 1 /\ split.at # "streaming" /\ Index \in DOMAIN disk => Entire(z)
  /\ ~died /\ (Len(begun) # 1 \/ split.at # "streaming") => Entire(z)

TreeInv ==
  /\ RunInv /\ EmittedInv /\ ListedInv
  /\ \A z \in Snapshots : Only(z) => OfArchive(z) /\ WholeInv(z)

\* Where a file goes.
LEMMA PathFacts ==
  /\ Index.kind = "index" /\ Single("manifest").kind = "manifest" /\ Index # Single("manifest")
  /\ \A k, s : Path(k, s).kind = k /\ Path(k, s).slug = s
  /\ \A k, s : k \in FileKinds => Path(k, s) # Index /\ Path(k, s) # Single("manifest")
  /\ \A e : PathOf(e).kind = e.kind /\ PathOf(e).slug = e.slug
<1>1. "index" # "manifest" /\ "index" \notin FileKinds /\ "manifest" \notin FileKinds BY DEF FileKinds
<1>2. \A k, s : Path(k, s).kind = k /\ Path(k, s).slug = s BY DEF Path
<1>3. Index.kind = "index" /\ Single("manifest").kind = "manifest" BY <1>2, Zenon DEF Index, Single
<1>4. \A k, s : k \in FileKinds => Path(k, s) # Index /\ Path(k, s) # Single("manifest")
  <2> SUFFICES ASSUME NEW k \in FileKinds, NEW s, Path(k, s) = Index \/ Path(k, s) = Single("manifest")
               PROVE  FALSE
      OBVIOUS
  <2>1. k = "index" \/ k = "manifest" BY <1>2, <1>3, ZenonT(60)
  <2> QED BY <1>1, <2>1, Zenon
<1> QED BY <1>1, <1>2, <1>3, <1>4, Zenon DEF PathOf

\* A file on the disk.
Put(path, x) == disk' = [p \in DOMAIN disk \cup {path} |-> IF p = path THEN x ELSE disk[p]]

\* A file on the disk: the others stay.
LEMMA PutFacts ==
  ASSUME NEW path, NEW x, Put(path, x)
  PROVE  /\ DOMAIN disk' = DOMAIN disk \cup {path} /\ disk'[path] = x
         /\ \A p \in DOMAIN disk : p # path => disk'[p] = disk[p]
<1> DEFINE S == DOMAIN disk \cup {path}
           F(p) == IF p = path THEN x ELSE disk[p]
<1>1. disk' = [p \in S |-> F(p)] BY DEF Put
<1>2. F(path) = x /\ \A p : p # path => F(p) = disk[p] OBVIOUS
<1>3. path \in S /\ DOMAIN disk \subseteq S OBVIOUS
<1>4. DOMAIN disk' = S
  <2> HIDE DEF S, F
  <2> QED BY <1>1
<1>5. \A p \in S : disk'[p] = F(p)
  <2> HIDE DEF S, F
  <2> QED BY <1>1
<1> HIDE DEF F
<1> QED BY <1>2, <1>3, <1>4, <1>5

\* Another file leaves what is there as it was.
LEMMA OtherFile ==
  ASSUME TreeInv, NEW path, NEW x, Put(path, x), path # Index, path.kind \notin FileKinds
  PROVE  /\ ListedInv'
         /\ \A z \in Snapshots : OfArchive(z) => OfArchive(z)'
         /\ \A z \in Snapshots : \A k : WholeBefore(z, k) => WholeBefore(z, k)'
         /\ Index \in DOMAIN disk' <=> Index \in DOMAIN disk
<1>1. /\ DOMAIN disk' = DOMAIN disk \cup {path}
      /\ \A p \in DOMAIN disk : p # path => disk'[p] = disk[p]
  BY PutFacts
<1>2. ListedInv' BY <1>1 DEF TreeInv, ListedInv
<1>3. \A z \in Snapshots : OfArchive(z) => OfArchive(z)' BY <1>1 DEF OfArchive
<1>4. ASSUME NEW z \in Snapshots, NEW k, WholeBefore(z, k) PROVE WholeBefore(z, k)'
  <2> SUFFICES ASSUME NEW n \in DOMAIN Entries[z], n < k, IsFile(Entries[z][n])
               PROVE  PathOf(Entries[z][n]) \in DOMAIN disk' /\ disk'[PathOf(Entries[z][n])].whole
      BY DEF WholeBefore
  <2>1. PathOf(Entries[z][n]) # path BY PathFacts DEF IsFile
  <2> QED BY <1>1, <1>4, <2>1 DEF WholeBefore
<1> QED BY <1>1, <1>2, <1>3, <1>4

\* A file of the run's archive.
LEMMA EntryFile ==
  ASSUME TreeInv, NEW z \in Snapshots, NEW m \in DOMAIN Entries[z], IsFile(Entries[z][m]),
         NEW w \in BOOLEAN, Put(PathOf(Entries[z][m]), [of |-> Entries[z][m].bytes, whole |-> w])
  PROVE  /\ ListedInv'
         /\ OfArchive(z) => OfArchive(z)'
         /\ w => \A k : WholeBefore(z, k) => WholeBefore(z, k)'
         /\ Index \in DOMAIN disk' <=> Index \in DOMAIN disk
         /\ PathOf(Entries[z][m]) \in DOMAIN disk' /\ disk'[PathOf(Entries[z][m])].whole = w
<1> DEFINE path == PathOf(Entries[z][m])
           x == [of |-> Entries[z][m].bytes, whole |-> w]
<1>1. /\ DOMAIN disk' = DOMAIN disk \cup {path} /\ disk'[path] = x
      /\ \A p \in DOMAIN disk : p # path => disk'[p] = disk[p]
  BY PutFacts
<1>2. path # Index BY PathFacts DEF IsFile, PathOf
<1>3. x.of = Entries[z][m].bytes /\ x.whole = w OBVIOUS
<1> HIDE DEF path, x
<1>4. ListedInv' BY <1>1, <1>2 DEF TreeInv, ListedInv
<1>5. ASSUME OfArchive(z) PROVE OfArchive(z)'
  <2>1. Index \in DOMAIN disk' => disk'[Index].of = IndexOf(z) BY <1>1, <1>2, <1>5 DEF OfArchive
  <2>2. ASSUME NEW p \in DOMAIN disk', p.kind \in FileKinds
        PROVE  \E n \in DOMAIN Entries[z] : PathOf(Entries[z][n]) = p /\ disk'[p].of = Entries[z][n].bytes
    <3>1. CASE p = path BY <1>1, <1>3, <3>1 DEF path
    <3>2. CASE p # path BY <1>1, <1>5, <2>2, <3>2 DEF OfArchive
    <3> QED BY <3>1, <3>2
  <2> QED BY <2>1, <2>2 DEF OfArchive
<1>6. ASSUME w, NEW k, WholeBefore(z, k) PROVE WholeBefore(z, k)'
  <2> SUFFICES ASSUME NEW n \in DOMAIN Entries[z], n < k, IsFile(Entries[z][n])
               PROVE  PathOf(Entries[z][n]) \in DOMAIN disk' /\ disk'[PathOf(Entries[z][n])].whole
      BY DEF WholeBefore
  <2>1. PathOf(Entries[z][n]) \in DOMAIN disk /\ disk[PathOf(Entries[z][n])].whole BY <1>6 DEF WholeBefore
  <2> QED BY <1>1, <1>3, <1>6, <2>1
<1> QED BY <1>1, <1>2, <1>3, <1>4, <1>5, <1>6 DEF path

\* The index of the run's archive, when every entry has been written.
LEMMA IndexFile ==
  ASSUME TreeInv, NEW z \in Snapshots, NEW w \in BOOLEAN,
         Put(Index, [of |-> IndexOf(z), whole |-> w]),
         \A n \in DOMAIN Entries[z] : IsFile(Entries[z][n]) => PathOf(Entries[z][n]) \in DOMAIN disk
  PROVE  /\ ListedInv'
         /\ OfArchive(z) => OfArchive(z)'
         /\ \A k : WholeBefore(z, k) => WholeBefore(z, k)'
         /\ Index \in DOMAIN disk'
<1> DEFINE x == [of |-> IndexOf(z), whole |-> w]
<1>1. /\ DOMAIN disk' = DOMAIN disk \cup {Index} /\ disk'[Index] = x
      /\ \A p \in DOMAIN disk : p # Index => disk'[p] = disk[p]
  BY PutFacts
<1>2. x.of = IndexOf(z) OBVIOUS
<1> HIDE DEF x
<1>3. ListedInv'
  <2> SUFFICES ASSUME NEW s \in IndexOf(z) PROVE Path("ecu", s) \in DOMAIN disk'
      BY <1>1, <1>2 DEF ListedInv
  <2>1. s \in SlugsOf(Entries[z], "ecu") BY DEF IndexOf, buildIndex
  <2>2. PICK n \in DOMAIN Entries[z] : Entries[z][n].kind = "ecu" /\ Entries[z][n].slug = s
    BY <2>1 DEF SlugsOf
  <2>3. "ecu" \in FileKinds BY DEF FileKinds
  <2> QED BY <1>1, <2>2, <2>3 DEF IsFile, PathOf
<1>4. ASSUME OfArchive(z) PROVE OfArchive(z)'
  <2>1. \A p : p.kind \in FileKinds => p # Index BY PathFacts DEF FileKinds
  <2> QED BY <1>1, <1>2, <1>4, <2>1 DEF OfArchive
<1>5. ASSUME NEW k, WholeBefore(z, k) PROVE WholeBefore(z, k)'
  <2> SUFFICES ASSUME NEW n \in DOMAIN Entries[z], n < k, IsFile(Entries[z][n])
               PROVE  PathOf(Entries[z][n]) \in DOMAIN disk' /\ disk'[PathOf(Entries[z][n])].whole
      BY DEF WholeBefore
  <2>1. PathOf(Entries[z][n]) # Index BY PathFacts DEF IsFile, PathOf
  <2> QED BY <1>1, <1>5, <2>1 DEF WholeBefore
<1> QED BY <1>1, <1>3, <1>4, <1>5

\* What was collected, with the next entry.
LEMMA AppendNext ==
  ASSUME NEW f, NEW k \in Nat \ {0}
  PROVE  Append([n \in 1..(k - 1) |-> f[n]], f[k]) = [n \in 1..((k + 1) - 1) |-> f[n]]
<1> DEFINE s == [n \in 1..(k - 1) |-> f[n]]
           t == [n \in 1..k |-> f[n]]
           T == {f[n] : n \in 1..k}
<1>1. k - 1 \in Nat /\ (k + 1) - 1 = k OBVIOUS
<1>2. s \in Seq(T) /\ Len(s) = k - 1 /\ f[k] \in T
  <2>1. \A n \in 1..(k - 1) : n \in 1..k OBVIOUS
  <2>2. s \in [1..(k - 1) -> T] BY <2>1
  <2>3. k \in 1..k OBVIOUS
  <2> QED BY <1>1, <2>2, <2>3
<1> DEFINE a == Append(s, f[k])
<1> HIDE DEF s, T
<1>3. a \in Seq(T) /\ Len(a) = k /\ a[k] = f[k] /\ \A n \in 1..(k - 1) : a[n] = s[n]
  BY <1>2
<1>4. \A n \in 1..(k - 1) : s[n] = f[n] BY DEF s
<1> HIDE DEF a
<1>5. DOMAIN a = 1..k /\ a = [n \in 1..k |-> a[n]] BY <1>3
<1>6. \A n \in 1..k : a[n] = f[n]
  <2> SUFFICES ASSUME NEW n \in 1..k PROVE a[n] = f[n]
      OBVIOUS
  <2>1. n = k \/ n \in 1..(k - 1) OBVIOUS
  <2> QED BY <1>3, <1>4, <2>1
<1>7. a = t BY <1>5, <1>6
<1> QED BY <1>1, <1>7 DEF a, s

-----------------------------------------------------------------------------
\* An empty directory.
LEMMA TreeInitInv == Init => TreeInv
<1> SUFFICES ASSUME TreeInit PROVE TreeInv
    BY DEF Init, TreeRest
<1>1. disk = <<>> /\ begun = <<>> /\ split = [at |-> "idle", zip |-> "none", next |-> 1, written |-> <<>>]
  BY DEF TreeInit
<1>2. DOMAIN disk = {} BY <1>1
<1>3. RunInv BY <1>1, <1>2 DEF RunInv
<1>4. EmittedInv /\ ListedInv BY <1>1, <1>2 DEF EmittedInv, ListedInv
<1>5. \A z \in Snapshots : ~Only(z) BY <1>1 DEF Only
<1> QED BY <1>3, <1>4, <1>5 DEF TreeInv

\* A run begins, over what is there.
LEMMA SplitBeginsInv ==
  ASSUME TreeInv, NEW z \in Snapshots, NEW ifNeeded, SplitBegins(z, ifNeeded)
  PROVE  TreeInv'
<1> USE DEF TreeInv
<1>1. /\ split' = [at |-> "streaming", zip |-> z, next |-> 1, written |-> <<>>]
      /\ split.at = "idle" /\ begun' = Append(begun, z) /\ UNCHANGED <<disk, died>>
  BY DEF SplitBegins
<1>2. /\ split'.at = "streaming" /\ split'.zip = z /\ split'.next = 1 /\ split'.written = <<>>
  BY <1>1
<1>3. begun \in Seq(Snapshots) BY DEF RunInv
<1>4. /\ begun' \in Seq(Snapshots) /\ Len(begun') = Len(begun) + 1 /\ begun'[Len(begun')] = z
      /\ \A i \in DOMAIN begun : begun'[i] = begun[i] /\ i \in DOMAIN begun'
      /\ Len(begun) \in Nat /\ begun' # <<>>
  BY <1>1, <1>3
<1>5. RunInv'
  <2>1. <<>> = [n \in 1..(1 - 1) |-> Entries[z][n]]
    <3>1. 1..(1 - 1) = {} OBVIOUS
    <3>2. <<>> = [n \in {} |-> Entries[z][n]] OBVIOUS
    <3> QED BY <3>1, <3>2
  <2>2. 1 =< Len(Entries[z]) + 1 BY EntriesAssumption
  <2>3. split' = [at |-> split'.at, zip |-> split'.zip, next |-> split'.next, written |-> split'.written]
    BY <1>1
  <2> QED BY <1>2, <1>4, <2>1, <2>2, <2>3 DEF RunInv
<1>6. EmittedInv'
  <2>1. \A n \in DOMAIN Entries[z] : ~(n < 1) BY EntriesAssumption
  <2> QED BY <1>2, <2>1 DEF EmittedInv
<1>7. ListedInv' BY <1>1 DEF ListedInv
<1>8. ASSUME NEW y \in Snapshots, Only(y)' PROVE (OfArchive(y) /\ WholeInv(y))'
  <2>1. CASE begun = <<>>
    <3>1. DOMAIN disk' = {} BY <1>1, <2>1 DEF RunInv
    <3>2. OfArchive(y)' BY <3>1 DEF OfArchive
    <3>3. Len(begun') = 1 BY <1>4, <2>1
    <3>4. \A n \in DOMAIN Entries[y] : ~(n < 1) BY EntriesAssumption
    <3>5. WholeBefore(y, split.next)' BY <1>2, <3>4 DEF WholeBefore
    <3> QED BY <1>2, <3>1, <3>2, <3>3, <3>5 DEF WholeInv
  <2>2. CASE begun # <<>>
    <3>1. Only(y) BY <1>4, <1>8, <2>2 DEF Only
    <3>2. Len(begun') # 1 BY <1>3, <1>4, <2>2
    <3>3. OfArchive(y)' BY <1>1, <3>1 DEF OfArchive
    <3>4. ~died => Entire(y) BY <1>1, <3>1 DEF WholeInv
    <3>5. Entire(y) => Entire(y)' BY <1>1 DEF Entire, WholeBefore
    <3> QED BY <1>1, <3>2, <3>3, <3>4, <3>5 DEF WholeInv
  <2> QED BY <2>1, <2>2
<1> QED BY <1>5, <1>6, <1>7, <1>8

\* What a run does to itself, but not to the directory.
LEMMA DiesInv == TreeInv /\ Dies => TreeInv'
<1> SUFFICES ASSUME TreeInv, Dies PROVE TreeInv'
    OBVIOUS
<1> USE DEF TreeInv
<1>1. split.at # "idle" /\ split' = [split EXCEPT !.at = "idle"] /\ died' = TRUE /\ UNCHANGED <<disk, begun>>
  BY DEF Dies
<1>2. /\ split'.at = "idle"
      /\ split' = [at |-> split'.at, zip |-> split'.zip, next |-> split'.next, written |-> split'.written]
  BY <1>1 DEF RunInv
<1>3. RunInv' BY <1>1, <1>2 DEF RunInv
<1>4. EmittedInv' /\ ListedInv' BY <1>1, <1>2 DEF EmittedInv, ListedInv
<1>5. ASSUME NEW z \in Snapshots, Only(z)' PROVE (OfArchive(z) /\ WholeInv(z))'
  <2>1. Only(z) BY <1>1, <1>5 DEF Only
  <2>2. OfArchive(z)' BY <1>1, <2>1 DEF OfArchive
  <2>3. Entire(z) => Entire(z)' BY <1>1 DEF Entire, WholeBefore
  <2> QED BY <1>1, <1>2, <2>1, <2>2, <2>3 DEF WholeInv
<1> QED BY <1>3, <1>4, <1>5

\* A file of the run: the run goes on, or died in it.
LEMMA EmittedKeeps ==
  ASSUME TreeInv, EntryEmitted, NEW z, z = split.zip, NEW k, k = split.next, NEW e, e = Entries[z][k]
  PROVE  TreeInv'
<1> DEFINE next == [split EXCEPT !.next = @ + 1, !.written = Append(@, e)]
<1>1. RunInv /\ EmittedInv /\ ListedInv BY DEF TreeInv
<1>2. /\ split.at = "streaming" /\ k =< Len(Entries[z]) /\ UNCHANGED begun
      /\ z \in Snapshots /\ begun # <<>> /\ begun[Len(begun)] = z /\ k \in Nat \ {0}
      /\ split.written = [n \in 1..(k - 1) |-> Entries[z][n]]
      /\ begun \in Seq(Snapshots)
  BY <1>1 DEF EntryEmitted, RunInv
<1>3. Len(Entries[z]) \in Nat /\ DOMAIN Entries[z] = 1..Len(Entries[z]) /\ k \in DOMAIN Entries[z]
  BY <1>2, EntriesAssumption
<1>4. next = [at |-> "streaming", zip |-> z, next |-> k + 1, written |-> [n \in 1..((k + 1) - 1) |-> Entries[z][n]]]
  <2>1. Append(split.written, e) = [n \in 1..((k + 1) - 1) |-> Entries[z][n]] BY <1>2, <1>3, AppendNext
  <2>2. split = [at |-> "streaming", zip |-> z, next |-> k, written |-> split.written] BY <1>1, <1>2 DEF RunInv
  <2>3. next = [split EXCEPT !.next = k + 1, !.written = Append(split.written, e)] BY <1>2, Zenon
  <2>4. \A w : [split EXCEPT !.next = k + 1, !.written = w]
               = [at |-> "streaming", zip |-> z, next |-> k + 1, written |-> w]
    <3> TAKE w
    <3> DEFINE m == k + 1
               t == [split EXCEPT !.next = m]
    <3> HIDE DEF m
    <3>1. [split EXCEPT !.next = m, !.written = w] = [t EXCEPT !.written = w] OBVIOUS
    <3>2. t = [at |-> "streaming", zip |-> z, next |-> m, written |-> split.written] BY <2>2
    <3> HIDE DEF t
    <3>3. [t EXCEPT !.written = w] = [at |-> "streaming", zip |-> z, next |-> m, written |-> w] BY <3>2
    <3> QED BY <3>1, <3>3, Zenon DEF m
  <2> QED BY <2>1, <2>3, <2>4, Zenon
<1>5. begun = begun' /\ \A y : Only(y)' => Only(y) /\ y = z
  <2>1. Len(begun) \in DOMAIN begun BY <1>2
  <2> QED BY <1>2, <2>1 DEF Only
\* The next entry, of a disk that has this one.
<1>6. ASSUME split' = next, died' = died, ListedInv',
             \A p \in DOMAIN disk : p \in DOMAIN disk',
             IsFile(e) => PathOf(e) \in DOMAIN disk' /\ disk'[PathOf(e)].whole,
             OfArchive(z) => OfArchive(z)', \A j : WholeBefore(z, j) => WholeBefore(z, j)',
             Index \in DOMAIN disk' <=> Index \in DOMAIN disk
      PROVE  TreeInv'
  <2>1. /\ split'.at = "streaming" /\ split'.zip = z /\ split'.next = k + 1
        /\ split'.written = [n \in 1..((k + 1) - 1) |-> Entries[z][n]]
        /\ split' = [at |-> split'.at, zip |-> split'.zip, next |-> split'.next, written |-> split'.written]
    <3> DEFINE w == [n \in 1..((k + 1) - 1) |-> Entries[z][n]]
    <3>1. split' = [at |-> "streaming", zip |-> z, next |-> k + 1, written |-> w] BY <1>4, <1>6
    <3> HIDE DEF w, next
    <3>2. /\ split'.at = "streaming" /\ split'.zip = z /\ split'.next = k + 1 /\ split'.written = w
          /\ split' = [at |-> split'.at, zip |-> split'.zip, next |-> split'.next, written |-> split'.written]
      BY <3>1
    <3> QED BY <3>2 DEF w
  <2>2. k + 1 \in Nat \ {0} /\ k + 1 =< Len(Entries[z]) + 1 BY <1>2, <1>3
  <2>3. RunInv' BY <1>2, <2>1, <2>2 DEF RunInv
  <2>4. EmittedInv'
    <3> SUFFICES ASSUME NEW n \in DOMAIN Entries[z], n < k + 1, IsFile(Entries[z][n])
                 PROVE  PathOf(Entries[z][n]) \in DOMAIN disk'
        BY <2>1 DEF EmittedInv
    <3>1. n < k \/ n = k BY <1>2, <1>3
    <3>2. CASE n < k BY <1>1, <1>2, <1>6, <3>2 DEF EmittedInv
    <3>3. CASE n = k BY <1>6, <3>3
    <3> QED BY <3>1, <3>2, <3>3
  <2>5. ASSUME Only(z) PROVE (OfArchive(z) /\ WholeInv(z))'
    <3>1. OfArchive(z) /\ WholeInv(z) BY <1>2, <2>5 DEF TreeInv
    <3>2. WholeBefore(z, k) => WholeBefore(z, k + 1)'
      <4> SUFFICES ASSUME WholeBefore(z, k)', NEW n \in DOMAIN Entries[z], n < k + 1, IsFile(Entries[z][n])
                   PROVE  PathOf(Entries[z][n]) \in DOMAIN disk' /\ disk'[PathOf(Entries[z][n])].whole
          BY <1>6 DEF WholeBefore
      <4>1. n < k \/ n = k BY <1>2, <1>3
      <4>2. CASE n < k BY <4>2 DEF WholeBefore
      <4>3. CASE n = k BY <1>6, <4>3
      <4> QED BY <4>1, <4>2, <4>3
    <3>3. Entire(z) => Entire(z)' BY <1>6 DEF Entire
    <3> QED BY <1>2, <1>6, <2>1, <3>1, <3>2, <3>3 DEF WholeInv
  <2>6. \A y \in Snapshots : Only(y)' => (OfArchive(y) /\ WholeInv(y))' BY <1>5, <2>5
  <2> QED BY <1>6, <2>3, <2>4, <2>6 DEF TreeInv
<1>7. CASE ~IsFile(e)
  <2>1. split' = next /\ UNCHANGED <<disk, died>> BY <1>7 DEF EntryEmitted, IsFile, FileKinds
  <2>2. ListedInv' BY <1>1, <2>1 DEF ListedInv
  <2>3. OfArchive(z) => OfArchive(z)' BY <1>2, <2>1 DEF OfArchive
  <2>4. \A j : WholeBefore(z, j) => WholeBefore(z, j)' BY <1>2, <2>1 DEF WholeBefore
  <2> HIDE DEF next
  <2> QED BY <1>6, <1>7, <2>1, <2>2, <2>3, <2>4
<1>8. CASE IsFile(e)
  <2>1. Writes(PathOf(e), e.bytes, split' = next) BY <1>8 DEF EntryEmitted, IsFile, FileKinds, PathOf
  <2>2. CASE Put(PathOf(e), [of |-> e.bytes, whole |-> TRUE]) /\ split' = next /\ died' = died
    <3>1. ListedInv' /\ (OfArchive(z) => OfArchive(z)') /\ (\A j : WholeBefore(z, j) => WholeBefore(z, j)')
          /\ (Index \in DOMAIN disk' <=> Index \in DOMAIN disk)
          /\ PathOf(e) \in DOMAIN disk' /\ disk'[PathOf(e)].whole
      BY <1>2, <1>3, <1>8, <2>2, EntryFile
    <3>2. \A p \in DOMAIN disk : p \in DOMAIN disk' BY <2>2, PutFacts
    <3> HIDE DEF next
    <3> QED BY <1>6, <2>2, <3>1, <3>2
  <2>3. CASE Put(PathOf(e), [of |-> e.bytes, whole |-> FALSE]) /\ split' = [split EXCEPT !.at = "idle"] /\ died' = TRUE
    <3>1. ListedInv' /\ (OfArchive(z) => OfArchive(z)')
          /\ (Index \in DOMAIN disk' <=> Index \in DOMAIN disk)
      BY <1>2, <1>3, <1>8, <2>3, EntryFile
    <3>2. /\ split'.at = "idle"
          /\ split' = [at |-> split'.at, zip |-> split'.zip, next |-> split'.next, written |-> split'.written]
      BY <1>1, <2>3 DEF RunInv
    <3>3. RunInv' BY <1>2, <3>2 DEF RunInv
    <3>4. EmittedInv' BY <3>2 DEF EmittedInv
    <3>5. ASSUME Only(z) PROVE (OfArchive(z) /\ WholeInv(z))'
      <4>1. OfArchive(z) /\ WholeInv(z) BY <1>2, <3>5 DEF TreeInv
      <4> QED BY <1>2, <2>3, <3>1, <3>2, <4>1 DEF WholeInv
    <3>6. \A y \in Snapshots : Only(y)' => (OfArchive(y) /\ WholeInv(y))' BY <1>5, <3>5
    <3> QED BY <3>1, <3>3, <3>4, <3>6 DEF TreeInv
  <2> QED BY <2>1, <2>2, <2>3 DEF Writes, Put, Whole, Torn
<1> QED BY <1>7, <1>8

\* An entry of any kind.
LEMMA EntryEmittedInv == TreeInv /\ EntryEmitted => TreeInv'
BY EmittedKeeps

\* The index, after every entry.
LEMMA IndexKeeps ==
  ASSUME TreeInv, IndexWritten, NEW z, z = split.zip
  PROVE  TreeInv'
<1> DEFINE indexed == [split EXCEPT !.at = "indexed"]
           over == [split EXCEPT !.at = "idle"]
<1>1. RunInv /\ EmittedInv /\ ListedInv BY DEF TreeInv
<1>2. /\ split.at = "streaming" /\ split.next > Len(Entries[z]) /\ UNCHANGED begun
      /\ z \in Snapshots /\ begun # <<>> /\ begun[Len(begun)] = z
      /\ split.next \in Nat \ {0} /\ split.next =< Len(Entries[z]) + 1
      /\ split.written = [n \in 1..(split.next - 1) |-> Entries[z][n]]
      /\ begun \in Seq(Snapshots)
  BY <1>1 DEF IndexWritten, RunInv
<1>3. Len(Entries[z]) \in Nat /\ DOMAIN Entries[z] = 1..Len(Entries[z]) BY <1>2, EntriesAssumption
<1>4. split.next = Len(Entries[z]) + 1 BY <1>2, <1>3
<1>5. begun = begun' /\ \A y : Only(y)' => Only(y) /\ y = z
  <2>1. Len(begun) \in DOMAIN begun BY <1>2
  <2> QED BY <1>2, <2>1 DEF Only
<1>6. \A n \in DOMAIN Entries[z] : IsFile(Entries[z][n]) => PathOf(Entries[z][n]) \in DOMAIN disk
  <2>1. \A n \in DOMAIN Entries[z] : n < split.next BY <1>3, <1>4
  <2> QED BY <1>1, <1>2, <2>1 DEF EmittedInv
<1>7. buildIndex(Named(split.written), SlugsOf(split.written, "ecu")) = IndexOf(z)
  <2>1. DOMAIN split.written = DOMAIN Entries[z] /\ \A n \in DOMAIN Entries[z] : split.written[n] = Entries[z][n]
    <3>1. (Len(Entries[z]) + 1) - 1 = Len(Entries[z]) BY <1>3
    <3> QED BY <1>2, <1>3, <1>4, <3>1
  <2>2. Named(split.written) = Named(Entries[z]) BY <2>1 DEF Named
  <2>3. SlugsOf(split.written, "ecu") = SlugsOf(Entries[z], "ecu") BY <2>1 DEF SlugsOf
  <2> QED BY <2>2, <2>3 DEF IndexOf
\* The run is over, or at its manifest.
<1>8. ASSUME ListedInv', (split' = over /\ died' = TRUE) \/ (split' = indexed /\ died' = died /\ Index \in DOMAIN disk'),
             \A p \in DOMAIN disk : p \in DOMAIN disk', OfArchive(z) => OfArchive(z)',
             \A k : WholeBefore(z, k) => WholeBefore(z, k)'
      PROVE  TreeInv'
  <2>1. /\ (split'.at = "idle" /\ died' = TRUE) \/ (split'.at = "indexed" /\ died' = died)
        /\ split'.zip = z /\ split'.next = split.next /\ split'.written = split.written
        /\ split' = [at |-> split'.at, zip |-> split'.zip, next |-> split'.next, written |-> split'.written]
    <3>1. split = [at |-> split.at, zip |-> z, next |-> split.next, written |-> split.written] BY <1>1 DEF RunInv
    <3> QED BY <1>8, <3>1
  <2>2. RunInv' BY <1>2, <1>4, <2>1 DEF RunInv
  <2>3. EmittedInv' BY <1>6, <1>8, <2>1 DEF EmittedInv
  <2>4. ASSUME Only(z) PROVE (OfArchive(z) /\ WholeInv(z))'
    <3>1. OfArchive(z) /\ WholeInv(z) BY <1>2, <2>4 DEF TreeInv
    <3>2. Entire(z) => Entire(z)' BY <1>8 DEF Entire
    <3>3. Len(begun) = 1 => Entire(z) BY <1>2, <1>4, <3>1 DEF WholeInv, Entire
    <3>4. ~died /\ Len(begun) # 1 => Entire(z) BY <3>1 DEF WholeInv
    <3> QED BY <1>5, <1>8, <2>1, <3>1, <3>2, <3>3, <3>4 DEF WholeInv
  <2>5. \A y \in Snapshots : Only(y)' => (OfArchive(y) /\ WholeInv(y))' BY <1>5, <2>4
  <2> QED BY <1>8, <2>2, <2>3, <2>5 DEF TreeInv
<1>9. CASE ~HasIndex(split.written)
  <2>1. split' = over /\ died' = TRUE /\ UNCHANGED disk BY <1>9 DEF IndexWritten
  <2>2. ListedInv' BY <1>1, <2>1 DEF ListedInv
  <2>3. OfArchive(z) => OfArchive(z)' BY <2>1 DEF OfArchive
  <2>4. \A k : WholeBefore(z, k) => WholeBefore(z, k)' BY <2>1 DEF WholeBefore
  <2>5. \A p \in DOMAIN disk : p \in DOMAIN disk' BY <2>1
  <2> HIDE DEF over, indexed
  <2> QED BY <1>8, <2>1, <2>2, <2>3, <2>4, <2>5
<1>10. CASE HasIndex(split.written)
  <2>1. Writes(Index, IndexOf(z), split' = indexed) BY <1>7, <1>10 DEF IndexWritten, Index
  <2> DEFINE bytes == IndexOf(z)
  <2>6. \/ Put(Index, Whole(bytes)) /\ split' = indexed /\ died' = died
        \/ Put(Index, Torn(bytes)) /\ split' = over /\ died' = TRUE
    BY <2>1, Zenon DEF Writes, Put
  <2> HIDE DEF over, indexed
  <2>7. Whole(bytes) = [of |-> bytes, whole |-> TRUE] /\ Torn(bytes) = [of |-> bytes, whole |-> FALSE]
    BY DEF Whole, Torn
  <2>2. \E w \in BOOLEAN : /\ Put(Index, [of |-> bytes, whole |-> w])
                           /\ (split' = over /\ died' = TRUE) \/ (split' = indexed /\ died' = died)
    <3>1. CASE Put(Index, Whole(bytes)) /\ split' = indexed /\ died' = died BY <2>7, <3>1, Zenon
    <3>2. CASE Put(Index, Torn(bytes)) /\ split' = over /\ died' = TRUE BY <2>7, <3>2, Zenon
    <3> QED BY <2>6, <3>1, <3>2
  <2>3. PICK w \in BOOLEAN : /\ Put(Index, [of |-> IndexOf(z), whole |-> w])
                             /\ (split' = over /\ died' = TRUE) \/ (split' = indexed /\ died' = died)
    BY <2>2
  <2>4. ListedInv' /\ (OfArchive(z) => OfArchive(z)') /\ (\A k : WholeBefore(z, k) => WholeBefore(z, k)')
        /\ Index \in DOMAIN disk'
    BY <1>2, <1>6, <2>3, IndexFile
  <2>5. \A p \in DOMAIN disk : p \in DOMAIN disk' BY <2>3, PutFacts
  <2> QED BY <1>8, <2>3, <2>4, <2>5
<1> QED BY <1>9, <1>10

\* The manifest is neither an index nor a file of an ECU.
LEMMA ManifestInv == TreeInv /\ ManifestWritten => TreeInv'
<1> SUFFICES ASSUME TreeInv, ManifestWritten PROVE TreeInv'
    OBVIOUS
<1> DEFINE path == Single("manifest")
<1>1. /\ split.at = "indexed" /\ UNCHANGED begun /\ split' = [split EXCEPT !.at = "idle"]
      /\ died' = died \/ died' = TRUE
      /\ \E w \in BOOLEAN : Put(path, [of |-> split.zip, whole |-> w])
  BY DEF ManifestWritten, Writes, Put, Whole, Torn
<1>2. PICK w \in BOOLEAN : Put(path, [of |-> split.zip, whole |-> w]) BY <1>1
<1>3. path # Index /\ path.kind \notin FileKinds BY PathFacts DEF FileKinds
<1> HIDE DEF path
<1>4. /\ ListedInv'
      /\ \A z \in Snapshots : OfArchive(z) => OfArchive(z)'
      /\ \A z \in Snapshots : \A k : WholeBefore(z, k) => WholeBefore(z, k)'
      /\ Index \in DOMAIN disk' <=> Index \in DOMAIN disk
  BY <1>2, <1>3, OtherFile
<1>5. RunInv BY DEF TreeInv
<1>6. /\ split'.at = "idle"
      /\ split' = [at |-> split'.at, zip |-> split'.zip, next |-> split'.next, written |-> split'.written]
  BY <1>1, <1>5 DEF RunInv
<1>7. RunInv' BY <1>1, <1>5, <1>6 DEF RunInv
<1>8. EmittedInv' BY <1>6 DEF EmittedInv
<1>9. ASSUME NEW z \in Snapshots, Only(z)' PROVE (OfArchive(z) /\ WholeInv(z))'
  <2>1. Only(z) BY <1>1, <1>9 DEF Only
  <2>2. OfArchive(z) /\ WholeInv(z) BY <2>1 DEF TreeInv
  <2>3. Entire(z) => Entire(z)' BY <1>4 DEF Entire
  <2> QED BY <1>1, <1>4, <1>6, <2>2, <2>3 DEF WholeInv
<1> QED BY <1>4, <1>7, <1>8, <1>9 DEF TreeInv

\* Any step of the trees.
LEMMA TreeNextInv == TreeInv /\ [TreeNext]_treeVars => TreeInv'
<1> SUFFICES ASSUME TreeInv, [TreeNext]_treeVars PROVE TreeInv'
    OBVIOUS
<1>1. CASE UNCHANGED <<disk, split, begun, died>>
  <2>1. (RunInv /\ EmittedInv /\ ListedInv)'
    BY <1>1 DEF TreeInv, RunInv, EmittedInv, ListedInv
  <2>2. ASSUME NEW z \in Snapshots, Only(z)' PROVE (OfArchive(z) /\ WholeInv(z))'
    <3>1. OfArchive(z) /\ WholeInv(z) BY <1>1, <2>2 DEF TreeInv, Only
    <3> QED BY <1>1, <3>1 DEF OfArchive, WholeInv, Entire, WholeBefore
  <2> QED BY <2>1, <2>2 DEF TreeInv
<1>2. CASE CopyNext \/ UNCHANGED treeVars
  BY <1>1, <1>2 DEF CopyNext, FileCopied, Inspected, treeVars
<1>3. IndexWritten => TreeInv' BY IndexKeeps
<1> QED BY <1>2, <1>3, SplitBeginsInv, EntryEmittedInv, ManifestInv, DiesInv DEF TreeNext, SplitNext

\* A tree is its archive.
LEMMA InvTree == TreeInv => TreeIsTheArchive
<1> SUFFICES ASSUME TreeInv, TreeRead(Index) # {} PROVE
      /\ \A s \in disk[Index].of : Path("ecu", s) \in DOMAIN disk
      /\ (Len(begun) = 1 \/ (~died /\ split.at = "idle")) /\ Range(begun) = {begun[1]} => SameDatabase(begun[1])
    BY DEF TreeIsTheArchive, Index
<1>1. Index \in DOMAIN disk /\ disk[Index].whole BY DEF TreeRead
<1>2. \A s \in disk[Index].of : Path("ecu", s) \in DOMAIN disk BY <1>1 DEF TreeInv, ListedInv
<1> SUFFICES ASSUME Len(begun) = 1 \/ (~died /\ split.at = "idle"), Range(begun) = {begun[1]}
             PROVE  SameDatabase(begun[1])
    BY <1>2
<1> DEFINE z == begun[1]
<1>3. begun # <<>> /\ begun \in Seq(Snapshots) BY <1>1 DEF TreeInv, RunInv
<1>4. Only(z) /\ z \in Snapshots BY <1>3 DEF Only, Range
<1>5. OfArchive(z) /\ WholeInv(z) BY <1>4 DEF TreeInv
<1> HIDE DEF z
<1>6. Entire(z) BY <1>1, <1>5 DEF WholeInv
<1>7. TreeRead(Single("index")) = {IndexOf(z)} BY <1>1, <1>5 DEF TreeRead, OfArchive, Index
<1>8. ASSUME NEW s, NEW k \in FileKinds PROVE TreeRead(Path(k, s)) = ArchiveRead(z, Path(k, s))
  <2> DEFINE p == Path(k, s)
  <2>1. p.kind = k /\ p.slug = s BY PathFacts
  <2> HIDE DEF p
  <2>2. CASE \E n \in DOMAIN Entries[z] : Entries[z][n].kind = k /\ Entries[z][n].slug = s
    <3>1. PICK n \in DOMAIN Entries[z] : Entries[z][n].kind = k /\ Entries[z][n].slug = s BY <2>2
    <3>2. n < Len(Entries[z]) + 1 BY <1>4, <3>1, EntriesAssumption
    <3>3. PathOf(Entries[z][n]) = p BY <3>1 DEF PathOf, p
    <3>4. p \in DOMAIN disk /\ disk[p].whole BY <1>6, <3>1, <3>2, <3>3 DEF Entire, WholeBefore, IsFile
    <3>5. PICK m \in DOMAIN Entries[z] : PathOf(Entries[z][m]) = p /\ disk[p].of = Entries[z][m].bytes
      BY <1>5, <2>1, <3>4 DEF OfArchive
    <3>6. \A m1 \in DOMAIN Entries[z] : Entries[z][m1].kind = k /\ Entries[z][m1].slug = s => m1 = m
      <4>1. Entries[z][m].kind = k /\ Entries[z][m].slug = s BY <2>1, <3>5, PathFacts
      <4> QED BY <1>4, <4>1, EntriesAssumption DEF FileKinds
    <3>7. ArchiveRead(z, p) = {Entries[z][m].bytes}
      BY <2>1, <3>1, <3>6 DEF ArchiveRead
    <3>8. TreeRead(p) = {disk[p].of} BY <3>4 DEF TreeRead
    <3> QED BY <3>5, <3>7, <3>8 DEF p
  <2>3. CASE ~ \E n \in DOMAIN Entries[z] : Entries[z][n].kind = k /\ Entries[z][n].slug = s
    <3>1. ArchiveRead(z, p) = {} BY <2>1, <2>3 DEF ArchiveRead
    <3>2. p \notin DOMAIN disk
      <4> SUFFICES ASSUME p \in DOMAIN disk PROVE FALSE
          OBVIOUS
      <4>1. PICK m \in DOMAIN Entries[z] : PathOf(Entries[z][m]) = p BY <1>5, <2>1 DEF OfArchive
      <4>2. Entries[z][m].kind = k /\ Entries[z][m].slug = s BY <2>1, <4>1, PathFacts
      <4> QED BY <2>3, <4>2
    <3>3. TreeRead(p) = {} BY <3>2 DEF TreeRead
    <3> QED BY <3>1, <3>3 DEF p
  <2> QED BY <2>2, <2>3
<1>9. SameDatabase(z)
  <2>1. \A s \in IndexOf(z), k \in {"ecu", "layout"} : TreeRead(Path(k, s)) = ArchiveRead(z, Path(k, s))
    BY <1>8 DEF FileKinds
  <2> QED BY <1>7, <2>1 DEF SameDatabase
<1> QED BY <1>9 DEF z

\* "a tree and an archive are interchangeable behind DbSource" (archive.ts:20): whatever the archives hold,
\* and wherever runs of db-split were killed.
THEOREM TreeIsAnArchive == Spec => []TreeIsTheArchive
<1>1. TreeInv /\ [Next]_vars => TreeInv'
  <2>1. [Next]_vars => [TreeNext]_treeVars
    BY DEF Next, Sources, Loads, Offers, Words, Trees, vars
  <2> QED BY <2>1, TreeNextInv
<1> QED BY <1>1, TreeInitInv, InvTree, PTL DEF Spec

-----------------------------------------------------------------------------
(* What an inspection of a tree samples: every stride-th ECU of its index. *)

\* A stretch of half the index or more meets one of the s samples, q apart, wherever it begins.
LEMMA StretchMeetsSample ==
  ASSUME NEW s \in Nat, s >= 2, NEW q \in Nat \ {0}, NEW n \in Nat, s * q =< n, n < s * q + s,
         NEW i \in Nat \ {0}, NEW j \in Nat, i =< j, j =< n, 2 * (j - i + 1) >= n
  PROVE  \E k \in Nat : k < s /\ i =< k * q + 1 /\ k * q + 1 =< j
<1> DEFINE k == (i + q - 2) \div q
<1>1. k \in Nat /\ q * k =< i + q - 2 /\ i + q - 2 < q * k + q
  <2>1. i + q - 2 \in Nat OBVIOUS
  <2> QED BY <2>1
<1> HIDE DEF k
<1>2. \A a, b \in Nat : a * b \in Nat OBVIOUS
<1>3. (s - 2) * q = s * q - 2 * q OBVIOUS
<1>4. (s - 2) * (q - 1) = s * q - s - 2 * q + 2 OBVIOUS
<1>5. s * q \in Nat /\ k * q \in Nat /\ (s - 2) * q >= 0 /\ (s - 2) * (q - 1) >= 0
  <2>1. s - 2 \in Nat /\ q - 1 \in Nat OBVIOUS
  <2> QED BY <1>1, <1>2, <2>1
<1> DEFINE p == s * q  m == k * q
<1>6. /\ p \in Nat /\ m \in Nat /\ p >= 2 * q /\ p - s - 2 * q + 2 >= 0
      /\ p =< n /\ n < p + s /\ m =< i + q - 2 /\ i + q - 2 < m + q
  <2>1. q * k = k * q BY <1>1
  <2> QED BY <1>1, <1>3, <1>4, <1>5, <2>1
<1>7. k >= s => m >= p
  <2> SUFFICES ASSUME k >= s PROVE m >= p
      OBVIOUS
  <2>1. k - s \in Nat BY <1>1
  <2>2. (k - s) * q \in Nat BY <1>2, <2>1
  <2>3. (k - s) * q = k * q - s * q BY <1>1
  <2> QED BY <1>5, <2>2, <2>3
<1> HIDE DEF p, m
<1>8. i =< m + 1 /\ m + 1 =< j BY <1>6
<1>9. ~(m >= p) BY <1>6
<1>10. k < s BY <1>1, <1>7, <1>9
<1> QED BY <1>1, <1>8, <1>10 DEF m

\* The multiples of the stride are sampled.
LEMMA MultipleFacts ==
  ASSUME NEW k \in Nat, NEW q \in Nat \ {0}
  PROVE  (k * q) % q = 0 /\ (k * q) \div q = k
OBVIOUS

\* A stretch i..j of an index of n is half of it or more.
Long(i, j, n) == i =< j /\ 2 * (j - i + 1) >= n

\* The sample meets every such stretch.
LEMMA SampleFacts ==
  ASSUME NEW n \in Nat \ {0}, NEW i \in 1..n, NEW j \in 1..n, Long(i, j, n)
  PROVE  \E k \in i..j : k \in Sample(n)
<1>1. SampleSize \in Nat /\ SampleSize >= 2 BY SampleAssumption
<1> DEFINE s == SampleSize
<1>2. i \in Nat \ {0} /\ j \in Nat /\ i =< j /\ j =< n /\ i =< n /\ 2 * (j - i + 1) >= n BY DEF Long
<1>3. Max({1, SampleSize}) = SampleSize
  <2> HIDE DEF s
  <2> QED BY <1>1 DEF Max
<1> DEFINE q0 == n \div s
<1>4. q0 \in Nat /\ s * q0 =< n /\ n < s * q0 + s BY <1>1
<1>5. Step(n) = Max({1, q0}) BY <1>3, Zenon DEF Step
<1>6. CASE q0 = 0
  <2> HIDE DEF q0
  <2>1. Step(n) = 1
    <3>1. Max({1, 0}) = 1 BY DEF Max
    <3> QED BY <1>5, <1>6, <3>1
  <2>2. n < s BY <1>1, <1>4, <1>6
  <2>3. i \in 1..n /\ (i - 1) % 1 = 0 /\ (i - 1) \div 1 = i - 1 /\ i - 1 < s BY <1>1, <1>2, <2>2
  <2>4. i \in Sample(n) BY <2>1, <2>3 DEF Sample
  <2>5. i \in i..j BY <1>2
  <2> QED BY <2>4, <2>5
<1>7. CASE q0 # 0
  <2> HIDE DEF q0
  <2>1. Step(n) = q0
    <3>1. q0 \in Nat \ {0} BY <1>4, <1>7
    <3>2. Max({1, q0}) = q0 BY <3>1 DEF Max
    <3> QED BY <1>5, <3>2
  <2>2. q0 \in Nat \ {0} /\ s \in Nat /\ s >= 2 BY <1>1, <1>4, <1>7
  <2> HIDE DEF s
  <2>3. PICK k \in Nat : k < s /\ i =< k * q0 + 1 /\ k * q0 + 1 =< j
    BY <1>2, <1>4, <2>2, StretchMeetsSample
  <2> DEFINE t == k * q0
  <2>4. t % q0 = 0 /\ t \div q0 = k
    <3>1. \A kk \in Nat, q \in Nat \ {0} : (kk * q) % q = 0 /\ (kk * q) \div q = kk BY MultipleFacts
    <3> QED BY <2>2, <3>1, Zenon
  <2>5. t \in Nat /\ i =< t + 1 /\ t + 1 =< j
    <3>1. \A a, b \in Nat : a * b \in Nat OBVIOUS
    <3> QED BY <2>2, <2>3, <3>1
  <2> HIDE DEF t
  <2>6. t + 1 \in 1..n /\ t + 1 \in i..j /\ (t + 1) - 1 = t BY <1>2, <2>5
  <2>7. t + 1 \in Sample(n)
    <3>1. ((t + 1) - 1) % Step(n) = 0 BY <2>1, <2>4, <2>6
    <3>2. ((t + 1) - 1) \div Step(n) < SampleSize BY <2>1, <2>3, <2>4, <2>6 DEF s
    <3> QED BY <2>6, <3>1, <3>2 DEF Sample
  <2> QED BY <2>6, <2>7
<1> QED BY <1>6, <1>7

-----------------------------------------------------------------------------
\* What can be there of a tree, in a copy of it.
Copies ==
  [index : {"absent", "not JSON", "no ecus", "fine"}, indexed : Nat, ecus : SUBSET Nat, layouts : SUBSET Nat]

\* A report is of some moment of the copy.
CopyInv == copied \in Copies /\ (report = <<>> \/ \E t \in Copies : report = <<inspectTree(t)>>)

\* No tree passes of which a long stretch is missing; and one that is whole does.
Stretches(t) == \A i, j \in 1..t.indexed : Long(i, j, t.indexed) => \E k \in i..j : k \in t.ecus

LEMMA InspectFacts ==
  ASSUME NEW t \in Copies
  PROVE  /\ inspectTree(t).of = t
         /\ inspectTree(t).ok => t.index = "fine" /\ Stretches(t)
         /\ t.index = "fine" /\ t.indexed > 0 /\ 1..t.indexed \subseteq t.ecus => inspectTree(t).ok
<1> DEFINE sample == Sample(t.indexed)
           missing(present) == Cardinality(sample \ present)
           errors == (IF t.index # "fine" THEN {t.index} ELSE {})
                  \cup (IF t.index = "fine" /\ t.indexed = 0 THEN {"declares no ECUs"} ELSE {})
                  \cup (IF missing(t.ecus) > 0 THEN {"definitions missing"} ELSE {})
<1>1. inspectTree(t).of = t BY DEF inspectTree
<1>2. inspectTree(t).ok <=> errors = {} BY DEF inspectTree
<1>3. t.indexed \in Nat BY DEF Copies
<1>4. sample \subseteq 1..t.indexed BY DEF Sample
<1>5. IsFiniteSet(sample \ t.ecus)
  <2>1. IsFiniteSet(1..t.indexed) BY <1>3, FS_Interval
  <2> HIDE DEF sample
  <2>2. sample \ t.ecus \in SUBSET (1..t.indexed) BY <1>4
  <2> QED BY <2>1, <2>2, FS_Subset
<1>6. missing(t.ecus) \in Nat BY <1>5, FS_CardinalityType
<1>7. missing(t.ecus) = 0 <=> sample \subseteq t.ecus
  <2> HIDE DEF sample
  <2>1. missing(t.ecus) = 0 <=> sample \ t.ecus = {} BY <1>5, FS_EmptySet
  <2> QED BY <2>1
<1>8. ASSUME t.indexed # 0, sample \subseteq t.ecus PROVE Stretches(t)
  <2> SUFFICES ASSUME NEW i \in 1..t.indexed, NEW j \in 1..t.indexed, Long(i, j, t.indexed)
               PROVE  \E k \in i..j : k \in t.ecus
      BY DEF Stretches
  <2>1. t.indexed \in Nat \ {0} BY <1>3, <1>8
  <2>2. PICK k \in i..j : k \in sample BY <2>1, SampleFacts
  <2> QED BY <1>8, <2>2
<1>9. 1..t.indexed \subseteq t.ecus => sample \subseteq t.ecus BY <1>4
<1> HIDE DEF missing, sample
<1>10. errors = {} <=> t.index = "fine" /\ t.indexed # 0 /\ ~(missing(t.ecus) > 0) OBVIOUS
<1>11. missing(t.ecus) > 0 <=> missing(t.ecus) # 0
  <2> DEFINE m == missing(t.ecus)
  <2> HIDE DEF m
  <2>1. m \in Nat => (m > 0 <=> m # 0) OBVIOUS
  <2> QED BY <1>6, <2>1 DEF m
<1> HIDE DEF errors
<1>12. t.indexed > 0 => t.indexed # 0 BY <1>3
<1> QED BY <1>1, <1>2, <1>7, <1>8, <1>9, <1>10, <1>11, <1>12, Zenon

\* A copy begins with what its index lists.
LEMMA CopyInit == Init => CopyInv
<1> SUFFICES ASSUME TreeInit PROVE CopyInv
    BY DEF Init, TreeRest
<1>1. report = <<>> BY DEF TreeInit
<1> DEFINE Indexes == {"absent", "not JSON", "no ecus", "fine"}
<1>2. copied \in [index : Indexes, indexed : Nat, ecus : {{}}, layouts : {{}}]
  <2>1. {0} \subseteq Nat /\ 1..MaxIndexed \subseteq Nat /\ {"fine"} \subseteq Indexes BY SampleAssumption
  <2>2. \A I, K : I \subseteq Indexes /\ K \subseteq Nat /\ copied \in [index : I, indexed : K, ecus : {{}}, layouts : {{}}]
            => copied \in [index : Indexes, indexed : Nat, ecus : {{}}, layouts : {{}}]
    <3> HIDE DEF Indexes
    <3> QED OBVIOUS
  <2>3. copied \in [index : Indexes, indexed : {0}, ecus : {{}}, layouts : {{}}]
                    \cup [index : {"fine"}, indexed : 1..MaxIndexed, ecus : {{}}, layouts : {{}}]
    BY DEF TreeInit
  <2> HIDE DEF Indexes
  <2> QED BY <2>1, <2>2, <2>3
<1>3. copied \in Copies
  <2> HIDE DEF Indexes
  <2>1. {{}} \subseteq SUBSET Nat OBVIOUS
  <2>2. copied \in [index : Indexes, indexed : Nat, ecus : SUBSET Nat, layouts : SUBSET Nat] BY <1>2, <2>1
  <2> QED BY <2>2 DEF Copies, Indexes
<1> QED BY <1>1, <1>3 DEF CopyInv

\* Files arrive one at a time, and a report is taken at any time.
LEMMA CopyKept == CopyInv /\ [TreeNext]_treeVars => CopyInv'
<1> SUFFICES ASSUME CopyInv, [TreeNext]_treeVars PROVE CopyInv'
    OBVIOUS
<1>1. CASE UNCHANGED <<copied, report>>
  BY <1>1 DEF CopyInv
<1>2. CASE SplitNext \/ UNCHANGED treeVars
  <2>1. UNCHANGED <<copied, report>>
    BY <1>2 DEF SplitNext, SplitBegins, EntryEmitted, IndexWritten, ManifestWritten, Dies, treeVars
  <2> QED BY <1>1, <2>1
<1>3. CASE FileCopied
  <2>1. report' = <<>> /\ copied \in Copies BY <1>3 DEF FileCopied, CopyInv
  <2>2. PICK i \in 1..copied.indexed :
           \/ copied' = [copied EXCEPT !.ecus = @ \cup {i}]
           \/ copied' = [copied EXCEPT !.layouts = @ \cup {i}]
        BY <1>3 DEF FileCopied
  <2>3. i \in Nat
    <3>1. copied.indexed \in Nat BY <2>1 DEF Copies
    <3>2. \A n \in Nat : \A m \in 1..n : m \in Nat OBVIOUS
    <3> QED BY <2>2, <3>1, <3>2, Zenon
  <2>4. copied.ecus \cup {i} \in SUBSET Nat /\ copied.layouts \cup {i} \in SUBSET Nat
        BY <2>1, <2>3 DEF Copies
  <2>5. copied' \in Copies BY <2>1, <2>2, <2>4 DEF Copies
  <2> QED BY <2>1, <2>5 DEF CopyInv
<1>4. CASE Inspected
  BY <1>4 DEF Inspected, CopyInv
<1> QED BY <1>2, <1>3, <1>4 DEF TreeNext, CopyNext

\* "Spread the sample across the index rather than taking the first few" (inspect.ts:97): in whatever order
\* the files of a tree come, one of which a stretch of half the index or more is missing does not pass,
\* for any number of ECUs and any sample of two or more, and a whole one does.
THEOREM StretchIsCaught == Spec => []MissingStretchCaught
<1>1. CopyInv /\ [Next]_vars => CopyInv'
  <2>1. [Next]_vars => [TreeNext]_treeVars
    BY DEF Next, Sources, Loads, Offers, Words, Trees, vars
  <2> QED BY <2>1, CopyKept
<1>2. CopyInv => MissingStretchCaught
  <2> SUFFICES ASSUME NEW t \in Copies, report = <<inspectTree(t)>> PROVE MissingStretchCaught
    BY DEF CopyInv, MissingStretchCaught
  <2>1. DOMAIN report = {1} /\ report[1] = inspectTree(t) OBVIOUS
  <2>2. /\ inspectTree(t).of = t
        /\ inspectTree(t).ok => t.index = "fine" /\ Stretches(t)
        /\ t.index = "fine" /\ t.indexed > 0 /\ 1..t.indexed \subseteq t.ecus => inspectTree(t).ok
        BY InspectFacts
  <2> QED BY <2>1, <2>2 DEF MissingStretchCaught, Stretches, Long
<1> QED BY <1>1, <1>2, CopyInit, PTL DEF Spec
=============================================================================
