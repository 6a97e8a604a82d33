---------------------------- MODULE DatabaseSource ----------------------------
(***************************************************************************)
(* Where the ECU database comes from, and what a reload finds again        *)
(* (apps/web/src/lib/dbSource.ts, installStorage.ts, the database part of  *)
(* state.svelte.ts, packages/db/src/archive.ts and database.ts).           *)
(*                                                                         *)
(* Each flow is one running handler; between two of its steps it awaits,   *)
(* and any other flow may go on. Storage outlives a reload, the rest does  *)
(* not.                                                                    *)
(***************************************************************************)
EXTENDS Integers, FiniteSets

CONSTANTS Archives, Folders, Urls,
          Holds,      \* Holds[p]: a "tree"; an "alien" index.json it cannot open; "nothing"
          None,
          MaxReloads, \* bound: reloads of the page
          MaxChoices  \* bound: flows the operator starts

Places == Archives \cup Folders \cup Urls
Flows == {"start", "install", "folder", "resume", "remote", "forget", "verify"}
Steps == {"idle", "resolving", "asking", "reading", "unpacking", "nothing", "status", "checking",
          "copying", "remembering", "reopening", "verifying", "saving", "fetching", "removing",
          "clearing", "leaving", "opening"}

ASSUME PlacesAssumption ==
    /\ Archives \cap Folders = {} /\ Archives \cap Urls = {} /\ Folders \cap Urls = {}
    /\ None \notin Places
\* archiveDbSource writes the index itself, so an archive it accepts has one that opens.
ASSUME HoldsAssumption ==
    Holds \in [Places -> {"tree", "alien", "nothing"}] /\ \A a \in Archives : Holds[a] # "alien"
ASSUME BoundsAssumption == MaxReloads \in Nat /\ MaxChoices \in Nat

VARIABLES
    opfs, kind, handle, url,    \* stored: the archive, the kind of source, the folder, the URL
    granted,                    \* the folders the browser lets the page read
    phase, source, facts, askFolder, installing, groups, verified, \* app.*: what is shown
    database, ref,              \* the database in use, and dbSourceRef
    at, place,                  \* where each flow stands, and the place it works on
    reloads, choices

stored == <<opfs, kind, handle, url>>
inUse == <<phase, source, facts, askFolder, installing, groups, database, ref>>
flow == <<at, place>>
counters == <<reloads, choices>>
sourceVars == <<stored, granted, inUse, verified, flow, counters>>

SourceInit ==
    /\ opfs = None /\ kind = None /\ handle = None /\ url = None /\ granted = {}
    /\ phase = "loading" /\ source = None /\ facts = None /\ askFolder = FALSE
    /\ installing = FALSE /\ groups = None /\ verified = None /\ database = None /\ ref = None
    /\ at = [f \in Flows |-> IF f = "start" THEN "resolving" ELSE "idle"]
    /\ place = [f \in Flows |-> None]
    /\ reloads = 0 /\ choices = 0

------------------------------------------------------------------------------
Readable(p) == Holds[p] # "nothing"
Opens(p) == Holds[p] = "tree"
\* A folder or a server may fail to answer at any time; what is in the browser's storage does not.
MayFail(p) == ~Readable(p) \/ p \notin Archives

\* localStorage may be full or blocked: a write to it then keeps what was there.
Written(old, new) == {old, new}

\* The folder a read of IndexedDB gives: the remembered one, or none when the read fails.
Recalled == {handle, None}

Advance(f, step, p) ==
    at' = [at EXCEPT ![f] = step] /\ place' = [place EXCEPT ![f] = p]
Ends(f) == Advance(f, "idle", None)

\* An error leaves everything as it was but for its message; at startup it is all there is to show.
Fails(f) ==
    /\ Ends(f)
    /\ phase' = IF f = "start" THEN "error" ELSE phase
    /\ installing' = (installing /\ f # "install")
    /\ UNCHANGED <<source, facts, askFolder, groups, database, ref>>

\* A wrong build of it: the source becomes the current one before the index has been read.
ResolvesEarly(f, p) ==
    /\ Advance(f, "opening", p) /\ ref' = p
    /\ UNCHANGED <<phase, source, facts, askFolder, installing, groups, database>>

\* EcuDatabase.open reads the index before anything of the application changes.
Resolves(f, p) == Advance(f, "opening", p) /\ UNCHANGED inUse

\* The group list is only built when there is none (applyFilters).
Uses(f, p) ==
    /\ Ends(f)
    /\ database' = p /\ ref' = p /\ source' = p
    /\ facts' = IF p \in Archives THEN p ELSE None
    /\ askFolder' = FALSE /\ phase' = "ready" /\ installing' = (installing /\ f # "install")
    /\ groups' = IF groups = None THEN p ELSE groups

useSource(f) ==
    /\ at[f] = "opening"
    /\ \/ Opens(place[f]) /\ Uses(f, place[f])
       \/ (MayFail(place[f]) \/ ~Opens(place[f])) /\ Fails(f)
    /\ UNCHANGED <<stored, granted, verified, counters>>

\* The picker replaces the application until there is a database; Settings can be opened at any
\* time, and is closed to a second choice while an archive is being copied.
Begins(f) ==
    /\ at[f] = "idle" /\ choices < MaxChoices /\ choices' = choices + 1
    /\ UNCHANGED <<stored, reloads>>
Offered == phase = "needs-database" \/ ~installing

------------------------------------------------------------------------------
(* Starting. *)

\* resolveSavedSource reads the saved kind before its first await.
StartResolves ==
    /\ at["start"] = "resolving"
    /\ IF kind = "url" /\ url # None THEN Advance("start", "fetching", url)
       ELSE Advance("start", IF kind = "folder" THEN "asking" ELSE "unpacking", None)
    /\ UNCHANGED <<stored, granted, inUse, verified, counters>>

\* The remembered folder, when the browser still grants it: it is never asked for here.
StartAsks ==
    /\ at["start"] = "asking"
    /\ \E h \in Recalled : IF h \in granted THEN Advance("start", "reading", h) ELSE Advance("start", "nothing", None)
    /\ UNCHANGED <<stored, granted, inUse, verified, counters>>

StartReads ==
    /\ at["start"] = "reading"
    /\ \/ Readable(place["start"]) /\ Resolves("start", place["start"])
       \/ Advance("start", "nothing", None) /\ UNCHANGED inUse
    /\ UNCHANGED <<stored, granted, verified, counters>>

StartUnpacks ==
    /\ at["start"] = "unpacking"
    /\ IF opfs # None /\ Readable(opfs)
       THEN Resolves("start", opfs)
       ELSE Advance("start", "nothing", None) /\ UNCHANGED inUse
    /\ UNCHANGED <<stored, granted, verified, counters>>

\* Nothing to open: the picker is shown, whatever another flow has opened meanwhile.
StartFindsNothing ==
    /\ at["start"] = "nothing"
    /\ phase' = "needs-database" /\ source' = None
    /\ Advance("start", "status", None)
    /\ UNCHANGED <<stored, granted, facts, askFolder, installing, groups, database, ref, verified, counters>>

\* folderStatus: a folder is remembered and the browser would have to be asked.
StartSaysWhy ==
    /\ at["start"] = "status"
    /\ askFolder' \in {h # None /\ h \notin granted : h \in Recalled}
    /\ Ends("start")
    /\ UNCHANGED <<stored, granted, phase, source, facts, installing, groups, database, ref, verified, counters>>

------------------------------------------------------------------------------
(* installArchive: opened where it was picked, copied, opened again. *)

InstallBegins(a) ==
    /\ Begins("install") /\ ~installing
    /\ installing' = TRUE
    /\ Advance("install", "checking", a)
    /\ UNCHANGED <<granted, phase, source, facts, askFolder, groups, database, ref, verified>>

\* What the picked file must be before anything is written.
AcceptableAny(a) == TRUE
Acceptable(a) == Readable(a)

InstallChecks ==
    /\ at["install"] = "checking"
    /\ IF Acceptable(place["install"])
       THEN Advance("install", "copying", place["install"]) /\ UNCHANGED inUse
       ELSE Fails("install")
    /\ UNCHANGED <<stored, granted, verified, counters>>

\* The write is all or nothing (csfs-opfs); the file may have moved, or the quota be reached.
InstallCopies ==
    /\ at["install"] = "copying"
    /\ \/ opfs' = place["install"] /\ Advance("install", "remembering", place["install"]) /\ UNCHANGED inUse
       \/ opfs' = opfs /\ Fails("install")
    /\ UNCHANGED <<kind, handle, url, granted, verified, counters>>

InstallRemembers ==
    /\ at["install"] = "remembering"
    /\ kind' \in Written(kind, "archive")
    /\ Advance("install", "reopening", place["install"])
    /\ UNCHANGED <<opfs, handle, url, granted, inUse, verified, counters>>

InstallReopens ==
    /\ at["install"] = "reopening"
    /\ IF opfs # None /\ Readable(opfs) THEN Resolves("install", opfs) ELSE Fails("install")
    /\ UNCHANGED <<stored, granted, verified, counters>>

------------------------------------------------------------------------------
(* chooseFolder, continueWithFolder, chooseRemote. *)

FolderBegins(d) ==
    /\ Begins("folder") /\ Offered
    /\ granted' = granted \cup {d}
    /\ Advance("folder", "verifying", d)
    /\ UNCHANGED <<inUse, verified>>

\* A wrong build of it: the folder is remembered without a look inside.
FolderVerifiesNothing ==
    /\ at["folder"] = "verifying"
    /\ Advance("folder", "remembering", place["folder"]) /\ UNCHANGED inUse
    /\ UNCHANGED <<stored, granted, verified, counters>>

FolderVerifies ==
    /\ at["folder"] = "verifying"
    /\ \/ Readable(place["folder"]) /\ Advance("folder", "remembering", place["folder"]) /\ UNCHANGED inUse
       \/ Fails("folder")
    /\ UNCHANGED <<stored, granted, verified, counters>>

\* saveFolderHandle swallows its errors, so the kind may be saved without the folder.
FolderIsKept ==
    /\ at["folder"] = "remembering"
    /\ handle' \in {handle, place["folder"]}
    /\ Advance("folder", "saving", place["folder"])
    /\ UNCHANGED <<opfs, kind, url, granted, inUse, verified, counters>>

FolderKindIsKept ==
    /\ at["folder"] = "saving"
    /\ kind' \in Written(kind, "folder")
    /\ Resolves("folder", place["folder"])
    /\ UNCHANGED <<opfs, handle, url, granted, verified, counters>>

\* The button of the picker, which the browser answers with a prompt.
ResumeBegins ==
    /\ Begins("resume") /\ phase = "needs-database" /\ askFolder
    /\ Advance("resume", "asking", None)
    /\ UNCHANGED <<granted, inUse, verified>>

ResumeAsks ==
    /\ at["resume"] = "asking"
    /\ \/ /\ handle # None
          /\ granted' = granted \cup {handle}
          /\ Advance("resume", "verifying", handle) /\ UNCHANGED inUse
       \/ granted' = granted /\ Fails("resume")
    /\ UNCHANGED <<stored, verified, counters>>

ResumeVerifies ==
    /\ at["resume"] = "verifying"
    /\ \/ Readable(place["resume"]) /\ Resolves("resume", place["resume"])
       \/ Fails("resume")
    /\ UNCHANGED <<stored, granted, verified, counters>>

RemoteBegins(u) ==
    /\ Begins("remote") /\ Offered
    /\ Advance("remote", "fetching", u)
    /\ UNCHANGED <<granted, inUse, verified>>

\* chooseRemote, called by the operator or for the saved URL, whose failure is no error.
RemoteAnswers(f) ==
    /\ at[f] = "fetching"
    /\ \/ /\ Readable(place[f])
          /\ url' \in Written(url, place[f]) /\ kind' \in Written(kind, "url")
          /\ Resolves(f, place[f])
       \/ /\ UNCHANGED <<url, kind>>
          /\ IF f = "start" THEN Advance(f, "nothing", None) /\ UNCHANGED inUse ELSE Fails(f)
    /\ UNCHANGED <<opfs, handle, granted, verified, counters>>

------------------------------------------------------------------------------
(* forgetDatabase, verifyDatabase, and the page going away. *)

\* Settings offers to remove an archive only.
ForgetBegins ==
    /\ Begins("forget") /\ facts # None
    /\ Advance("forget", "removing", None)
    /\ UNCHANGED <<granted, inUse, verified>>

\* Neither removal is waited for to succeed.
ForgetRemoves ==
    /\ at["forget"] = "removing"
    /\ opfs' \in {opfs, None}
    /\ Advance("forget", "clearing", None)
    /\ UNCHANGED <<kind, handle, url, granted, inUse, verified, counters>>

ForgetFolder ==
    /\ at["forget"] = "clearing"
    /\ handle' \in {handle, None}
    /\ Advance("forget", "leaving", None)
    /\ UNCHANGED <<opfs, kind, url, granted, inUse, verified, counters>>

ForgetEnds ==
    /\ at["forget"] = "leaving"
    /\ url' \in Written(url, None) /\ kind' \in Written(kind, None)
    /\ database' = None /\ ref' = None /\ facts' = None /\ source' = None /\ phase' = "needs-database"
    /\ Ends("forget")
    /\ UNCHANGED <<opfs, handle, granted, askFolder, installing, groups, verified, counters>>

VerifyBegins ==
    /\ Begins("verify") /\ ref # None /\ ~installing
    /\ Advance("verify", "reading", ref)
    /\ UNCHANGED <<granted, inUse, verified>>

\* inspectTree: every read asks dbSourceRef again, so the sample is of whatever is in use by then.
VerifyEnds ==
    /\ at["verify"] = "reading"
    /\ verified' \in {None} \cup (IF ref # None THEN {place["verify"]} ELSE {})
    /\ Ends("verify")
    /\ UNCHANGED <<stored, granted, inUse, counters>>

\* The page goes away and comes back; the browser may have forgotten what it granted.
Reload ==
    /\ reloads < MaxReloads /\ reloads' = reloads + 1
    /\ granted' \in {granted, {}}
    /\ phase' = "loading" /\ source' = None /\ facts' = None /\ askFolder' = FALSE
    /\ installing' = FALSE /\ groups' = None /\ verified' = None /\ database' = None /\ ref' = None
    /\ at' = [f \in Flows |-> IF f = "start" THEN "resolving" ELSE "idle"]
    /\ place' = [f \in Flows |-> None]
    /\ UNCHANGED <<stored, choices>>

------------------------------------------------------------------------------
Starts == \/ StartResolves \/ StartAsks \/ StartReads \/ StartUnpacks \/ StartFindsNothing \/ StartSaysWhy

Installs == \/ InstallChecks \/ InstallCopies \/ InstallRemembers \/ InstallReopens

Continues == \/ FolderVerifies \/ FolderIsKept \/ FolderKindIsKept \/ ResumeAsks \/ ResumeVerifies
             \/ ForgetRemoves \/ ForgetFolder \/ ForgetEnds \/ VerifyEnds

Chooses == \/ \E a \in Archives : InstallBegins(a)
           \/ \E d \in Folders : FolderBegins(d)
           \/ \E u \in Urls : RemoteBegins(u)
           \/ ResumeBegins \/ ForgetBegins \/ VerifyBegins

SourceNext ==
    \/ Starts \/ Installs \/ Continues \/ Chooses \/ Reload
    \/ \E f \in Flows : useSource(f)
    \/ \E f \in {"start", "remote"} : RemoteAnswers(f)

SourceSpec == SourceInit /\ [][SourceNext]_sourceVars

------------------------------------------------------------------------------
SourceTypeOK ==
    /\ opfs \in Archives \cup {None} /\ handle \in Folders \cup {None} /\ url \in Urls \cup {None}
    /\ kind \in {None, "archive", "folder", "url"} /\ granted \subseteq Folders
    /\ source \in Places \cup {None} /\ facts \in Places \cup {None} /\ groups \in Places \cup {None}
    /\ verified \in Places \cup {None} /\ database \in Places \cup {None} /\ ref \in Places \cup {None}
    /\ at \in [Flows -> Steps] /\ place \in [Flows -> Places \cup {None}]

\* What each flow works on is what its steps take it for, and only what was looked into is about to
\* be stored: the invariant the theorems rest on.
PlacesOfFlows ==
    /\ \A f \in Flows : at[f] \in {"opening", "fetching"} => place[f] \in Places
    /\ \A f \in {"start", "remote"} : at[f] = "fetching" => place[f] \in Urls
    /\ at["start"] = "reading" => place["start"] \in Folders
    /\ at["resume"] = "verifying" => place["resume"] \in Folders
    /\ at["folder"] \in {"verifying", "remembering", "saving"} => place["folder"] \in Folders
    /\ at["install"] \in {"checking", "copying", "remembering"} => place["install"] \in Archives
OnlyReadIsStored ==
    /\ opfs # None => Readable(opfs)
    /\ handle # None => Readable(handle)
    /\ url # None => Readable(url)
    /\ at["install"] = "copying" => Readable(place["install"])
    /\ at["folder"] \in {"remembering", "saving"} => Readable(place["folder"])
\* What resolveSavedSource would open after a reload.
Saved == IF kind = "url" /\ url # None THEN url ELSE IF kind = "folder" THEN handle ELSE opfs

\* Whatever is remembered was at least looked into before it was, through overlapping choices,
\* failing writes and reloads ("a wrong folder never becomes the saved source").
SavedWasRead == Saved # None => Readable(Saved)

\* What the application shows of its database is about the database it uses: a choice that fails, or
\* is still being opened, changes none of it.
Described ==
    phase = "ready" =>
        /\ database # None /\ ref = database /\ source = database
        /\ facts = IF database \in Archives THEN database ELSE None

SourceInv == SourceTypeOK /\ PlacesOfFlows /\ OnlyReadIsStored /\ Described

\* "A wrong file cannot destroy a working database": the stored archive is only ever replaced by one
\* that opens, or removed because the operator asked for it.
WorkingArchiveKept ==
    [][opfs # None /\ opfs' # opfs =>
          \/ opfs' # None /\ Readable(opfs')
          \/ opfs' = None /\ at["forget"] = "removing"]_sourceVars

\* "Re-open whatever was used last": with nothing under way, a reload opens what is in use.
ReopensLastUsed ==
    phase = "ready" /\ (\A f \in Flows : at[f] = "idle") => Saved = database

\* What the check found is about the database in use.
VerifiedIsInUse == verified # None /\ phase = "ready" => verified = database

\* The groups on offer are those of the database in use.
GroupsOfDatabase == phase = "ready" => groups = database
=============================================================================
