SPECIFICATION Spec
CONSTANTS
    good = good
    junk = junk
    tree = tree
    stray = stray
    downloads = downloads
    site = site
    down = down
    None = None
    Archives = {good, junk}
    Folders = {stray, downloads, tree}
    Urls = {site, down}
    Holds <- MCHolds
    MaxReloads = 1
    MaxChoices = 3
    Callers = {a, b}
    Definitions <- MCDefinitions
    Layouts <- MCLayouts
    LoadsAfter = 1
    Databases <- MCDatabases
    Upper <- MCUpper
    Artefacts = {"#text"}
    InLabelOrder <- MCInLabelOrder
    Queries = {"84", "zz"}
    Hits <- MCHits
    MaxOpened = 3
    Ecus = {"a", "b", "c"}
    GroupOf <- MCGroupOf
    Strings <- MCStrings
    Bundle <- MCBundle
    Source <- MCSource
    MaxCalls = 4
    MaxSelections = 2
    Snapshots = {"old", "new", "bad"}
    Entries <- MCEntries
    MaxSplits = 3
    SampleSize = 3
    MaxIndexed = 8
INVARIANTS
    SavedWasRead Described FailureIsFresh DropsWhatIsReported
    ChosenIsFound SpeaksTheLanguageChosen TreeIsTheArchive MissingStretchCaught
PROPERTIES WorkingArchiveKept
CHECK_DEADLOCK FALSE
