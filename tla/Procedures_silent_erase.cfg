SPECIFICATION Spec
CONSTANTS
    Ecus <- MCEcus
    MostRecords = 3
    SimulatedRecords = 3
    MoreDtcLimit = 3
    Catalogue <- MCCatalogue
    CanMapped <- MCCanMapped
    Projects <- MCProjects
    Identities <- MCIdentities
    Plugins <- MCPlugins
    Rogues <- MCRogues
    MaxPluginSteps = 17
    MaxRuns = 2
INVARIANT EraseAcknowledged
CHECK_DEADLOCK FALSE
