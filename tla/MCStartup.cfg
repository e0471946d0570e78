SPECIFICATION StartupSpec
CONSTANTS
    IndexNames = {"none", "canonical", "columns", "taken"}
    Environments <- MCEnvironments
INVARIANTS
    ResourcesReleased
    HandlersGivenBack
    FirstFailureSeen
    SettingsConsistent
PROPERTIES
    AllOrNothing
    StopEndsProcess
