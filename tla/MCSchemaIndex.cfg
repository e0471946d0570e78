SPECIFICATION StartupSpec
CONSTANTS
    IndexNames = {"none", "canonical", "columns", "taken", "elsewhere"}
    Environments <- MCEnvironments
INVARIANTS
    NoPartialAcceptance
