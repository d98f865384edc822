CONSTANTS
    Route = {"a", "b", "s", "docs"}
    Conflict <- MCConflict
    Static = {"s"}
    Docs = "docs"
    Batch <- MCBatch
    Middleware = {"m"}
    AbortIndex = 9
    NotFound = "none"
    Fields <- MCFields
    Payload <- MCPayload
    PolicyChanges = 1
    MountPoint <- MCMounts
    OptionList <- MCOptionList
    Loaded <- MCLoaded
    Attached <- MCAttached
    Supplied = {{}, {"a"}}
    FromConfig = {"s"}
SPECIFICATION Spec
INVARIANTS SettingsPrecedence TablesAgree NoMiddlewareLost DocumentIsCurrent OneEnvelope AdmittedByPolicy DocumentedRequestsBind ServedFromMount
CHECK_DEADLOCK FALSE
