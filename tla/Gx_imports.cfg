CONSTANTS
    N = 3
    ModuleFiles = {"go.mod", "go.sum"}
    r1 = r1
    r2 = r2
    r3 = r3
    Api = {r1, r2, r3}
    ModuleOf <- MCModuleOf
    VersionOf <- MCVersionOf
    Logic = {l1, l2}
    MaxEdits = 1
    File = {f1, f2}
    MaxRuns = 2
    MaxWrites = 2
    Schema = {public, billing, odd}
    TableName = {users}
    InvalidSchema = {odd}
SPECIFICATION GxSpec
PROPERTIES ImportsStay
CHECK_DEADLOCK FALSE
