SPECIFICATION Spec
CONSTANTS
    a = a
    b = b
    Procs <- Starts
    Agents = {b}
    Pid <- OwnPids
    Schema <- AuditSchema
    NoFile = NoFile
    Torn = Torn
    None = None
INVARIANTS
    MigratedBeforeService
    Findable
    AloneGoesOn
PROPERTY
    StartsAlone
CHECK_DEADLOCK FALSE
