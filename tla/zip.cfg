\* Archives of up to four files of any names, and whole ones of three tests.
SPECIFICATION Spec
CONSTANTS
    MaxFiles = 4
    Archives <- SomeArchives
INVARIANTS TypeOK ArchiveImported CasesListed PointsTotal RefusedForReason
CHECK_DEADLOCK FALSE
