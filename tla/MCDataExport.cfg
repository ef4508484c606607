CONSTANTS
    Exports = {e1, e2}
    Requests = {r1, r2}
    Jobs = {j1, j2}
    OneExport = e1
    OneJob = j1
    OneRequest = r1
    MaxTries = 2
    Kept = 1
    MaxTime = 2
    MaxFaults = 1
SPECIFICATION MCSpec
INVARIANTS HandedOverOnce SettledOnce FilesAreAccountedFor
PROPERTIES EveryExportEnds
