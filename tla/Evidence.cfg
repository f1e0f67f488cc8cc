CONSTANTS
    p1 = p1 p2 = p2 r1 = r1 r2 = r2
    Runs = {r1, r2}
    Paths = {p1, p2}
    Documents <- MCDocuments
    Foreign = Foreign Absent = Absent Partial = Partial
    EarlyRuns = {r1}
SPECIFICATION Spec
INVARIANT CaptureInv
PROPERTIES FirstObservationStays ImplementsStore
\* Every run ends.
CHECK_DEADLOCK FALSE
