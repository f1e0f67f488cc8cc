CONSTANTS
    None = None
    Fold <- MCFold
    Scripts <- MCDottedScripts
    Requests <- MCRequests
    CallerNamespaces = {}
    MaxDatasets = 1
    Missing = Missing
    a1 = a1 a2 = a2 c1 = c1 c2 = c2 q1 = q1 q2 = q2 s1 = s1 s2 = s2 r1 = r1 r2 = r2
    Analyzers = {a1, a2}
    Connections = {c1, c2}
    Queries = {q1, q2}
    Sources = {s1, s2}
    RowTypes = {r1, r2}
    RowTypeOf <- MCRowTypeOf
    Texts <- MCTexts
    Topics = {"catalog"}
SPECIFICATION EitherSpec
INVARIANT RegisteredRelationsResolve
\* A catalog that failed to build is discarded.
CHECK_DEADLOCK FALSE
