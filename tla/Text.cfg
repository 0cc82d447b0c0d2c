SPECIFICATION Spec
CONSTANTS
    Runs <- MCRuns
    BUFFER = 3
    DEPTH = 5
    THRESHOLD = 2
INVARIANTS
    OutputIsRight
    EndsAsDeserved
PROPERTIES
    Returns
