CONSTANTS
    Cap <- MCCap
    Rows <- MCRows
    MaxEntries <- MCMaxEntries
    MaxRestarts = 1
    MaxFailures = 2
    Polls = {1, 2, 3}
SPECIFICATION Spec
INVARIANTS
    RefreshFitsTogether
PROPERTIES
    ViewsCatchUp
