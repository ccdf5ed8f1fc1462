SPECIFICATION Spec
CONSTANTS
    MaxPromises = 3
    MaxRuns = 2
    MaxWraps = 2
INVARIANTS TypeOK ToldIsTrue ErrorsAreTheirs
