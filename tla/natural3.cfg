SPECIFICATION Spec
CONSTANTS
    Jobs <- MCJobs
    Unparsed = Unparsed
INVARIANT FilesAsSaid
