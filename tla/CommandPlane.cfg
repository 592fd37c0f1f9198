SPECIFICATION FairSpec
CONSTANTS
    a1 = a1
    a2 = a2
    NoProc = NoProc
    Procs = {p1, p2}
    Aggs = {a1, a2}
    Jobs <- MCJobs
    MaxVersion = 3
INVARIANTS LogMatchesRow ResultsAreUnique
PROPERTIES JobsEnd ErasureIsFinal BatchIsAtomic ImplementsAggregateLog
