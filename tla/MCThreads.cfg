\* greedy_calc_sqrts: three threads for six indices; a thread may take all of
\* them, and all three may draw an index past the end.
\* calc_sqrts: three threads that draw two indices each.
\* reader_writer_locks: two of each kind, so each kind is created, held at the
\* barrier and overtaken by its own kind and by the other.
\* barrier_sync: one element per thread; 6 cells are halved to 3 and to 1, with
\* a cell left over for thread 0 the second time.
\* inner_product: five elements for four threads, segments of 2, 2, 1 and 0.
\* recursive_mutex: two threads, one of which may wait for the other in foo and
\* between foo and bar.
CONSTANTS
    NumThreads = 3
    NumsPerThread = 2
    NumReaders = 2
    NumWriters = 2
    SumThreads = 6
    SumSize = 6
    ProductThreads = 4
    ProductLength = 5
    FooThreads = 2
SPECIFICATION FairSpec
INVARIANTS
    TypeOK
    AllRootsStored
    BarriersHold
    TotalsAreRight
PROPERTIES
    ImplementsCounter
    Terminates
