\* All barrier graphs on three tasks; the pool is smaller than the task list.
CONSTANTS
    N = 3
    Builders = 2
SPECIFICATION Spec
INVARIANTS
    BarriersSettled
    ClosesOnce
    SomeoneCanStep
PROPERTIES
    KeepsPromise
