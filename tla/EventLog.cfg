\* At most 4 calls of record_event: enough for both threads of the agent to be
\* in a call, a line by the child between a count and its append, and one more
\* call after it.
CONSTANTS
    agent = agent
    child = child
    main = main
    worker = worker
    inChild = inChild
    NoThread = NoThread
    Procs <- MCProcs
    Root = agent
    Threads <- MCThreads
    ProcOf <- MCProcOf
    MaxCalls = 4
    Script <- MCScript

SPECIFICATION FairSpec

INVARIANTS
    LagIsForeign
    FirstHarmfulByOverlap
    CascadeFaithful

PROPERTIES
    CallsReturn
    Implements

\* Every process of the agent may end.
CHECK_DEADLOCK FALSE
