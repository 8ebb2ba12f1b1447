\* Two reads suffice: one under the raised counter of the other.
CONSTANTS
    Main = Main
    worker = worker
    helper = helper
    plain = plain
    secret = secret
    Threads <- MCThreads
    Paths <- MCPaths
    Denied <- MCDenied
    MaxOps = 2

SPECIFICATION Spec

INVARIANT EveryReadRecorded

\* The agent may stop reading.
CHECK_DEADLOCK FALSE
