\* Three reads: three at once, or two that overlap and one more to see what they
\* leave behind.
CONSTANTS
    Main = Main
    worker = worker
    helper = helper
    plain = plain
    secret = secret
    Threads <- MCThreads
    Paths <- MCPaths
    Denied <- MCDenied
    MaxOps = 3

SPECIFICATION FairSpec

INVARIANTS
    AtMostOneEvent
    HiddenOnlyByOverlap
    DeniedDataOnlyByOverlap

PROPERTY RecordingResumes

\* The agent may stop reading.
CHECK_DEADLOCK FALSE
