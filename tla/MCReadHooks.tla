---------------------------- MODULE MCReadHooks ----------------------------
(* Instance: the main thread and two workers, an ordinary file and one that *)
(* the policy denies.                                                        *)
EXTENDS ReadHooks

CONSTANTS worker, helper, plain, secret

MCThreads == {Main, worker, helper}
MCPaths == {plain, secret}
MCDenied == {secret}
=============================================================================
