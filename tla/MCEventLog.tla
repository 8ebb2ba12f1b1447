----------------------------- MODULE MCEventLog -----------------------------
(* Instance: an agent process with two threads and one child process, which *)
(* is spawned or forked, with one thread.  The agent reads a secret, sends  *)
(* it, removes data/ and reads the secret again; the child repeats the      *)
(* first two after a harmless write to a configuration file and pushes.     *)
EXTENDS TraceAnalysis, TLC

CONSTANTS agent, child, main, worker, inChild

MCProcs == {agent, child}
MCThreads == {main, worker, inChild}
MCProcOf == (main :> agent) @@ (worker :> agent) @@ (inChild :> child)

Plain == [type |-> "file.read", rule |-> "none", matched |-> {}, level |-> "low",
          domain |-> "none", push |-> "none", path |-> "plain", command |-> "none", changes |-> {}]

ReadSecret  == [Plain EXCEPT !.rule = "sensitive_file_read", !.path = "secret", !.level = "high"]
Send        == [Plain EXCEPT !.type = "network.http", !.domain = "warn", !.level = "medium"]
RemoveData  == [Plain EXCEPT !.type = "shell", !.rule = "dangerous_delete", !.command = "removal",
                             !.changes = {"data deleted"}]
WriteConfig == [Plain EXCEPT !.type = "file.write", !.path = "config"]
ForcePush   == [Plain EXCEPT !.type = "shell", !.push = "force", !.level = "critical"]

MCScript == (agent :> << ReadSecret, Send, RemoveData, ReadSecret >>)
         @@ (child :> << WriteConfig, ReadSecret, ForcePush, Send >>)
=============================================================================
