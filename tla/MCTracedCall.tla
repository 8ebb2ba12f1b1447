---------------------------- MODULE MCTracedCall ----------------------------
(* Instances of TracedCall for TLC: four policies that differ in each        *)
(* thing an evaluation loads, one that validation refuses, and a request for *)
(* every way through the built-in rules and the domain policy.               *)
EXTENDS TracedCall

Rule(id, match, level, action) ==
    [id |-> id, match |-> match, level |-> level, action |-> action]

OnEvil == [host |-> {"evil.test"}]
OnHttp == [event_type |-> {"http", "network.http"}]
OnShell == [event_type |-> {"shell"}, command |-> {"rm data", "git push"}]
OnGrave == [risk_level |-> {"high"}]

\* Blocks a host and warns of another, but has a rule that allows HTTP.
Blocking == [mode |-> "warn", rules |-> << Rule("http-ok", OnHttp, "low", "allow") >>,
             domain |-> [NoDomain EXCEPT !.deny = {"evil.test"}, !.warn = {"odd.test"},
                                         !.block_on_deny = TRUE]]
\* Enforces; its rules warn, ask for approval, or deny.
Strict == [mode |-> "enforce",
           rules |-> << Rule("shell", OnShell, "critical", "warn"),
                        Rule("evil", OnEvil, "high", "warn"),
                        Rule("grave", OnGrave, "high", "require_approval") >>,
           domain |-> [NoDomain EXCEPT !.deny = {"evil.test"}, !.block_on_deny = TRUE,
                                       !.warn_unknown = TRUE]]
\* Only a domain policy, of an enforcing mode.
Plain == [mode |-> "block", rules |-> << >>,
          domain |-> [NoDomain EXCEPT !.warn = {"evil.test"}, !.allow = {"good.test"},
                                      !.allow_private = TRUE, !.allow_localhost = FALSE]]
\* Two rules of one name: refused.
Doubled == [Blocking EXCEPT !.rules = << Rule("a", OnHttp, "low", "allow"),
                                         Rule("a", OnEvil, "low", "allow") >>]

MCDocuments == {Blocking, Strict, Plain, Doubled}
MCShippedDomain == [NoDomain EXCEPT !.deny = {"evil.test"}, !.warn = {"odd.test"},
                                    !.allow = {"good.test"}, !.warn_unknown = TRUE]

Command(c, marks) == [event_type |-> "shell", command |-> c, path |-> "", marks |-> marks]
Access(type, marks) == [event_type |-> type, command |-> "", path |-> "p", marks |-> marks]
Http(type, method, host, class, marks) ==
    [event_type |-> type, method |-> method, host |-> host, url |-> host, class |-> class, marks |-> marks]

MCRequests ==
    {Command("rm data", {"rm -rf"}), Command("git push", {"push", "force", "tags"}),
     Access("file.write", {"env"}), Access("file.read", {}),
     Http("http", "GET", "evil.test", "external", {}),
     Http("http", "POST", "good.test", "external", {}),
     Http("network.http", "GET", "odd.test", "external", {"plaintext"}),
     Http("network.http", "GET", "localhost", "localhost", {"local"}),
     Http("network.http", "GET", "evil.test", "external", {"sensitive"}),
     Http("http", "GET", "10.0.0.1", "private", {"local"})}
=============================================================================
