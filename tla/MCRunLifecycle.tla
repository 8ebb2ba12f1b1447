--------------------------- MODULE MCRunLifecycle ---------------------------
(* An instance of RunViews for TLC.  Above a sandbox there may be no          *)
(* repository, or a clean one at another commit.                              *)
EXTENDS RunViews

MCAbove == {NoRepository, [repo |-> TRUE, head |-> MaxHead, dirt |-> {}]}
=============================================================================
