---------------------------- MODULE MCShellJobs ----------------------------
(* Two commands that end well or badly. *)
EXTENDS ShellJobs

CONSTANTS p1, p2, ok, failed

TwoPids == {p1, p2}
TwoStatuses == {ok, failed}
=============================================================================
