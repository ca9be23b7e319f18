------------------------------- MODULE MCVFS -------------------------------
(***************************************************************************)
(* Two names, paths of one or two names and one of three (deep enough for  *)
(* a link in the middle), links to /a, to ../b and to /b/a: a target can   *)
(* be a link again, a loop, or lead nowhere.                               *)
(***************************************************************************)
EXTENDS VFS

PathsOf(n) == [1 .. n -> Names]

MCNames == {"a", "b"}
MCPaths == PathsOf(1) \cup PathsOf(2) \cup {<<"a", "b", "a">>}
MCTargets == {[abs |-> TRUE, parts |-> <<"a">>],
              [abs |-> FALSE, parts |-> <<"..", "b">>],
              [abs |-> TRUE, parts |-> <<"b", "a">>]}
=============================================================================
