------------------------------- MODULE MCTools -------------------------------
(***************************************************************************)
(* The command-line tools, side by side: the shell, and the resolver and   *)
(* the commands of the package manager.  A behaviour follows one of them,  *)
(* the focus; what is fair is fair of the focus.                           *)
(*                                                                         *)
(* Lines that hold every kind of node within every other: commands that    *)
(* succeed, fail, throw or cannot be found, builtins that change the shell,*)
(* a file that is sourced.  A registry with cycles, peers, versions that   *)
(* conflict and packages that fail.  Two packages, one of which needs the  *)
(* other, both with scripts, for two commands of npm one after the other;  *)
(* a third without a script for three commands that overlap by two.        *)
(***************************************************************************)
EXTENDS Shell, Resolver, Install

VARIABLE focus
toolVars == <<focus, vars, resolverVars, installVars>>

Plain(word) == Command(word, "", "none")
ToDir(dir) == Command("cd", dir, "none")
Export(v) == Command("export", v, "none")
Exit3 == Command("exit", "3", "none")
BadFile(word, arg) == Command(word, arg, "bad")
Source == Command("source", "rc", "none")

MCScript == [f \in {"rc"} |-> Line(TRUE, Chain(ToDir("/a"), ";", Subshell(Chain(Export("2"), "&&", BadFile("false", "")))))]

MCLines ==
  {Line(FALSE, t) : t \in {
     Chain(Plain("external"), "&&", Chain(ToDir("/a"), ";", Exit3)),
     Chain(Chain(Plain("external"), "||", Export("2")), "&&", ToDir("/none")),
     Chain(Subshell(Chain(Export("3"), ";", BadFile("true", ""))), "||", Plain("missing")),
     Chain(Background(Subshell(Chain(ToDir("/a"), ";", Plain("external")))), ";", ToDir("-")),
     Pipe(<<Plain("external"), Subshell(Chain(Export("3"), "&&", Plain("missing"))), BadFile("cd", "/a")>>),
     Pipe(<<Plain("missing"), BadFile("cd", "~")>>),
     Pipe(<<BadFile("external", ""), BadFile("unset", ""), Plain("external")>>),
     Chain(Source, "&&", Subshell(Source)),
     Subshell(ToDir("/a")),
     SyntaxError}}
  \cup {Line(TRUE, Background(Plain("external")))}

On(n, r) == Dependency(n, r)
MCRegistry == [n \in {"a", "b", "c", "p", "q"} |->
  CASE n = "a" -> 1 :> Version(<<On("b", {1})>>, << >>) @@ 2 :> Version(<<On("b", {1, 2}), On("c", {1})>>, << >>)
    [] n = "b" -> 1 :> Version(<<On("a", {1, 2})>>, << >>) @@ 2 :> Version(<<On("a", {2})>>, <<On("p", {1})>>)
    [] n = "c" -> 1 :> Version(<< >>, <<On("p", {1}), On("b", {1, 2})>>)
    [] n = "p" -> 1 :> Version(<<On("q", {1}), On("a", {1})>>, << >>)
    [] n = "q" -> 1 :> Version(<< >>, << >>) @@ 2 :> Version(<< >>, << >>)]
MCRootDeps ==
  {<<On("q", {1})>>, <<On("a", {1, 2})>>, <<On("b", {2})>>, <<On("a", {1}), On("b", {2})>>, <<On("c", {1}), On("p", {1})>>,
   <<On("b", {1, 2}), On("c", {1})>>, <<On("c", {2}), On("p", {1})>>, <<On("p", {1}), On("a", {1})>>}

MCNeeds == [n \in Packages |-> IF n = "a" THEN {"a", "b"} ELSE {n}]
Used(f) == IF f = "overlap" THEN {"c"} ELSE {"a", "b"}

ToolsInit ==
  /\ focus \in {"shell", "resolver", "npm", "overlap"} /\ Init /\ ResolverInit /\ InstallInit
  /\ focus # "resolver" => wanted = CHOOSE deps \in RootDeps : TRUE
  /\ focus \notin {"npm", "overlap"} => packageJson = {}
  /\ packageJson \subseteq Used(focus)

\* Steps of commands that follow each other, and of those that overlap.
UsedOnly == /\ \A n \in Packages \ Used(focus) : latest[n] = 1
            /\ \A c \in Cmds : cmd[c].name \subseteq Used(focus)
            /\ kills + fails <= 1
Following ==
  /\ UsedOnly' /\ cmd'[MaxCmds].pc = "idle"
  /\ (\E c \in Cmds : UnderWay(c)) => \A c \in Cmds : cmd[c].pc = "idle" => cmd'[c].pc = "idle"
Overlapping == (UsedOnly /\ kills = 0 /\ fails = 0 /\ \A c \in Cmds : cmd[c].op # "npx")'

ToolsNext ==
  /\ UNCHANGED focus
  /\ \/ focus = "shell" /\ Next /\ UNCHANGED <<resolverVars, installVars>>
     \/ focus = "resolver" /\ ResolverNext /\ UNCHANGED <<vars, installVars>>
     \/ focus = "npm" /\ InstallNext /\ Following /\ UNCHANGED <<vars, resolverVars>>
     \/ focus = "overlap" /\ InstallNext /\ Overlapping /\ UNCHANGED <<vars, resolverVars>>

ToolsSpec ==
  /\ ToolsInit /\ [][ToolsNext]_toolVars
  /\ \A j \in 1 .. MaxJobs : WF_vars(focus = "shell" /\ j \in 1 .. Len(jobs) /\ Step(j))
  /\ WF_resolverVars(focus = "resolver" /\ ResolveReturns)
  /\ \A k \in 1 .. MaxCalls : WF_resolverVars(focus = "resolver" /\ k \in 1 .. Len(calls) /\ CallStep(k))
  /\ \A c \in Cmds : WF_installVars(focus \in {"npm", "overlap"} /\ CmdStep(c))

\* What a user asks of the tools comes to its end: a line of the shell, the
\* resolution of dependencies, with a plan or an error, a command of npm.
ToolsFinish == EveryLineReturns /\ (focus = "resolver" => ResolveEnds) /\ CommandEnds
=============================================================================
