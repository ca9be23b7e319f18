-------------------------------- MODULE Shell --------------------------------
(***************************************************************************)
(* The shell: lines are parsed to trees, and an executor walks the tree of *)
(* a line, one command after the other, awaiting each.  Lines are executed *)
(* concurrently when one is submitted before the last has returned, and a  *)
(* command in the background runs on beside its line; all share the        *)
(* working directory, the environment and the exit code of the shell.      *)
(*                                                                         *)
(* A job is a call stack of the executor with what it is doing: entering a *)
(* node, waiting for a spawned command, returning a code or throwing.      *)
(* Between two awaits a job keeps the thread.                              *)
(***************************************************************************)
EXTENDS Naturals, Sequences, SequencesExt

CONSTANTS
  Lines,       \* the lines that may be submitted: [assigns, tree], see Line
  Dirs,        \* the directories there are
  Script,      \* the lines of the files that can be sourced
  Home,        \* the directory the shell starts in
  MaxLines,    \* bound on the lines submitted
  Unset        \* the value of a variable that is not set

ASSUME ShellAssumption == Home \in Dirs /\ MaxLines \in Nat

\* A tree, as the parser builds it (parser.ts).  A command has an argument; its
\* redirection has no target, a target that can be written, or one that cannot.
Command(cmd, arg, redirect) ==
  [type |-> "command", cmd |-> cmd, arg |-> arg, redirect |-> redirect]
Pipe(commands) == [type |-> "pipeline", commands |-> commands]
Chain(left, op, right) == [type |-> "sequence", left |-> left, operator |-> op, right |-> right]
Background(command) == [type |-> "background", command |-> command]
Subshell(body) == [type |-> "subshell", body |-> body]
SyntaxError == [type |-> "error"]
\* assigns: the line holds ${X:=1}.
Line(assigns, tree) == [assigns |-> assigns, tree |-> tree]

VARIABLES
  cwd, env, lastExitCode,   \* of the Shell
  exitRequested,            \* has exit been called?
  jobs,                     \* the executions, in the order they were started
  thread,                   \* the job that runs, 0 between two tasks
  submitted                 \* how many lines have been submitted

vars == <<cwd, env, lastExitCode, exitRequested, jobs, thread, submitted>>

Variables == {"PWD", "OLDPWD", "X"}

Init ==
  /\ cwd = Home
  /\ env = [v \in Variables |-> IF v = "PWD" THEN Home ELSE Unset]
  /\ lastExitCode = 0
  /\ exitRequested = FALSE
  /\ jobs = << >>
  /\ thread = 0
  /\ submitted = 0

-----------------------------------------------------------------------------
(***************************************************************************)
(* Jobs.                                                                   *)
(***************************************************************************)
Entering(node) == [does |-> "enter", node |-> node]
EnteringLast(node) == [does |-> "enterLast", node |-> node]
Waiting(node) == [does |-> "wait", node |-> node]
Returning(code) == [does |-> "return", code |-> code]
Throwing == [does |-> "throw"]
Done(code) == [does |-> "done", code |-> code]

\* The frames: a call of Shell.execute with the executor it creates, whose cwd
\* is that of the shell at this moment; and the awaits of the executor.
ShellFrame == [in |-> "shell", cwd |-> cwd]
BackgroundFrame(dir) == [in |-> "background", cwd |-> dir]
ChainFrame(node) == [in |-> "sequence", operator |-> node.operator, right |-> node.right]
PipeFrame(node, i) == [in |-> "pipeline", commands |-> node.commands, at |-> i]
SubshellFrame == [in |-> "subshell", env |-> env]

\* trace: the commands run so far, argument and code with each; before: the shell when the
\* job was started; alone: no other job has run beside it.
Job(frame, node, alone) ==
  [stack |-> <<frame>>, ctl |-> Entering(node), trace |-> << >>, tree |-> node,
   before |-> [cwd |-> cwd, env |-> env], alone |-> alone]

InFlight == {j \in 1 .. Len(jobs) : jobs[j].ctl.does # "done"}
MayRun(j) == j \in InFlight /\ thread \in {0, j}
Top(j) == Last(jobs[j].stack)
\* Mutant: the frame stays.
PoppedNot(j) == jobs[j].stack
Popped(j) == Front(jobs[j].stack)
Doing(j) == jobs[j].ctl.does
\* The cwd of the executor that runs the job: that of the innermost call.
ExecutorCwd(j) == LET s == jobs[j].stack
                      k == CHOOSE i \in 1 .. Len(s) :
                             /\ s[i].in \in {"shell", "background"}
                             /\ \A m \in i + 1 .. Len(s) : s[m].in \notin {"shell", "background"}
                  IN  s[k].cwd

Set(j, stack, ctl) == jobs' = [jobs EXCEPT ![j].stack = stack, ![j].ctl = ctl]
Goes(j, ctl) == Set(j, jobs[j].stack, ctl)
\* An await: other tasks may run.
Awaits == thread' = 0
Keeps(j) == thread' = j

-----------------------------------------------------------------------------
(***************************************************************************)
(* Shell.execute                                                           *)
(***************************************************************************)
\* Expansion assigns before anything is parsed or run.
Expanded(line) == IF line.assigns /\ env["X"] = Unset THEN [env EXCEPT !["X"] = "1"] ELSE env

Submit(line) ==
  /\ thread = 0 /\ submitted < MaxLines
  /\ submitted' = submitted + 1
  /\ env' = Expanded(line)
  /\ IF line.tree.type = "error"
       THEN lastExitCode' = 2 /\ UNCHANGED <<jobs, thread>>
       ELSE LET crowd == [k \in 1 .. Len(jobs) |->
                            IF k \in InFlight THEN [jobs[k] EXCEPT !.alone = FALSE] ELSE jobs[k]]
            IN  /\ jobs' = Append(crowd, [Job(ShellFrame, line.tree, InFlight = {}) EXCEPT !.before.env = env'])
                /\ thread' = Len(jobs) + 1
                /\ UNCHANGED lastExitCode
  /\ UNCHANGED <<cwd, exitRequested>>

-----------------------------------------------------------------------------
(***************************************************************************)
(* Entering a node.                                                        *)
(***************************************************************************)
Enters(j, type) == MayRun(j) /\ Doing(j) = "enter" /\ jobs[j].ctl.node.type = type

EnterPipeline(j) ==
  /\ Enters(j, "pipeline")
  /\ LET n == jobs[j].ctl.node IN
     Set(j, Append(jobs[j].stack, PipeFrame(n, 1)), Entering(n.commands[1]))
  /\ Keeps(j)
  /\ UNCHANGED <<cwd, env, lastExitCode, exitRequested, submitted>>

EnterSequence(j) ==
  /\ Enters(j, "sequence")
  /\ LET n == jobs[j].ctl.node IN Set(j, Append(jobs[j].stack, ChainFrame(n)), Entering(n.left))
  /\ Keeps(j)
  /\ UNCHANGED <<cwd, env, lastExitCode, exitRequested, submitted>>

EnterSubshell(j) ==
  /\ Enters(j, "subshell")
  /\ Set(j, Append(jobs[j].stack, SubshellFrame), Entering(jobs[j].ctl.node.body))
  /\ Keeps(j)
  /\ UNCHANGED <<cwd, env, lastExitCode, exitRequested, submitted>>

\* The command is started as a job of its own, up to its first await.
EnterBackground(j) ==
  /\ Enters(j, "background")
  /\ jobs' = Append([jobs EXCEPT ![j].ctl = Returning(0), ![j].alone = FALSE],
                    Job(BackgroundFrame(ExecutorCwd(j)), jobs[j].ctl.node.command, FALSE))
  /\ thread' = Len(jobs) + 1
  /\ UNCHANGED <<cwd, env, lastExitCode, exitRequested, submitted>>

\* A command that is not a builtin, and cannot be found.
Ran(j, node, code) == [jobs EXCEPT ![j].trace = Append(@, <<node.cmd, node.arg, code>>)]

EnterMissing(j) ==
  /\ Enters(j, "command") /\ jobs[j].ctl.node.cmd = "missing"
  /\ jobs' = [Ran(j, jobs[j].ctl.node, 127) EXCEPT ![j].ctl = Returning(127)]
  /\ Awaits
  /\ UNCHANGED <<cwd, env, lastExitCode, exitRequested, submitted>>

\* An external command is spawned in the directory of the executor, and awaited.
EnterExternal(j) ==
  /\ Enters(j, "command") /\ jobs[j].ctl.node.cmd = "external"
  /\ Goes(j, Waiting(jobs[j].ctl.node))
  /\ Awaits
  /\ UNCHANGED <<cwd, env, lastExitCode, exitRequested, submitted>>

\* It returns with a code, or throws; so does a redirection of its output.
ExternalReturns(j, code) ==
  LET node == jobs[j].ctl.node
      result == IF code = 126 \/ node.redirect = "bad" THEN 126 ELSE code
  IN  /\ MayRun(j) /\ Doing(j) = "wait"
      /\ jobs' = [Ran(j, node, result) EXCEPT ![j].ctl = Returning(result)]
      /\ Awaits
      /\ UNCHANGED <<cwd, env, lastExitCode, exitRequested, submitted>>

\* Builtins.  What each does, and the code it returns.
\* parseInt() of the arguments that are numbers.
Numeral == [arg \in {"0", "3"} |-> IF arg = "0" THEN 0 ELSE 3]
CdTarget(arg) == CASE arg = "-" -> env["OLDPWD"] [] arg = "~" -> Home [] OTHER -> arg
BuiltinCode(node) ==
  CASE node.cmd = "cd" -> IF CdTarget(node.arg) \in Dirs THEN 0 ELSE 1
    [] node.cmd = "exit" -> Numeral[node.arg]
    [] node.cmd = "false" -> 1
    [] OTHER -> 0

\* Mutant: PWD is not kept up to date.
CdAlone(dir, old) == [env EXCEPT !["OLDPWD"] = old]
Cd(dir, old) == [env EXCEPT !["OLDPWD"] = old, !["PWD"] = dir]

RunBuiltin(j, node) ==
  LET moves == node.cmd = "cd" /\ BuiltinCode(node) = 0
      dir == CdTarget(node.arg)
  IN  /\ node.cmd \in {"cd", "export", "unset", "exit", "true", "false"}
      /\ cwd' = IF moves THEN dir ELSE cwd
      /\ env' = CASE moves -> Cd(dir, ExecutorCwd(j))
                  [] node.cmd = "export" -> [env EXCEPT !["X"] = node.arg]
                  [] node.cmd = "unset" -> [env EXCEPT !["X"] = Unset]
                  [] OTHER -> env
      /\ exitRequested' = (exitRequested \/ node.cmd = "exit")

\* A builtin runs, and then its redirections: one that fails throws.
EnterBuiltin(j) ==
  LET node == jobs[j].ctl.node IN
  /\ Enters(j, "command")
  /\ RunBuiltin(j, node)
  /\ jobs' = [Ran(j, node, BuiltinCode(node)) EXCEPT
               ![j].ctl = IF node.redirect = "bad" THEN Throwing ELSE Returning(BuiltinCode(node))]
  /\ Awaits
  /\ UNCHANGED <<lastExitCode, submitted>>

\* The last command of a pipeline, when it is a builtin behind another command:
\* called directly, its redirections are not looked at.
EnterLastBuiltin(j) ==
  LET node == jobs[j].ctl.node IN
  /\ MayRun(j) /\ Doing(j) = "enterLast"
  /\ RunBuiltin(j, node)
  /\ jobs' = [Ran(j, node, BuiltinCode(node)) EXCEPT ![j].ctl = Returning(BuiltinCode(node))]
  /\ Awaits
  /\ UNCHANGED <<lastExitCode, submitted>>

\* source: the text of the file is executed by the shell, in a new executor.
EnterSource(j) ==
  LET node == jobs[j].ctl.node IN
  /\ MayRun(j) /\ Doing(j) \in {"enter", "enterLast"}
  /\ node.type = "command" /\ node.cmd = "source"
  /\ env' = Expanded(Script[node.arg])
  /\ jobs' = [jobs EXCEPT ![j].stack = Append(@, ShellFrame),
                          ![j].ctl = Entering(Script[node.arg].tree)]
  /\ Keeps(j)
  /\ UNCHANGED <<cwd, lastExitCode, exitRequested, submitted>>

-----------------------------------------------------------------------------
(***************************************************************************)
(* A node has returned a code, or thrown, into the frame that awaits it.   *)
(***************************************************************************)
Returns(j, frame) == MayRun(j) /\ Doing(j) = "return" /\ Top(j).in = frame
Code(j) == jobs[j].ctl.code

\* Mutant: || goes on after a success.
GoesOnAlways(operator, code) == operator = "&&" => code = 0
GoesOn(operator, code) ==
  CASE operator = "&&" -> code = 0 [] operator = "||" -> code # 0 [] OTHER -> TRUE

ReturnToSequence(j) ==
  /\ Returns(j, "sequence")
  /\ IF GoesOn(Top(j).operator, Code(j))
       THEN Set(j, Popped(j), Entering(Top(j).right)) /\ Keeps(j)
       ELSE Set(j, Popped(j), Returning(Code(j))) /\ Awaits
  /\ UNCHANGED <<cwd, env, lastExitCode, exitRequested, submitted>>

Builtins == {"cd", "export", "unset", "exit", "true", "false", "source"}
\* What the pipeline does with command i.
PipeEnters(commands, i) ==
  IF /\ i > 1 /\ i = Len(commands)
     /\ commands[i].type = "command" /\ commands[i - 1].type = "command"
     /\ commands[i].cmd \in Builtins
  THEN EnteringLast(commands[i]) ELSE Entering(commands[i])

ReturnToPipeline(j) ==
  LET f == Top(j) IN
  /\ Returns(j, "pipeline")
  /\ IF f.at < Len(f.commands)
       THEN /\ Set(j, Append(Popped(j), [f EXCEPT !.at = @ + 1]), PipeEnters(f.commands, f.at + 1))
            /\ Keeps(j)
       ELSE Set(j, Popped(j), Returning(Code(j))) /\ Awaits
  /\ UNCHANGED <<cwd, env, lastExitCode, exitRequested, submitted>>

\* finally: the environment is put back.  (So is the cwd of the executor, which
\* nothing has changed; cd has changed that of the shell.)
\* Mutant: only when nothing was thrown.
RestoredIfReturned(j) == IF Doing(j) = "return" THEN Top(j).env ELSE env
Restored(j) == Top(j).env

LeaveSubshell(j) ==
  /\ MayRun(j) /\ Doing(j) \in {"return", "throw"} /\ Top(j).in = "subshell"
  /\ env' = Restored(j)
  /\ Set(j, Popped(j), jobs[j].ctl)
  /\ Awaits
  /\ UNCHANGED <<cwd, lastExitCode, exitRequested, submitted>>

\* A call of Shell.execute ends; an exception ends here.
\* Mutant: it does not.
SettledUncaught(j) == Doing(j) = "return"
Settled(j) == Doing(j) \in {"return", "throw"}

LeaveShell(j) ==
  LET code == IF Doing(j) = "throw" THEN 1 ELSE Code(j)
      sourced == Len(jobs[j].stack) > 1
  IN  /\ MayRun(j) /\ Settled(j) /\ Top(j).in = "shell"
      /\ lastExitCode' = code
      /\ Set(j, Popped(j), IF ~sourced THEN Done(code) ELSE Returning(code))
      /\ Awaits
      /\ UNCHANGED <<cwd, env, exitRequested, submitted>>

LeaveBackground(j) ==
  /\ MayRun(j) /\ Doing(j) \in {"return", "throw"} /\ Top(j).in = "background"
  /\ Set(j, Popped(j), Done(IF Doing(j) = "throw" THEN 1 ELSE Code(j)))
  /\ Awaits
  /\ UNCHANGED <<cwd, env, lastExitCode, exitRequested, submitted>>

\* An exception leaves the other frames.
Unwind(j) ==
  /\ MayRun(j) /\ Doing(j) = "throw" /\ Top(j).in \in {"sequence", "pipeline"}
  /\ Set(j, Popped(j), Throwing)
  /\ Awaits
  /\ UNCHANGED <<cwd, env, lastExitCode, exitRequested, submitted>>

Step(j) ==
  \/ EnterPipeline(j) \/ EnterSequence(j) \/ EnterSubshell(j) \/ EnterBackground(j)
  \/ EnterMissing(j) \/ EnterExternal(j) \/ EnterBuiltin(j) \/ EnterLastBuiltin(j) \/ EnterSource(j)
  \/ \E code \in {0, 1, 126} : ExternalReturns(j, code)
  \/ ReturnToSequence(j) \/ ReturnToPipeline(j) \/ LeaveSubshell(j) \/ LeaveShell(j)
  \/ LeaveBackground(j) \/ Unwind(j)

Next == (\E line \in Lines : Submit(line)) \/ \E j \in 1 .. Len(jobs) : Step(j)

MaxJobs == 2 * MaxLines
Fairness == \A j \in 1 .. MaxJobs : WF_vars(j \in 1 .. Len(jobs) /\ Step(j))
Spec == Init /\ [][Next]_vars /\ Fairness

-----------------------------------------------------------------------------
(***************************************************************************)
(* Correctness.                                                            *)
(***************************************************************************)
\* Every variable keeps its type, and only a job in flight has the thread.
TypeOK ==
  /\ cwd \in Dirs /\ env["PWD"] \in Dirs /\ DOMAIN env = Variables
  /\ lastExitCode \in {0, 1, 2, 3, 126, 127}
  /\ Len(jobs) <= MaxJobs /\ submitted \in 0 .. MaxLines
  /\ thread \in InFlight \cup {0}
  /\ \A j \in 1 .. Len(jobs) : Doing(j) = "done" <=> jobs[j].stack = << >>

\* What a tree may do: the commands it runs, with their codes, and the code it
\* returns or Thrown.  Where cd - leads is for the lines that run beside to say,
\* which share OLDPWD; every other builtin has its code.
Thrown == 256
Codes(n) == IF n.cmd = "external" THEN IF n.redirect = "bad" THEN {126} ELSE {0, 1, 126}
            ELSE IF n.cmd = "missing" THEN {127}
            ELSE IF n.cmd = "cd" /\ n.arg = "-" THEN {0, 1} ELSE {BuiltinCode(n)}
Ends(n, code) == IF n.redirect = "bad" /\ n.cmd \in Builtins THEN Thrown ELSE code

RECURSIVE Runs(_), PipeRuns(_, _)
Then(first, rest) == [trace |-> first.trace \o rest.trace, end |-> rest.end]
Runs(n) ==
  CASE n.type = "command" /\ n.cmd = "source" ->
         {[r EXCEPT !.end = IF @ = Thrown THEN 1 ELSE @] : r \in Runs(Script[n.arg].tree)}
    [] n.type = "command" -> {[trace |-> << <<n.cmd, n.arg, c>> >>, end |-> Ends(n, c)] : c \in Codes(n)}
    [] n.type = "subshell" -> Runs(n.body)
    [] n.type = "background" -> {[trace |-> << >>, end |-> 0]}
    [] n.type = "pipeline" -> PipeRuns(n.commands, 1)
    [] n.type = "sequence" ->
         LET goes == {r \in Runs(n.left) : /\ r.end # Thrown
                                           /\ (n.operator = "&&" => r.end = 0)
                                           /\ (n.operator = "||" => r.end # 0)}
         IN  (Runs(n.left) \ goes) \cup {Then(r, q) : r \in goes, q \in Runs(n.right)}
PipeRuns(commands, i) ==
  LET c == IF PipeEnters(commands, i).does = "enterLast"
             THEN [commands[i] EXCEPT !.redirect = "none"] ELSE commands[i]
      throws == {r \in Runs(c) : r.end = Thrown}
  IN  IF i = Len(commands) THEN Runs(c)
      ELSE throws \cup {Then(r, q) : r \in Runs(c) \ throws, q \in PipeRuns(commands, i + 1)}

\* A line runs the commands its tree stands for, in their order and no others,
\* and returns the code of the last, whatever runs beside it: what a line beside
\* it does to the shell it shares never decides which command comes next.
LinesRunAsMeant ==
  \A j \in 1 .. Len(jobs) : Doing(j) = "done" =>
    \E r \in Runs(jobs[j].tree) :
      r.trace = jobs[j].trace /\ jobs[j].ctl.code = IF r.end = Thrown THEN 1 ELSE r.end

\* Does a tree run one of these commands, in or outside a subshell?
RECURSIVE Has(_, _, _)
Has(n, cmds, inside) ==
  CASE n.type = "command" /\ n.cmd = "source" ->
         (Script[n.arg].assigns /\ "export" \in cmds) \/ Has(Script[n.arg].tree, cmds, inside)
    [] n.type = "command" -> n.cmd \in cmds
    [] n.type = "subshell" -> "(" \in cmds \/ (inside /\ Has(n.body, cmds, inside))
    [] n.type = "background" -> Has(n.command, cmds, inside)
    [] n.type = "pipeline" -> \E i \in 1 .. Len(n.commands) : Has(n.commands[i], cmds, inside)
    [] n.type = "sequence" -> Has(n.left, cmds, inside) \/ Has(n.right, cmds, inside)

\* A line that ran alone, from its submission until it was done.
RanAlone(j) == Len(jobs) = j /\ Doing(j) = "done" /\ jobs[j].alone

\* If no other line runs beside, assignments in a subshell do not reach the shell,
\* also when the line fails half-way, in a file that is sourced or in a subshell
\* within.  (If one does, it loses what it has exported meanwhile: the subshell
\* puts the whole environment back, executor.ts:309-312.)
SubshellKeepsEnv ==
  \A j \in 1 .. Len(jobs) :
    RanAlone(j) /\ ~Has(jobs[j].tree, {"export", "unset"}, FALSE) => env["X"] = jobs[j].before.env["X"]

\* PWD is the working directory as long as lines run one after the other and
\* without subshells.
PwdIsCwd ==
  (\A j \in 1 .. Len(jobs) : jobs[j].alone /\ ~Has(jobs[j].tree, {"("}, TRUE)) /\ thread = 0 =>
     env["PWD"] = cwd

\* Lines that run side by side each run their own commands with their own result;
\* and lines that run one after the other find the environment as the line before
\* has left it, PWD with it, without what its subshells assigned (Executor,
\* builtins).  The directory and the environment of lines side by side are one and
\* the same: nothing is promised of them, nor of a cd in a subshell.
ShellKeepsLines ==
  /\ TypeOK
  /\ LinesRunAsMeant
  /\ SubshellKeepsEnv /\ PwdIsCwd

\* executor.ts:300: changes inside the subshell don't affect the parent.
SubshellKeepsCwd ==
  \A j \in 1 .. Len(jobs) :
    RanAlone(j) /\ ~Has(jobs[j].tree, {"cd"}, FALSE) => cwd = jobs[j].before.cwd

\* Every line returns.
EveryLineReturns ==
  \A j \in 1 .. MaxJobs : j \in InFlight ~> j \notin InFlight
=============================================================================
