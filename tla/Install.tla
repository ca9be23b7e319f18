------------------------------ MODULE Install ------------------------------
(***************************************************************************)
(* npm commands in one project: install, uninstall and npx, which share    *)
(* package.json, the lockfile and node_modules in the file system.  A      *)
(* command runs from one await to the next; others may run in between, and *)
(* the process of a command may be killed at any of them.                  *)
(*                                                                         *)
(* Outside the repository: the registry, where versions are published, and *)
(* which may fail to answer or send a tarball that cannot be unpacked; the *)
(* scripts of packages.                                                    *)
(***************************************************************************)
EXTENDS Naturals, FiniteSets

CONSTANTS
  Packages,        \* packages
  Needs,        \* Needs[n]: the packages n depends on, itself and theirs included
  Scripted,     \* the packages with an install script
  MaxCmds,      \* bound on the commands, which are numbered as they are started
  MaxUnderWay,  \* bound on the commands that are under way together
  MaxVersion,   \* bound on the versions published
  MaxKills,     \* bound on the commands killed
  MaxFails      \* bound on the failures of the registry and its tarballs

ASSUME InstallAssumption ==
  /\ MaxVersion \in Nat \ {0} /\ MaxCmds \in Nat /\ MaxUnderWay \in Nat /\ MaxKills \in Nat /\ MaxFails \in Nat
  /\ Scripted \subseteq Packages
  /\ \A n \in Packages : n \in Needs[n] /\ Needs[n] \subseteq Packages
  /\ \A n \in Packages, m \in Packages : m \in Needs[n] => Needs[m] \subseteq Needs[n]

Cmds == 1 .. MaxCmds

VARIABLES
  latest,       \* the latest version of each package in the registry
  packageJson,  \* the dependencies package.json lists
  lock,         \* package-lock.json: the version of each package, 0 if it lists none
  modules,      \* node_modules: the version of package.json and of the rest
  bins,         \* node_modules/.bin
  cmd,          \* the commands
  scripts,      \* the install scripts each command waits for
  kills, fails, \* commands killed, failures of the registry
  torn          \* history: packages half unpacked when that failed or was killed, or
                \* written by two at once, and not unpacked anew since

installVars == <<latest, packageJson, lock, modules, bins, cmd, scripts, kills, fails, torn>>
files == <<packageJson, lock, modules, bins>>

NoVersions == [n \in Packages |-> 0]
Missing == [json |-> 0, rest |-> 0]

\* A command: what it was called for, where it is, the dependencies it has read,
\* the version it plans for each package, what became of each package, the
\* scripts left.  History: the lockfile it found, and whether it ran alone.
Idle == [op |-> "none", name |-> {}, pc |-> "idle", deps |-> {}, plan |-> NoVersions,
         pkg |-> [n \in Packages |-> "skip"], jsonFirst |-> [n \in Packages |-> TRUE],
         left |-> {}, code |-> 0, found |-> NoVersions, alone |-> TRUE]

InstallInit ==
  /\ latest = [n \in Packages |-> 1]
  /\ packageJson \in SUBSET Packages
  /\ lock = NoVersions
  /\ modules = [n \in Packages |-> Missing]
  /\ bins = {}
  /\ cmd = [c \in Cmds |-> Idle]
  /\ scripts = [c \in Cmds |-> {}]
  /\ kills = 0 /\ fails = 0 /\ torn = {}

-----------------------------------------------------------------------------
CmdGoes(c, s) == cmd' = [cmd EXCEPT ![c] = s]
UnderWay(c) == cmd[c].pc \notin {"idle", "done", "killed"}
Listed == {n \in Packages : lock[n] # 0}

\* isLockfileValid(): every dependency has an entry.
LockfileValid(deps) == lock # NoVersions /\ deps \subseteq Listed

\* What a plan makes of the packages: those at their version are left alone, the
\* others fetched.
\* Mutant: a package that is there is left alone, whatever its version.
InstalledAny(n, v) == modules[n].json # 0
Installed(n, v) == modules[n].json = v
Fetching(plan) == [n \in Packages |-> IF plan[n] = 0 \/ Installed(n, plan[n]) THEN "skip" ELSE "fetch"]

Installing(s, deps, plan) ==
  [s EXCEPT !.pc = "packages", !.deps = deps, !.plan = plan, !.pkg = Fetching(plan)]

\* From package.json to the first await: there is nothing to do, or the lockfile
\* is used, or the dependencies have to be resolved.  A resolution begun for a
\* stale lockfile is begun again when it fails.
\* Mutant: the lockfile is not looked at.
UsesLockfileNever(named, deps) == FALSE
UsesLockfile(named, deps) == ~named /\ LockfileValid(deps)

Proceeding(s, named, deps) ==
  IF deps = {} THEN [s EXCEPT !.pc = "done", !.deps = deps]
  ELSE IF UsesLockfile(named, deps) THEN Installing(s, deps, lock)
  ELSE [s EXCEPT !.pc = IF ~named /\ lock # NoVersions THEN "resolveStale" ELSE "resolve", !.deps = deps]

-----------------------------------------------------------------------------
(***************************************************************************)
(* Commands.                                                               *)
(***************************************************************************)
Publish(n) ==
  /\ latest[n] < MaxVersion
  /\ latest' = [latest EXCEPT ![n] = @ + 1]
  /\ UNCHANGED <<files, cmd, scripts, kills, fails, torn>>


\* From here on no command that is under way runs alone, and nothing is asked of
\* those that have ended.
Called(op, names) == [Idle EXCEPT !.op = op, !.name = names]
Starts(c, s) ==
  LET others == {d \in Cmds \ {c} : UnderWay(d)} IN
  /\ cmd[c].pc = "idle" /\ \A d \in 1 .. c - 1 : cmd[d].pc # "idle"
  /\ Cardinality(others) < MaxUnderWay
  /\ cmd' = [d \in Cmds |->
               IF d = c THEN [s EXCEPT !.found = lock, !.alone = others = {}]
               ELSE IF UnderWay(d) THEN [cmd[d] EXCEPT !.alone = FALSE]
               ELSE [Idle EXCEPT !.pc = cmd[d].pc, !.alone = FALSE]]

\* npm install, with the package.json of this moment.
Install(c) ==
  /\ Starts(c, Proceeding(Called("install", {}), FALSE, packageJson))
  /\ UNCHANGED <<latest, files, scripts, kills, fails, torn>>

\* npm install n: package.json is read, then the metadata of n awaited.
InstallNamed(c, n) ==
  /\ Starts(c, [Called("install", {n}) EXCEPT !.pc = "metadata", !.deps = packageJson])
  /\ UNCHANGED <<latest, files, scripts, kills, fails, torn>>

\* npx n: installs n unless there is a link that leads somewhere.
Npx(c, n) ==
  /\ Starts(c, IF n \in bins /\ modules[n].rest # 0 THEN [Called("npx", {n}) EXCEPT !.pc = "spawn"]
               ELSE [Called("npx", {n}) EXCEPT !.pc = "metadata", !.deps = packageJson])
  /\ UNCHANGED <<latest, files, scripts, kills, fails, torn>>

\* Is a command in the middle of unpacking n?
Halfway(c, n) == cmd[c].pc = "packages" /\ cmd[c].pkg[n] = "half"
Torn(n) == torn \cup (IF \E c \in Cmds : Halfway(c, n) THEN {n} ELSE {})
Removed(n) == IF \E c \in Cmds : Halfway(c, n) THEN torn \cup {n} ELSE torn \ {n}
Mended(c, n) == IF cmd[c].alone THEN torn \ {n} ELSE torn

\* npm uninstall n, without an await.  The lockfile keeps n, and .bin its link.
Uninstall(c, n) ==
  /\ packageJson' = packageJson \ {n}
  /\ modules' = [modules EXCEPT ![n] = Missing]
  /\ Starts(c, [Called("uninstall", {n}) EXCEPT !.pc = "done"])
  /\ torn' = Removed(n)
  /\ UNCHANGED <<latest, lock, bins, scripts, kills, fails>>

\* The package.json that was read comes back with n added: nothing that was
\* written in between survives.
\* Mutant: it is not written.
WrittenNot(deps) == packageJson
Written(deps) == deps

NamedArrives(c) ==
  LET deps == cmd[c].deps \cup cmd[c].name IN
  /\ cmd[c].pc = "metadata"
  /\ packageJson' = Written(deps)
  /\ CmdGoes(c, Proceeding(cmd[c], TRUE, deps))
  /\ UNCHANGED <<latest, lock, modules, bins, scripts, kills, fails, torn>>

\* The registry does not answer: metadata and resolution fail the command, a
\* tarball only the package.
RegistryFails(c) ==
  /\ fails < MaxFails
  /\ fails' = fails + 1
  /\ \/ /\ cmd[c].pc \in {"metadata", "resolve"}
        /\ CmdGoes(c, [cmd[c] EXCEPT !.pc = "done", !.code = 1])
     \/ /\ cmd[c].pc = "resolveStale"
        /\ CmdGoes(c, [cmd[c] EXCEPT !.pc = "resolve"])
     \/ \E n \in Packages : /\ cmd[c].pc = "packages" /\ cmd[c].pkg[n] = "fetch"
                            /\ CmdGoes(c, [cmd[c] EXCEPT !.pkg[n] = "failed"])
  /\ UNCHANGED <<latest, files, scripts, kills, torn>>

Resolved(deps) == [n \in Packages |-> IF \E d \in deps : n \in Needs[d] THEN latest[n] ELSE 0]

ResolveArrives(c) ==
  /\ cmd[c].pc \in {"resolve", "resolveStale"}
  /\ CmdGoes(c, Installing(cmd[c], cmd[c].deps, Resolved(cmd[c].deps)))
  /\ UNCHANGED <<latest, files, scripts, kills, fails, torn>>

\* Mutant: the tar is cut off one block early.
RestOfCut(c, n) == modules[n].rest
RestOf(c, n) == cmd[c].plan[n]

\* The tarball of a package comes: its files are written one by one, package.json
\* first or not, with awaits between them.
UnpackFirst(c, n, jsonFirst) ==
  /\ cmd[c].pc = "packages" /\ cmd[c].pkg[n] = "fetch"
  /\ modules' = IF jsonFirst THEN [modules EXCEPT ![n].json = cmd[c].plan[n]]
                ELSE [modules EXCEPT ![n].rest = RestOf(c, n)]
  /\ CmdGoes(c, [cmd[c] EXCEPT !.pkg[n] = "half", !.jsonFirst[n] = jsonFirst])
  /\ torn' = Torn(n)
  /\ UNCHANGED <<latest, packageJson, lock, bins, scripts, kills, fails>>

UnpackSecond(c, n) ==
  /\ cmd[c].pc = "packages" /\ cmd[c].pkg[n] = "half"
  /\ modules' = IF cmd[c].jsonFirst[n] THEN [modules EXCEPT ![n].rest = RestOf(c, n)]
                ELSE [modules EXCEPT ![n].json = cmd[c].plan[n]]
  /\ CmdGoes(c, [cmd[c] EXCEPT !.pkg[n] = "done"])
  /\ torn' = Mended(c, n)
  /\ UNCHANGED <<latest, packageJson, lock, bins, scripts, kills, fails>>

\* Or the rest cannot be written.  The package fails, the command does not, and what
\* was written stays: if package.json is there, every later command takes the package
\* for installed.
UnpackFails(c, n) ==
  /\ cmd[c].pc = "packages" /\ cmd[c].pkg[n] = "half"
  /\ fails < MaxFails
  /\ fails' = fails + 1
  /\ CmdGoes(c, [cmd[c] EXCEPT !.pkg[n] = "failed"])
  /\ torn' = torn \cup {n}
  /\ UNCHANGED <<latest, files, scripts, kills>>

\* All packages are there, or have failed: links, lockfile, scripts.
\* Mutant: only what was installed is written to the lockfile.
LockedInstalled(c) == [n \in Packages |-> IF cmd[c].pkg[n] = "failed" THEN 0 ELSE cmd[c].plan[n]]
Locked(c) == cmd[c].plan
PlannedBy(c) == {n \in Packages : cmd[c].plan[n] # 0}
HasJson(n) == modules[n].json # 0

PackagesDone(c) ==
  /\ cmd[c].pc = "packages" /\ \A n \in Packages : cmd[c].pkg[n] \in {"skip", "done", "failed"}
  /\ bins' = bins \cup PlannedBy(c)
  /\ lock' = Locked(c)
  /\ CmdGoes(c, [cmd[c] EXCEPT !.pc = "scripts", !.left = PlannedBy(c) \cap Scripted])
  /\ UNCHANGED <<latest, packageJson, modules, scripts, kills, fails, torn>>


\* Scripts run one after the other; their failures count for nothing.
\* Mutant: they are all started.
NextScriptAny(c, n) == cmd[c].pc = "scripts" /\ n \in cmd[c].left
NextScript(c, n) == cmd[c].pc = "scripts" /\ n \in cmd[c].left /\ scripts[c] = {}

StartScript(c, n) ==
  /\ NextScript(c, n)
  /\ CmdGoes(c, [cmd[c] EXCEPT !.left = @ \ {n}])
  /\ scripts' = [scripts EXCEPT ![c] = IF HasJson(n) THEN @ \cup {n} ELSE @]
  /\ UNCHANGED <<latest, files, kills, fails, torn>>

\* A script exits, with whatever code.  It may also hang: then the time-out ends
\* the wait.  The script runs on, and nobody waits for it any longer.
\* Mutant: there is no time-out.
TimedOutNever(c) == scripts[c]
TimedOut(c) == {}

ScriptTimesOut(c) ==
  /\ scripts[c] # {}
  /\ scripts' = [scripts EXCEPT ![c] = TimedOut(c)]
  /\ UNCHANGED <<latest, files, cmd, kills, fails, torn>>

ScriptExits(c) ==
  /\ \E n \in scripts[c] : scripts' = [scripts EXCEPT ![c] = @ \ {n}]
  /\ UNCHANGED <<latest, files, cmd, kills, fails, torn>>

\* Mutant: the last script is not awaited.
AllRunUnawaited(c) == cmd[c].left = {}
AllRun(c) == cmd[c].left = {} /\ scripts[c] = {}

\* npx goes on to spawn the binary; the others are done.
ScriptsDone(c) ==
  /\ cmd[c].pc = "scripts" /\ AllRun(c)
  /\ CmdGoes(c, [cmd[c] EXCEPT !.pc = IF cmd[c].op = "npx" THEN "spawn" ELSE "done"])
  /\ UNCHANGED <<latest, files, scripts, kills, fails, torn>>

\* npx: the package may be missing after all; otherwise its code is returned.
Spawn(c) ==
  /\ cmd[c].pc = "spawn"
  /\ \E n \in cmd[c].name, code \in {0, 1} :
       /\ modules[n].json = 0 => code = 1
       /\ CmdGoes(c, [cmd[c] EXCEPT !.pc = "done", !.code = code])
  /\ UNCHANGED <<latest, files, scripts, kills, fails, torn>>

\* The process of the command is killed; what it has written stays.
Kill(c) ==
  /\ UnderWay(c) /\ kills < MaxKills
  /\ kills' = kills + 1
  /\ scripts' = [scripts EXCEPT ![c] = {}]
  /\ torn' = torn \cup {n \in Packages : Halfway(c, n)}
  /\ CmdGoes(c, [cmd[c] EXCEPT !.pc = "killed"])
  /\ UNCHANGED <<latest, files, fails>>

CmdStep(c) ==
  \/ NamedArrives(c) \/ RegistryFails(c) \/ ResolveArrives(c) \/ PackagesDone(c) \/ ScriptsDone(c) \/ Spawn(c)
  \/ ScriptTimesOut(c)
  \/ \E n \in Packages : \/ UnpackSecond(c, n) \/ UnpackFails(c, n) \/ StartScript(c, n)
                         \/ \E jsonFirst \in BOOLEAN : UnpackFirst(c, n, jsonFirst)

InstallNext ==
  \/ \E n \in Packages : Publish(n)
  \/ \E c \in Cmds : \/ Install(c) \/ CmdStep(c) \/ ScriptExits(c) \/ Kill(c)
                     \/ \E n \in Packages : InstallNamed(c, n) \/ Npx(c, n) \/ Uninstall(c, n)

InstallFairness == \A c \in Cmds : WF_installVars(CmdStep(c))
InstallSpec == InstallInit /\ [][InstallNext]_installVars /\ InstallFairness

-----------------------------------------------------------------------------
(***************************************************************************)
(* Properties.                                                             *)
(***************************************************************************)
Versions == [Packages -> 0 .. MaxVersion]

\* Every variable keeps its type; only a command in the phase of scripts waits for
\* one.
InstallTypeOK ==
  /\ latest \in Versions /\ lock \in Versions
  /\ packageJson \subseteq Packages /\ bins \subseteq Packages /\ torn \subseteq Packages
  /\ modules \in [Packages -> [json : 0 .. MaxVersion, rest : 0 .. MaxVersion]]
  /\ kills \in 0 .. MaxKills /\ fails \in 0 .. MaxFails
  /\ scripts \in [Cmds -> SUBSET Scripted]
  /\ \A c \in Cmds :
       /\ cmd[c].pc \in {"idle", "metadata", "resolve", "resolveStale", "packages", "scripts", "spawn", "done", "killed"}
       /\ scripts[c] # {} => cmd[c].pc = "scripts"
       /\ cmd[c].plan \in Versions /\ cmd[c].left \subseteq Scripted

Succeeded(c) == cmd[c].pc = "done" /\ cmd[c].code = 0 /\ cmd[c].alone

\* What a lockfile lists can be installed from it: whatever commands wrote it, together
\* or alone, the dependencies of a listed package are listed too.
LockIsClosed == \A n \in Listed : Needs[n] \subseteq Listed

\* An install reproduces the lockfile: one that finds an entry for each of its
\* dependencies leaves it as it was, whatever has been published since.
InstallReproducesLock ==
  \A c \in Cmds : Succeeded(c) /\ cmd[c].op = "install" /\ cmd[c].name = {} /\ cmd[c].found # NoVersions
                 /\ cmd[c].deps \subseteq {n \in Packages : cmd[c].found[n] # 0}
                   => lock = cmd[c].found

\* After a successful command that ran alone node_modules holds each package of its
\* plan that did not fail: its package.json is that of the planned version, whatever
\* was there before, and so is the rest of it, unless it is torn.  A torn package whose
\* package.json has the planned version is skipped (commandInstall): it stays torn until
\* another version is unpacked over it or it is uninstalled.
InstalledAsPlanned ==
  \A c \in Cmds, n \in Packages :
    Succeeded(c) /\ cmd[c].plan[n] # 0 /\ cmd[c].pkg[n] # "failed" =>
      /\ modules[n].json = cmd[c].plan[n]
      /\ n \notin torn => modules[n].rest = cmd[c].plan[n]

\* A package asked for by name is afterwards in package.json and in the lockfile.
AskedForIsListed ==
  \A c \in Cmds : Succeeded(c) /\ cmd[c].op = "install" => cmd[c].name \subseteq packageJson \cap Listed

\* A command waits for one script at a time, those of dead commands and those that
\* have timed out aside.
ScriptsInTurn == \A c \in Cmds : Cardinality(scripts[c]) <= 1

\* What a command that ends with code 0, and during which no other ran, leaves behind
\* agrees: the lockfile lists what the plan has, node_modules holds that in the planned
\* versions, package.json names what was asked for (commandInstall, generateLockfile).
\* It agrees no further: a package that failed is locked although it is missing, what
\* uninstall removes stays in the lockfile and in .bin, torn packages count as
\* installed, and of two installs at once the later package.json undoes the other.
ProjectAgrees ==
  /\ InstallTypeOK
  /\ LockIsClosed /\ InstallReproducesLock
  /\ InstalledAsPlanned /\ AskedForIsListed
  /\ ScriptsInTurn

\* A command comes to an end, although scripts may hang.
CommandEnds == \A c \in Cmds : cmd[c].op # "none" ~> cmd[c].pc \in {"done", "killed"}
=============================================================================
