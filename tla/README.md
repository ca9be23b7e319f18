# Verification of the webcontainers runtime

TLA+ specifications, TLC configurations and TLAPS proofs for the packages of
this repository: an in-browser runtime in which Node-like programs run in Web
Workers and make synchronous system calls to a kernel on the main thread. The
repository has no documentation of its own beside its comments, and tests only
for the packages `shared`, `network`, `kernel` and `vfs`; the modules are read
off the source.

## 1. The system

| Component | State | Operations | Talks to |
|---|---|---|---|
| system call bridge (`process/worker-runtime.ts`, `process/manager.ts`) | one SharedArrayBuffer per process: status word, header, payload area | `syscall`, the 1 ms interval, `dispatchSyscall`, `writeSyscallError` | worker and main thread share memory; `Atomics.wait`/`notify` |
| payload encoding (`shared/encoding.ts`) | bytes of the payload area | `encodePayload`, `decodePayload` | both ends of the bridge |
| process manager (`process/manager.ts`) | process table, `nextPid`, monitors, exit promises, stdio ports | `spawn`, `kill`, `exit`, `dispose`, message handlers, `cleanupProcess` | pool, dispatcher, workers (messages) |
| buffer pool (`kernel/memory.ts`) | free list, set of buffers in use | `allocate`, `release` | process manager |
| worker runtime (`process/worker-runtime.ts`) | the buffer it was given, exit code, the running script | `init`, `exec`, `process.exit`, callbacks | main thread |
| dispatcher (`kernel/syscall-dispatcher.ts`) | references to VFS, process manager, network | `handleSyscall` | VFS; the others only after `setProcessManager`, `setNetworkManager`, which nothing in the repository calls |
| VFS (`vfs/`) | inode table, watchers | tree operations, path resolution, `mount`, `watch` | dispatcher, shell, package manager, SDK |
| network (`network/`) | port table; handlers and pending requests of the service worker | `bind`, `unbind`, `unbindByPid`, fetch, answer, time-out | BroadcastChannel, MessagePorts, the browser |
| package manager (`package-manager/`) | plan and keys being resolved; `package.json`, lockfile, `node_modules`, `.bin` | `resolve`, install, uninstall, npx, scripts with time-out | registry (fetch), VFS, processes |
| shell (`shell/`) | working directory, environment, last exit code, background jobs | tokenizer, parser, glob, executor, builtins | processes, VFS |
| node shims (`node-shims/`) | stream buffers, listener lists, sockets, decoders | `push`, `write`, `pipe`, `emit`, `connect`, path and text helpers | microtasks, the bridge |
| SDK (`sdk/webcontainer.ts`) | exit promises, output streams, `serverReadyCallbacks` | `spawn`, `kill`, `on`, `teardown` | port table, VFS |
| scheduler (`kernel/scheduler.ts`) | queue in order of priority, whether a loop runs | `enqueue`, `dequeue`, `cancel`, `clear`, `run` | the executor of a task (await) |
| watchers (`vfs/watcher.ts`) | the registry | `watch`, its undoing, `notify`, `clear` | the facade of the VFS; callbacks |
| snapshots and boot (`vfs/persistence.ts`, `kernel/boot.ts`) | the table in the browser's storage | `saveSnapshot`, `loadSnapshot`, `boot` | VFS, storage |
| module loaders (`worker-runtime.ts`, `node-shims/module.ts`) | `moduleCache` | `require` | the bodies of modules, the bridge |
| overlay, virtual TCP, playground | | | see section 6 |

What makes these parts right, and what is hard about it:

* **Bridge.** A call is executed once and returns the outcome of its own
  execution; no wake-up is lost; every call returns. Hard: two threads, plain
  memory, a time-out, answers that do not fit.
* **Encoding.** A message is read back as it was written, in a buffer full of
  old bytes. Hard: boundaries, partial failure, and messages without data, behind
  which the old bytes stay.
* **Process manager and pool.** Every buffer is free or belongs to one running
  process; a process that is over stays over; the exit promise tells the code
  the program asked for. Hard: several cleanups of one process, messages that
  arrive late, programs that outlive their script.
* **VFS.** The inode table is a tree: every inode reachable, by one path, no
  dangling entry. Hard: rename, symbolic links, long sequences of calls.
* **Network.** Every fetch gets one answer, its own; the service worker knows
  the ports of the main thread. Hard: listeners that change the table while it
  is swept, awaits, time-outs against late answers, a worker that is stopped,
  calls of the browser that throw half-way.
* **Package manager.** A plan is complete and final when it is handed out;
  lockfile, `package.json` and `node_modules` agree as far as the code makes them
  (section 3 says where it does not). Hard: answers in any order, circles,
  failures half-way, kills, scripts that hang.
* **Shell.** A line runs the commands it stands for, beside others that share
  its state; a subshell of a line that runs alone keeps what it assigns. Hard: one
  working directory, one environment and one exit code for all lines, errors
  thrown through every kind of node.
* **Streams, emitters, sockets.** Nothing lost, nothing out of order, the end
  after the data, every close heard. Hard: tasks that are queued already when
  the program pauses, destroys or removes something.
* **SDK.** An exit promise is resolved, and a callback that was taken out is
  not called. Hard: callbacks that bind ports, throw or tear everything down.
* **Scheduler.** A task is run once, in its turn, unless it was dropped. Hard:
  calls while the loop awaits.
* **Watchers.** Who watches when a change is made is told, once. Hard: callbacks
  that watch, unwatch and change files.
* **Snapshots.** What was saved is what comes back. Hard: inode numbers are
  handed out anew, at any moment the page may be gone.
* **Module loaders.** A module is one thing for all that require it. Hard:
  circles, modules that throw or replace what they export.
* **Text.** Parser, versions, paths and decoders mean what they should for
  every input. Hard: boundaries, quotes within quotes, chunks.

`PROJECT.json` lists every component with its status and, under `hazards`, the
places where these difficulties bite and the properties that cover them.

## 2. Modules

| Module | Models |
|---|---|
| `SyscallRPC` | what a system call promises: refused, or executed once and answered with that outcome |
| `SyscallBridge` | the protocol of worker and main thread over the shared buffer; implements `SyscallRPC` |
| `PayloadCodec` | the encoding of a message, byte by byte |
| `ProcessManager` | process table, pool, monitors, workers, messages |
| `VFS` | inode table, path resolution, the operations that change the tree |
| `Network` | port table, its copy in the service worker, fetches and answers |
| `WebContainer` | the SDK: processes, microtasks, callbacks |
| `Resolver` | one resolution of a dependency tree, await by await |
| `Install` | npm commands over the files of a project |
| `Shell` | the executor, as stacks of nodes that are being run |
| `Streams`, `EventEmitter`, `Sockets` | the event-driven node shims |
| `Modules` | the caches of the two module loaders |
| `Scheduler` | the queue and the loop over it |
| `Watchers` | the registry of watchers and notifications within each other |
| `Snapshots` | saves, reloads and boots, over the operators of `VFS` |
| `ShellTokens`, `ShellParser`, `ShellGlob`, `Semver`, `NodePath`, `NodeText` | pure algorithms, as operators and functions |
| `Algorithms`, `VersionRanges` | the inputs of these, grown piece by piece, and what they promise; every version with every comparator |
| `MCSyscallBridge`, `MCVFS` | instances for TLC |
| `MCPure`, `MCNode`, `MCPage`, `MCTools` | several components side by side, see section 4 |
| `SyscallBridgeProofs` | theorems about `SyscallBridge` and `PayloadCodec` |
| `ProcessManagerProofs`, `VFSProofs`, `StreamProofs` | theorems about one module each (`Streams` for the last) |
| `InstallProofs` | theorems about `Install`, `Resolver` and `VersionRanges` |
| `NodeProofs` | theorems about `EventEmitter`, `Sockets` and `Modules` |
| `PageProofs` | theorems about `Scheduler`, `Watchers`, `WebContainer`, `Network` and `Snapshots` |
| `SequenceLemmas` | facts on numbers and sequences that several proofs need, induction and recursion among them |

An operator marked "Mutant" is the code with a plausible mistake in it; it is
used by no specification, only to see that a property would notice.

## 3. How the models correspond to the code

### SyscallBridge

State: for every process the position of its worker in `syscall()` (`pc`), the
request (`call`), what it decoded (`got`), the status word and what the payload
area would decode to; for the main thread the point reached in
`dispatchSyscall` (`host`). Every access to shared memory is an action, in the
order of the code: `EncodeRequest`, `PostRequest`, `WaitForAnswer`,
`WaitTimesOut`, `LeaveWait`, `DecodeAnswer`, `ResetStatus` for the worker;
`Tick`, `DecodeRequest`, `Dispatch`, `EncodeAnswer`, `PublishAnswer`,
`NotifyWorker` for the main thread, which runs one task at a time. Requests
that are too large (`Oversize`) and answers that are (`TextOverflow`,
`BinaryOverflow`) are sets of requests, so that an instance says which of these
cases it has. An answer that does not fit leaves half of itself where the
request was; the next tick finds it and answers with an error
(`DecodeRequest`, `Lossy`).

A payload is abstracted to what `decodePayload` makes of it: the request or the
answer its text says, and what it finds as binary data. That is not always what
was sent (encoding.ts:43-47): `encodePayload` clears nothing behind the text, so
that a message without data may be decoded with data of an older one, and data
that fills the area to its last byte is not decoded. `FateOf` says which
messages have their own data (`own`), none of what was sent (`lost`) or data of
somebody else (`old`). It is asked of requests whose handler looks at the data
(`Writes`: `binaryData ?? content`, syscall-dispatcher.ts:145, 265; `Sends`
are those that carry some) and of answers whose caller does (`Reads`, `Brings`);
`Filling` are the messages that fill the area. In a buffer that was never
written nothing old is found (`Found`).

`SyscallRPC` promises that a call is refused, or executed once, with a fate of
its data that `Arrives` allows, and answered with the outcome of that execution
and a fate `Comes` allows, or with an error where the answer is `Lossy`.

`PromptNotify` says whether the main thread can be preempted for long between
`Atomics.store` and `Atomics.notify` (manager.ts:448-449). With `TRUE` the two
are one step; with `FALSE` the worker may run in between. Nothing in the code
prevents it. A notify that comes so late may wake the next call before it is
answered; that call then takes whatever is in the buffer for its answer.
`strayed` remembers the processes to which that has happened: the properties of
payloads and answers speak of the others.

### ProcessManager

A main-thread task is one action (`Spawn`, `Kill`, `Poll`, `Deliver`), except
`dispose`, whose rounds alternate with the workers (`Dispose`, `DisposeNext`,
`DisposeDone`). A worker is `loaded` until the embedder posts `exec`, then
`running`, `waiting` in a system call, `idle` when its script has ended,
`closed` by `process.exit` or `terminated`. A system call is post, poll, wake.
`cleanupProcess` (`Cleanup`) asks only whether there is an entry, so it runs
again with every late message. Three switches describe the surroundings:
`Wired` (was `setProcessManager` called), `MayKill` (does the host kill
processes or dispose of the manager), `MayOutlive` (do programs leave timers or
handlers behind). A program that catches the throw of `process.exit` and goes
on is not modelled.

### PayloadCodec

`encodePayload` and `decodePayload` on a small buffer of small bytes: a length
word has two bytes of `Base` values instead of four of 256. The buffer is never
cleared except when the pool hands it out, so every encoding is written over
every possible remainder. `RoundTrips` is a property of each encoding: the text
comes back, and as binary data what `BinaryOf` says, byte by byte, which is the
data that was sent unless there is none or it fills the area (the fates of
`SyscallBridge`). Data that did not fit leaves its text readable without data:
that is the payload an answer leaves which could not be written.

### VFS

State: `inodes`, the table (type, entries, target; contents, modes and times do
not shape the tree), `counter`, the next inode number, and `making`, how far a
`mkdir -p` has come. The calls are synchronous and run to their end on the main
thread, so each is one action; only `mkdir -p` is a loop of steps, because it
changes the table in every turn and may fail in a later one. `Resolve` is
`resolvePath` and `Realpath` is `realpath`, as recursive functions with the
code's oddities: `resolvePath` goes on with the inode of a link after it has
followed it, so a last name below a link, or below a file, is not looked up;
the base of a link in the middle is the directory of that link. A turn of their
loops is `Segment` and `RealSegment`; how deep links are nested is the argument
of a function from depth to what paths resolve to.

`Tidy` calls are those for which the code can be right: what is removed or
moved is what the path names in the directory of its parent, nothing is moved
onto itself or below itself, `mkdir -p` meets no link that leads nowhere, and
nothing is created at the root's own path. `TreeStaysSound` says that such
calls keep the table a tree. Each condition is needed; without it the code,
with calls that succeed, does the following:

* `rename('/a', '/a')` deletes the inode and keeps its entry; `rename('/a',
  '/a/b')` detaches a cycle (operations.ts:274, 279);
* `rmdir('/l')` of a link to a directory removes the entry of the link and the
  inode of the directory (operations.ts:223-236);
* `unlink('/l/x')` where `l` is a link to a directory removes the entry `x` of
  that directory and the inode of the link (path-resolver.ts:66); `rename` does
  the like;
* `mkdir -p` over a link that leads nowhere overwrites its entry and leaves its
  inode in the table (operations.ts:195);
* `writeFile('/')` or `mkdir('/')` creates an entry with an empty name.

### Network

`Bind`, `Unbind` and the loops of `unbindByPid` and `clear` (`SweepStarts`,
`SweepVisits`, `SweepPasses`, `SweepEnds`; a `Map` being iterated visits what is
entered meanwhile) change the table; each change posts a message. Nobody in the
repository calls `notifyPortBind`; the model takes the embedder to call it from
the table's first listener. It posts a `MessagePort` over a `BroadcastChannel`,
with a transfer list (index.ts:38). Browsers do not carry ports over such a
channel: the call throws, the emitter of the table swallows that
(port-table.ts:69-73), and the service worker is never told. `carries` says
whether the host is such a browser or one (a substitute for the channel, say)
that takes the list; it is chosen at the start and `Told` is what of a binding
goes out. `WorkerNeverTold` is what `PortsAgree` says of the former: the copy of
the table stays empty, and every fetch gets its 502. In the service worker `FetchKnown` and
`ForwardToHandler` are the two sides of the await in `forwardToHandler`,
`TimerFires` is its 30 s timer, which is never cleared, `HandlePortResponse`
the answer, `FetchUnknown` the 502. An answer no `Headers` or `Response` can be
made of (a status out of range, a body with 204) throws after the request was
struck off the pending ones (service-worker.ts:38-40): the fetch is `dropped`
and gets no answer ever, its timer finding nothing. `RequestsMatch` and
`FetchAnswered` name this case; it comes only from the fetch's own server
(`DroppedByOwn`). `Stop` is the browser stopping a worker
without work; the new one starts with no ports, so that fetches get 502 until
something is bound again. Each binding has a handler of its own number, and
servers answer as often as `MaxAnswers`, late or never.

### WebContainer

`spawn` runs the process in a microtask that the executor of the exit promise
queues (`Spawn`, `RunMicrotask`), `kill` closes its output. Whoever awaits
`spawn` continues in a later microtask, so `kill` comes always after the run:
it cannot change an exit code. A binding calls the callbacks one by one
(`BindPort`, `CallReady`, `ReadyReturns`, `CallbackReturns`); in a callback the
embedder may do anything, so emissions nest.

### Resolver and Install

A call of `resolvePackage` is a record with its position; each await is a point
where the others go on. `resolving` and `resolved` are the code's two maps,
read before the await and written after it, as there. A peer's failure is
swallowed (`PeerFailed`): the calls made for it may go on after the plan was
handed out, and a hard dependency on the same key in that moment is silently
missing.

`Install` has one action per await of `npm install`, `install n`, `npx n` and
`uninstall n` over the four things they share. Every package is unpacked by a
worker of its own, its `package.json` and the rest in either order
(`UnpackFirst`, `UnpackSecond`), and may fail before (`RegistryFails`) or between
them (`UnpackFails`), which cli.ts:242 only logs; `Kill` may come at any await.
`torn` records packages that a kill or a failure left half unpacked, and those
that a second command wrote or removed while a first was half way through them: if the `package.json` that
stays is that of the planned version, cli.ts:212 takes the package for installed
ever after, and the next command, although it runs alone, does not repair it
(`Mended`: only unpacking another version over it does, or `Removed`: removing
it). Other consequences of the code
that the model shows: a failed tarball is only logged, the command succeeds and
the lockfile lists it; `uninstall` leaves the lockfile entry, so the next
install by lockfile has it again; a lockfile is valid if it names every
dependency, whatever their ranges; scripts that time out run on.

### Shell

A submitted line is a job with a stack of frames, one per node being executed,
and a control word (about to run, returning a code, throwing). One job has the
thread until it awaits an external command. The working directory an executor
uses is fixed at the start of its line; redirections of a builtin that ends a
pipeline are ignored; `exit` does not stop a line; expansions happen once per
line. Lines run side by side share environment, directory and exit code: a `cd`
of one moves the other, and the subshell of one puts back the environment as it
was, over what the other has exported since (executor.ts:309-312). So
`LinesRunAsMeant` is about the commands of a line, their codes and the result,
whatever runs beside; only the code of `cd -` is left open there, since it
depends on what lines before it did. Of environment and `PWD` something is
promised to lines that ran alone, of the directory after a `cd` in a subshell
nothing (`SubshellKeepsCwd` is false).

### Streams, EventEmitter, Sockets

`Streams` has a readable, transforms and a slow sink with the pipes between
them; every queued microtask is an element of `tasks`, and the program's calls
come between. `pipe` registers a data listener and an entry of the pipes list,
so a chunk pushed while flowing is written twice; the properties speak of order
and gaps, not of copies. Data that is buffered when `pipe` or a drain comes may
stall (`resume` finds the stream flowing and schedules nothing): `EndArrives`
excludes this state by `Stuck`. Chunks that are corked when the end comes are
refused by `end()` in spite of its comment "Flush corked writes" (stream.ts:394),
and the pipeline still reports success: `lost` counts them, and
`RefusedWereCorked` and `OkMeansWritten` say that these are all the sink has been
given and does not write.

`EventEmitter` keeps listener arrays as a heap, because `emit` holds on to the
array it began with. `Sockets` has both ends of a connection, the server and
one microtask queue; writes before `connect` are dropped, and the peer is not
told of a `destroy`. A socket may be destroyed with an error: its microtask emits
`error` before `close`, and where nobody listens to `error` that throws and `close`
is never emitted (`RunThrows`; net.ts:158-161, events.ts:137-142). `CloseIsHeard`
names this case, and the server keeps such a connection until it is closed itself.

### Modules

`shim` says which loader it is. The worker's cache maps a path to the exports
and is asked for them as a condition, so that a module which exports something
false (`falsy`) is evaluated again every time; the shim's maps it to the module
object. A script is entered before it runs (`RequireScript`), assigns
`module.exports` at any time while it runs (`AssignExports`), ends
(`ModuleEnds`; the worker enters the exports once more) or throws and is taken
out (`ModuleThrows`); JSON is entered when it has been parsed. The script of
`exec` is in no cache. Where a name leads is not modelled, nor are its oddities:
the worker's `resolveModule` returns a directory for `require('./lib')` and
never looks into `/node_modules`.

### Scheduler, Watchers

`GoesOn` is the loop of `run` up to its next await; between `Run` and each
`TaskSettles` a program enqueues and cancels. The queue is only found by its
numbers: a task that runs can no longer be cancelled.

A notification is a frame with its position in the map; the map is visited as
JavaScript does, without what was deleted and with what was entered. `due` is
whoever matched at the beginning and has not unwatched since. The prefix that a
recursive watcher of the root compares with is `//`, so it sees no more than
its own entries.

### Snapshots

`boot` runs one `mkdir -p` after the other, in turns, on a fresh table or on one
that was restored. A save takes the table in one moment (`SerializeTable`) and
replaces the file in a later one (`CloseFile`). `Reload` comes at any time, in
the middle of a save or a boot. `Restored` numbers the inodes anew while their
entries keep the numbers they were written with: with gaps in the numbers, left
by a removal, the tree that comes back is another one. `scrambled` says that
this has happened; from then on nothing is promised.

### The pure algorithms

`ShellParser` is the recursive descent with one operator per rule; the
recursion from a command back to a list goes through a function over positions.
It is compared with the grammar of the comments in parser.ts, read as a set of
token sequences. `ShellTokens` (tokenizer and `expandVariables`) and `NodeText`
fold a state over characters as the loops do. An expansion returns a text and an
environment, because `${X:=v}` assigns; it is compared with what each reference
stands for, `$?` and the modifiers `:-`, `:+` and `:=` included, in the environment those before
it have left (`ReferencesStand`). A readline interface decodes each chunk of bytes
by itself (`TextOf`, readline.ts:58), so that a character cut between two chunks is
replaced, as many times as there are pieces of it; `LinesAreWhole` says what lines
come out of that. A parsed query is an object that inherits names (`Inherited`) and
takes no more than `maxKeys` pairs (`Limit`). `ShellGlob` matches segment by
segment, `Semver` compares and matches versions that are taken apart already,
`NodePath` works on sequences of characters.

Oddities that are modelled as they are: a prerelease tag with an `x` in it is
read as a wildcard; `~1.2.3` accepts `1.2.3-alpha`; `^0.0` means `0.0.0` only;
`path.resolve` keeps a trailing slash; an apostrophe in double quotes switches
the state of `expandVariables`, so that text in single quotes behind it is expanded
(`Misread`, shell.ts:279-290); `a & b` is a syntax error; `#` ends a word;
`**/**` finds paths twice and `**` enters hidden directories.

## 4. What TLC checks

| Run | Shows | Distinct states |
|---|---|---|
| `bridge` | two workers, four requests: a text, one whose answer is too long, one whose binary answer is, one too large itself. The abstract call is implemented, with what becomes of binary data (`ImplementsRPC`), payload and wait alternate (`TurnsAlternate`), every call returns | @bridge@ |
| `bridge_stray` | one worker, store and notify separated, eight requests, with and without data and with data that fills the area: no wake-up is lost, every call ends; until a late notify has woken the process, its calls are executed once, return their own outcome and work on their own data where `FateOf` says so (`CallsExecutedOnce`) | @bridge_stray@ |
| `manager` | two processes, one buffer in the pool, all switches on: pool and ownership (`BuffersAccounted`), monitors and promises against the table (`TableAgrees`), whose calls are in a buffer (`CallsStayOwn`), what code is reported (`CodesHonoured`), no revival | @manager@ |
| `manager_quiet` | three processes over two buffers, all switches off: calls return, exits resolve | @manager_quiet@ |
| `vfs` | all sequences of calls over four inodes, links that chain, loop or lead nowhere: tidy calls keep the tree, numbers are not reused, `realpath` returns paths without links, the two resolvers agree as long as links lead to files | @vfs@ |
| `pure` | all inputs within bounds: messages over each other's remains (`RoundTrips`), lines through expansion, tokenizer, parser and glob (`ShellReadsText`), versions (`VersionsInRanges`), paths, chunks of text and bytes, lines and queries (`TextSurvives`) | @pure@ |
| `node` | a pipeline of three streams with a slow sink; listeners that add, remove and emit within two levels; a connection opened, used and destroyed from both sides; two scripts and a JSON file that require each other, in four evaluations, under both loaders. The end of a stream arrives, every close is heard (`NodeHears`) | @node@ |
| `page` | two ports, two processes, two fetches, one stop of the service worker; one process and two callbacks that nest twice; five tasks; two watchers of three paths within each other and two changes; saves, reloads and boots over two inodes beside the root. Fetches are answered, promises resolved and tasks run (`PageFinishes`) | @page@ |
| `tools` | two lines of every kind of node in one shell; resolutions over circles, peers, conflicts and failures; two npm commands with publications and a failure of the registry or a kill, one after the other; three that overlap by two, and what one that runs alone makes of the files they leave (`ProjectAgrees`). Lines, resolutions and commands come to their end (`ToolsFinish`) | @tools@ |

Three runs end in a violation, each of something a comment says; `PROJECT.json`
quotes it under `findings`: `bridge_preempted`, `manager_outlive`,
`resolver_conflict`. Further disagreements have a definition in the modules but
no run: `ErrorMeansFailed` (manager.ts:442), `SubshellKeepsCwd` (executor.ts:300),
`EmitDropsOnlyCalled` (events.ts:154), `RecursiveSeesBelow` (watcher.ts:51, for
the root), `TreeOverAllReloads` (persistence.ts:200, against the comment on
line 63). Others are named in a property, which allows them and nothing else:

| What the code does | Where | Named |
|---|---|---|
| data of an older message is found behind one without data; data that fills the area is not found | encoding.ts:43-47 | `DataIsOwn`, `BinaryOf` |
| a late notify wakes the next call | worker-runtime.ts:195 | `strayed` |
| the code a process exits with is lost: it was killed, or the wired dispatcher freed its buffer | syscall-dispatcher.ts:108 | `ExitLost` |
| a port is never made known to the service worker | index.ts:38 | `carries` |
| a fetch is never answered | service-worker.ts:38-40 | `dropped` |
| a package stays torn | cli.ts:213, 242 | `torn` |
| corked chunks are lost by `end()` | stream.ts:394 | `lost` |
| `close` of a socket is never emitted | net.ts:158-161 | `unheard` |
| a variable between single quotes is expanded | shell.ts:279-290 | `Misread` |
| the last answer decides a version | resolver.ts:94, 151 | `Agree` |

Nothing settles the exit promise of a killed process.

**Side by side.** `MCPure`, `MCNode`, `MCPage` and `MCTools` hold components
that share no state. A behaviour chooses one at its start (`focus`) and leaves
the others alone, so the states add up and do not multiply, and each fairness
condition is that of the component's own specification, restricted to its
focus. Several conjuncts of an invariant are named together, for instance
`PortsAgree`; the parts have names and comments of their own.

**Bounds.** Two processes with their own buffers interact only through the one
main thread, so two suffice to interleave; the requests give one of every
class (what a request does with data is its own business, so the classes with
data are left to the run with one process). Two spawns with a pool of one give a buffer that is created and one that
is reused; three give one that is reused twice. `MaxPid` bounds spawns,
`MaxInbox` the uncaught errors queued from one worker. In the codec the area
has nine bytes, which texts and data of up to six bytes fill exactly, overfill
by one or leave one free. In the file system, three inodes beside the root make
a directory in a directory with an entry, or two directories and a link between
them; paths have one or two names, and one has three, for a link in the middle.
The root's path is left out of the run, which it would make many times larger,
and is covered by the theorems. `MaxSymlinkDepth` is 4 instead of 40: with at
most three links a longer chain is a loop. Two bindings (`MaxBinds`) let a
listener bind in reply to an unbinding; one message under way (`MaxChannel`)
leaves the worker behind the table. Two chunks and a high water mark of two
fill the sink; three listeners (`MaxAdds`) make one that is added while two are
called. Six tokens make two commands with an operator and a redirection or a
subshell with one. Commands of npm either follow each other, with two
packages of which one needs the other, or overlap by two (`MaxUnderWay`), with
one package and neither npx, failures nor kills (`Following`, `Overlapping` in
`MCTools`): two that overlap lose each other's updates of `package.json` and the
lockfile, since both write back what they read before an await. The properties
ask only of commands that ran alone, but these find what the others have left;
three commands are enough for two that overlap and one after them. Lines are a
fixed set with every kind of node within every other. Five tasks of three priorities are enough for a queue with one more on each
side of a newcomer while another is awaited; of two watchers one unwatches or
enters the other while a notification is at either; with the standard directory
and one inode more, numbers get a gap, a saved table differs from the live one,
and a reload comes between the turns of a boot. Four evaluations make a circle
of two modules of which one fails and is evaluated again.

**Fairness.** A worker that is not blocked runs on (threads are scheduled); a
main-thread task runs to its end; an interval fires again and again whatever
the others do (strong fairness of `Tick`, since another process's task may be
running whenever it becomes due). Nothing makes a program call, kill or exit,
and no property relies on the 5000 ms time-out. In `ProcessManager` messages
are delivered, intervals fire, a worker whose status word has changed wakes up,
and the loop of `dispose` runs to its end. In `Network` messages arrive, bodies
are read, timers fire and loops go on; servers need not answer. Microtasks run
when the stack is empty (`WebContainer`: strong fairness, since the embedder
may bind ports in between; `Streams` and `Sockets`: weak). A write of the sink
completes or fails. A resolution's and an npm command's awaits come back, with
an answer or an error, and scripts time out; commands of the shell return. The
executor of a task settles (`TaskSettles`). `VFS` has no liveness property: its
calls end by themselves.

## 5. What is proved

For all values of the constants that satisfy the modules' `ASSUME`s:

* `SyscallBridgeProofs`: type correctness and `NoLostWakeup` without further
  hypotheses; `TurnsAlternate` and `CallsExecutedOnce`, whatever fits or
  overflows and whenever notifies arrive, for the processes that no late notify
  has woken; the refinement `ImplementsRPC` of every behaviour in which it wakes
  nobody. `NeverStrayed` says that these are all behaviours if `PromptNotify`; that
  something must be assumed is shown by `bridge_preempted`. The inductive
  invariant ties the position of the worker to that of the main thread: while
  the main thread serves `p`, the worker of `p` is in its wait with the status
  REQUEST, and the payload holds the request until it holds its answer, with its
  data or with what the encoding made of it.
* `SyscallBridgeProofs`, codec: `RoundTrips`, for any base of the bytes, size of
  the area, texts, data and remains of earlier messages. A length word holds a
  length below `Base * Base` in two digits, and the text and the data lie behind
  their lengths without overlapping: so the text comes back, and the data if it
  ends before the last byte. What data is found behind a text that came without is
  a matter of the bytes there, which the encoder leaves as they are.
* `ProcessManagerProofs`: type correctness, `BuffersAccounted`, `TableAgrees`
  and the action property `NeverRevived`, for every setting of the switches.
  `PoolSound` is not inductive alone: that a release is safe depends on
  `BufferOwnership` and on an entry having a buffer exactly while its process
  runs (`SabIffRunning`); that a spawn is safe depends on pids being new
  (`Fresh`); that a cleanup stores a code depends on exits carrying one
  (`ExitsHaveCodes`). Also for every setting `CallsStayOwn` and `CodesHonoured`,
  which say what kills, the wired dispatcher and programs that outlive their script
  may do and no more: a call in the buffer of a waiting process is its own, or of a
  process that is over and had that buffer; the code of a process that was killed,
  or whose buffer went to another before its answer, may be lost (`ExitLost`).
  Of two workers that had one buffer the process of the first is over (`Place`), what
  is in a buffer was written by a worker that had it (`Content`), and nothing wipes
  the buffer of a process that runs and waits (`Held`). A script is heard of once
  (`Untold`), and the code it gave is in the buffer, in a message or told (`Kept`).
* `VFSProofs`, for any names, paths, targets and number of inodes: type
  correctness, `NeverReused`, and `TreeStaysSound`. What a path resolves to is
  a black box for these: a call is tidy by what it finds in the table. The
  invariant needed is only that numbers not handed out yet name no inode. The
  argument for `NoCycle`: every set of inodes has one that no member names;
  `rename` keeps that because a set is either inside the moved subtree, where
  nothing gains an entry, or has a part outside, which the subtree does not
  name.
* `VFSProofs`, paths: `PathsResolve`, for any depth of links. A turn of `realpath`
  keeps to directories, and goes on from where a link leads (`Reals`), so its
  result is real by induction over the names and over the depth that is left.
  That `resolvePath` finds the same goes down in depth: a link in the middle of
  a path would lead to a directory, which the hypothesis that links lead to
  files excludes, if only it were resolved as deep as on its own; it is, because
  what is found at one depth is found at any smaller one (`Shallow`). The
  invariant needed is that a link has a target and the root is none (`Linked`).
* `PageProofs`, ports: `RequestsMatch`, for any number of ports, processes,
  fetches, answers and stops. That an answer belongs to the fetch it settles is
  not inductive: it needs that the ids of fetches the worker knows of are apart
  (`IdsApart`), that every request and every reply at a handler names the fetch
  that is pending under its id, if one is, and that no fetch which still reads
  its body is going to use that id (`OwnMessage`). And `PortsAgree`: the last
  message under way about a port carries the handler the table has for it, and
  where there is none the worker has it already (`TableTold`); the messages about a
  port bind and unbind it in turns, from what the worker holds (`InTurns`); a
  loop over the table has bound ports ahead of it (`LeftIsBound`), so that it
  sends no second unbinding for what a listener has removed. On a host whose
  channel carries no ports only unbindings are under way (`Untold`), so no fetch
  ever waits. That a fetch is dropped by its own server only (`DroppedByOwn`)
  needs that the pending request and the reply agree on the fetch.
* `NodeProofs`, modules: `ModulesAreShared`, for any scripts, JSON files and number
  of evaluations, under both loaders. That a module is not evaluated twice is
  not inductive: it needs that an evaluation which has not failed is the one
  the cache names, unless it exported something false in the worker
  (`OthersAreOver`), that a module which runs is in the cache with the object
  it was given (`OwnWhileRunning`), and that an entry of a module that is done
  holds what it exports in the end (`EntriesAreFinal`).
* `NodeProofs`, events: `ListenersAgree` and the action property
  `EmitDropsOnlyCalledUnlessStale`, for any events, listeners and nesting. An
  emission walks the array it found, which may meanwhile have left the map. The
  invariant: a listener is in one array at most, under the number it was added
  with (`Heap`); no two events have one array and none has an empty one
  (`MapOf`); an emission holds an array no other event has, and what it is going
  to call is in no other array (`Emission`). So it can remove nothing but what
  it calls, unless its array has been replaced.
* `NodeProofs`, sockets: `ConnectionsAgree`, for any connections, writes and
  orders of microtasks and messages. What an end has written is what its peer
  has read and what is under way, as long as one can reach the other
  (`Between`); a microtask that opens or closes a socket is queued once, for one
  that is due (`Pending`); the server knows every served socket that was not
  destroyed and none whose `close` was emitted (`Known`).
* `StreamProofs`: `PipelineDelivers`, for any number of streams, chunks,
  microtasks and nested corks, and any set of streams that the program steers.
  That the chunks come out in order and without a gap is not inductive: it needs
  that what a stage has got ends with the chunk that left the stage before it
  last (`Chained`), so that what is in that stage's buffer follows on from it.
  That nothing is missing at the end: where all buffers before a stage are
  empty, its last chunk is the last that was pushed (`Foremost`), and the end
  reaches a stage when all before it have ended and are empty (`EndsInTurn`).
  That the end comes once: microtasks speak only of ends and errors that are
  true, and the end found by `read()` is queued once and not passed on before it
  runs (`QueueSound`). Chunks held by a corked sink keep their place, since a
  sink that has ended holds none (`SinkSound`): they are either written when it is
  uncorked, or, if the end comes first, all of what it refuses (`Refuses`).
* `PageProofs`, scheduler: `SchedulerKeepsTasks`, for any number of tasks and
  priorities. The ids given out are divided between the queue, the tasks that
  are over, the awaited one and those dropped; what `enqueue` finds is the first
  place behind a task that goes ahead, so that the order is kept. A cancelled or
  cleared task cannot be the awaited one, which has left the queue.
* `PageProofs`, watchers: `WatchersAgree`, an invariant and an action property,
  for any watchers and nesting. A notification has told nobody ahead of its
  place in the map, and whoever is due has been told or is ahead of that place,
  registered and concerned (`Sound`); registering goes to the end of the map and
  unregistering takes away from what is due.
* `PageProofs`, SDK: `EmbedderToldRight`, for any processes, callbacks and
  nesting. That a process has run before its caller has it follows from the
  order of the queue (`RunsFirst`: a hand-over of a process that has not exited
  has its run before it); that a callback is registered when it is called, from
  emissions holding registered ones only (`LeftRegistered`).
* `PageProofs`, reloads: `SnapshotsRestore`, for any directories, names and
  number of inodes, and over any number of reloads. The invariant speaks of every
  table at once, the one in memory, the one being written and the saved one: each
  is without links, its root a directory that no entry names, and has no entries
  where it has no inode (`CleanTable`); as long as none with gaps was restored,
  each is a tree (`SoundTable`). A table is restored under the ranks of its
  numbers, which count from 1 without a gap (`Ranks`) and are the numbers
  themselves where there was none (`DenseRanks`). What a call does to the tree is
  cited from `VFSProofs` about the page's instance of `VFS`. Its `mkdir -p` ahead
  of every boot needs that what is not found has no entry (`MissesEntry`), which
  holds where there are no links.
* `InstallProofs`: `ProjectAgrees`, for any packages, dependencies and versions,
  and any number of commands under way together. A command that runs alone has
  the lockfile it found until it writes its plan, the `package.json` it wrote,
  and in `node_modules` the planned version of every package it is done with
  (`Followed`). That these are whole is not inductive: it needs that a package
  which is not torn has one writer at most, is whole while it has none, and
  otherwise half in the version that writer plans (`Whole`); a package that fails
  between two files is torn from then on. That a lockfile is
  closed needs that every plan is (`Plans`). No hypothesis on the overlap of
  commands is made; when a command runs alone, the others are over (`Alone`).
* `InstallProofs`, resolver: `PlanIsSound`, for any registry, any dependencies, also
  in a circle, any failures and any order of answers. That a plan is final: a call
  that is over without a failure has no call of its own under way, and none that
  failed but peers (`Below`), so when `resolve()` has its answer and no peer has
  failed every call is over, by induction over the numbers of the calls
  (`AllOver`). That it is closed: whatever a resolved version depends on is known,
  or a call was made for it, also where a call returned at once because another
  was under way for the same range (`DepsSpokenFor`). That it satisfies the ranges
  when they agree: a version in the map is the best one of some call's range
  (`Backed`, `Answered`), though not of the last one's.
* `InstallProofs`, versions: `VersionsInRanges`, for any versions and comparators,
  with numbers and prereleases of any size. That the order is total goes through
  what the comparison of prereleases means: the place where one goes on or has
  the greater identifier (`PreBefore`). That a comparator allows an interval:
  comparing with the numbers it gives tells where a version lies among those that
  begin with them (`AlongIsBetween`), from which each operator follows. It is
  claimed of releases, and of comparators the comments speak of (`Plain`): an
  operator has a number, and no number stands behind a wildcard (`^1.x.2` is
  read as `^1.0.2`). That the best of a list is the highest version that fits,
  wherever it stands, is proved of lists of any length (`BestIsKept`).

The provers cannot instantiate the induction theorems of the library, which take
an operator. `SequenceLemmas` does without: a set of numbers has a least one
(`LeastNumber`), from well-founded sets, and a finite one a greatest
(`GreatestNumber`); hence induction with a set in place of the predicate
(`CountingUp`), and that the equations of a recursive function have a solution
with a function in place of the operator (`RunningOn` over the elements of a
sequence, `GoingDeeper` over a depth that ends).

The assumptions on constants are those of the modules: names are not empty,
bytes are below `Base`, targets are sequences of names and `..`, and with a
path, its prefixes and what links on the way may stand for are paths that
programs may use (`PathsAssumption`). The directories of `boot` are paths of
names below the root (`SnapshotsAssumption`), from which the assumptions of `VFS`
are proved of the page's instance (`PageFiles`). A registry lists finitely many
versions of a package, numbered from 1 (`ResolverAssumption`). Versions have three
numbers, comparators one to three (`VersionsAssumption`).

Model-checked only:

* liveness and fairness, which are out of the prover's reach;
* what the tools' algorithms compute: the parser, the shell and its executor
  (`ShellReadsText`, `ShellKeepsLines`) and paths and text (`TextSurvives`), whose
  modules hold recursive operators.

## 6. Not modelled

* **Without a caller**: the overlay, whose `copyUp` stores the copy under a new
  number in spite of its comment (overlay.ts:48), and `VirtualTCPServer`.
* **Straight-line code and input or output only**: `mountTree` and the initial
  tree of `boot`, the SDK's terminal, the playground, HTTP parsing.
* **Combinations of modelled parts** around a system call or a fetch:
  `child_process`, `http`.
* **Data conversion**: buffer, crypto, util, url, zlib, tar, the UTF-16 and
  base64 decoders' tables.
* **Of modelled components**: stdio ports; the look-up of module names;
  `unshift`, async iteration, `finished` and `setEncoding` of streams;
  `removeAllListeners` under a watcher; the timeouts and addresses of sockets;
  aliases, history and the builtins of the shell that only print; npm `run`,
  `init` and `list`, the metadata cache; the options of the resolver that the
  command line does not use; export and import of the SDK.

Next: the stdio streams of the process manager, and `child_process` on top of
them.
