----------------------------- MODULE SyscallRPC -----------------------------
(***************************************************************************)
(* What a synchronous system call promises to the program of a process:    *)
(* the call is either refused before anybody sees it, or it is executed    *)
(* exactly once on the host and returns the outcome of that execution; a   *)
(* success whose answer cannot be transmitted is reported as an error.     *)
(* The binary data that goes with a request or an answer is not promised   *)
(* to be the sender's: Arrives and Comes say which requests can rely on it.*)
(* Nothing here says how request and answer travel; SyscallBridge is the   *)
(* protocol over a SharedArrayBuffer that has to implement it.             *)
(***************************************************************************)
EXTENDS Naturals

CONSTANTS Procs,   \* the worker processes
          Reqs,    \* the requests a program can make
          NoReq,   \* no request
          Lossy,   \* the requests whose success cannot be transmitted
          Arrives, \* Arrives[r]: what the data r is executed with may be
          Comes    \* Comes[r]: what the data of its successful answer may be

VARIABLES phase,   \* phase[p]: where the call of p is
          arg,     \* arg[p]: the request of that call
          outcome, \* outcome[p]: what the host did with it
          input,   \* input[p]: what became of its data
          answer   \* answer[p]: what the last finished call returned

rpcVars == <<phase, arg, outcome, input, answer>>

\* Data is the sender's own, lost on the way, or that of an older message.
Fates == {"own", "lost", "old"}

NoAnswer == [req |-> NoReq, out |-> "none", data |-> "own"]

Init ==
  /\ phase = [p \in Procs |-> "user"]
  /\ arg = [p \in Procs |-> NoReq]
  /\ outcome = [p \in Procs |-> "none"]
  /\ input = [p \in Procs |-> "own"]
  /\ answer = [p \in Procs |-> NoAnswer]

\* The program calls syscall() and blocks.
Invoke(p, r) ==
  /\ phase[p] = "user"
  /\ phase' = [phase EXCEPT ![p] = "invoked"]
  /\ arg' = [arg EXCEPT ![p] = r]
  /\ outcome' = [outcome EXCEPT ![p] = "none"]
  /\ input' = [input EXCEPT ![p] = "own"]
  /\ UNCHANGED answer

\* The request cannot be transmitted: the call throws, nothing was executed.
Refuse(p) ==
  /\ phase[p] = "invoked"
  /\ phase' = [phase EXCEPT ![p] = "user"]
  /\ answer' = [answer EXCEPT ![p] = [req |-> arg[p], out |-> "refused", data |-> "own"]]
  /\ UNCHANGED <<arg, outcome, input>>

\* The host executes the request, once.
Execute(p) ==
  /\ phase[p] = "invoked"
  /\ phase' = [phase EXCEPT ![p] = "executed"]
  /\ \E out \in {"ok", "err"} : outcome' = [outcome EXCEPT ![p] = out]
  /\ \E d \in Arrives[arg[p]] : input' = [input EXCEPT ![p] = d]
  /\ UNCHANGED <<arg, answer>>

\* What the program is told of an execution of r.
Told(r, out) == IF r \in Lossy THEN "err" ELSE out

\* The call returns (or throws) what the host's execution came to.
Return(p) ==
  /\ phase[p] = "executed"
  /\ phase' = [phase EXCEPT ![p] = "user"]
  /\ LET out == Told(arg[p], outcome[p]) IN
       \E d \in IF out = "ok" THEN Comes[arg[p]] ELSE {"own"} :
          answer' = [answer EXCEPT ![p] = [req |-> arg[p], out |-> out, data |-> d]]
  /\ UNCHANGED <<arg, outcome, input>>

Next == \E p \in Procs :
          \/ \E r \in Reqs : Invoke(p, r)
          \/ Refuse(p)
          \/ Execute(p)
          \/ Return(p)

Spec == Init /\ [][Next]_rpcVars
=============================================================================
