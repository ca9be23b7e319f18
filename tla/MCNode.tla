------------------------------- MODULE MCNode -------------------------------
(***************************************************************************)
(* Four parts that programs are built on, side by side: streams, emitters, *)
(* sockets, modules.  They share no state here, so a behaviour follows one *)
(* of them, the focus, and leaves the others as they began; what is fair is*)
(* fair of the focus.                                                      *)
(***************************************************************************)
EXTENDS Streams, EventEmitter, Sockets, Modules

VARIABLE focus
nodeVars == <<focus, vars, emitterVars, socketVars, moduleVars>>

NodeInit ==
  /\ focus \in {"streams", "events", "sockets", "modules"}
  /\ Init /\ EmitterInit /\ SocketsInit /\ ModulesInit
  /\ focus # "modules" => ~shim

NodeNext ==
  /\ UNCHANGED focus
  /\ \/ focus = "streams" /\ Next /\ UNCHANGED <<emitterVars, socketVars, moduleVars>>
     \/ focus = "events" /\ EmitterNext /\ UNCHANGED <<vars, socketVars, moduleVars>>
     \/ focus = "sockets" /\ SocketsNext /\ UNCHANGED <<vars, emitterVars, moduleVars>>
     \/ focus = "modules" /\ ModulesNext /\ UNCHANGED <<vars, emitterVars, socketVars>>

NodeSpec ==
  /\ NodeInit /\ [][NodeNext]_nodeVars
  /\ WF_vars(focus = "streams" /\ \E i \in Sources : RunTask(i))
  /\ WF_vars(focus = "streams" /\ \E failed \in BOOLEAN : WriteDone(failed))
  /\ WF_socketVars(focus = "sockets" /\ RunSocketTask)

\* The end of what a program reads and the close of its sockets reach it.
NodeHears == EndArrives /\ CloseIsHeard
=============================================================================
