--------------------------- MODULE MCSyscallBridge ---------------------------
(* One or two processes and one request of each kind: r1 and r2 have         *)
(* successful answers that do not fit the buffer, as a text (a directory)    *)
(* and as a binary (a file); r3 does not fit itself; r4 writes binary data,  *)
(* r5 a text; r6 reads a file that fills the buffer, r7 an empty one; r8     *)
(* writes data that fills it.                                                *)
EXTENDS SyscallBridge

CONSTANTS p1, p2, r1, r2, r3, r4, r5, r6, r7, r8

MCProcs == {p1, p2}
MCOneProc == {p1}
MCReqs == {r1, r2, r3, r4, r5, r6, r7, r8}
MCFewReqs == {r1, r2, r3, r5}
MCText == {r1} \cap Reqs
MCBinary == {r2} \cap Reqs
MCOversize == {r3} \cap Reqs
MCWrites == {r3, r4, r5, r8} \cap Reqs
MCSends == {r3, r4, r8} \cap Reqs
MCReads == {r2, r6, r7} \cap Reqs
MCBrings == {r2, r6} \cap Reqs
MCFilling == {r6, r8} \cap Reqs
=============================================================================
