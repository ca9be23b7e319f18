\* Requests and answers of every kind; store and notify of the main thread
\* are not separated.
SPECIFICATION FairSpec
CONSTANTS
  p1 = p1
  p2 = p2
  r1 = r1
  r2 = r2
  r3 = r3
  r4 = r4
  r5 = r5
  r6 = r6
  r7 = r7
  r8 = r8
  NoReq = NoReq
  Procs <- MCProcs
  Reqs <- MCFewReqs
  Oversize <- MCOversize
  TextOverflow <- MCText
  BinaryOverflow <- MCBinary
  Writes <- MCWrites
  Sends <- MCSends
  Reads <- MCReads
  Brings <- MCBrings
  Filling <- MCFilling
  PromptNotify = TRUE
INVARIANTS TypeOK TurnsAlternate
PROPERTIES EveryCallReturns ImplementsRPC
