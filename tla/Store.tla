--------------------------------- MODULE Store ---------------------------------
(***************************************************************************)
(* What the file system promises its callers: that it serves the calls of  *)
(* FileCalls, until it breaks.  From then on it promises nothing.          *)
(***************************************************************************)
EXTENDS FileCalls

VARIABLE broken  \* nothing is promised any more

storeVars == <<files, busy, broken>>

StoreInit == NoFiles /\ broken = FALSE

Serve ==
    \/ \E op \in Ops, n \in Names, c \in Contents : Begin(op, n, c)
    \/ Succeed
    \/ Fail

StoreNext ==
    \/ Serve /\ UNCHANGED broken
    \/ broken' = TRUE

StoreSpec == StoreInit /\ [][StoreNext]_storeVars
=============================================================================
