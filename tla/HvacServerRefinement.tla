------------------------ MODULE HvacServerRefinement ------------------------
(***************************************************************************)
(* HvacServer implements FileService: redirection to NVMe copies, reuse of *)
(* descriptor numbers, closes in flight, the two-step bulk transfer and    *)
(* the data mover cannot be told from a plain file service.                *)
(***************************************************************************)
EXTENDS HvacServer

\* A pushed buffer is not the application's until the response has come.
FsSt(h) == IF stage[h] = "bulk" THEN "reading" ELSE stage[h]

\* Descriptor numbers are hidden: an open answers 0 or -1.
FsOk(h) == stage[h] \in Live /\ rfd[h] # Bad
FsRes(h) ==
    CASE stage[h] = "opened" -> (IF ret[h] = Bad THEN Bad ELSE 0)
      [] stage[h] \in {"read", "sought"} -> ret[h]
      [] OTHER -> 0
FsBuf(h) == IF stage[h] = "read" THEN data[h] ELSE NoData

FS == INSTANCE FileService WITH
    Limit <- HalfWord,
    st    <- [h \in Handles |-> FsSt(h)],
    file  <- path,
    ok    <- [h \in Handles |-> FsOk(h)],
    pos   <- cpos,
    req   <- arg,
    res   <- [h \in Handles |-> FsRes(h)],
    buf   <- [h \in Handles |-> FsBuf(h)],
    up    <- Up

\* Every behaviour of the server and its clients, seen through the mapping, is one
\* of the plain file service (hvac_open_rpc_handler, hvac_rpc_handler,
\* hvac_seek_rpc_handler and hvac_close_rpc_handler against the data mover, other
\* clients and dying clients).
ImplementsFileService == FS!Spec
=============================================================================
