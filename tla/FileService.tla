----------------------------- MODULE FileService -----------------------------
(***************************************************************************)
(* What applications are promised when HVAC stands between them and the    *)
(* file system: a read-only file service without redirection, copies,      *)
(* descriptor numbers or a data mover.  Each handle has one offset of its  *)
(* own; a read answers the bytes of the file the handle was opened with,   *)
(* from that offset or from the one given to pread.  An open may fail, a   *)
(* handle whose open failed is never read, and the service may stop.       *)
(***************************************************************************)
EXTENDS PosixFile

CONSTANTS
    Handles, Files, ReadSizes, Offsets, Whences,
    Limit,      \* requests of fewer bytes than this are answered in full
    NoFile

VARIABLES
    st,         \* where each handle's current call is
    file,       \* the file it was opened with
    ok,         \* did its open succeed?
    pos,        \* its offset
    req,        \* arguments of its call
    res,        \* result of its call: an offset, a byte count, 0 or -1
    buf,        \* what a read put into the buffer: a file and an offset
    up          \* is the service running?

vars == <<st, file, ok, pos, req, res, buf, up>>

NoReq == [n |-> 0, off |-> 0, whence |-> "SET"]
NoBuf == [src |-> NoFile, at |-> 0]

Init ==
    /\ st = [h \in Handles |-> "closed"]
    /\ file = [h \in Handles |-> NoFile]
    /\ ok = [h \in Handles |-> FALSE]
    /\ pos = [h \in Handles |-> 0]
    /\ req = [h \in Handles |-> NoReq]
    /\ res = [h \in Handles |-> 0]
    /\ buf = [h \in Handles |-> NoBuf]
    /\ up = TRUE

\* Handle h goes from one state of its call to the next.
Step(h, from, to) ==
    /\ up
    /\ st[h] = from
    /\ st' = [st EXCEPT ![h] = to]
    /\ UNCHANGED up

Open(h, f) ==
    /\ Step(h, "closed", "opening")
    /\ file' = [file EXCEPT ![h] = f]
    /\ UNCHANGED <<ok, pos, req, res, buf>>

AnswerOpen(h) ==
    /\ Step(h, "opening", "opened")
    /\ \E r \in {0, Bad} : res' = [res EXCEPT ![h] = r]
    /\ UNCHANGED <<file, ok, pos, req, buf>>

OpenReturn(h) ==
    /\ Step(h, "opened", "idle")
    /\ ok' = [ok EXCEPT ![h] = (res[h] = 0)]
    /\ res' = [res EXCEPT ![h] = 0]
    /\ UNCHANGED <<file, pos, req, buf>>

Read(h, n, off) ==
    /\ Step(h, "idle", "reading")
    /\ req' = [req EXCEPT ![h] = [n |-> n, off |-> off, whence |-> "SET"]]
    /\ UNCHANGED <<file, ok, pos, res, buf>>

\* Where the read of h begins: -1 stands for the handle's own offset.
From(h) == IF req[h].off = -1 THEN pos[h] ELSE req[h].off

\* Only a request of Limit bytes or more may be answered short.
AnswerRead(h) ==
    /\ Step(h, "reading", "read")
    /\ ok[h]
    /\ \E k \in 0..Bytes(From(h), req[h].n) :
        /\ req[h].n < Limit => k = Bytes(From(h), req[h].n)
        /\ res' = [res EXCEPT ![h] = k]
    /\ buf' = [buf EXCEPT ![h] = [src |-> file[h], at |-> From(h)]]
    /\ UNCHANGED <<file, ok, pos, req>>

ReadReturn(h) ==
    /\ Step(h, "read", "idle")
    /\ pos' = [pos EXCEPT ![h] = IF req[h].off = -1 THEN @ + res[h] ELSE @]
    /\ req' = [req EXCEPT ![h] = NoReq]
    /\ res' = [res EXCEPT ![h] = 0]
    /\ buf' = [buf EXCEPT ![h] = NoBuf]
    /\ UNCHANGED <<file, ok>>

Seek(h, off, whence) ==
    /\ Step(h, "idle", "seeking")
    /\ req' = [req EXCEPT ![h] = [n |-> 0, off |-> off, whence |-> whence]]
    /\ UNCHANGED <<file, ok, pos, res, buf>>

AnswerSeek(h) ==
    /\ Step(h, "seeking", "sought")
    /\ res' = [res EXCEPT ![h] =
                 IF ok[h] THEN SeekTarget(req[h].whence, req[h].off, pos[h]) ELSE Bad]
    /\ UNCHANGED <<file, ok, pos, req, buf>>

SeekReturn(h) ==
    /\ Step(h, "sought", "idle")
    /\ pos' = [pos EXCEPT ![h] = IF res[h] = Bad THEN @ ELSE res[h]]
    /\ req' = [req EXCEPT ![h] = NoReq]
    /\ res' = [res EXCEPT ![h] = 0]
    /\ UNCHANGED <<file, ok, buf>>

Close(h) ==
    /\ Step(h, "idle", "closed")
    /\ file' = [file EXCEPT ![h] = NoFile]
    /\ ok' = [ok EXCEPT ![h] = FALSE]
    /\ pos' = [pos EXCEPT ![h] = 0]
    /\ UNCHANGED <<req, res, buf>>

\* The service ends, for everybody.
Stop ==
    /\ up
    /\ up' = FALSE
    /\ UNCHANGED <<st, file, ok, pos, req, res, buf>>

HandleStep(h) ==
    \/ \E f \in Files : Open(h, f)
    \/ AnswerOpen(h)
    \/ OpenReturn(h)
    \/ \E n \in ReadSizes, off \in Offsets : Read(h, n, off)
    \/ AnswerRead(h)
    \/ ReadReturn(h)
    \/ \E off \in Offsets, whence \in Whences : Seek(h, off, whence)
    \/ AnswerSeek(h)
    \/ SeekReturn(h)
    \/ Close(h)

Next == Stop \/ \E h \in Handles : HandleStep(h)

Spec == Init /\ [][Next]_vars
=============================================================================
