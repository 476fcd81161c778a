----------------------------- MODULE HvacServer -----------------------------
(***************************************************************************)
(* One HVAC server process (hvac_server.cpp, hvac_comm.cpp,                *)
(* hvac_data_mover.cpp): the Mercury progress thread, which runs the RPC   *)
(* handlers one at a time, and the data mover thread, which copies closed  *)
(* files to node-local NVMe and publishes the copy in path_cache_map.      *)
(*                                                                         *)
(* The clients are what the server sees of them: a handle is one tracked   *)
(* descriptor of some client process.  It has at most one blocking RPC in  *)
(* flight, recorded in stage[h]; close RPCs have no response and are in    *)
(* flight in the set closing, so they may overtake or be overtaken.        *)
(*                                                                         *)
(* The handlers take no lock on path_cache_map while the mover writes it.  *)
(* Lookup(f) is the set of results such a racing lookup can produce.       *)
(***************************************************************************)
EXTENDS PosixFile, Sequences, FiniteSets

CONSTANTS
    Handles,    \* tracked client descriptors
    Files,      \* original paths, on the parallel file system
    Fds,        \* descriptor numbers the server process may be given
    Dirs,       \* directories mkdtemp can create under BBPATH
    ReadSizes,  \* byte counts clients ask for
    Offsets,    \* offsets clients pass to pread and seek; -1 is plain read
    Whences,    \* origins clients pass to seek
    MaxQueue,   \* bound: close RPCs in flight plus queued paths
    MayUnlink,  \* may files disappear while the job runs?
    MayFailIO,  \* may reads and copies fail?
    MayDie,     \* may client processes end without closing their files?
    HalfWord,   \* 2^31: byte counts travel as int32_t
    NoFile, NoDir, Torn, Wild

ASSUME ServerAssumption ==
    /\ Fds \subseteq Nat
    /\ ReadSizes \subseteq Nat
    /\ Offsets \subseteq Int
    /\ Whences \subseteq {"SET", "CUR", "END"}
    /\ MaxQueue \in Nat
    /\ MayUnlink \in BOOLEAN
    /\ MayFailIO \in BOOLEAN
    /\ MayDie \in BOOLEAN
    /\ HalfWord \in Nat /\ FileLen < HalfWord
    /\ Files \cap Dirs = {}
    /\ NoFile \notin Files \cup Dirs
    /\ {NoDir, Torn, Wild} \cap (Files \cup Dirs) = {}
    /\ NoDir # Torn /\ NoDir # Wild /\ Torn # Wild

VARIABLES
    stage,          \* where each handle's current call is
    path,           \* the path each handle was opened with
    rfd,            \* fd_redir_map: the server descriptor of each handle
    arg,            \* arguments of the handle's read or seek RPC
    ret,            \* the out.ret / out.ret_status of the handle's response
    data,           \* the bytes pushed to the handle: their file and offset
    cpos,           \* bytes the application has consumed from the handle
    closing,        \* server descriptors named by close RPCs in flight
    pfs,            \* paths that exist on the parallel file system
    dead,           \* handles whose client process is gone
    fdObj,          \* kernel table: what each server descriptor refers to
    fdPos,          \* kernel table: its file offset
    copyOf,         \* the path each NVMe directory was made for
    copied,         \* directories whose copy is complete
    fd_to_path,     \* server descriptor -> original path
    path_cache_map, \* original path -> NVMe copy
    data_queue,     \* paths waiting for the mover
    local_list,     \* the mover's own batch
    mover,          \* the mover's program counter
    newdir,         \* the directory the mover is filling
    aborted         \* why the process died, "no" while it runs

clientVars == <<stage, path, rfd, arg, cpos>>
answerVars == <<ret, data>>
kernelVars == <<fdObj, fdPos>>
nvmeVars   == <<copyOf, copied, newdir>>
queueVars  == <<data_queue, local_list>>
envVars    == <<pfs, dead>>
vars == <<clientVars, answerVars, closing, envVars, kernelVars, nvmeVars,
          fd_to_path, path_cache_map, queueVars, mover, aborted>>

Stages == {"closed", "opening", "opened", "idle", "reading", "bulk", "read",
           "seeking", "sought"}
Args == [n: ReadSizes \cup {0}, off: Offsets \cup {0}, whence: {"SET", "CUR", "END"}]
NoArg == [n |-> 0, off |-> 0, whence |-> "SET"]
NoData == [src |-> NoFile, at |-> 0]

Up == aborted = "no"

TypeOK ==
    /\ stage \in [Handles -> Stages]
    /\ path \in [Handles -> Files \cup {NoFile}]
    /\ rfd \in [Handles -> Fds \cup {Bad}]
    /\ arg \in [Handles -> Args]
    /\ ret \in [Handles -> Int]
    /\ data \in [Handles -> [src: Files \cup {NoFile}, at: Int]]
    /\ cpos \in [Handles -> Nat]
    /\ closing \subseteq Fds \cup {Bad}
    /\ pfs \subseteq Files
    /\ dead \subseteq Handles
    /\ fdObj \in [Fds -> Files \cup Dirs \cup {NoFile}]
    /\ fdPos \in [Fds -> Nat]
    /\ copyOf \in [Dirs -> Files \cup {NoFile}]
    /\ copied \subseteq Dirs
    /\ fd_to_path \in [Fds \cup {Bad} -> Files \cup {NoFile}]
    /\ path_cache_map \in [Files -> Dirs \cup {NoDir}]
    /\ data_queue \in Seq(Files)
    /\ local_list \in Seq(Files)
    /\ mover \in {"lock", "wait", "woken", "work", "copy", "publish"}
    /\ newdir \in Dirs \cup {NoDir}
    /\ aborted \in {"no", "close", "transfer", "io", "race", "alloc", "peer"}

Init ==
    /\ stage = [h \in Handles |-> "closed"]
    /\ path = [h \in Handles |-> NoFile]
    /\ rfd = [h \in Handles |-> Bad]
    /\ arg = [h \in Handles |-> NoArg]
    /\ ret = [h \in Handles |-> 0]
    /\ data = [h \in Handles |-> NoData]
    /\ cpos = [h \in Handles |-> 0]
    /\ closing = {}
    /\ pfs = Files
    /\ dead = {}
    /\ fdObj = [fd \in Fds |-> NoFile]
    /\ fdPos = [fd \in Fds |-> 0]
    /\ copyOf = [d \in Dirs |-> NoFile]
    /\ copied = {}
    /\ fd_to_path = [fd \in Fds \cup {Bad} |-> NoFile]
    /\ path_cache_map = [f \in Files |-> NoDir]
    /\ data_queue = <<>>
    /\ local_list = <<>>
    /\ mover = "lock"
    /\ newdir = NoDir
    /\ aborted = "no"

-----------------------------------------------------------------------------
(* The clients, as far as the server can tell (hvac_client.cpp,            *)
(* hvac_comm_client.cpp).                                                  *)

\* open() succeeded locally and hvac_track_file forwards the open RPC.
OpenCall(h, f) ==
    /\ stage[h] = "closed"
    /\ f \in pfs
    /\ stage' = [stage EXCEPT ![h] = "opening"]
    /\ path' = [path EXCEPT ![h] = f]
    /\ UNCHANGED <<rfd, arg, cpos, answerVars, closing, envVars, kernelVars, nvmeVars,
                   fd_to_path, path_cache_map, queueVars, mover, aborted>>

\* hvac_open_cb stores the answer in fd_redir_map, -1 included.
OpenReturn(h) ==
    /\ stage[h] = "opened"
    /\ stage' = [stage EXCEPT ![h] = "idle"]
    /\ rfd' = [rfd EXCEPT ![h] = ret[h]]
    /\ ret' = [ret EXCEPT ![h] = 0]
    /\ UNCHANGED <<path, arg, cpos, data, closing, envVars, kernelVars, nvmeVars,
                   fd_to_path, path_cache_map, queueVars, mover, aborted>>

\* hvac_remote_read (off = -1) and hvac_remote_pread.
ReadCall(h, n, off) ==
    /\ stage[h] = "idle"
    /\ stage' = [stage EXCEPT ![h] = "reading"]
    /\ arg' = [arg EXCEPT ![h] = [n |-> n, off |-> off, whence |-> "SET"]]
    /\ UNCHANGED <<path, rfd, cpos, answerVars, closing, envVars, kernelVars, nvmeVars,
                   fd_to_path, path_cache_map, queueVars, mover, aborted>>

ReadReturn(h) ==
    /\ stage[h] = "read"
    /\ stage' = [stage EXCEPT ![h] = "idle"]
    /\ cpos' = [cpos EXCEPT ![h] = IF arg[h].off = -1 THEN @ + ret[h] ELSE @]
    /\ arg' = [arg EXCEPT ![h] = NoArg]
    /\ ret' = [ret EXCEPT ![h] = 0]
    /\ data' = [data EXCEPT ![h] = NoData]
    /\ UNCHANGED <<path, rfd, closing, envVars, kernelVars, nvmeVars,
                   fd_to_path, path_cache_map, queueVars, mover, aborted>>

\* hvac_remote_lseek.  Bound: targets beyond the end of the file are left out, so
\* that offsets fit the int32_t they travel in.
SeekCall(h, off, whence) ==
    /\ stage[h] = "idle"
    /\ SeekTarget(whence, off, cpos[h]) <= FileLen
    /\ stage' = [stage EXCEPT ![h] = "seeking"]
    /\ arg' = [arg EXCEPT ![h] = [n |-> 0, off |-> off, whence |-> whence]]
    /\ UNCHANGED <<path, rfd, cpos, answerVars, closing, envVars, kernelVars, nvmeVars,
                   fd_to_path, path_cache_map, queueVars, mover, aborted>>

SeekReturn(h) ==
    /\ stage[h] = "sought"
    /\ stage' = [stage EXCEPT ![h] = "idle"]
    /\ cpos' = [cpos EXCEPT ![h] = IF ret[h] = Bad THEN @ ELSE ret[h]]
    /\ arg' = [arg EXCEPT ![h] = NoArg]
    /\ ret' = [ret EXCEPT ![h] = 0]
    /\ UNCHANGED <<path, rfd, data, closing, envVars, kernelVars, nvmeVars,
                   fd_to_path, path_cache_map, queueVars, mover, aborted>>

\* Mutant: close() keeps the descriptor tracked, so it can be closed again.
CloseCallKeeps(h) ==
    /\ stage[h] = "idle"
    /\ Cardinality(closing) + Len(data_queue) < MaxQueue
    /\ closing' = closing \cup {rfd[h]}
    /\ UNCHANGED <<clientVars, answerVars, envVars, kernelVars, nvmeVars,
                   fd_to_path, path_cache_map, queueVars, mover, aborted>>

\* hvac_client_comm_gen_close_rpc: forward the server descriptor, forget it,
\* wait for nothing.  Bound: MaxQueue; the code closes however long the queue is.
CloseCall(h) ==
    /\ stage[h] = "idle"
    /\ Cardinality(closing) + Len(data_queue) < MaxQueue
    /\ stage' = [stage EXCEPT ![h] = "closed"]
    /\ closing' = closing \cup {rfd[h]}
    /\ path' = [path EXCEPT ![h] = NoFile]
    /\ rfd' = [rfd EXCEPT ![h] = Bad]
    /\ cpos' = [cpos EXCEPT ![h] = 0]
    /\ UNCHANGED <<arg, answerVars, envVars, kernelVars, nvmeVars,
                   fd_to_path, path_cache_map, queueVars, mover, aborted>>

\* A client deletes a file of the data set (tests/basic_test.c does).
Unlink(f) ==
    /\ Up
    /\ MayUnlink
    /\ f \in pfs
    /\ pfs' = pfs \ {f}
    /\ UNCHANGED <<clientVars, answerVars, closing, dead, kernelVars, nvmeVars,
                   fd_to_path, path_cache_map, queueVars, mover, aborted>>

\* The client process of h exits or is killed with h open.  hvac_client_shutdown
\* sends nothing: the server is not told and serves what is in flight.
ClientDies(h) ==
    /\ Up
    /\ MayDie
    /\ h \notin dead
    /\ dead' = dead \cup {h}
    /\ UNCHANGED <<clientVars, answerVars, closing, pfs, kernelVars, nvmeVars,
                   fd_to_path, path_cache_map, queueVars, mover, aborted>>

-----------------------------------------------------------------------------
(* The progress thread: one handler or callback at a time.                 *)

Publishing == mover = "publish"

\* What path_cache_map says about f.  While the mover executes
\* path_cache_map[p] = filename the handlers read the same tree unlocked: the
\* entry of p can be absent, old, new, or hold a value that names no file
\* (operator[] default-constructs "" before it assigns); and while a new key is
\* being linked in, any lookup can miss, or follow a wild pointer.
Lookup(f) ==
    LET p == Head(local_list)
        entry == IF f \in Files THEN path_cache_map[f] ELSE NoDir
    IN  {entry}
        \cup (IF Publishing /\ f = p THEN {newdir, Torn} ELSE {})
        \cup (IF Publishing /\ path_cache_map[p] = NoDir THEN {NoDir, Torn, Wild} ELSE {})

Crash ==
    /\ aborted' = "race"
    /\ UNCHANGED <<clientVars, answerVars, closing, envVars, kernelVars, nvmeVars,
                   fd_to_path, path_cache_map, queueVars, mover>>

Exists(obj) == obj \in pfs \cup Dirs
FreeFds == {fd \in Fds : fdObj[fd] = NoFile}

\* open(obj) gives some free descriptor (the mover's own descriptors come and go in
\* the same table), and fd_to_path records p for it.
OpenRecording(h, obj, p) ==
    /\ Exists(obj)
    /\ \E fd \in FreeFds :
        /\ fdObj' = [fdObj EXCEPT ![fd] = obj]
        /\ fdPos' = [fdPos EXCEPT ![fd] = 0]
        /\ fd_to_path' = [fd_to_path EXCEPT ![fd] = p]
        /\ ret' = [ret EXCEPT ![h] = fd]

\* Mutant: fd_to_path records the redirected path, not in.path.
OpenOkRecordsRedir(h, obj) == OpenRecording(h, obj, obj)

\* The open succeeds.
OpenOk(h, obj) == OpenRecording(h, obj, path[h])

\* open fails: no such file, no descriptor left, an I/O error.  -1 is recorded
\* and sent.
OpenFails(h, obj) ==
    /\ ~Exists(obj) \/ FreeFds = {} \/ MayFailIO
    /\ fd_to_path' = [fd_to_path EXCEPT ![Bad] = path[h]]
    /\ ret' = [ret EXCEPT ![h] = Bad]
    /\ UNCHANGED kernelVars

hvac_open_rpc_handler(h) ==
    /\ Up
    /\ stage[h] = "opening"
    /\ \E hit \in Lookup(path[h]) :
        \/ hit = Wild /\ Crash
        \/ /\ hit # Wild
           /\ stage' = [stage EXCEPT ![h] = "opened"]
           /\ LET redir_path == IF hit = NoDir THEN path[h] ELSE hit
              IN  OpenOk(h, redir_path) \/ OpenFails(h, redir_path)
           /\ UNCHANGED <<path, rfd, arg, cpos, data, closing, envVars, nvmeVars,
                          path_cache_map, queueVars, mover, aborted>>

IsOpen(fd) == fd \in Fds /\ fdObj[fd] # NoFile

\* The path whose bytes a file holds; NoFile for an NVMe copy not yet finished.
Content(obj) ==
    IF obj \in Dirs THEN (IF obj \in copied THEN copyOf[obj] ELSE NoFile) ELSE obj

\* The count as the server gets it: in.input_val = count keeps the low 32 bits.
input_val(n) ==
    LET low == n % (2 * HalfWord) IN IF low < HalfWord THEN low ELSE low - 2 * HalfWord

\* read or pread into the bulk buffer, then start the push to the client.  The file
\* offset moves or stays.
ReadMoving(h, moves) ==
    LET fd == rfd[h]
        at == IF arg[h].off = -1 THEN fdPos[fd] ELSE arg[h].off
        readbytes == Bytes(at, input_val(arg[h].n))
    IN  /\ input_val(arg[h].n) >= 0
        /\ IsOpen(fd)
        /\ arg[h].off >= -1
        /\ stage' = [stage EXCEPT ![h] = "bulk"]
        /\ ret' = [ret EXCEPT ![h] = readbytes]
        /\ data' = [data EXCEPT ![h] = [src |-> Content(fdObj[fd]), at |-> at]]
        /\ fdPos' = [fdPos EXCEPT ![fd] = IF moves THEN at + readbytes ELSE @]
        /\ UNCHANGED aborted

\* Mutant: pread done as lseek + read, which moves the shared offset.
ReadOkMoves(h) == ReadMoving(h, TRUE)

\* read moves it, pread does not.
ReadOk(h) == ReadMoving(h, arg[h].off = -1)

\* readbytes = -1 makes the transfer size exceed the buffer: HG_Bulk_transfer
\* refuses it and assert(ret == 0) ends the process.
ReadFails(h) ==
    /\ input_val(arg[h].n) >= 0
    /\ ~IsOpen(rfd[h]) \/ arg[h].off < -1 \/ MayFailIO
    /\ aborted' = IF IsOpen(rfd[h]) THEN "io" ELSE "transfer"
    /\ UNCHANGED <<stage, answerVars, fdPos>>

\* A negative count makes calloc fail: assert(hvac_rpc_state_p->buffer).
AllocFails(h) ==
    /\ input_val(arg[h].n) < 0
    /\ aborted' = "alloc"
    /\ UNCHANGED <<stage, answerVars, fdPos>>

hvac_rpc_handler(h) ==
    /\ Up
    /\ stage[h] = "reading"
    /\ ReadOk(h) \/ ReadFails(h) \/ AllocFails(h)
    /\ UNCHANGED <<path, rfd, arg, cpos, closing, envVars, fdObj, nvmeVars,
                   fd_to_path, path_cache_map, queueVars, mover>>

\* Mutant: the bulk callback cleans up without HG_Respond.
BulkCbSilent(h) ==
    /\ Up
    /\ stage[h] = "bulk"
    /\ UNCHANGED vars

\* The push is complete: respond with the byte count.  A push to a process that
\* is gone may fail, and assert(info->ret == 0) ends the server.
hvac_rpc_handler_bulk_cb(h) ==
    /\ Up
    /\ stage[h] = "bulk"
    /\ \/ stage' = [stage EXCEPT ![h] = "read"] /\ UNCHANGED aborted
       \/ h \in dead /\ aborted' = "peer" /\ UNCHANGED stage
    /\ UNCHANGED <<path, rfd, arg, cpos, answerVars, closing, envVars, kernelVars, nvmeVars,
                   fd_to_path, path_cache_map, queueVars, mover>>

\* lseek64 with the given origin, and its answer.
SeekWith(h, whence) ==
    /\ Up
    /\ stage[h] = "seeking"
    /\ LET fd == rfd[h]
           to == IF IsOpen(fd) THEN SeekTarget(whence, arg[h].off, fdPos[fd]) ELSE Bad
       IN  /\ ret' = [ret EXCEPT ![h] = to]
           /\ fdPos' = IF to = Bad THEN fdPos ELSE [fdPos EXCEPT ![fd] = to]
    /\ stage' = [stage EXCEPT ![h] = "sought"]
    /\ UNCHANGED <<path, rfd, arg, cpos, data, closing, envVars, fdObj, nvmeVars,
                   fd_to_path, path_cache_map, queueVars, mover, aborted>>

\* Mutant: lseek64 with SEEK_SET whatever in.whence says.
SeekIgnoresWhence(h) == SeekWith(h, "SET")

\* The origin is in.whence.
hvac_seek_rpc_handler(h) == SeekWith(h, arg[h].whence)

\* Mutant: the path is pushed and nobody is signalled.
EnqueueNoSignal(f) ==
    /\ data_queue' = Append(data_queue, f)
    /\ UNCHANGED mover

\* lock; pthread_cond_signal; push; unlock.  The signal reaches the mover only if
\* it is waiting at that moment.
Enqueue(f) ==
    /\ data_queue' = Append(data_queue, f)
    /\ mover' = IF mover = "wait" THEN "woken" ELSE mover

\* Mutant: the handler returns early, without close, for a cached path.
CloseOkEarlyReturn(fd) ==
    /\ IsOpen(fd)
    /\ closing' = closing \ {fd}
    /\ \E hit \in Lookup(fd_to_path[fd]) :
        /\ hit # Wild
        /\ IF hit = NoDir
           THEN /\ Enqueue(fd_to_path[fd])
                /\ fdObj' = [fdObj EXCEPT ![fd] = NoFile]
                /\ fdPos' = [fdPos EXCEPT ![fd] = 0]
           ELSE UNCHANGED <<data_queue, mover, kernelVars>>
    /\ fd_to_path' = [fd_to_path EXCEPT ![fd] = NoFile]
    /\ UNCHANGED <<clientVars, answerVars, envVars, nvmeVars, path_cache_map, local_list,
                   aborted>>

\* close(in.fd) succeeded: queue the path for the mover unless it is cached.
CloseOk(fd) ==
    /\ IsOpen(fd)
    /\ fdObj' = [fdObj EXCEPT ![fd] = NoFile]
    /\ fdPos' = [fdPos EXCEPT ![fd] = 0]
    /\ closing' = closing \ {fd}
    /\ \E hit \in Lookup(fd_to_path[fd]) :
        /\ hit # Wild
        /\ IF hit = NoDir THEN Enqueue(fd_to_path[fd]) ELSE UNCHANGED <<data_queue, mover>>
    /\ fd_to_path' = [fd_to_path EXCEPT ![fd] = NoFile]
    /\ UNCHANGED <<clientVars, answerVars, envVars, nvmeVars, path_cache_map, local_list,
                   aborted>>

\* close(in.fd) failed: assert(ret == 0) ends the process.
CloseFails(fd) ==
    /\ ~IsOpen(fd)
    /\ aborted' = "close"
    /\ UNCHANGED <<clientVars, answerVars, closing, envVars, kernelVars, nvmeVars,
                   fd_to_path, path_cache_map, queueVars, mover>>

hvac_close_rpc_handler(fd) ==
    /\ Up
    /\ fd \in closing
    /\ \/ CloseOk(fd)
       \/ CloseFails(fd)
       \/ IsOpen(fd) /\ Wild \in Lookup(fd_to_path[fd]) /\ Crash

-----------------------------------------------------------------------------
(* The data mover thread, hvac_data_mover_fn.                              *)

moverFrame == <<clientVars, answerVars, closing, kernelVars, fd_to_path, envVars, aborted>>

\* Take data_mutex and call pthread_cond_wait, with no look at the queue.
MoverWait ==
    /\ Up
    /\ mover = "lock"
    /\ mover' = "wait"
    /\ UNCHANGED <<moverFrame, nvmeVars, path_cache_map, queueVars>>

\* POSIX lets pthread_cond_wait return without a signal.
MoverSpuriousWake ==
    /\ Up
    /\ mover = "wait"
    /\ mover' = "woken"
    /\ UNCHANGED <<moverFrame, nvmeVars, path_cache_map, queueVars>>

\* data_mutex regained: leave batch in local_list and rest in data_queue, and unlock.
DrainTo(batch, rest) ==
    /\ Up
    /\ mover = "woken"
    /\ local_list' = batch
    /\ data_queue' = rest
    /\ mover' = "work"
    /\ UNCHANGED <<moverFrame, nvmeVars, path_cache_map>>

\* The first n paths of the queue.
QueueHead(n) == SubSeq(data_queue, 1, n)

\* Mutant: only the front of the queue is moved before the queue is cleared.
MoverDrainLoses == DrainTo(QueueHead(IF data_queue = <<>> THEN 0 ELSE 1), <<>>)

\* The whole queue moves to local_list.
MoverDrain == DrainTo(local_list \o data_queue, <<>>)

\* Mutant: path_cache_map is set before fs::copy runs.
MoverPublishFirst ==
    /\ Up
    /\ mover = "work"
    /\ local_list # <<>>
    /\ Head(local_list) \in pfs
    /\ \E d \in Dirs :
        /\ copyOf[d] = NoFile
        /\ copyOf' = [copyOf EXCEPT ![d] = Head(local_list)]
        /\ path_cache_map' = [path_cache_map EXCEPT ![Head(local_list)] = d]
        /\ newdir' = d
    /\ mover' = "copy"
    /\ UNCHANGED <<moverFrame, copied, queueVars>>

\* mkdtemp and the start of fs::copy.
MoverStartCopy ==
    /\ Up
    /\ mover = "work"
    /\ local_list # <<>>
    /\ Head(local_list) \in pfs
    /\ \E d \in Dirs :
        /\ copyOf[d] = NoFile
        /\ copyOf' = [copyOf EXCEPT ![d] = Head(local_list)]
        /\ newdir' = d
    /\ mover' = "copy"
    /\ UNCHANGED <<moverFrame, copied, path_cache_map, queueVars>>

\* fs::copy throws before or during the copy; the catch block logs.  A partial copy
\* stays behind, unpublished, and rest in local_list.
CopyFails(rest) ==
    /\ Up
    /\ local_list # <<>>
    /\ \/ mover = "work" /\ (Head(local_list) \notin pfs \/ \A d \in Dirs : copyOf[d] # NoFile)
       \/ mover = "copy" /\ MayFailIO
    /\ local_list' = rest
    /\ newdir' = NoDir
    /\ mover' = "work"
    /\ UNCHANGED <<moverFrame, copyOf, copied, path_cache_map, data_queue>>

\* Mutant: pop only on success, so a failed copy is tried again.
MoverCopyRetries == CopyFails(local_list)

\* The path is popped all the same.
MoverCopyFails == CopyFails(Tail(local_list))

\* fs::copy returned; the assignment to path_cache_map begins.
MoverCopied ==
    /\ Up
    /\ mover = "copy"
    /\ copied' = copied \cup {newdir}
    /\ mover' = "publish"
    /\ UNCHANGED <<moverFrame, copyOf, newdir, path_cache_map, queueVars>>

\* path_cache_map[local_list.front()] = filename is complete.
MoverPublish ==
    /\ Up
    /\ mover = "publish"
    /\ path_cache_map' = [path_cache_map EXCEPT ![Head(local_list)] = newdir]
    /\ local_list' = Tail(local_list)
    /\ newdir' = NoDir
    /\ mover' = "work"
    /\ UNCHANGED <<moverFrame, copyOf, copied, data_queue>>

MoverLoop ==
    /\ Up
    /\ mover = "work"
    /\ local_list = <<>>
    /\ mover' = "lock"
    /\ UNCHANGED <<moverFrame, nvmeVars, path_cache_map, queueVars>>

-----------------------------------------------------------------------------
\* What a client does once the server is gone is of no interest here.
ClientStep(h) ==
    /\ Up
    /\ h \notin dead
    /\ \/ \E f \in Files : OpenCall(h, f)
       \/ OpenReturn(h)
       \/ \E n \in ReadSizes, off \in Offsets : ReadCall(h, n, off)
       \/ ReadReturn(h)
       \/ \E off \in Offsets, whence \in Whences : SeekCall(h, off, whence)
       \/ SeekReturn(h)
       \/ CloseCall(h)

\* hvac_progress_fn serving handle h.
Serve(h) ==
    \/ hvac_open_rpc_handler(h)
    \/ hvac_rpc_handler(h)
    \/ hvac_rpc_handler_bulk_cb(h)
    \/ hvac_seek_rpc_handler(h)

hvac_data_mover_fn ==
    \/ MoverWait
    \/ MoverDrain
    \/ MoverStartCopy
    \/ MoverCopyFails
    \/ MoverCopied
    \/ MoverPublish
    \/ MoverLoop

\* After an abort nothing is left that must happen.
Stopped == ~Up /\ UNCHANGED vars

Next ==
    \/ \E h \in Handles : ClientStep(h) \/ Serve(h)
    \/ \E fd \in Fds \cup {Bad} : hvac_close_rpc_handler(fd)
    \/ \E f \in Files : Unlink(f)
    \/ \E h \in Handles : ClientDies(h)
    \/ hvac_data_mover_fn
    \/ MoverSpuriousWake
    \/ Stopped

Spec == Init /\ [][Next]_vars

\* A response reaches a client that is still there.
Return(h) ==
    /\ Up
    /\ h \notin dead
    /\ OpenReturn(h) \/ ReadReturn(h) \/ SeekReturn(h)

\* The progress thread and the mover keep running; so does the delivery of
\* responses.  Nothing is assumed of applications.
Fairness ==
    /\ \A h \in Handles :
        /\ WF_vars(Serve(h))
        /\ WF_vars(Return(h))
    /\ \A fd \in Fds \cup {Bad} : WF_vars(hvac_close_rpc_handler(fd))
    /\ WF_vars(hvac_data_mover_fn)

FairSpec == Spec /\ Fairness
-----------------------------------------------------------------------------
(* Properties.                                                             *)

Live == {"idle", "reading", "bulk", "read", "seeking", "sought"}

\* Handle h stands for server descriptor fd: the open response carries it, or
\* fd_redir_map holds it.
Holds(h, fd) ==
    \/ stage[h] = "opened" /\ ret[h] = fd
    \/ stage[h] \in Live /\ rfd[h] = fd

\* Every open server descriptor belongs to exactly one client handle or to one
\* close RPC in flight, and nobody names a descriptor that is not open.  The
\* close RPC is asynchronous and descriptor numbers are reused: a late close
\* must never hit a descriptor that open gave to somebody else, and none may
\* leak (hvac_open_rpc_handler, hvac_close_rpc_handler).
DescriptorAccounting ==
    \A fd \in Fds :
        /\ \A g, h \in Handles : Holds(g, fd) /\ Holds(h, fd) => g = h
        /\ \A h \in Handles : Holds(h, fd) => IsOpen(fd) /\ fd \notin closing
        /\ fd \in closing => IsOpen(fd)
        /\ IsOpen(fd) => fd \in closing \/ \E h \in Handles : Holds(h, fd)

\* A handle's descriptor reads the bytes of the path the handle was opened with,
\* whether it was redirected to an NVMe copy or not, and however the open raced
\* with the mover's write of path_cache_map; and fd_to_path remembers that
\* original path, which is what the close handler will queue.
HandleSeesItsFile ==
    \A fd \in Fds :
        /\ \A h \in Handles : Holds(h, fd) =>
            Content(fdObj[fd]) = path[h] /\ fd_to_path[fd] = path[h]
        /\ fd \in closing =>
            fd_to_path[fd] \in Files /\ Content(fdObj[fd]) = fd_to_path[fd]

\* path_cache_map never points at a copy that is missing, partial or of another
\* file, whatever copies failed and however often a path was queued
\* (hvac_data_mover_fn publishes only after fs::copy returned).
RedirectComplete ==
    \A f \in Files : path_cache_map[f] \in Dirs =>
        path_cache_map[f] \in copied /\ copyOf[path_cache_map[f]] = f

\* What h is entitled to find in its buffer: the range that starts where its
\* own sequential reads left off, or at the offset it gave to pread.
Wanted(h) == IF arg[h].off = -1 THEN cpos[h] ELSE arg[h].off

\* The server's file offset and the application's idea of it agree: reads
\* deliver the wanted range of the right file, pread leaves the offset alone,
\* and a seek answers the offset it set (hvac_rpc_handler,
\* hvac_seek_rpc_handler).  A request too wide for input_val gets a shorter piece
\* of that range, never another.
ReadsRightData ==
    \A h \in Handles :
        /\ stage[h] \in {"bulk", "read"} =>
            /\ data[h] = [src |-> path[h], at |-> Wanted(h)]
            /\ ret[h] <= Bytes(Wanted(h), arg[h].n)
            /\ arg[h].n < HalfWord => ret[h] = Bytes(Wanted(h), arg[h].n)
        /\ stage[h] \in Live /\ rfd[h] # Bad =>
            fdPos[rfd[h]] =
                IF stage[h] \in {"bulk", "read"} /\ arg[h].off = -1 THEN cpos[h] + ret[h]
                ELSE IF stage[h] = "sought" /\ ret[h] # Bad THEN ret[h]
                ELSE cpos[h]

\* What it takes to bring the server down for everybody.  The assertions on a bad
\* descriptor fail only after some open failed and its -1 was handed to a client
\* (fd_to_path[-1] is the trace such an open leaves), the one on the buffer only
\* for a request of 2 GiB or more, the one on the bulk transfer only when a client
\* process has ended.
AbortHasCause ==
    /\ aborted \in {"close", "transfer"} => fd_to_path[Bad] # NoFile
    /\ aborted = "alloc" => \E h \in Handles : arg[h].n >= HalfWord
    /\ aborted = "peer" => dead # {}

\* Work pending at the mover, in order.
Pending == local_list \o data_queue

\* A path queued for the mover is neither lost, duplicated nor overtaken: the
\* pending work grows at the end, and shrinks only at the front of a batch the
\* mover already holds, one path a step (hvac_close_rpc_handler against the drain
\* loop of hvac_data_mover_fn).
PendingIsFifo ==
    [][\/ Pending' = Pending
       \/ \E f \in Files : Pending' = Append(Pending, f)
       \/ local_list # <<>> /\ Pending' = Tail(Pending)]_vars

\* Every open, read and seek RPC is answered, unless the server died or nobody is
\* left to take the answer.
CallsReturn ==
    \A h \in Handles :
        stage[h] \notin {"closed", "idle"} ~>
            (stage[h] \in {"closed", "idle"} \/ ~Up \/ h \in dead)

\* Once awake the mover works off its batch and comes back for more, even if
\* every copy fails.
BatchFinishes ==
    mover \notin {"lock", "wait"} ~> ((mover = "lock" /\ local_list = <<>>) \/ ~Up)

\* A path queued when a file is closed reaches the mover, as the comment at the
\* close handler says ("Signal to the data mover to copy the file").
QueueDrained == data_queue # <<>> ~> (data_queue = <<>> \/ ~Up)

\* assert(ret == 0) after close(in.fd) in hvac_close_rpc_handler holds.
CloseAssertHolds == aborted # "close"
=============================================================================
