----------------------------- MODULE HvacClient -----------------------------
(***************************************************************************)
(* One client process under LD_PRELOAD: the interposed open, read, pread   *)
(* and close (wrappers.c), the tracking of descriptors (hvac_client.cpp),  *)
(* the RPC stubs and their callbacks on the Mercury progress thread        *)
(* (hvac_comm_client.cpp).                                                 *)
(*                                                                         *)
(* Application threads share one flag, done, and one result, read_ret.     *)
(* done is reset without done_mutex, so a callback's done++ (a load and a  *)
(* store) can straddle the reset.  The server is reduced to what a client  *)
(* sees of it: an answer to each open, read and seek RPC.                  *)
(***************************************************************************)
EXTENDS Integers

CONSTANTS
    Threads,    \* application threads
    Tracked,    \* paths hvac_track_file tracks
    Untracked,  \* all other opens: outside HVAC_DATA_DIR, O_WRONLY, O_APPEND
    Fds,        \* local descriptor numbers
    ServerFds,  \* descriptor numbers the server may answer
    NoPath, None

ASSUME ClientAssumption ==
    /\ Fds \subseteq Nat
    /\ ServerFds \subseteq Nat \ {0}
    /\ Tracked \cap Untracked = {}
    /\ NoPath \notin Tracked \cup Untracked
    /\ None \notin Fds \cup ServerFds \cup {-1, 0}

VARIABLES
    pc,             \* where each thread is
    call,           \* its call: operation, local descriptor, parity
    result,         \* what its last read returned: whose answer
    kfd,            \* the process's kernel descriptor table
    fd_map,         \* tracked descriptor -> path
    fd_redir_map,   \* tracked descriptor -> server descriptor
    g_mercury_init,
    contexts,       \* how often hvac_init_comm has run
    done,
    read_ret,       \* the call whose answer it holds; None for -1
    sent,           \* RPCs the server has not answered
    answers,        \* responses the progress thread has not processed
    cb,             \* the callback holding done_mutex, with the done it loaded
    closes,         \* server descriptors named by close RPCs in flight
    owner,          \* server side: which local descriptor each was opened for
    alive,          \* is the server process running?
    aborted         \* did an assertion of the client fail?

threadVars == <<pc, call, result>>
mapVars    == <<fd_map, fd_redir_map>>
initVars   == <<g_mercury_init, contexts>>
doneVars   == <<done, read_ret>>
wireVars   == <<sent, answers, cb>>
serverVars == <<closes, owner, alive>>
vars == <<threadVars, kfd, mapVars, initVars, doneVars, wireVars, serverVars, aborted>>

Bad == -1
Default == 0        \* what fd_redir_map[fd] inserts for a missing key
DoneRange == 256    \* hg_bool_t is an 8 bit integer
TRUE_ == 1          \* HG_TRUE

Calls == [op: {"open", "read", "seek", "close", "none"}, fd: Fds \cup {None}, id: {0, 1}]
Rpcs == [t: Threads, op: {"open", "read", "seek"}, fd: Fds, id: {0, 1},
         sfd: ServerFds \cup {Bad, Default, None}]
ByReadRet == {"read", "seek"}   \* calls that get their result through read_ret
Tags == [t: Threads, id: {0, 1}]
TagOf(r) == [t |-> r.t, id |-> r.id]
Pcs == {"idle", "track", "init", "reset", "forward", "block", "wait", "realclose"}

TypeOK ==
    /\ pc \in [Threads -> Pcs]
    /\ call \in [Threads -> Calls]
    /\ result \in [Threads -> Tags \cup {None}]
    /\ kfd \in [Fds -> Tracked \cup Untracked \cup {NoPath}]
    /\ fd_map \in [Fds -> Tracked \cup {NoPath}]
    /\ fd_redir_map \in [Fds -> ServerFds \cup {Bad, Default, None}]
    /\ g_mercury_init \in BOOLEAN
    /\ contexts \in Nat
    /\ done \in 0..(DoneRange - 1)
    /\ read_ret \in Tags \cup {None}
    /\ sent \subseteq Rpcs
    /\ answers \subseteq [rpc: Rpcs, val: ServerFds \cup {Bad, None}]
    /\ cb \in [rpc: Rpcs, val: ServerFds \cup {Bad, None}, seen: 0..(DoneRange - 1)] \cup {None}
    /\ closes \subseteq ServerFds \cup {Bad, Default}
    /\ owner \in [ServerFds -> Fds \cup {None}]
    /\ alive \in BOOLEAN
    /\ aborted \in BOOLEAN

Init ==
    /\ pc = [t \in Threads |-> "idle"]
    /\ call = [t \in Threads |-> [op |-> "none", fd |-> None, id |-> 0]]
    /\ result = [t \in Threads |-> None]
    /\ kfd = [fd \in Fds |-> NoPath]
    /\ fd_map = [fd \in Fds |-> NoPath]
    /\ fd_redir_map = [fd \in Fds |-> None]
    /\ g_mercury_init = FALSE
    /\ contexts = 0
    /\ done = 0
    /\ read_ret = None
    /\ sent = {}
    /\ answers = {}
    /\ cb = None
    /\ closes = {}
    /\ owner = [s \in ServerFds |-> None]
    /\ alive = TRUE
    /\ aborted = FALSE

-----------------------------------------------------------------------------
(* Application threads.                                                    *)

\* After a second hvac_init_comm the globals hg_class and hg_context belong to two
\* progress threads; nothing is claimed of what happens then.
Running == ~aborted /\ contexts <= 1

\* A thread begins a call.  The parity tells it from the thread's last call.
Begin(t, op, fd) ==
    call' = [call EXCEPT ![t] = [op |-> op, fd |-> fd, id |-> 1 - @.id]]

Goto(t, to) == pc' = [pc EXCEPT ![t] = to]

\* open: __real_open gives a local descriptor.
WRAP_open(t, p) ==
    /\ Running
    /\ pc[t] = "idle"
    /\ \E fd \in Fds :
        /\ kfd[fd] = NoPath
        /\ kfd' = [kfd EXCEPT ![fd] = p]
        /\ Begin(t, "open", fd)
    /\ Goto(t, "track")
    /\ UNCHANGED <<result, mapVars, initVars, doneVars, wireVars, serverVars, aborted>>

\* Mutant: the access mode and data directory tests are dropped.
TrackAll(t) ==
    LET fd == call[t].fd IN
    /\ Running
    /\ pc[t] = "track"
    /\ fd_map' = [fd_map EXCEPT ![fd] = kfd[fd]]
    /\ Goto(t, IF g_mercury_init THEN "reset" ELSE "init")
    /\ UNCHANGED <<call, result, kfd, fd_redir_map, initVars, doneVars, wireVars,
                   serverVars, aborted>>

\* hvac_track_file up to the test of g_mercury_init.
hvac_track_file(t) ==
    LET fd == call[t].fd IN
    /\ Running
    /\ pc[t] = "track"
    /\ \/ /\ kfd[fd] \in Untracked
          /\ Goto(t, "idle")
          /\ UNCHANGED fd_map
       \/ /\ kfd[fd] \in Tracked
          /\ fd_map' = [fd_map EXCEPT ![fd] = kfd[fd]]
          /\ Goto(t, IF g_mercury_init THEN "reset" ELSE "init")
    /\ UNCHANGED <<call, result, kfd, fd_redir_map, initVars, doneVars, wireVars,
                   serverVars, aborted>>

\* hvac_init_comm, hvac_client_comm_register_rpc, and only then the flag.
hvac_init_comm(t) ==
    /\ Running
    /\ pc[t] = "init"
    /\ contexts' = contexts + 1
    /\ g_mercury_init' = TRUE
    /\ Goto(t, "reset")
    /\ UNCHANGED <<call, result, kfd, mapVars, doneVars, wireVars, serverVars, aborted>>

\* Has the open that returns fd come back to the application?
Returned(fd) == \A u \in Threads : pc[u] # "idle" /\ call[u].op = "open" => call[u].fd # fd

RemoteCall(t, op, fd) ==
    /\ Running
    /\ pc[t] = "idle"
    /\ fd_map[fd] # NoPath /\ Returned(fd)
    /\ Begin(t, op, fd)
    /\ Goto(t, "reset")
    /\ UNCHANGED <<result, kfd, mapVars, initVars, doneVars, wireVars, serverVars, aborted>>

\* read of a tracked descriptor (hvac_remote_read).
WRAP_read(t, fd) == RemoteCall(t, "read", fd)

\* The library's seek, which an application must call by this name: the wrappers of
\* lseek are commented out.
hvac_remote_lseek(t, fd) == RemoteCall(t, "seek", fd)

\* pread of a tracked descriptor (hvac_remote_pread): falls back to __real_pread
\* when fd_redir_map[fd] is 0 or, inserting it, absent.
WRAP_pread(t, fd) ==
    LET absent == fd_redir_map[fd] \in {None, Default} IN
    /\ Running
    /\ pc[t] = "idle"
    /\ fd_map[fd] # NoPath /\ Returned(fd)
    /\ Begin(t, "read", fd)
    /\ Goto(t, IF absent THEN "idle" ELSE "reset")
    /\ fd_redir_map' = [fd_redir_map EXCEPT ![fd] = IF absent THEN Default ELSE @]
    /\ result' = [result EXCEPT ![t] = IF absent THEN None ELSE @]
    /\ UNCHANGED <<kfd, fd_map, initVars, doneVars, wireVars, serverVars, aborted>>

Reset(t, d) ==
    /\ Running
    /\ pc[t] = "reset"
    /\ done' = d
    /\ read_ret' = IF call[t].op \in ByReadRet THEN None ELSE read_ret
    /\ Goto(t, "forward")
    /\ UNCHANGED <<call, result, kfd, mapVars, initVars, wireVars, serverVars, aborted>>

\* Mutant: the stub leaves done as the last call left it.
NoReset(t) == Reset(t, done)

\* The first lines of hvac_client_comm_gen_open_rpc, _gen_read_rpc and _gen_seek_rpc.
ResetDone(t) == Reset(t, 0)

\* ... and their HG_Forward.  A read or seek names fd_redir_map[localfd].
HG_Forward(t) ==
    LET fd == call[t].fd
        sfd == IF call[t].op = "open" THEN None
               ELSE IF fd_redir_map[fd] = None THEN Default ELSE fd_redir_map[fd]
    IN  /\ Running
        /\ pc[t] = "forward"
        /\ sent' = sent \cup {[t |-> t, op |-> call[t].op, fd |-> fd, id |-> call[t].id,
                               sfd |-> sfd]}
        /\ fd_redir_map' = IF call[t].op = "open" THEN fd_redir_map
                           ELSE [fd_redir_map EXCEPT ![fd] = sfd]
        /\ Goto(t, "block")
        /\ UNCHANGED <<call, result, kfd, fd_map, initVars, doneVars, answers, cb,
                       serverVars, aborted>>

\* A thread that holds done_mutex goes on if it may, or waits.
BlockUnless(t, may) ==
    /\ Running
    /\ pc[t] = "block"
    /\ cb = None
    /\ \/ /\ may
          /\ Goto(t, "idle")
          /\ result' = [result EXCEPT ![t] = IF call[t].op \in ByReadRet THEN read_ret ELSE @]
       \/ done # TRUE_ /\ Goto(t, "wait") /\ UNCHANGED result
    /\ UNCHANGED <<call, kfd, mapVars, initVars, doneVars, wireVars, serverVars, aborted>>

\* Mutant: if (done != HG_TRUE) pthread_cond_wait(...), woken means finished.
BlockOnce(t) == BlockUnless(t, TRUE)

\* hvac_client_block, hvac_read_block and hvac_seek_block: test done under done_mutex.
hvac_client_block(t) == BlockUnless(t, done = TRUE_)

SpuriousWake(t) ==
    /\ Running
    /\ pc[t] = "wait"
    /\ Goto(t, "block")
    /\ UNCHANGED <<call, result, kfd, mapVars, initVars, doneVars, wireVars, serverVars, aborted>>

InUse(fd) == \E u \in Threads : pc[u] # "idle" /\ call[u].fd = fd

\* close: hvac_remove_fd forwards the close RPC, which nobody answers, and leaves
\* map and redir of its tables.  Applications do not close a descriptor that another
\* of their threads is using.
CloseLeaving(t, fd, map, redir) ==
    /\ Running
    /\ pc[t] = "idle"
    /\ kfd[fd] # NoPath /\ ~InUse(fd)
    /\ Begin(t, "close", fd)
    /\ IF fd_map[fd] = NoPath THEN UNCHANGED <<closes, mapVars>>
       ELSE /\ closes' = closes \cup {IF fd_redir_map[fd] = None THEN Default ELSE fd_redir_map[fd]}
            /\ fd_redir_map' = redir
            /\ fd_map' = map
    /\ Goto(t, "realclose")
    /\ UNCHANGED <<result, kfd, initVars, doneVars, wireVars, owner, alive, aborted>>

\* The two tables without fd.
MapErased(fd) == [fd_map EXCEPT ![fd] = NoPath]
RedirErased(fd) == [fd_redir_map EXCEPT ![fd] = None]

\* Mutant: the entry of fd_map is left behind.
CloseKeepsTracking(t, fd) == CloseLeaving(t, fd, fd_map, RedirErased(fd))

\* Mutant: fd_redir_map is not erased.
CloseKeepsRedir(t, fd) == CloseLeaving(t, fd, MapErased(fd), fd_redir_map)

\* Both entries go.
WRAP_close(t, fd) == CloseLeaving(t, fd, MapErased(fd), RedirErased(fd))

\* ... then __real_close makes the number available again.
RealClose(t) ==
    /\ Running
    /\ pc[t] = "realclose"
    /\ kfd' = [kfd EXCEPT ![call[t].fd] = NoPath]
    /\ Goto(t, "idle")
    /\ UNCHANGED <<call, result, mapVars, initVars, doneVars, wireVars, serverVars, aborted>>

-----------------------------------------------------------------------------
(* The server, as the client sees it.                                      *)

\* An open is answered with a descriptor that is not in use, or -1.
AnswerOpen(r) ==
    /\ Running /\ alive
    /\ r \in sent /\ r.op = "open"
    /\ sent' = sent \ {r}
    /\ \/ \E s \in ServerFds :
            /\ owner[s] = None
            /\ owner' = [owner EXCEPT ![s] = r.fd]
            /\ answers' = answers \cup {[rpc |-> r, val |-> s]}
       \/ /\ answers' = answers \cup {[rpc |-> r, val |-> Bad]}
          /\ UNCHANGED owner
    /\ UNCHANGED <<threadVars, kfd, mapVars, initVars, doneVars, cb, closes, alive, aborted>>

\* A read is answered when its descriptor is usable; a read of -1 ends the server.
AnswerRead(r) ==
    /\ Running /\ alive
    /\ r \in sent /\ r.op = "read"
    /\ IF r.sfd = Bad THEN alive' = FALSE /\ UNCHANGED <<sent, answers>>
       ELSE /\ sent' = sent \ {r}
            /\ answers' = answers \cup {[rpc |-> r, val |-> Bad]}
            /\ UNCHANGED alive
    /\ UNCHANGED <<threadVars, kfd, mapVars, initVars, doneVars, cb, closes, owner, aborted>>

\* A seek is answered whatever its descriptor is.
AnswerSeek(r) ==
    /\ Running /\ alive
    /\ r \in sent /\ r.op = "seek"
    /\ sent' = sent \ {r}
    /\ answers' = answers \cup {[rpc |-> r, val |-> Bad]}
    /\ UNCHANGED <<threadVars, kfd, mapVars, initVars, doneVars, cb, serverVars, aborted>>

\* A close RPC frees the descriptor; a close of -1 ends the server.
ServeClose(s) ==
    /\ Running /\ alive
    /\ s \in closes
    /\ closes' = closes \ {s}
    /\ alive' = (s # Bad)
    /\ owner' = IF s \in ServerFds THEN [owner EXCEPT ![s] = None] ELSE owner
    /\ UNCHANGED <<threadVars, kfd, mapVars, initVars, doneVars, wireVars, aborted>>

\* The transport reports that the server is gone, and hvac_seek_cb does not look at
\* info->ret: out stays uninitialised, and what it holds is nobody's answer (None).
SeekError(r) ==
    /\ Running /\ ~alive
    /\ r \in sent /\ r.op = "seek"
    /\ sent' = sent \ {r}
    /\ answers' = answers \cup {[rpc |-> r, val |-> None]}
    /\ UNCHANGED <<threadVars, kfd, mapVars, initVars, doneVars, cb, serverVars, aborted>>

\* The same for an open or a read: assert(info->ret == HG_SUCCESS).
RpcError(r) ==
    /\ Running /\ ~alive
    /\ r \in sent /\ r.op # "seek"
    /\ aborted' = TRUE
    /\ UNCHANGED <<threadVars, kfd, mapVars, initVars, doneVars, wireVars, serverVars>>

-----------------------------------------------------------------------------
(* The progress thread, hvac_progress_fn: hvac_open_cb, hvac_read_cb and   *)
(* hvac_seek_cb.                                                           *)

\* Up to the load of done in done++, inside the critical section.
CallbackBegin(a) ==
    /\ Running
    /\ cb = None
    /\ a \in answers
    /\ answers' = answers \ {a}
    /\ fd_redir_map' = IF a.rpc.op = "open" THEN [fd_redir_map EXCEPT ![a.rpc.fd] = a.val]
                       ELSE fd_redir_map
    /\ cb' = [rpc |-> a.rpc, val |-> a.val, seen |-> done]
    /\ UNCHANGED <<threadVars, kfd, fd_map, initVars, doneVars, sent, serverVars, aborted>>

\* Whose answer the callback stores in read_ret.
Delivered == IF cb.val = None THEN None ELSE TagOf(cb.rpc)

\* Mutant: pthread_cond_signal is forgotten.
CallbackNoSignal ==
    /\ Running
    /\ cb # None
    /\ done' = (cb.seen + 1) % DoneRange
    /\ read_ret' = IF cb.rpc.op \in ByReadRet THEN Delivered ELSE read_ret
    /\ cb' = None
    /\ UNCHANGED <<threadVars, kfd, mapVars, initVars, sent, answers, serverVars, aborted>>

\* The store of done, read_ret, pthread_cond_signal and the unlock.
CallbackEnd ==
    /\ Running
    /\ cb # None
    /\ done' = (cb.seen + 1) % DoneRange
    /\ read_ret' = IF cb.rpc.op \in ByReadRet THEN Delivered ELSE read_ret
    /\ cb' = None
    /\ \/ \E u \in Threads : pc[u] = "wait" /\ Goto(u, "block")
       \/ (\A u \in Threads : pc[u] # "wait") /\ UNCHANGED pc
    /\ UNCHANGED <<call, result, kfd, mapVars, initVars, sent, answers, serverVars, aborted>>

-----------------------------------------------------------------------------
\* The steps of a call once it has begun.
Continue(t) ==
    \/ hvac_track_file(t)
    \/ hvac_init_comm(t)
    \/ ResetDone(t)
    \/ HG_Forward(t)
    \/ hvac_client_block(t)
    \/ RealClose(t)

AppCall(t) ==
    \/ \E p \in Tracked \cup Untracked : WRAP_open(t, p)
    \/ \E fd \in Fds : WRAP_read(t, fd) \/ WRAP_pread(t, fd)
                         \/ hvac_remote_lseek(t, fd) \/ WRAP_close(t, fd)

\* An RPC of thread t is answered or fails.
Answer(t) ==
    \E r \in sent : r.t = t /\ (AnswerOpen(r) \/ AnswerRead(r) \/ AnswerSeek(r)
                                \/ RpcError(r) \/ SeekError(r))

\* The progress thread takes up the answer to an RPC of thread t.
Callback(t) == \E a \in answers : a.rpc.t = t /\ CallbackBegin(a)

Stopped == ~Running /\ UNCHANGED vars

Next ==
    \/ \E t \in Threads : AppCall(t) \/ Continue(t) \/ SpuriousWake(t)
                         \/ Answer(t) \/ Callback(t)
    \/ CallbackEnd
    \/ \E s \in closes : ServeClose(s)
    \/ Stopped

Spec == Init /\ [][Next]_vars

\* Threads inside a call are scheduled and get done_mutex in turn, RPCs are
\* answered or fail, the progress thread takes up every answer in turn.
\* Applications need not call anything.
FairSpec ==
    /\ Spec
    /\ \A t \in Threads : SF_vars(Continue(t)) /\ WF_vars(Answer(t)) /\ SF_vars(Callback(t))
    /\ WF_vars(CallbackEnd)

-----------------------------------------------------------------------------
(* Properties.                                                             *)

Outstanding ==
    sent \cup {a.rpc : a \in answers} \cup (IF cb = None THEN {} ELSE {cb.rpc})

\* hvac_client_block "blocks the current thread until an asynchronous remote
\* procedure call (RPC) completes": while an RPC is outstanding, the thread that
\* sent it is still inside that very call.
BlocksUntilDone ==
    \A r \in Outstanding :
        pc[r.t] \in {"block", "wait"} /\ call[r.t].id = r.id /\ call[r.t].op = r.op

\* A finished read returns the answer to itself, not a stale or foreign read_ret
\* and not -1, which would make the wrapper read the local file instead.  So does a
\* finished seek while the server is up; hvac_seek_cb, unlike the other callbacks,
\* does not notice that it is gone.
ReadsOwnAnswer ==
    \A t \in Threads : pc[t] = "idle" /\ call[t].op \in ByReadRet =>
        \/ result[t] = [t |-> t, id |-> call[t].id]
        \/ call[t].op = "seek" /\ ~alive

\* fd_map describes the kernel's descriptor table across reuse of descriptor
\* numbers: it never calls an untracked or closed descriptor tracked
\* (hvac_remove_fd runs before __real_close, hvac_track_file after __real_open).
TrackingMatchesKernel ==
    \A fd \in Fds : fd_map[fd] # NoPath => kfd[fd] = fd_map[fd]

\* fd_redir_map leads every tracked descriptor, outside of its own open call, to
\* the server descriptor that was opened for it (or to the -1 of a failed
\* open), and no close RPC in flight names one that is still in use.  In
\* particular the 0 that operator[] inserts for a missing key, the server's
\* standard input, is never read or closed.
RedirectionConsistent ==
    /\ \A fd \in Fds : fd_map[fd] # NoPath /\ ~InUse(fd) =>
        \/ fd_redir_map[fd] = Bad
        \/ fd_redir_map[fd] \in ServerFds /\ owner[fd_redir_map[fd]] = fd
    /\ \A s \in closes : s # Default /\ \A fd \in Fds : s \in ServerFds => fd_redir_map[fd] # s
    /\ \A r \in sent : r.sfd # Default

\* "I think I only need to do this once": Mercury is initialised once a process.
InitOnce == contexts <= 1

\* Every intercepted call returns, unless an assertion ended the process.
CallsReturn == \A t \in Threads : pc[t] # "idle" ~> (pc[t] = "idle" \/ ~Running)
=============================================================================
