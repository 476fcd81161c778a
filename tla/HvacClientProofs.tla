-------------------------- MODULE HvacClientProofs ---------------------------
(***************************************************************************)
(* Proofs about HvacClient.  What concerns the descriptor tables alone     *)
(* (ThreadsInv) is proved for any number of application threads; what      *)
(* goes through done and read_ret is proved for applications with one      *)
(* thread (OneThread): HvacClientHang and HvacClientInitOnce are what      *)
(* happens with two.                                                       *)
(***************************************************************************)
EXTENDS HvacClient, TLAPS

(* Any number of threads: where a call is, and the kernel's descriptors.   *)

InRpc == {"reset", "forward", "block", "wait"}

\* How far a call has come fits what it is.
PcInv ==
    \A t \in Threads :
        /\ pc[t] # "idle" => call[t].fd \in Fds
        /\ pc[t] \in {"track", "init"} => call[t].op = "open"
        /\ pc[t] \in InRpc => call[t].op \in {"open", "read", "seek"}
        /\ pc[t] = "realclose" => call[t].op = "close"

\* A call in progress is about an open descriptor, a tracked one from
\* hvac_track_file on; nobody else works on a descriptor that is being opened and
\* not tracked yet, or closed and not tracked any more.
KernelInv ==
    \A t \in Threads : LET fd == call[t].fd IN
        /\ pc[t] # "idle" => kfd[fd] # NoPath
        /\ pc[t] \in {"init"} \cup InRpc => fd_map[fd] # NoPath
        /\ pc[t] \in {"track", "realclose"} =>
            /\ fd_map[fd] = NoPath
            /\ \A u \in Threads \ {t} : pc[u] # "idle" => call[u].fd # fd

ThreadsInv == TypeOK /\ PcInv /\ KernelInv /\ TrackingMatchesKernel

-----------------------------------------------------------------------------
(* One thread: the flag done and the redirection.                          *)

OneThread == \A t, u \in Threads : t = u

\* Mercury is initialised exactly when the flag is set.
MercuryInv ==
    /\ contexts = IF g_mercury_init THEN 1 ELSE 0
    /\ \A t \in Threads : pc[t] = "init" => ~g_mercury_init

\* The RPC is about the call its thread is blocked in.
Busy(t) == pc[t] \in {"block", "wait"}
Current(r) ==
    Busy(r.t) /\ call[r.t].op = r.op /\ call[r.t].fd = r.fd /\ call[r.t].id = r.id

\* At most one RPC is under way, in one place, and it is the thread's current call.
FlightInv ==
    /\ \A r \in sent : Current(r)
    /\ \A a \in answers : Current(a.rpc)
    /\ cb # None => Current(cb.rpc)
    /\ \A r, s \in sent : r = s
    /\ \A a, b \in answers : a = b
    /\ sent # {} => answers = {} /\ cb = None
    /\ answers # {} => cb = None

\* done is 0 from the reset to the callback's store.
DoneInv ==
    /\ \A t \in Threads : pc[t] = "forward" => done = 0
    /\ sent # {} \/ answers # {} \/ cb # None => done = 0
    /\ cb # None => cb.seen = 0

\* An answer is nobody's only if it is a seek's and the server is gone.
OwnOrDead(o, v) == v = None => o = "seek" /\ ~alive

\* Once done is set, read_ret holds the answer to the thread's call.
AnswerInv ==
    /\ \A a \in answers : OwnOrDead(a.rpc.op, a.val)
    /\ cb # None => OwnOrDead(cb.rpc.op, cb.val)
    /\ \A t \in Threads : Busy(t) /\ call[t].op \in ByReadRet /\ done # 0 =>
        \/ read_ret = [t |-> t, id |-> call[t].id]
        \/ call[t].op = "seek" /\ ~alive

\* Thread t is opening fd, and its server descriptor is not in fd_redir_map yet.
OpeningBy(t, fd) ==
    /\ call[t].op = "open" /\ call[t].fd = fd
    /\ \/ pc[t] \in {"init", "reset", "forward"}
       \/ Busy(t) /\ (sent # {} \/ answers # {})
Opening(fd) == \E t \in Threads : OpeningBy(t, fd)

\* Server descriptor s was opened for fd, or the open failed.
OpenedFor(s, fd) == s = Bad \/ (s \in ServerFds /\ owner[s] = fd)

\* What fd_redir_map holds, entry by entry, and the descriptor on its way into it.
RedirInv ==
    /\ \A fd \in Fds :
        IF fd_map[fd] = NoPath \/ Opening(fd) THEN fd_redir_map[fd] = None
        ELSE OpenedFor(fd_redir_map[fd], fd)
    /\ \A a \in answers : a.rpc.op = "open" => OpenedFor(a.val, a.rpc.fd)

\* Descriptors named by close RPCs are still open at the server, and nowhere else.
ClosesInv ==
    /\ Default \notin closes
    /\ \A s \in closes \cap ServerFds :
        /\ owner[s] # None
        /\ \A fd \in Fds : fd_redir_map[fd] # s
        /\ \A a \in answers : a.val # s

IInv ==
    /\ ThreadsInv
    /\ MercuryInv
    /\ FlightInv
    /\ DoneInv
    /\ AnswerInv
    /\ ReadsOwnAnswer
    /\ RedirInv
    /\ ClosesInv
    /\ \A r \in sent : r.sfd # Default

-----------------------------------------------------------------------------
(* Any number of threads.                                                  *)

\* The initial state satisfies every invariant.
LEMMA InitIInv == Init => IInv
  <1> SUFFICES ASSUME Init PROVE IInv
    OBVIOUS
  <1>0. /\ NoPath \notin Tracked \cup Untracked
        /\ None \notin Fds \cup ServerFds \cup {-1, 0}
    BY ClientAssumption
  <1>1. TypeOK
    <2>1. pc \in [Threads -> Pcs] /\ call \in [Threads -> Calls]
      BY DEF Init, Calls, Pcs
    <2>2. done \in 0..(DoneRange - 1) /\ contexts \in Nat
      BY DEF Init, DoneRange
    <2>3. QED
      BY <2>1, <2>2 DEF Init, TypeOK
  <1>2. PcInv /\ KernelInv /\ TrackingMatchesKernel
    BY DEF Init, PcInv, KernelInv, TrackingMatchesKernel, InRpc
  <1>3. MercuryInv /\ FlightInv /\ DoneInv /\ AnswerInv
    BY DEF Init, MercuryInv, FlightInv, DoneInv, AnswerInv
  <1>4. ReadsOwnAnswer /\ RedirInv /\ ClosesInv /\ \A r \in sent : r.sfd # Default
    BY DEF Init, ReadsOwnAnswer, ByReadRet, RedirInv, ClosesInv
  <1>5. QED
    BY <1>1, <1>2, <1>3, <1>4 DEF IInv, ThreadsInv

\* The steps of the server and the progress thread: they leave the calls and the
\* kernel's table alone, and wake at most one waiting thread.
Remote ==
    \/ \E t \in Threads : Answer(t) \/ Callback(t)
    \/ CallbackEnd
    \/ \E s \in closes : ServeClose(s)
    \/ Stopped

\* What a remote step leaves alone.
LEMMA RemoteFrame ==
  ASSUME TypeOK, Remote
  PROVE  /\ UNCHANGED <<call, result, kfd, fd_map, initVars>>
         /\ pc' \in [Threads -> Pcs]
         /\ \A t \in Threads : pc'[t] = pc[t] \/ (pc[t] = "wait" /\ pc'[t] = "block")
  <1> USE DEF threadVars, mapVars, initVars, doneVars, wireVars, serverVars
  <1>1. ASSUME NEW t \in Threads, Answer(t) PROVE UNCHANGED <<pc, call, result, kfd, fd_map, initVars>>
    BY <1>1 DEF Answer, AnswerOpen, AnswerRead, AnswerSeek, RpcError, SeekError
  <1>2. ASSUME NEW t \in Threads, Callback(t) PROVE UNCHANGED <<pc, call, result, kfd, fd_map, initVars>>
    BY <1>2 DEF Callback, CallbackBegin
  <1>3. ASSUME NEW s \in closes, ServeClose(s) PROVE UNCHANGED <<pc, call, result, kfd, fd_map, initVars>>
    BY <1>3 DEF ServeClose
  <1>4. CASE Stopped
    BY <1>4 DEF Stopped, vars, TypeOK
  <1>5. CASE CallbackEnd
    BY <1>5 DEF CallbackEnd, Goto, TypeOK, Pcs
  <1>6. QED
    BY <1>1, <1>2, <1>3, <1>4, <1>5 DEF Remote, TypeOK

\* A thread's step moves its own program counter only.
LEMMA GotoType ==
  ASSUME TypeOK, NEW t \in Threads, NEW to \in Pcs, Goto(t, to)
  PROVE  /\ pc' \in [Threads -> Pcs]
         /\ pc'[t] = to
         /\ \A u \in Threads \ {t} : pc'[u] = pc[u]
  BY DEF Goto, TypeOK

\* ... and begins its own call only.
LEMMA BeginType ==
  ASSUME TypeOK, NEW t \in Threads, NEW op \in {"open", "read", "seek", "close"},
         NEW fd \in Fds, Begin(t, op, fd)
  PROVE  /\ call' \in [Threads -> Calls]
         /\ call'[t].op = op /\ call'[t].fd = fd /\ call'[t].id = 1 - call[t].id
         /\ \A u \in Threads \ {t} : call'[u] = call[u]
  <1>1. call \in [Threads -> Calls] /\ call[t].id \in {0, 1}
    BY DEF TypeOK, Calls
  <1>2. [op |-> op, fd |-> fd, id |-> 1 - call[t].id] \in Calls
    BY <1>1 DEF Calls
  <1>3. QED
    BY <1>1, <1>2 DEF Begin

\* Every step preserves the types.
LEMMA TypeStep == TypeOK /\ PcInv /\ Next => TypeOK'
  <1> SUFFICES ASSUME TypeOK, PcInv, Next PROVE TypeOK'
    OBVIOUS
  <1> USE DEF threadVars, mapVars, initVars, doneVars, wireVars, serverVars
  <1>1. ASSUME NEW t \in Threads, NEW p \in Tracked \cup Untracked, WRAP_open(t, p)
        PROVE  TypeOK'
    <2>1. PICK fd \in Fds : kfd' = [kfd EXCEPT ![fd] = p] /\ Begin(t, "open", fd)
      BY <1>1 DEF WRAP_open
    <2>2. pc' \in [Threads -> Pcs] /\ call' \in [Threads -> Calls]
      BY <1>1, <2>1, GotoType, BeginType DEF WRAP_open, Pcs
    <2>3. QED
      BY <1>1, <2>1, <2>2 DEF WRAP_open, TypeOK
  <1>2. ASSUME NEW t \in Threads, hvac_track_file(t) PROVE TypeOK'
    <2>1. pc' \in [Threads -> Pcs]
      BY <1>2, GotoType DEF hvac_track_file, Pcs
    <2>2. fd_map' \in [Fds -> Tracked \cup {NoPath}]
      BY <1>2 DEF hvac_track_file, TypeOK
    <2>3. QED
      BY <1>2, <2>1, <2>2 DEF hvac_track_file, TypeOK
  <1>3. ASSUME NEW t \in Threads, hvac_init_comm(t) PROVE TypeOK'
    <2>1. pc' \in [Threads -> Pcs]
      BY <1>3, GotoType DEF hvac_init_comm, Pcs
    <2>2. QED
      BY <1>3, <2>1 DEF hvac_init_comm, TypeOK
  <1>4. ASSUME NEW t \in Threads, NEW fd \in Fds, NEW op \in {"read", "seek"}, RemoteCall(t, op, fd)
        PROVE  TypeOK'
    <2>1. pc' \in [Threads -> Pcs] /\ call' \in [Threads -> Calls]
      BY <1>4, GotoType, BeginType DEF RemoteCall, Pcs
    <2>2. QED
      BY <1>4, <2>1 DEF RemoteCall, TypeOK
  <1>5. ASSUME NEW t \in Threads, NEW fd \in Fds, WRAP_pread(t, fd) PROVE TypeOK'
    <2>1. pc' \in [Threads -> Pcs] /\ call' \in [Threads -> Calls]
      BY <1>5, GotoType, BeginType DEF WRAP_pread, Pcs
    <2>2. /\ fd_redir_map' \in [Fds -> ServerFds \cup {Bad, Default, None}]
          /\ result' \in [Threads -> Tags \cup {None}]
      BY <1>5 DEF WRAP_pread, TypeOK
    <2>3. QED
      BY <1>5, <2>1, <2>2 DEF WRAP_pread, TypeOK
  <1>6. ASSUME NEW t \in Threads, ResetDone(t) PROVE TypeOK'
    <2>1. pc' \in [Threads -> Pcs]
      BY <1>6, GotoType DEF ResetDone, Reset, Pcs
    <2>2. QED
      BY <1>6, <2>1 DEF ResetDone, Reset, TypeOK, DoneRange
  <1>7. ASSUME NEW t \in Threads, HG_Forward(t) PROVE TypeOK'
    <2>1. pc' \in [Threads -> Pcs]
      BY <1>7, GotoType DEF HG_Forward, Pcs
    <2>2. /\ call[t].fd \in Fds /\ call[t].op \in {"open", "read", "seek"}
          /\ call[t].id \in {0, 1}
      BY <1>7 DEF HG_Forward, PcInv, InRpc, TypeOK, Calls
    <2>3. fd_redir_map[call[t].fd] \in ServerFds \cup {Bad, Default, None}
      BY <2>2 DEF TypeOK
    <2>4. fd_redir_map' \in [Fds -> ServerFds \cup {Bad, Default, None}]
      BY <1>7, <2>2, <2>3 DEF HG_Forward, TypeOK
    <2>5. PICK sfd \in ServerFds \cup {Bad, Default, None} :
            sent' = sent \cup {[t |-> t, op |-> call[t].op, fd |-> call[t].fd,
                                id |-> call[t].id, sfd |-> sfd]}
      BY <1>7, <2>3 DEF HG_Forward
    <2>6. sent' \subseteq Rpcs
      BY <2>2, <2>5 DEF TypeOK, Rpcs
    <2>7. QED
      BY <1>7, <2>1, <2>4, <2>6 DEF HG_Forward, TypeOK
  <1>8. ASSUME NEW t \in Threads, hvac_client_block(t) PROVE TypeOK'
    <2>1. pc' \in [Threads -> Pcs]
      BY <1>8, GotoType DEF hvac_client_block, BlockUnless, Pcs
    <2>2. result' \in [Threads -> Tags \cup {None}]
      BY <1>8 DEF hvac_client_block, BlockUnless, TypeOK
    <2>3. QED
      BY <1>8, <2>1, <2>2 DEF hvac_client_block, BlockUnless, TypeOK
  <1>9. ASSUME NEW t \in Threads, SpuriousWake(t) PROVE TypeOK'
    <2>1. pc' \in [Threads -> Pcs]
      BY <1>9, GotoType DEF SpuriousWake, Pcs
    <2>2. QED
      BY <1>9, <2>1 DEF SpuriousWake, TypeOK
  <1>10. ASSUME NEW t \in Threads, NEW fd \in Fds, WRAP_close(t, fd) PROVE TypeOK'
    <2>1. pc' \in [Threads -> Pcs] /\ call' \in [Threads -> Calls]
      BY <1>10, GotoType, BeginType DEF WRAP_close, CloseLeaving, Pcs
    <2>2. /\ fd_map' \in [Fds -> Tracked \cup {NoPath}]
          /\ fd_redir_map' \in [Fds -> ServerFds \cup {Bad, Default, None}]
      BY <1>10 DEF WRAP_close, CloseLeaving, MapErased, RedirErased, TypeOK
    <2>3. closes' \subseteq ServerFds \cup {Bad, Default}
      BY <1>10 DEF WRAP_close, CloseLeaving, TypeOK
    <2>4. QED
      BY <1>10, <2>1, <2>2, <2>3 DEF WRAP_close, CloseLeaving, TypeOK
  <1>11. ASSUME NEW t \in Threads, RealClose(t) PROVE TypeOK'
    <2>1. pc' \in [Threads -> Pcs]
      BY <1>11, GotoType DEF RealClose, Pcs
    <2>2. kfd' \in [Fds -> Tracked \cup Untracked \cup {NoPath}]
      BY <1>11 DEF RealClose, TypeOK
    <2>3. QED
      BY <1>11, <2>1, <2>2 DEF RealClose, TypeOK
  <1>12. ASSUME NEW t \in Threads, Answer(t) PROVE TypeOK'
    <2>1. PICK r \in sent : AnswerOpen(r) \/ AnswerRead(r) \/ AnswerSeek(r)
                            \/ RpcError(r) \/ SeekError(r)
      BY <1>12 DEF Answer
    <2>2. r \in Rpcs /\ r.fd \in Fds
      BY DEF TypeOK, Rpcs
    <2>3. CASE AnswerOpen(r)
      <3>1. owner' \in [ServerFds -> Fds \cup {None}]
        BY <2>2, <2>3 DEF AnswerOpen, TypeOK
      <3>2. PICK v \in ServerFds \cup {Bad} : answers' = answers \cup {[rpc |-> r, val |-> v]}
        BY <2>3 DEF AnswerOpen
      <3>3. QED
        BY <2>2, <2>3, <3>1, <3>2 DEF AnswerOpen, TypeOK
    <2>4. CASE AnswerRead(r)
      <3>1. [rpc |-> r, val |-> Bad] \in [rpc: Rpcs, val: ServerFds \cup {Bad, None}]
        BY <2>2
      <3>2. CASE r.sfd = Bad
        BY <2>4, <3>2 DEF AnswerRead, TypeOK
      <3>3. CASE r.sfd # Bad
        BY <2>4, <3>1, <3>3 DEF AnswerRead, TypeOK
      <3>4. QED
        BY <3>2, <3>3
    <2>5. CASE AnswerSeek(r)
      BY <2>2, <2>5 DEF AnswerSeek, TypeOK
    <2>6. CASE RpcError(r)
      BY <2>6 DEF RpcError, TypeOK
    <2>7. CASE SeekError(r)
      BY <2>2, <2>7 DEF SeekError, TypeOK
    <2>8. QED
      BY <2>1, <2>3, <2>4, <2>5, <2>6, <2>7
  <1>13. ASSUME NEW t \in Threads, Callback(t) PROVE TypeOK'
    <2>1. PICK a \in answers : CallbackBegin(a)
      BY <1>13 DEF Callback
    <2>2. a.rpc \in Rpcs /\ a.val \in ServerFds \cup {Bad, None}
      BY DEF TypeOK
    <2>3. fd_redir_map' \in [Fds -> ServerFds \cup {Bad, Default, None}]
      BY <2>1, <2>2 DEF CallbackBegin, TypeOK
    <2>4. cb' \in [rpc: Rpcs, val: ServerFds \cup {Bad, None}, seen: 0..(DoneRange - 1)]
      BY <2>1, <2>2 DEF CallbackBegin, TypeOK
    <2>5. QED
      BY <2>1, <2>3, <2>4 DEF CallbackBegin, TypeOK
  <1>14. CASE CallbackEnd
    <2>1. cb \in [rpc: Rpcs, val: ServerFds \cup {Bad, None}, seen: 0..(DoneRange - 1)]
      BY <1>14 DEF CallbackEnd, TypeOK
    <2>2. (cb.seen + 1) % DoneRange \in 0..(DoneRange - 1)
      BY <2>1 DEF DoneRange
    <2>3. TagOf(cb.rpc) \in Tags
      BY <2>1 DEF TagOf, Tags, Rpcs
    <2>4. pc' \in [Threads -> Pcs]
      BY <1>14, GotoType DEF CallbackEnd, TypeOK, Pcs
    <2>5. QED
      BY <1>14, <2>2, <2>3, <2>4 DEF CallbackEnd, Delivered, TypeOK
  <1>15. ASSUME NEW s \in closes, ServeClose(s) PROVE TypeOK'
    BY <1>15 DEF ServeClose, TypeOK
  <1>16. CASE Stopped
    BY <1>16 DEF Stopped, vars, TypeOK
  <1>17. QED
    BY <1>1, <1>2, <1>3, <1>4, <1>5, <1>6, <1>7, <1>8, <1>9, <1>10, <1>11, <1>12, <1>13, <1>14,
       <1>15, <1>16
    DEF Next, AppCall, Continue, WRAP_read, hvac_remote_lseek

\* A step of the application threads.
ThreadStep(t) == AppCall(t) \/ Continue(t) \/ SpuriousWake(t)

\* Every step is one of a thread or a remote one.
LEMMA ThreadOrRemote == Next => Remote \/ \E t \in Threads : ThreadStep(t)
  BY DEF Next, Remote, ThreadStep

\* A step of t moves its own program counter and call, in accord with each other,
\* and begins a call only when it is idle.
CallStep(t) ==
    /\ \A u \in Threads \ {t} : pc'[u] = pc[u] /\ call'[u] = call[u]
    /\ pc[t] # "idle" => call' = call
    /\ pc'[t] # "idle" => call'[t].fd \in Fds
    /\ pc'[t] \in {"track", "init"} => call'[t].op = "open"
    /\ pc'[t] \in InRpc => call'[t].op \in {"open", "read", "seek"}
    /\ pc'[t] = "realclose" => call'[t].op = "close"

\* Every step of t is such a step.
LEMMA ThreadMoves ==
  ASSUME TypeOK, PcInv, NEW t \in Threads, ThreadStep(t)
  PROVE  CallStep(t)
  <1> USE DEF CallStep
  <1>1. ASSUME NEW p \in Tracked \cup Untracked, WRAP_open(t, p) PROVE CallStep(t)
    <2>1. PICK fd \in Fds : Begin(t, "open", fd)
      BY <1>1 DEF WRAP_open
    <2>2. pc[t] = "idle" /\ Goto(t, "track")
      BY <1>1 DEF WRAP_open
    <2>3. QED
      BY <2>1, <2>2, GotoType, BeginType DEF Pcs, InRpc
  <1>2. CASE hvac_track_file(t)
    <2>1. PICK to \in {"idle", "init", "reset"} : Goto(t, to)
      BY <1>2 DEF hvac_track_file
    <2>2. QED
      BY <1>2, <2>1, GotoType DEF hvac_track_file, Pcs, InRpc, PcInv
  <1>3. CASE hvac_init_comm(t)
    BY <1>3, GotoType DEF hvac_init_comm, Pcs, InRpc, PcInv
  <1>4. ASSUME NEW fd \in Fds, NEW op \in {"read", "seek"}, RemoteCall(t, op, fd) PROVE CallStep(t)
    <2>1. pc[t] = "idle" /\ Goto(t, "reset") /\ Begin(t, op, fd)
      BY <1>4 DEF RemoteCall
    <2>2. QED
      BY <2>1, GotoType, BeginType DEF Pcs, InRpc
  <1>5. ASSUME NEW fd \in Fds, WRAP_pread(t, fd) PROVE CallStep(t)
    <2>1. PICK to \in {"idle", "reset"} : Goto(t, to)
      BY <1>5 DEF WRAP_pread
    <2>2. QED
      <3>1. pc[t] = "idle" /\ Begin(t, "read", fd)
        BY <1>5 DEF WRAP_pread
      <3>2. QED
        BY <2>1, <3>1, GotoType, BeginType DEF Pcs, InRpc
  <1>6. CASE ResetDone(t)
    BY <1>6, GotoType DEF ResetDone, Reset, Pcs, InRpc, PcInv
  <1>7. CASE HG_Forward(t)
    BY <1>7, GotoType DEF HG_Forward, Pcs, InRpc, PcInv
  <1>8. CASE hvac_client_block(t)
    <2>1. PICK to \in {"idle", "wait"} : Goto(t, to)
      BY <1>8 DEF hvac_client_block, BlockUnless
    <2>2. QED
      BY <1>8, <2>1, GotoType DEF hvac_client_block, BlockUnless, Pcs, InRpc, PcInv
  <1>9. CASE SpuriousWake(t)
    BY <1>9, GotoType DEF SpuriousWake, Pcs, InRpc, PcInv
  <1>10. ASSUME NEW fd \in Fds, WRAP_close(t, fd) PROVE CallStep(t)
    <2>1. pc[t] = "idle" /\ Goto(t, "realclose") /\ Begin(t, "close", fd)
      BY <1>10 DEF WRAP_close, CloseLeaving
    <2>2. QED
      BY <2>1, GotoType, BeginType DEF Pcs, InRpc
  <1>11. CASE RealClose(t)
    BY <1>11, GotoType DEF RealClose, Pcs, InRpc, PcInv
  <1>12. QED
    BY <1>1, <1>2, <1>3, <1>4, <1>5, <1>6, <1>7, <1>8, <1>9, <1>10, <1>11
    DEF ThreadStep, AppCall, Continue, WRAP_read, hvac_remote_lseek

\* Every step keeps program counters and calls in accord.
LEMMA PcStep == TypeOK /\ PcInv /\ Next => PcInv'
  <1> SUFFICES ASSUME TypeOK, PcInv, Next PROVE PcInv'
    OBVIOUS
  <1>1. CASE Remote
    BY <1>1, RemoteFrame DEF PcInv, InRpc
  <1>2. ASSUME NEW t \in Threads, ThreadStep(t) PROVE PcInv'
    BY <1>2, ThreadMoves DEF PcInv, CallStep
  <1>3. QED
    BY <1>1, <1>2, ThreadOrRemote

\* A step of t works on one descriptor, in the kernel's table and in fd_map: it takes a
\* free number, tracks its own, stops tracking one that nobody uses, frees its own.
TableStep(t) ==
    LET fd == call[t].fd
        new == call'[t].fd
    IN  \/ /\ UNCHANGED <<kfd, fd_map>>
           /\ pc[t] # "idle" /\ pc[t] # "realclose"
           /\ \/ pc'[t] = "idle"
              \/ pc[t] = "init" /\ pc'[t] = "reset"
              \/ pc[t] \in InRpc /\ pc'[t] \in InRpc
        \/ /\ UNCHANGED <<kfd, fd_map>>
           /\ pc[t] = "idle" /\ pc'[t] \in {"idle", "reset"} /\ fd_map[new] # NoPath
        \/ /\ pc[t] = "idle" /\ pc'[t] = "track"
           /\ kfd[new] = NoPath /\ fd_map' = fd_map
           /\ \E p \in Tracked \cup Untracked : kfd' = [kfd EXCEPT ![new] = p]
        \/ /\ pc[t] = "track" /\ pc'[t] \in {"init", "reset"}
           /\ kfd[fd] \in Tracked /\ kfd' = kfd
           /\ fd_map' = [fd_map EXCEPT ![fd] = kfd[fd]]
        \/ /\ pc[t] = "idle" /\ pc'[t] = "realclose"
           /\ kfd[new] # NoPath /\ ~InUse(new) /\ kfd' = kfd
           /\ fd_map' = [fd_map EXCEPT ![new] = NoPath]
        \/ /\ pc[t] = "realclose" /\ pc'[t] = "idle" /\ fd_map' = fd_map
           /\ kfd' = [kfd EXCEPT ![fd] = NoPath]

\* Every step of t is such a step.
LEMMA ThreadTables ==
  ASSUME TypeOK, PcInv, NEW t \in Threads, ThreadStep(t)
  PROVE  TableStep(t)
  <1> USE DEF mapVars, TableStep
  <1>1. ASSUME NEW p \in Tracked \cup Untracked, WRAP_open(t, p) PROVE TableStep(t)
    <2>1. PICK fd \in Fds : /\ Begin(t, "open", fd) /\ kfd[fd] = NoPath
                            /\ kfd' = [kfd EXCEPT ![fd] = p]
      BY <1>1 DEF WRAP_open
    <2>2. pc[t] = "idle" /\ pc'[t] = "track" /\ fd_map' = fd_map
      BY <1>1, GotoType DEF WRAP_open, Pcs
    <2>3. call'[t].fd = fd
      BY <2>1, BeginType
    <2>4. QED
      BY <2>1, <2>2, <2>3
  <1>2. CASE hvac_track_file(t)
    <2>1. CASE kfd[call[t].fd] \in Untracked /\ Goto(t, "idle") /\ UNCHANGED fd_map
      BY <1>2, <2>1, GotoType DEF hvac_track_file, Pcs
    <2>2. CASE /\ kfd[call[t].fd] \in Tracked
               /\ fd_map' = [fd_map EXCEPT ![call[t].fd] = kfd[call[t].fd]]
               /\ Goto(t, IF g_mercury_init THEN "reset" ELSE "init")
      BY <1>2, <2>2, GotoType DEF hvac_track_file, Pcs
    <2>3. QED
      BY <1>2, <2>1, <2>2 DEF hvac_track_file
  <1>3. CASE hvac_init_comm(t)
    BY <1>3, GotoType DEF hvac_init_comm, Pcs
  <1>4. ASSUME NEW fd \in Fds, NEW op \in {"read", "seek"}, RemoteCall(t, op, fd) PROVE TableStep(t)
    <2>1. pc[t] = "idle" /\ pc'[t] = "reset" /\ fd_map[fd] # NoPath /\ UNCHANGED <<kfd, fd_map>>
      BY <1>4, GotoType DEF RemoteCall, Pcs
    <2>2. call'[t].fd = fd
      BY <1>4, BeginType DEF RemoteCall
    <2>3. QED
      BY <2>1, <2>2
  <1>5. ASSUME NEW fd \in Fds, WRAP_pread(t, fd) PROVE TableStep(t)
    <2>1. PICK to \in {"idle", "reset"} : Goto(t, to)
      BY <1>5 DEF WRAP_pread
    <2>2. pc[t] = "idle" /\ pc'[t] = to /\ fd_map[fd] # NoPath /\ UNCHANGED <<kfd, fd_map>>
      BY <1>5, <2>1, GotoType DEF WRAP_pread, Pcs
    <2>3. call'[t].fd = fd
      BY <1>5, BeginType DEF WRAP_pread
    <2>4. QED
      BY <2>2, <2>3
  <1>6. CASE ResetDone(t)
    BY <1>6, GotoType DEF ResetDone, Reset, Pcs, InRpc
  <1>7. CASE HG_Forward(t)
    BY <1>7, GotoType DEF HG_Forward, Pcs, InRpc
  <1>8. CASE hvac_client_block(t)
    <2>1. PICK to \in {"idle", "wait"} : Goto(t, to)
      BY <1>8 DEF hvac_client_block, BlockUnless
    <2>2. QED
      BY <1>8, <2>1, GotoType DEF hvac_client_block, BlockUnless, Pcs, InRpc
  <1>9. CASE SpuriousWake(t)
    BY <1>9, GotoType DEF SpuriousWake, Pcs, InRpc
  <1>10. ASSUME NEW fd \in Fds, WRAP_close(t, fd) PROVE TableStep(t)
    <2>1. /\ pc[t] = "idle" /\ pc'[t] = "realclose" /\ kfd[fd] # NoPath /\ ~InUse(fd)
          /\ kfd' = kfd
      BY <1>10, GotoType DEF WRAP_close, CloseLeaving, Pcs
    <2>2. call'[t].fd = fd
      BY <1>10, BeginType DEF WRAP_close, CloseLeaving
    <2>3. fd_map' = [fd_map EXCEPT ![fd] = NoPath]
      BY <1>10 DEF WRAP_close, CloseLeaving, MapErased, TypeOK
    <2>4. QED
      BY <2>1, <2>2, <2>3
  <1>11. CASE RealClose(t)
    BY <1>11, GotoType DEF RealClose, Pcs
  <1>12. QED
    BY <1>1, <1>2, <1>3, <1>4, <1>5, <1>6, <1>7, <1>8, <1>9, <1>10, <1>11
    DEF ThreadStep, AppCall, Continue, WRAP_read, hvac_remote_lseek

\* Every step keeps the kernel's table and fd_map in accord with the calls.
LEMMA KernelStep ==
  TypeOK /\ PcInv /\ KernelInv /\ TrackingMatchesKernel /\ Next
    => KernelInv' /\ TrackingMatchesKernel'
  <1> SUFFICES ASSUME TypeOK, PcInv, KernelInv, TrackingMatchesKernel, Next
               PROVE  KernelInv' /\ TrackingMatchesKernel'
    OBVIOUS
  <1>0. NoPath \notin Tracked \cup Untracked
    BY ClientAssumption
  <1>1. CASE Remote
    <2>1. /\ UNCHANGED <<call, kfd, fd_map>>
          /\ \A t \in Threads : pc'[t] = pc[t] \/ (pc[t] = "wait" /\ pc'[t] = "block")
      BY <1>1, RemoteFrame
    <2>2. KernelInv'
      BY <2>1 DEF KernelInv, InRpc
    <2>3. QED
      BY <2>1, <2>2 DEF TrackingMatchesKernel
  <1>2. ASSUME NEW t \in Threads, ThreadStep(t) PROVE KernelInv' /\ TrackingMatchesKernel'
    <2> DEFINE fd == call[t].fd
               new == call'[t].fd
    <2>1. CallStep(t) /\ TableStep(t)
      BY <1>2, ThreadMoves, ThreadTables
    <2>2. CASE /\ UNCHANGED <<kfd, fd_map>>
               /\ pc[t] # "idle" /\ pc[t] # "realclose"
               /\ \/ pc'[t] = "idle"
                  \/ pc[t] = "init" /\ pc'[t] = "reset"
                  \/ pc[t] \in InRpc /\ pc'[t] \in InRpc
      BY <2>1, <2>2 DEF CallStep, KernelInv, TrackingMatchesKernel, InRpc
    <2>3. CASE /\ UNCHANGED <<kfd, fd_map>>
               /\ pc[t] = "idle" /\ pc'[t] \in {"idle", "reset"} /\ fd_map[new] # NoPath
      <3>1. pc'[t] # "idle" => kfd[new] # NoPath
        BY <2>1, <2>3 DEF CallStep, TrackingMatchesKernel
      <3>2. QED
        BY <2>1, <2>3, <3>1 DEF CallStep, KernelInv, TrackingMatchesKernel, InRpc
    <2>4. CASE /\ pc[t] = "idle" /\ pc'[t] = "track"
               /\ kfd[new] = NoPath /\ fd_map' = fd_map
               /\ \E p \in Tracked \cup Untracked : kfd' = [kfd EXCEPT ![new] = p]
      <3>1. new \in Fds /\ fd_map[new] = NoPath
        BY <2>1, <2>4 DEF CallStep, TrackingMatchesKernel
      <3>2. kfd'[new] # NoPath /\ \A x \in Fds \ {new} : kfd'[x] = kfd[x]
        BY <1>0, <2>4, <3>1 DEF TypeOK
      <3>3. \A u \in Threads \ {t} : pc[u] # "idle" => call[u].fd \in Fds /\ call[u].fd # new
        BY <2>4 DEF KernelInv, PcInv
      <3>4. QED
        BY <2>1, <2>4, <3>1, <3>2, <3>3 DEF CallStep, KernelInv, TrackingMatchesKernel, InRpc
    <2>5. CASE /\ pc[t] = "track" /\ pc'[t] \in {"init", "reset"}
               /\ kfd[fd] \in Tracked /\ kfd' = kfd
               /\ fd_map' = [fd_map EXCEPT ![fd] = kfd[fd]]
      <3>1. fd \in Fds /\ call' = call
        BY <2>1, <2>5 DEF CallStep, PcInv
      <3>2. fd_map'[fd] = kfd[fd] /\ kfd[fd] # NoPath /\ \A x \in Fds \ {fd} : fd_map'[x] = fd_map[x]
        BY <1>0, <2>5, <3>1 DEF TypeOK
      <3>3. \A u \in Threads \ {t} : pc[u] # "idle" => call[u].fd \in Fds \ {fd}
        BY <2>5 DEF KernelInv, PcInv
      <3>4. QED
        BY <2>1, <2>5, <3>1, <3>2, <3>3 DEF CallStep, KernelInv, TrackingMatchesKernel, InRpc
    <2>6. CASE /\ pc[t] = "idle" /\ pc'[t] = "realclose"
               /\ kfd[new] # NoPath /\ ~InUse(new) /\ kfd' = kfd
               /\ fd_map' = [fd_map EXCEPT ![new] = NoPath]
      <3>1. new \in Fds
        BY <2>1, <2>6 DEF CallStep
      <3>2. fd_map'[new] = NoPath /\ \A x \in Fds \ {new} : fd_map'[x] = fd_map[x]
        BY <2>6, <3>1 DEF TypeOK
      <3>3. \A u \in Threads : pc[u] # "idle" => call[u].fd \in Fds \ {new}
        BY <2>6 DEF InUse, PcInv
      <3>4. QED
        BY <2>1, <2>6, <3>1, <3>2, <3>3 DEF CallStep, KernelInv, TrackingMatchesKernel, InRpc
    <2>7. CASE /\ pc[t] = "realclose" /\ pc'[t] = "idle" /\ fd_map' = fd_map
               /\ kfd' = [kfd EXCEPT ![fd] = NoPath]
      <3>1. fd \in Fds /\ call' = call /\ fd_map[fd] = NoPath
        BY <2>1, <2>7 DEF CallStep, PcInv, KernelInv
      <3>2. \A x \in Fds \ {fd} : kfd'[x] = kfd[x]
        BY <2>7 DEF TypeOK
      <3>3. \A u \in Threads \ {t} : pc[u] # "idle" => call[u].fd \in Fds \ {fd}
        BY <2>7 DEF KernelInv, PcInv
      <3>4. QED
        BY <2>1, <2>7, <3>1, <3>2, <3>3 DEF CallStep, KernelInv, TrackingMatchesKernel, InRpc
    <2>8. QED
      BY <2>1, <2>2, <2>3, <2>4, <2>5, <2>6, <2>7 DEF TableStep
  <1>3. QED
    BY <1>1, <1>2, ThreadOrRemote

\* Stuttering preserves what holds for any number of threads.
LEMMA StutterThreads == ThreadsInv /\ UNCHANGED vars => ThreadsInv'
  BY DEF vars, threadVars, mapVars, initVars, doneVars, wireVars, serverVars, ThreadsInv, TypeOK,
         PcInv, KernelInv, TrackingMatchesKernel

\* The tables stay in accord with the calls, for any number of threads.
THEOREM ThreadsInvariance == Spec => []ThreadsInv
  <1>1. Init => ThreadsInv
    BY InitIInv DEF IInv
  <1>2. ThreadsInv /\ [Next]_vars => ThreadsInv'
    BY TypeStep, PcStep, KernelStep, StutterThreads DEF ThreadsInv
  <1>3. QED
    BY <1>1, <1>2, PTL DEF Spec

\* Every variable keeps its type.
THEOREM TypeCorrect == Spec => []TypeOK
  BY ThreadsInvariance, PTL DEF ThreadsInv

\* fd_map never calls an untracked or closed descriptor tracked, however many threads
\* open and close descriptors, and reuse their numbers, at the same time.
THEOREM TrackingCorrect == Spec => []TrackingMatchesKernel
  BY ThreadsInvariance, PTL DEF ThreadsInv

-----------------------------------------------------------------------------
(* One thread.                                                             *)

\* A step that leaves the RPC, done and read_ret alone; a thread that ends its wait
\* in it has seen done.
QuietStep ==
    /\ UNCHANGED <<sent, answers, cb, done, read_ret>>
    /\ alive' => alive
    /\ \A t \in Threads :
        /\ pc'[t] = "forward" => pc[t] = "forward" /\ call'[t] = call[t]
        /\ Busy(t)' => Busy(t) /\ call'[t] = call[t]
        /\ Busy(t) /\ ~Busy(t)' => done = 1

\* RPC r is answered with v.
Answered(r, v) ==
    /\ r \in sent
    /\ sent' = sent \ {r}
    /\ answers' = answers \cup {[rpc |-> r, val |-> v]}
    /\ UNCHANGED <<pc, call, result, cb, done, read_ret, fd_map, fd_redir_map, closes, alive>>
    /\ OwnOrDead(r.op, v)
    /\ \/ v \in {Bad, None} /\ owner' = owner
       \/ /\ r.op = "open" /\ v \in ServerFds /\ owner[v] = None
          /\ owner' = [owner EXCEPT ![v] = r.fd]

\* What the steps of the server do.
LEMMA AnswerCases ==
  ASSUME TypeOK, NEW t \in Threads, Answer(t)
  PROVE  \/ QuietStep /\ UNCHANGED <<pc, call, result, fd_map, fd_redir_map, closes, owner>>
         \/ \E r, v : Answered(r, v)
  <1> USE DEF threadVars, mapVars, initVars, doneVars, wireVars, serverVars
  <1>0. None # Bad
    BY ClientAssumption DEF Bad
  <1>1. PICK r \in sent : AnswerOpen(r) \/ AnswerRead(r) \/ AnswerSeek(r)
                          \/ RpcError(r) \/ SeekError(r)
    BY DEF Answer
  <1>2. CASE AnswerOpen(r)
    <2>1. CASE \E s \in ServerFds : /\ owner[s] = None
                                    /\ owner' = [owner EXCEPT ![s] = r.fd]
                                    /\ answers' = answers \cup {[rpc |-> r, val |-> s]}
      <3>1. PICK s \in ServerFds : /\ owner[s] = None
                                   /\ owner' = [owner EXCEPT ![s] = r.fd]
                                   /\ answers' = answers \cup {[rpc |-> r, val |-> s]}
        BY <2>1
      <3>2. s # None
        BY ClientAssumption
      <3>3. Answered(r, s)
        BY <1>2, <3>1, <3>2 DEF AnswerOpen, Answered, OwnOrDead
      <3>4. QED
        BY <3>3
    <2>2. CASE answers' = answers \cup {[rpc |-> r, val |-> Bad]} /\ UNCHANGED owner
      <3>1. Answered(r, Bad)
        BY <1>0, <1>2, <2>2 DEF AnswerOpen, Answered, OwnOrDead
      <3>2. QED
        BY <3>1
    <2>3. QED
      BY <1>2, <2>1, <2>2 DEF AnswerOpen
  <1>3. CASE AnswerRead(r)
    <2>1. CASE r.sfd = Bad
      BY <1>3, <2>1 DEF AnswerRead, QuietStep, Busy
    <2>2. CASE r.sfd # Bad
      <3>1. Answered(r, Bad)
        BY <1>0, <1>3, <2>2 DEF AnswerRead, Answered, OwnOrDead
      <3>2. QED
        BY <3>1
    <2>3. QED
      BY <2>1, <2>2
  <1>4. CASE AnswerSeek(r)
    <2>1. Answered(r, Bad)
      BY <1>0, <1>4 DEF AnswerSeek, Answered, OwnOrDead
    <2>2. QED
      BY <2>1
  <1>5. CASE RpcError(r)
    BY <1>5 DEF RpcError, QuietStep, Busy
  <1>6. CASE SeekError(r)
    <2>1. Answered(r, None)
      BY <1>6 DEF SeekError, Answered, OwnOrDead
    <2>2. QED
      BY <2>1
  <1>7. QED
    BY <1>1, <1>2, <1>3, <1>4, <1>5, <1>6

\* The steps of a thread that are quiet: all but the reset and the sending.
LEMMA ThreadQuiet ==
  ASSUME TypeOK, PcInv, NEW t \in Threads, ThreadStep(t), ~ResetDone(t), ~HG_Forward(t)
  PROVE  QuietStep
  <1> USE DEF threadVars, mapVars, initVars, doneVars, wireVars, serverVars
  <1>1. UNCHANGED <<sent, answers, cb, done, read_ret, alive>>
    BY DEF ThreadStep, AppCall, Continue, WRAP_open, WRAP_read, WRAP_pread, hvac_remote_lseek,
           RemoteCall, WRAP_close, CloseLeaving, hvac_track_file, hvac_init_comm,
           hvac_client_block, BlockUnless, RealClose, SpuriousWake
  <1>2. CallStep(t)
    BY ThreadMoves
  <1>3. pc'[t] # "forward"
    <2>1. PICK to \in Pcs \ {"forward"} : Goto(t, to)
      BY DEF ThreadStep, AppCall, Continue, WRAP_open, WRAP_read, WRAP_pread, hvac_remote_lseek,
             RemoteCall, WRAP_close, CloseLeaving, hvac_track_file, hvac_init_comm,
             hvac_client_block, BlockUnless, RealClose, SpuriousWake, Pcs
    <2>2. QED
      BY <2>1, GotoType
  <1>4. Busy(t)' => Busy(t) /\ call' = call
    <2>1. SUFFICES ASSUME Busy(t)' PROVE Busy(t) /\ call' = call
      OBVIOUS
    <2>2. TableStep(t)
      BY ThreadTables
    <2>3. pc'[t] \in {"block", "wait"}
      BY <2>1 DEF Busy
    <2>4. pc[t] \in InRpc
      BY <2>2, <2>3 DEF TableStep, InRpc
    <2>5. pc[t] \notin {"reset", "forward"}
      BY <2>4 DEF ThreadStep, AppCall, Continue, WRAP_open, WRAP_read, WRAP_pread,
             hvac_remote_lseek, RemoteCall, WRAP_close, CloseLeaving, hvac_track_file,
             hvac_init_comm, hvac_client_block, BlockUnless, RealClose, SpuriousWake
    <2>6. QED
      BY <1>2, <2>4, <2>5 DEF CallStep, InRpc, Busy
  <1>5. ASSUME Busy(t), ~Busy(t)' PROVE done = 1
    <2>1. hvac_client_block(t) \/ SpuriousWake(t)
      BY <1>5 DEF Busy, ThreadStep, AppCall, Continue, WRAP_open, WRAP_read, WRAP_pread,
             hvac_remote_lseek, RemoteCall, WRAP_close, CloseLeaving, hvac_track_file,
             hvac_init_comm, RealClose
    <2>2. CASE SpuriousWake(t)
      BY <1>5, <2>2, GotoType DEF SpuriousWake, Busy, Pcs
    <2>3. CASE hvac_client_block(t)
      BY <1>5, <2>3, GotoType DEF hvac_client_block, BlockUnless, Busy, Pcs, TRUE_
    <2>4. QED
      BY <2>1, <2>2, <2>3
  <1>6. QED
    BY <1>1, <1>2, <1>3, <1>4, <1>5 DEF QuietStep, CallStep, Busy

\* What a step does to the RPC, done and read_ret.
LEMMA WireCases ==
  ASSUME TypeOK, PcInv, Next
  PROVE  \/ QuietStep
         \/ \E t \in Threads : ResetDone(t) \/ HG_Forward(t)
         \/ \E r, v : Answered(r, v)
         \/ \E a \in answers : CallbackBegin(a)
         \/ CallbackEnd
  <1> USE DEF threadVars, mapVars, initVars, doneVars, wireVars, serverVars
  <1>1. ASSUME NEW s \in closes, ServeClose(s) PROVE QuietStep
    BY <1>1 DEF ServeClose, QuietStep, Busy, TypeOK
  <1>2. CASE Stopped
    BY <1>2 DEF Stopped, vars, QuietStep, Busy
  <1>3. QED
    BY <1>1, <1>2, AnswerCases, ThreadQuiet, ThreadOrRemote DEF Remote, Callback

\* RPCs are sent by threads.
LEMMA RpcThreads ==
  ASSUME TypeOK
  PROVE  /\ \A r \in sent : r.t \in Threads
         /\ \A a \in answers : a.rpc \in Rpcs /\ a.rpc.t \in Threads
         /\ cb # None => /\ cb.rpc \in Rpcs /\ cb.rpc.t \in Threads
                         /\ cb.seen \in 0..(DoneRange - 1)
  BY DEF TypeOK, Rpcs

\* With one thread, the wire is empty unless that thread is blocked.
LEMMA EmptyWire ==
  ASSUME OneThread, TypeOK, FlightInv, NEW t \in Threads, ~Busy(t)
  PROVE  sent = {} /\ answers = {} /\ cb = None
  BY RpcThreads DEF OneThread, FlightInv, Current

\* What HG_Forward puts on the wire.
LEMMA ForwardSends ==
  ASSUME TypeOK, PcInv, NEW t \in Threads, HG_Forward(t)
  PROVE  /\ UNCHANGED <<call, answers, cb, done, read_ret, alive>>
         /\ pc'[t] = "block" /\ \A u \in Threads \ {t} : pc'[u] = pc[u]
         /\ \E r \in Rpcs : /\ sent' = sent \cup {r}
                            /\ r.t = t /\ r.op = call[t].op /\ r.fd = call[t].fd
                            /\ r.id = call[t].id
  <1> USE DEF doneVars, serverVars
  <1>1. UNCHANGED <<call, answers, cb, done, read_ret, alive>>
    BY DEF HG_Forward
  <1>2. pc'[t] = "block" /\ \A u \in Threads \ {t} : pc'[u] = pc[u]
    BY GotoType DEF HG_Forward, Pcs
  <1>3. /\ call[t].fd \in Fds /\ call[t].op \in {"open", "read", "seek"}
        /\ call[t].id \in {0, 1}
    BY DEF HG_Forward, PcInv, InRpc, TypeOK, Calls
  <1>4. fd_redir_map[call[t].fd] \in ServerFds \cup {Bad, Default, None}
    BY <1>3 DEF TypeOK
  <1>5. PICK sfd \in ServerFds \cup {Bad, Default, None} :
          sent' = sent \cup {[t |-> t, op |-> call[t].op, fd |-> call[t].fd,
                              id |-> call[t].id, sfd |-> sfd]}
    BY <1>4 DEF HG_Forward
  <1> DEFINE r == [t |-> t, op |-> call[t].op, fd |-> call[t].fd, id |-> call[t].id, sfd |-> sfd]
  <1>6. r \in Rpcs
    BY <1>3 DEF Rpcs
  <1>7. /\ r.t = t /\ r.op = call[t].op /\ r.fd = call[t].fd /\ r.id = call[t].id
        /\ sent' = sent \cup {r}
    BY <1>5
  <1> HIDE DEF r
  <1>8. QED
    BY <1>1, <1>2, <1>6, <1>7

\* Every step of a client with one thread keeps its RPC the current call's only one.
LEMMA FlightStep == OneThread /\ IInv /\ Next => FlightInv'
  <1> SUFFICES ASSUME OneThread, IInv, Next PROVE FlightInv'
    OBVIOUS
  <1>0. TypeOK /\ PcInv /\ FlightInv /\ DoneInv
    BY DEF IInv, ThreadsInv
  <1>1. CASE QuietStep
    <2>1. UNCHANGED <<sent, answers, cb>>
      BY <1>1 DEF QuietStep
    <2>2. sent # {} \/ answers # {} \/ cb # None => done # 1
      BY <1>0 DEF DoneInv
    <2>3. \A r : r.t \in Threads /\ Current(r) /\ (sent # {} \/ answers # {} \/ cb # None) => Current(r)'
      BY <1>1, <2>2 DEF QuietStep, Current, Busy
    <2>4. QED
      BY <1>0, <2>1, <2>3, RpcThreads DEF FlightInv
  <1>2. ASSUME NEW t \in Threads, ResetDone(t) PROVE FlightInv'
    <2>1. sent = {} /\ answers = {} /\ cb = None
      BY <1>0, <1>2, EmptyWire DEF ResetDone, Reset, Busy
    <2>2. QED
      BY <1>2, <2>1 DEF ResetDone, Reset, FlightInv, wireVars
  <1>3. ASSUME NEW t \in Threads, HG_Forward(t) PROVE FlightInv'
    <2>1. sent = {} /\ answers = {} /\ cb = None
      BY <1>0, <1>3, EmptyWire DEF HG_Forward, Busy
    <2>2. PICK r \in Rpcs : /\ sent' = sent \cup {r}
                            /\ r.t = t /\ r.op = call[t].op /\ r.fd = call[t].fd
                            /\ r.id = call[t].id
      BY <1>0, <1>3, ForwardSends
    <2>3. sent' = {r} /\ answers' = {} /\ cb' = None
      BY <1>0, <1>3, <2>1, <2>2, ForwardSends
    <2>4. Current(r)'
      BY <1>0, <1>3, <2>2, ForwardSends DEF Current, Busy
    <2>5. QED
      BY <2>3, <2>4 DEF FlightInv
  <1>4. ASSUME NEW r, NEW v, Answered(r, v) PROVE FlightInv'
    <2>1. sent = {r} /\ answers = {} /\ cb = None /\ Current(r)
      BY <1>0, <1>4 DEF Answered, FlightInv
    <2>2. sent' = {} /\ answers' = {[rpc |-> r, val |-> v]} /\ cb' = None
      BY <1>4, <2>1 DEF Answered
    <2>3. Current(r)'
      BY <1>4, <2>1 DEF Answered, Current, Busy
    <2>4. QED
      BY <2>2, <2>3 DEF FlightInv
  <1>5. ASSUME NEW a \in answers, CallbackBegin(a) PROVE FlightInv'
    <2>1. answers = {a} /\ sent = {} /\ Current(a.rpc)
      BY <1>0 DEF FlightInv
    <2>2. answers' = {} /\ sent' = {} /\ cb'.rpc = a.rpc
      BY <1>5, <2>1 DEF CallbackBegin
    <2>3. Current(a.rpc)'
      BY <1>5, <2>1 DEF CallbackBegin, Current, Busy, threadVars
    <2>4. QED
      BY <2>2, <2>3 DEF FlightInv, Current, Busy
  <1>6. CASE CallbackEnd
    <2>1. sent = {} /\ answers = {}
      BY <1>0, <1>6 DEF CallbackEnd, FlightInv
    <2>2. sent' = {} /\ answers' = {} /\ cb' = None
      BY <1>6, <2>1 DEF CallbackEnd
    <2>3. QED
      BY <2>2 DEF FlightInv
  <1>7. QED
    BY <1>0, <1>1, <1>2, <1>3, <1>4, <1>5, <1>6, WireCases

\* ... and done at 0 until its callback.
LEMMA DoneStep == OneThread /\ IInv /\ Next => DoneInv'
  <1> SUFFICES ASSUME OneThread, IInv, Next PROVE DoneInv'
    OBVIOUS
  <1>0. TypeOK /\ PcInv /\ FlightInv /\ DoneInv
    BY DEF IInv, ThreadsInv
  <1>1. CASE QuietStep
    BY <1>0, <1>1 DEF QuietStep, DoneInv
  <1>2. ASSUME NEW t \in Threads, ResetDone(t) PROVE DoneInv'
    <2>1. sent = {} /\ answers = {} /\ cb = None
      BY <1>0, <1>2, EmptyWire DEF ResetDone, Reset, Busy
    <2>2. QED
      BY <1>2, <2>1 DEF ResetDone, Reset, DoneInv, wireVars
  <1>3. ASSUME NEW t \in Threads, HG_Forward(t) PROVE DoneInv'
    <2>1. done = 0 /\ cb = None
      BY <1>0, <1>3, EmptyWire DEF HG_Forward, Busy, DoneInv
    <2>2. QED
      BY <1>0, <1>3, <2>1, ForwardSends DEF DoneInv
  <1>4. ASSUME NEW r, NEW v, Answered(r, v) PROVE DoneInv'
    BY <1>0, <1>4 DEF Answered, DoneInv
  <1>5. ASSUME NEW a \in answers, CallbackBegin(a) PROVE DoneInv'
    BY <1>0, <1>5 DEF CallbackBegin, DoneInv, threadVars, doneVars
  <1>6. CASE CallbackEnd
    <2>1. sent = {} /\ answers = {} /\ Busy(cb.rpc.t) /\ cb.rpc.t \in Threads
      BY <1>0, <1>6, RpcThreads DEF CallbackEnd, FlightInv, Current
    <2>2. \A t \in Threads : Busy(t)
      BY <2>1 DEF OneThread
    <2>3. \A t \in Threads : pc'[t] # "forward"
      BY <1>0, <1>6, <2>2, RemoteFrame DEF Remote, Busy
    <2>4. QED
      BY <1>6, <2>1, <2>3 DEF CallbackEnd, DoneInv
  <1>7. QED
    BY <1>0, <1>1, <1>2, <1>3, <1>4, <1>5, <1>6, WireCases

\* ... and what done announces its own answer.
LEMMA AnswerStep == OneThread /\ IInv /\ Next => AnswerInv'
  <1> SUFFICES ASSUME OneThread, IInv, Next PROVE AnswerInv'
    OBVIOUS
  <1>0. TypeOK /\ PcInv /\ FlightInv /\ DoneInv /\ AnswerInv
    BY DEF IInv, ThreadsInv
  <1>1. CASE QuietStep
    <2>1. UNCHANGED <<answers, cb, done, read_ret>> /\ (alive' => alive)
      BY <1>1 DEF QuietStep
    <2>2. \A t \in Threads : Busy(t)' => Busy(t) /\ call'[t] = call[t]
      BY <1>1 DEF QuietStep
    <2>3. QED
      BY <1>0, <2>1, <2>2 DEF AnswerInv, OwnOrDead
  <1>2. ASSUME NEW t \in Threads, ResetDone(t) PROVE AnswerInv'
    <2>1. answers = {} /\ cb = None
      BY <1>0, <1>2, EmptyWire DEF ResetDone, Reset, Busy
    <2>2. QED
      BY <1>2, <2>1 DEF ResetDone, Reset, AnswerInv, wireVars
  <1>3. ASSUME NEW t \in Threads, HG_Forward(t) PROVE AnswerInv'
    <2>1. done = 0 /\ answers = {} /\ cb = None
      BY <1>0, <1>3, EmptyWire DEF HG_Forward, Busy, DoneInv
    <2>2. QED
      BY <1>0, <1>3, <2>1, ForwardSends DEF AnswerInv
  <1>4. ASSUME NEW r, NEW v, Answered(r, v) PROVE AnswerInv'
    BY <1>0, <1>4 DEF Answered, AnswerInv, OwnOrDead, Busy
  <1>5. ASSUME NEW a \in answers, CallbackBegin(a) PROVE AnswerInv'
    BY <1>0, <1>5 DEF CallbackBegin, AnswerInv, OwnOrDead, Busy, threadVars, doneVars, serverVars
  <1>6. CASE CallbackEnd
    <2>1. /\ answers = {} /\ Current(cb.rpc) /\ cb.rpc.t \in Threads
          /\ OwnOrDead(cb.rpc.op, cb.val)
      BY <1>0, <1>6, RpcThreads DEF CallbackEnd, FlightInv, AnswerInv
    <2>2. \A t \in Threads : t = cb.rpc.t
      BY <2>1 DEF OneThread
    <2>3. UNCHANGED <<call, alive, answers>> /\ cb' = None
      BY <1>6 DEF CallbackEnd, serverVars
    <2>4. \A t \in Threads : call[t].op \in ByReadRet =>
            \/ read_ret' = [t |-> t, id |-> call[t].id]
            \/ call[t].op = "seek" /\ ~alive
      BY <1>6, <2>1, <2>2 DEF CallbackEnd, Delivered, TagOf, Current, OwnOrDead
    <2>5. QED
      BY <2>1, <2>3, <2>4 DEF AnswerInv
  <1>7. QED
    BY <1>0, <1>1, <1>2, <1>3, <1>4, <1>5, <1>6, WireCases

\* ... and Mercury initialised once.
LEMMA MercuryStep == OneThread /\ IInv /\ Next => MercuryInv'
  <1> SUFFICES ASSUME OneThread, IInv, Next PROVE MercuryInv'
    OBVIOUS
  <1> USE DEF threadVars, mapVars, initVars, doneVars, wireVars, serverVars
  <1>0. TypeOK /\ PcInv /\ MercuryInv
    BY DEF IInv, ThreadsInv
  <1>1. CASE Remote
    <2>1. /\ UNCHANGED <<g_mercury_init, contexts>>
          /\ \A t \in Threads : pc'[t] = pc[t] \/ (pc[t] = "wait" /\ pc'[t] = "block")
      BY <1>0, <1>1, RemoteFrame
    <2>2. QED
      BY <1>0, <2>1 DEF MercuryInv
  <1>2. ASSUME NEW t \in Threads, ThreadStep(t) PROVE MercuryInv'
    <2>1. CASE hvac_init_comm(t)
      <3>1. contexts = 0 /\ contexts' = contexts + 1 /\ g_mercury_init' = TRUE
        BY <1>0, <2>1 DEF hvac_init_comm, MercuryInv
      <3>2. pc'[t] = "reset"
        BY <1>0, <2>1, GotoType DEF hvac_init_comm, Pcs
      <3>3. QED
        BY <3>1, <3>2 DEF MercuryInv, OneThread
    <2>2. CASE hvac_track_file(t)
      <3>1. UNCHANGED <<g_mercury_init, contexts>>
        BY <2>2 DEF hvac_track_file
      <3>2. pc'[t] = "init" => ~g_mercury_init
        BY <1>0, <2>2, GotoType DEF hvac_track_file, Pcs, TypeOK
      <3>3. QED
        BY <1>0, <3>1, <3>2 DEF MercuryInv, OneThread
    <2>3. CASE ~hvac_init_comm(t) /\ ~hvac_track_file(t)
      <3>1. UNCHANGED <<g_mercury_init, contexts>>
        BY <1>2, <2>3
        DEF ThreadStep, AppCall, Continue, WRAP_open, WRAP_read, WRAP_pread, hvac_remote_lseek,
            RemoteCall, WRAP_close, CloseLeaving, ResetDone, Reset, HG_Forward,
            hvac_client_block, BlockUnless, RealClose, SpuriousWake
      <3>2. PICK to \in Pcs \ {"init"} : Goto(t, to)
        BY <1>2, <2>3
        DEF ThreadStep, AppCall, Continue, WRAP_open, WRAP_read, WRAP_pread, hvac_remote_lseek,
            RemoteCall, WRAP_close, CloseLeaving, ResetDone, Reset, HG_Forward,
            hvac_client_block, BlockUnless, RealClose, SpuriousWake, Pcs
      <3>3. pc'[t] # "init"
        BY <1>0, <3>2, GotoType
      <3>4. QED
        BY <1>0, <3>1, <3>3 DEF MercuryInv, OneThread
    <2>4. QED
      BY <2>1, <2>2, <2>3
  <1>3. QED
    BY <1>1, <1>2, ThreadOrRemote

\* With one thread, whether a descriptor is being opened is up to that thread.
LEMMA OpeningSolo ==
  ASSUME OneThread, NEW t \in Threads
  PROVE  \A fd : (Opening(fd) <=> OpeningBy(t, fd)) /\ (Opening(fd)' <=> OpeningBy(t, fd)')
  BY DEF OneThread, Opening

\* A tracked descriptor of an idle client leads somewhere.
LEMMA IdleRedirected ==
  ASSUME OneThread, IInv, NEW t \in Threads, pc[t] \notin {"init", "reset", "forward", "block", "wait"}
                                             \/ call[t].op # "open",
         NEW fd \in Fds, fd_map[fd] # NoPath
  PROVE  OpenedFor(fd_redir_map[fd], fd) /\ fd_redir_map[fd] \notin {None, Default}
  <1>1. ~Opening(fd)
    BY OpeningSolo DEF OpeningBy, Busy
  <1>2. OpenedFor(fd_redir_map[fd], fd)
    BY <1>1 DEF IInv, RedirInv
  <1>3. QED
    BY <1>2, ClientAssumption DEF OpenedFor, Bad, Default

\* A step of t that touches neither the tables nor the answers, and neither begins nor
\* ends an opening, preserves the redirection.
LEMMA SameRedir ==
  ASSUME OneThread, IInv, NEW t \in Threads,
         UNCHANGED <<fd_map, fd_redir_map, owner, closes, answers>>,
         \A fd \in Fds : OpeningBy(t, fd)' <=> OpeningBy(t, fd)
  PROVE  RedirInv' /\ ClosesInv'
  <1>1. \A fd \in Fds : Opening(fd)' <=> Opening(fd)
    BY OpeningSolo
  <1>2. RedirInv'
    BY <1>1 DEF IInv, RedirInv, OpenedFor
  <1>3. ClosesInv'
    BY DEF IInv, ClosesInv
  <1>4. QED
    BY <1>2, <1>3

\* HG_Forward does not change fd_redir_map: the key is there.
LEMMA ForwardRedir ==
  ASSUME OneThread, IInv, NEW t \in Threads, HG_Forward(t)
  PROVE  fd_redir_map' = fd_redir_map /\ \A r \in sent' \ sent : r.sfd # Default
  <1>0. TypeOK /\ PcInv /\ KernelInv
    BY DEF IInv, ThreadsInv
  <1>1. call[t].fd \in Fds /\ pc[t] = "forward" /\ fd_map[call[t].fd] # NoPath
    BY <1>0 DEF HG_Forward, PcInv, KernelInv, InRpc
  <1>2. CASE call[t].op = "open"
    <2>1. None # Default
      BY ClientAssumption DEF Default
    <2>2. /\ fd_redir_map' = fd_redir_map
          /\ sent' = sent \cup {[t |-> t, op |-> call[t].op, fd |-> call[t].fd,
                                 id |-> call[t].id, sfd |-> None]}
      BY <1>2 DEF HG_Forward
    <2>3. QED
      BY <2>1, <2>2
  <1>3. CASE call[t].op # "open"
    <2>1. fd_redir_map[call[t].fd] \notin {None, Default}
      BY <1>1, <1>3, IdleRedirected
    <2>2. /\ fd_redir_map' = [fd_redir_map EXCEPT ![call[t].fd] = fd_redir_map[call[t].fd]]
          /\ sent' = sent \cup {[t |-> t, op |-> call[t].op, fd |-> call[t].fd,
                                 id |-> call[t].id, sfd |-> fd_redir_map[call[t].fd]]}
      BY <1>3, <2>1 DEF HG_Forward
    <2>3. QED
      BY <1>0, <1>1, <2>1, <2>2 DEF TypeOK
  <1>4. QED
    BY <1>2, <1>3

\* Every RPC of a client with one thread names a descriptor its open returned.
LEMMA SfdStep == OneThread /\ IInv /\ Next => \A r \in sent' : r.sfd # Default
  <1> SUFFICES ASSUME OneThread, IInv, Next PROVE \A r \in sent' : r.sfd # Default
    OBVIOUS
  <1>0. TypeOK /\ PcInv /\ \A r \in sent : r.sfd # Default
    BY DEF IInv, ThreadsInv
  <1>1. CASE sent' \subseteq sent
    BY <1>0, <1>1
  <1>2. ASSUME NEW t \in Threads, HG_Forward(t) PROVE \A r \in sent' : r.sfd # Default
    BY <1>0, <1>2, ForwardRedir
  <1>3. QED
    BY <1>0, <1>1, <1>2, WireCases
    DEF QuietStep, ResetDone, Reset, Answered, CallbackBegin, CallbackEnd, wireVars

\* Every step of a client with one thread keeps every descriptor's redirection right.
LEMMA RedirStep == OneThread /\ IInv /\ Next => RedirInv' /\ ClosesInv'
  <1> SUFFICES ASSUME OneThread, IInv, Next PROVE RedirInv' /\ ClosesInv'
    OBVIOUS
  <1> USE DEF threadVars, mapVars, initVars, doneVars, wireVars, serverVars
  <1>0. /\ TypeOK /\ PcInv /\ KernelInv /\ FlightInv /\ DoneInv /\ RedirInv /\ ClosesInv
        /\ None \notin Fds \cup ServerFds \cup {Bad, Default}
        /\ Bad \notin ServerFds /\ Default \notin ServerFds
    BY ClientAssumption DEF IInv, ThreadsInv, Bad, Default
  <1>1. ASSUME NEW t \in Threads, NEW p \in Tracked \cup Untracked, WRAP_open(t, p)
        PROVE  RedirInv' /\ ClosesInv'
    <2>1. pc[t] = "idle" /\ pc'[t] = "track"
      BY <1>0, <1>1, GotoType DEF WRAP_open, Pcs
    <2>2. UNCHANGED <<fd_map, fd_redir_map, owner, closes, answers>>
      BY <1>1 DEF WRAP_open
    <2>3. QED
      BY <2>1, <2>2, SameRedir DEF OpeningBy, Busy
  <1>2. ASSUME NEW t \in Threads, hvac_track_file(t) PROVE RedirInv' /\ ClosesInv'
    <2> DEFINE fd == call[t].fd
    <2>1. /\ fd \in Fds /\ fd_map[fd] = NoPath /\ call[t].op = "open" /\ pc[t] = "track"
          /\ call' = call
          /\ UNCHANGED <<fd_redir_map, owner, closes, answers>>
      BY <1>0, <1>2 DEF hvac_track_file, PcInv, KernelInv
    <2>2. CASE Goto(t, "idle") /\ UNCHANGED fd_map
      <3>1. pc'[t] = "idle"
        BY <1>0, <2>2, GotoType DEF Pcs
      <3>2. QED
        BY <2>1, <2>2, <3>1, SameRedir DEF OpeningBy, Busy
    <2>3. CASE /\ fd_map' = [fd_map EXCEPT ![fd] = kfd[fd]]
               /\ Goto(t, IF g_mercury_init THEN "reset" ELSE "init")
      <3>1. pc'[t] \in {"init", "reset"}
        BY <1>0, <2>3, GotoType DEF Pcs
      <3>2. /\ \A x \in Fds : OpeningBy(t, x)' <=> x = fd
            /\ \A x \in Fds : ~OpeningBy(t, x)
        BY <2>1, <3>1 DEF OpeningBy, Busy
      <3>3. /\ \A x \in Fds : Opening(x)' <=> x = fd
            /\ \A x \in Fds : ~Opening(x)
        BY <3>2, OpeningSolo
      <3>4. \A x \in Fds \ {fd} : fd_map'[x] = fd_map[x]
        BY <1>0, <2>3 DEF TypeOK
      <3>5. RedirInv'
        BY <1>0, <2>1, <3>3, <3>4 DEF RedirInv, OpenedFor
      <3>6. QED
        BY <1>0, <2>1, <3>5 DEF ClosesInv
    <2>4. QED
      BY <1>2, <2>2, <2>3 DEF hvac_track_file
  <1>3. ASSUME NEW t \in Threads, hvac_init_comm(t) PROVE RedirInv' /\ ClosesInv'
    <2>1. pc[t] = "init" /\ pc'[t] = "reset"
      BY <1>0, <1>3, GotoType DEF hvac_init_comm, Pcs
    <2>2. UNCHANGED <<call, fd_map, fd_redir_map, owner, closes, answers>>
      BY <1>3 DEF hvac_init_comm
    <2>3. QED
      BY <2>1, <2>2, SameRedir DEF OpeningBy, Busy
  <1>4. ASSUME NEW t \in Threads, NEW fd \in Fds, NEW op \in {"read", "seek"}, RemoteCall(t, op, fd)
        PROVE  RedirInv' /\ ClosesInv'
    <2>1. pc[t] = "idle" /\ call'[t].op # "open"
      BY <1>0, <1>4, BeginType DEF RemoteCall
    <2>2. UNCHANGED <<fd_map, fd_redir_map, owner, closes, answers>>
      BY <1>4 DEF RemoteCall
    <2>3. QED
      BY <2>1, <2>2, SameRedir DEF OpeningBy, Busy
  <1>5. ASSUME NEW t \in Threads, NEW fd \in Fds, WRAP_pread(t, fd) PROVE RedirInv' /\ ClosesInv'
    <2>1. pc[t] = "idle" /\ call'[t].op # "open"
      BY <1>0, <1>5, BeginType DEF WRAP_pread
    <2>2. fd_redir_map[fd] \notin {None, Default}
      BY <1>5, <2>1, IdleRedirected DEF WRAP_pread
    <2>3. fd_redir_map' = fd_redir_map
      BY <1>0, <1>5, <2>2 DEF WRAP_pread, TypeOK
    <2>4. UNCHANGED <<fd_map, owner, closes, answers>>
      BY <1>5 DEF WRAP_pread
    <2>5. QED
      BY <2>1, <2>3, <2>4, SameRedir DEF OpeningBy, Busy
  <1>6. ASSUME NEW t \in Threads, ResetDone(t) PROVE RedirInv' /\ ClosesInv'
    <2>1. pc[t] = "reset" /\ pc'[t] = "forward"
      BY <1>0, <1>6, GotoType DEF ResetDone, Reset, Pcs
    <2>2. UNCHANGED <<call, fd_map, fd_redir_map, owner, closes, answers>>
      BY <1>6 DEF ResetDone, Reset
    <2>3. QED
      BY <2>1, <2>2, SameRedir DEF OpeningBy, Busy
  <1>7. ASSUME NEW t \in Threads, HG_Forward(t) PROVE RedirInv' /\ ClosesInv'
    <2>1. pc[t] = "forward" /\ pc'[t] = "block" /\ sent' # {}
      BY <1>0, <1>7, GotoType DEF HG_Forward, Pcs
    <2>2. UNCHANGED <<call, fd_map, fd_redir_map, owner, closes, answers>>
      BY <1>7, ForwardRedir DEF HG_Forward
    <2>3. QED
      BY <2>1, <2>2, SameRedir DEF OpeningBy, Busy
  <1>8. ASSUME NEW t \in Threads, hvac_client_block(t) PROVE RedirInv' /\ ClosesInv'
    <2>1. UNCHANGED <<call, fd_map, fd_redir_map, owner, closes, answers, sent>> /\ pc[t] = "block"
      BY <1>8 DEF hvac_client_block, BlockUnless
    <2>2. CASE done = TRUE_ /\ Goto(t, "idle")
      <3>1. pc'[t] = "idle" /\ sent = {} /\ answers = {}
        BY <1>0, <2>2, GotoType DEF Pcs, DoneInv, TRUE_
      <3>2. QED
        BY <2>1, <3>1, SameRedir DEF OpeningBy, Busy
    <2>3. CASE Goto(t, "wait")
      <3>1. pc'[t] = "wait"
        BY <1>0, <2>3, GotoType DEF Pcs
      <3>2. QED
        BY <2>1, <3>1, SameRedir DEF OpeningBy, Busy
    <2>4. QED
      BY <1>8, <2>2, <2>3 DEF hvac_client_block, BlockUnless
  <1>9. ASSUME NEW t \in Threads, SpuriousWake(t) PROVE RedirInv' /\ ClosesInv'
    <2>1. pc[t] = "wait" /\ pc'[t] = "block"
      BY <1>0, <1>9, GotoType DEF SpuriousWake, Pcs
    <2>2. UNCHANGED <<call, fd_map, fd_redir_map, owner, closes, answers, sent>>
      BY <1>9 DEF SpuriousWake
    <2>3. QED
      BY <2>1, <2>2, SameRedir DEF OpeningBy, Busy
  <1>10. ASSUME NEW t \in Threads, NEW fd \in Fds, WRAP_close(t, fd) PROVE RedirInv' /\ ClosesInv'
    <2>1. /\ pc[t] = "idle" /\ pc'[t] = "realclose"
          /\ UNCHANGED <<owner, answers, sent>>
      BY <1>0, <1>10, GotoType DEF WRAP_close, CloseLeaving, Pcs
    <2>2. \A x : ~Opening(x) /\ ~Opening(x)'
      BY <2>1, OpeningSolo DEF OpeningBy, Busy
    <2>3. CASE fd_map[fd] = NoPath
      <3>1. UNCHANGED <<closes, fd_map, fd_redir_map>>
        BY <1>10, <2>3 DEF WRAP_close, CloseLeaving
      <3>2. QED
        BY <2>1, <3>1, SameRedir DEF OpeningBy, Busy
    <2>4. CASE fd_map[fd] # NoPath
      <3>1. OpenedFor(fd_redir_map[fd], fd) /\ fd_redir_map[fd] \notin {None, Default}
        BY <2>1, <2>4, IdleRedirected
      <3>2. /\ closes' = closes \cup {fd_redir_map[fd]}
            /\ fd_map' = [fd_map EXCEPT ![fd] = NoPath]
            /\ fd_redir_map' = [fd_redir_map EXCEPT ![fd] = None]
        BY <1>10, <2>4, <3>1 DEF WRAP_close, CloseLeaving, MapErased, RedirErased
      <3>3. /\ fd_map'[fd] = NoPath /\ fd_redir_map'[fd] = None
            /\ \A x \in Fds \ {fd} : fd_map'[x] = fd_map[x] /\ fd_redir_map'[x] = fd_redir_map[x]
        BY <1>0, <3>2 DEF TypeOK
      <3>4. RedirInv'
        BY <1>0, <2>1, <2>2, <3>3 DEF RedirInv, OpenedFor
      <3>5. answers = {}
        BY <1>0, <2>1, EmptyWire DEF Busy
      <3>6. \A x \in Fds \ {fd} : fd_redir_map[fd] \in ServerFds => fd_redir_map[x] # fd_redir_map[fd]
        BY <1>0, <2>2, <3>1 DEF RedirInv, OpenedFor
      <3>7. fd_redir_map[fd] \in ServerFds => owner[fd_redir_map[fd]] # None
        BY <1>0, <3>1 DEF OpenedFor
      <3>8. Default \notin closes'
        BY <1>0, <3>1, <3>2 DEF ClosesInv
      <3>9. ASSUME NEW s \in closes' \cap ServerFds
            PROVE  owner[s] # None /\ \A x \in Fds : fd_redir_map'[x] # s
        BY <1>0, <3>2, <3>3, <3>6, <3>7, <3>9 DEF ClosesInv
      <3>10. ClosesInv'
        BY <2>1, <3>5, <3>8, <3>9 DEF ClosesInv
      <3>11. QED
        BY <3>4, <3>10
    <2>5. QED
      BY <2>3, <2>4
  <1>11. ASSUME NEW t \in Threads, RealClose(t) PROVE RedirInv' /\ ClosesInv'
    <2>1. pc[t] = "realclose" /\ pc'[t] = "idle"
      BY <1>0, <1>11, GotoType DEF RealClose, Pcs
    <2>2. UNCHANGED <<fd_map, fd_redir_map, owner, closes, answers>>
      BY <1>11 DEF RealClose
    <2>3. QED
      BY <2>1, <2>2, SameRedir DEF OpeningBy, Busy
  <1>12. ASSUME NEW t \in Threads, Answer(t) PROVE RedirInv' /\ ClosesInv'
    <2>1. CASE QuietStep /\ UNCHANGED <<pc, call, result, fd_map, fd_redir_map, closes, owner>>
      BY <2>1, SameRedir DEF QuietStep, OpeningBy, Busy
    <2>2. ASSUME NEW r, NEW v, Answered(r, v) PROVE RedirInv' /\ ClosesInv'
      <3>1. sent # {} /\ answers = {} /\ answers' = {[rpc |-> r, val |-> v]}
        BY <1>0, <2>2 DEF Answered, FlightInv
      <3>2. UNCHANGED <<pc, call, fd_map, fd_redir_map, closes>>
        BY <2>2 DEF Answered
      <3>3. \A x \in Fds : Opening(x)' <=> Opening(x)
        BY <3>1, <3>2, OpeningSolo DEF OpeningBy, Busy
      <3>4. /\ r.op = "open" => v = Bad \/ (v \in ServerFds /\ owner'[v] = r.fd)
            /\ v \in ServerFds => owner[v] = None
            /\ \A s \in ServerFds : owner'[s] = owner[s] \/ owner[s] = None
            /\ \A s \in ServerFds : s # v => owner'[s] = owner[s]
            /\ v \in ServerFds \cup {Bad, None}
        BY <1>0, <2>2 DEF Answered, OwnOrDead, TypeOK
      <3>5. \A x \in Fds : \A s : OpenedFor(s, x) => OpenedFor(s, x)'
        BY <1>0, <3>4 DEF OpenedFor
      <3>6. \A a \in answers' : a.rpc.op = "open" => OpenedFor(a.val, a.rpc.fd)'
        BY <3>1, <3>4 DEF OpenedFor
      <3>7. RedirInv'
        BY <1>0, <3>2, <3>3, <3>5, <3>6 DEF RedirInv
      <3>8. \A s \in closes \cap ServerFds : s # v /\ owner'[s] # None
        BY <1>0, <3>4 DEF ClosesInv
      <3>9. ClosesInv'
        BY <1>0, <3>1, <3>2, <3>8 DEF ClosesInv
      <3>10. QED
        BY <3>7, <3>9
    <2>3. QED
      BY <1>0, <1>12, <2>1, <2>2, AnswerCases
  <1>13. ASSUME NEW t \in Threads, Callback(t) PROVE RedirInv' /\ ClosesInv'
    <2>1. PICK a \in answers : CallbackBegin(a)
      BY <1>13 DEF Callback
    <2> DEFINE fd == a.rpc.fd
    <2>2. /\ answers = {a} /\ sent = {} /\ Current(a.rpc) /\ a.rpc.t = t
          /\ fd \in Fds
      BY <1>0, <2>1, RpcThreads DEF FlightInv, OneThread, Rpcs
    <2>3. answers' = {} /\ sent' = {} /\ UNCHANGED <<pc, call, fd_map, owner, closes>>
      BY <2>1, <2>2 DEF CallbackBegin
    <2>4. \A x : ~Opening(x)'
      BY <2>2, <2>3, OpeningSolo DEF OpeningBy, Current, Busy
    <2>5. \A x \in Fds : Opening(x) <=> a.rpc.op = "open" /\ x = fd
      BY <2>2, OpeningSolo DEF OpeningBy, Current, Busy
    <2>6. fd_map[fd] # NoPath
      BY <1>0, <2>2 DEF KernelInv, Current, Busy, InRpc
    <2>7. CASE a.rpc.op = "open"
      <3>1. OpenedFor(a.val, fd)
        BY <1>0, <2>1, <2>7 DEF RedirInv
      <3>2. fd_redir_map'[fd] = a.val /\ \A x \in Fds \ {fd} : fd_redir_map'[x] = fd_redir_map[x]
        BY <1>0, <2>1, <2>2, <2>7 DEF CallbackBegin, TypeOK
      <3>3. RedirInv'
        BY <1>0, <2>3, <2>4, <2>5, <2>6, <3>1, <3>2 DEF RedirInv, OpenedFor
      <3>4. ClosesInv'
        BY <1>0, <2>1, <2>3, <3>2 DEF ClosesInv
      <3>5. QED
        BY <3>3, <3>4
    <2>8. CASE a.rpc.op # "open"
      <3>1. fd_redir_map' = fd_redir_map
        BY <2>1, <2>8 DEF CallbackBegin
      <3>2. RedirInv'
        BY <1>0, <2>3, <2>4, <2>5, <2>8, <3>1 DEF RedirInv, OpenedFor
      <3>3. ClosesInv'
        BY <1>0, <2>3, <3>1 DEF ClosesInv
      <3>4. QED
        BY <3>2, <3>3
    <2>9. QED
      BY <2>7, <2>8
  <1>14. CASE CallbackEnd
    <2>1. UNCHANGED <<call, fd_map, fd_redir_map, owner, closes, answers, sent>>
      BY <1>14 DEF CallbackEnd
    <2>2. cb.rpc.t \in Threads
      BY <1>0, <1>14, RpcThreads DEF CallbackEnd
    <2>3. \A t \in Threads : pc'[t] = pc[t] \/ (pc[t] = "wait" /\ pc'[t] = "block")
      BY <1>0, <1>14, RemoteFrame DEF Remote
    <2>4. QED
      BY <2>1, <2>2, <2>3, SameRedir DEF OpeningBy, Busy
  <1>15. ASSUME NEW s \in closes, ServeClose(s) PROVE RedirInv' /\ ClosesInv'
    <2>1. /\ UNCHANGED <<pc, call, fd_map, fd_redir_map, answers, sent>>
          /\ closes' = closes \ {s}
          /\ \A x \in ServerFds : x # s => owner'[x] = owner[x]
      BY <1>0, <1>15 DEF ServeClose, TypeOK
    <2>2. \A x : Opening(x)' <=> Opening(x)
      BY <2>1 DEF Opening, OpeningBy, Busy
    <2>3. RedirInv'
      BY <1>0, <2>1, <2>2 DEF RedirInv, ClosesInv, OpenedFor
    <2>4. ClosesInv'
      BY <1>0, <2>1 DEF ClosesInv
    <2>5. QED
      BY <2>3, <2>4
  <1>16. CASE Stopped
    <2>1. UNCHANGED <<pc, call, fd_map, fd_redir_map, owner, closes, answers, sent>>
      BY <1>16 DEF Stopped, vars
    <2>2. \A x : Opening(x)' <=> Opening(x)
      BY <2>1 DEF Opening, OpeningBy, Busy
    <2>3. QED
      BY <1>0, <2>1, <2>2 DEF RedirInv, ClosesInv, OpenedFor
  <1>17. QED
    BY <1>1, <1>2, <1>3, <1>4, <1>5, <1>6, <1>7, <1>8, <1>9, <1>10, <1>11, <1>12, <1>13, <1>14,
       <1>15, <1>16
    DEF Next, AppCall, Continue, WRAP_read, hvac_remote_lseek

\* Every step of a client with one thread preserves what its finished reads returned.
LEMMA ReadsStep == OneThread /\ IInv /\ Next => ReadsOwnAnswer'
  <1> SUFFICES ASSUME OneThread, IInv, Next PROVE ReadsOwnAnswer'
    OBVIOUS
  <1> USE DEF threadVars, mapVars, initVars, doneVars, wireVars, serverVars
  <1>0. TypeOK /\ PcInv /\ AnswerInv /\ ReadsOwnAnswer
    BY DEF IInv, ThreadsInv
  <1>1. CASE Remote
    <2>1. /\ UNCHANGED <<call, result>>
          /\ \A t \in Threads : pc'[t] = pc[t] \/ (pc[t] = "wait" /\ pc'[t] = "block")
      BY <1>0, <1>1, RemoteFrame
    <2>2. alive' => alive
      BY <1>0, <1>1, AnswerCases
      DEF Remote, QuietStep, Answered, Callback, CallbackBegin, CallbackEnd, ServeClose, Stopped,
          vars, TypeOK
    <2>3. QED
      BY <1>0, <2>1, <2>2 DEF ReadsOwnAnswer
  <1>2. ASSUME NEW t \in Threads, hvac_client_block(t) PROVE ReadsOwnAnswer'
    <2>1. UNCHANGED <<call, alive>> /\ pc[t] = "block"
      BY <1>2 DEF hvac_client_block, BlockUnless
    <2>2. CASE /\ done = TRUE_ /\ Goto(t, "idle")
               /\ result' = [result EXCEPT ![t] = IF call[t].op \in ByReadRet THEN read_ret ELSE @]
      <3>1. call[t].op \in ByReadRet => result'[t] = read_ret
        BY <1>0, <2>2 DEF TypeOK
      <3>2. call[t].op \in ByReadRet =>
              \/ read_ret = [t |-> t, id |-> call[t].id]
              \/ call[t].op = "seek" /\ ~alive
        BY <1>0, <2>1, <2>2 DEF AnswerInv, Busy, TRUE_
      <3>3. \A u \in Threads : u = t
        BY DEF OneThread
      <3>4. QED
        BY <2>1, <3>1, <3>2, <3>3 DEF ReadsOwnAnswer
    <2>3. CASE Goto(t, "wait")
      BY <1>0, <2>3, GotoType DEF Pcs, ReadsOwnAnswer, OneThread
    <2>4. QED
      BY <1>2, <2>2, <2>3 DEF hvac_client_block, BlockUnless
  <1>3. ASSUME NEW t \in Threads, NEW fd \in Fds, WRAP_pread(t, fd) PROVE ReadsOwnAnswer'
    <2>1. pc[t] = "idle" /\ fd_map[fd] # NoPath
      BY <1>3 DEF WRAP_pread
    <2>2. fd_redir_map[fd] \notin {None, Default}
      BY <2>1, IdleRedirected
    <2>3. pc'[t] = "reset"
      BY <1>0, <1>3, <2>2, GotoType DEF WRAP_pread, Pcs
    <2>4. QED
      BY <2>3 DEF ReadsOwnAnswer, OneThread
  <1>4. ASSUME NEW t \in Threads, hvac_track_file(t) \/ RealClose(t) PROVE ReadsOwnAnswer'
    <2>1. call' = call /\ call[t].op \in {"open", "close"}
      BY <1>0, <1>4 DEF hvac_track_file, RealClose, PcInv
    <2>2. QED
      BY <2>1 DEF ReadsOwnAnswer, OneThread, ByReadRet
  <1>5. ASSUME NEW t \in Threads, NEW to \in Pcs \ {"idle"}, Goto(t, to) PROVE ReadsOwnAnswer'
    BY <1>0, <1>5, GotoType DEF ReadsOwnAnswer, OneThread
  <1>6. ASSUME NEW t \in Threads, ThreadStep(t) PROVE ReadsOwnAnswer'
    BY <1>2, <1>3, <1>4, <1>5, <1>6
    DEF ThreadStep, AppCall, Continue, WRAP_open, WRAP_read, hvac_remote_lseek, RemoteCall,
        WRAP_close, CloseLeaving, hvac_init_comm, ResetDone, Reset, HG_Forward, SpuriousWake, Pcs
  <1>7. QED
    BY <1>1, <1>6, ThreadOrRemote

\* Stuttering preserves everything.
LEMMA StutterIInv == IInv /\ UNCHANGED vars => IInv'
  <1> SUFFICES ASSUME IInv, UNCHANGED vars PROVE IInv'
    OBVIOUS
  <1> USE DEF vars, threadVars, mapVars, initVars, doneVars, wireVars, serverVars
  <1>1. ThreadsInv'
    BY StutterThreads DEF IInv
  <1>2. MercuryInv' /\ FlightInv' /\ DoneInv' /\ AnswerInv' /\ ReadsOwnAnswer'
    BY DEF IInv, MercuryInv, FlightInv, Current, Busy, DoneInv, AnswerInv, OwnOrDead, ReadsOwnAnswer
  <1>3. RedirInv' /\ ClosesInv' /\ \A r \in sent' : r.sfd # Default
    BY DEF IInv, RedirInv, Opening, OpeningBy, Busy, OpenedFor, ClosesInv
  <1>4. QED
    BY <1>1, <1>2, <1>3 DEF IInv

-----------------------------------------------------------------------------
\* The inductive invariant holds in every behaviour of a client with one thread.
THEOREM Invariance == ASSUME OneThread PROVE Spec => []IInv
  <1>1. IInv /\ [Next]_vars => IInv'
    BY TypeStep, PcStep, KernelStep, FlightStep, DoneStep, AnswerStep, MercuryStep, SfdStep,
       RedirStep, ReadsStep, StutterIInv
    DEF IInv, ThreadsInv
  <1>2. QED
    BY <1>1, InitIInv, PTL DEF Spec

\* While an RPC is outstanding, the thread that sent it is inside hvac_client_block,
\* in that very call: nobody is woken by another callback's done.
THEOREM BlockingCorrect == ASSUME OneThread PROVE Spec => []BlocksUntilDone
  <1>1. IInv => BlocksUntilDone
    BY DEF IInv, FlightInv, BlocksUntilDone, Outstanding, Current, Busy
  <1>2. QED
    BY <1>1, Invariance, PTL

\* Every read returns its own answer, never a stale read_ret or the -1 of the reset,
\* and so does every seek while the server is up.
THEOREM ReadsCorrect == ASSUME OneThread PROVE Spec => []ReadsOwnAnswer
  BY Invariance, PTL DEF IInv

\* fd_redir_map leads every tracked descriptor to the server descriptor opened for it,
\* no close in flight names one in use, and the server's standard input is never named.
THEOREM RedirectionCorrect == ASSUME OneThread PROVE Spec => []RedirectionConsistent
  <1>1. ASSUME IInv PROVE RedirectionConsistent
    <2>1. \A fd \in Fds : ~InUse(fd) => ~Opening(fd)
      BY DEF InUse, Opening, OpeningBy, Busy
    <2>2. QED
      BY <1>1, <2>1 DEF IInv, RedirInv, ClosesInv, OpenedFor, RedirectionConsistent
  <1>2. QED
    BY <1>1, Invariance, PTL

\* Mercury is initialised at most once.
THEOREM InitOnceCorrect == ASSUME OneThread PROVE Spec => []InitOnce
  <1>1. IInv => InitOnce
    BY DEF IInv, MercuryInv, InitOnce
  <1>2. QED
    BY <1>1, Invariance, PTL
=============================================================================
