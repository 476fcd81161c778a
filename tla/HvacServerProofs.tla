-------------------------- MODULE HvacServerProofs --------------------------
(***************************************************************************)
(* Proofs about HvacServer, for any number of handles, files, descriptors  *)
(* and NVMe directories, any file length and any schedule of faults.  One  *)
(* lemma per part of the inductive invariant IInv shows that every step    *)
(* preserves the part.                                                     *)
(***************************************************************************)
EXTENDS HvacServer, SequenceTheorems, TLAPS

(* The inductive invariant behind the safety properties.                   *)

\* What the stage of a handle says about its other fields.
StageInv ==
    \A h \in Handles :
        /\ stage[h] # "closed" => path[h] \in Files
        /\ stage[h] \in {"closed", "opening", "opened"} => cpos[h] = 0
        /\ stage[h] = "opened" => ret[h] \in Fds \cup {Bad}
        /\ stage[h] \in {"bulk", "read"} => ret[h] \in Nat /\ rfd[h] \in Fds
        /\ stage[h] = "sought" => ret[h] \in Nat \cup {Bad}

\* Only complete copies are published or open; the copy in progress is of the
\* path at the front of the batch.
MoverInv ==
    /\ RedirectComplete
    /\ \A d \in copied : copyOf[d] \in Files
    /\ \A fd \in Fds : fdObj[fd] \in Dirs => fdObj[fd] \in copied
    /\ mover \in {"copy", "publish"} =>
        local_list # <<>> /\ newdir \in Dirs /\ copyOf[newdir] = Head(local_list)
    /\ mover = "publish" => newdir \in copied

\* A -1 in a client's hands or on the wire comes from a failed open.
FailedOpenInv ==
    /\ Bad \in closing => fd_to_path[Bad] # NoFile
    /\ \A h \in Handles : Holds(h, Bad) => fd_to_path[Bad] # NoFile

IInv ==
    /\ TypeOK
    /\ StageInv
    /\ MoverInv
    /\ DescriptorAccounting
    /\ HandleSeesItsFile
    /\ FailedOpenInv
    /\ AbortHasCause

\* A descriptor just opened stands at the beginning of its file.
OffsetInv ==
    \A h \in Handles : stage[h] = "opened" /\ ret[h] # Bad => fdPos[ret[h]] = 0

-----------------------------------------------------------------------------
\* The initial state satisfies every invariant.
LEMMA InitIInv == Init => IInv /\ OffsetInv /\ ReadsRightData
  <1> SUFFICES ASSUME Init PROVE IInv /\ OffsetInv /\ ReadsRightData
    OBVIOUS
  <1> USE ServerAssumption DEF Init, Bad
  <1>1. TypeOK
    BY DEF TypeOK, Stages, Args, NoArg, NoData
  <1>2. StageInv
    BY DEF StageInv
  <1>3. MoverInv
    BY DEF MoverInv, RedirectComplete
  <1>4. \A h \in Handles : \A fd : ~Holds(h, fd)
    BY DEF Holds, Live
  <1>5. DescriptorAccounting /\ HandleSeesItsFile
    BY <1>4 DEF DescriptorAccounting, HandleSeesItsFile, IsOpen
  <1>6. FailedOpenInv /\ AbortHasCause
    BY <1>4 DEF FailedOpenInv, AbortHasCause
  <1>7. OffsetInv /\ ReadsRightData
    BY DEF OffsetInv, ReadsRightData, Live
  <1>8. QED
    BY <1>1, <1>2, <1>3, <1>5, <1>6, <1>7 DEF IInv

\* The arguments of a read or seek RPC have their types.
LEMMA ArgType ==
  ASSUME TypeOK, NEW h \in Handles
  PROVE  arg[h].n \in Nat /\ arg[h].off \in Int /\ arg[h].whence \in {"SET", "CUR", "END"}
  <1>1. arg[h] \in [n: ReadSizes \cup {0}, off: Offsets \cup {0}, whence: {"SET", "CUR", "END"}]
    BY DEF TypeOK, Args
  <1>2. /\ arg[h].n \in ReadSizes \cup {0}
        /\ arg[h].off \in Offsets \cup {0}
        /\ arg[h].whence \in {"SET", "CUR", "END"}
    BY <1>1
  <1>3. ReadSizes \cup {0} \subseteq Nat /\ Offsets \cup {0} \subseteq Int
    BY ServerAssumption
  <1>4. QED
    BY <1>2, <1>3

\* Counts below 2^31 arrive as they were sent; what arrives and is not negative is
\* never more than what was sent.
LEMMA InputVal ==
  ASSUME NEW n \in Nat
  PROVE  /\ input_val(n) \in Int
         /\ input_val(n) <= n
         /\ n < HalfWord => input_val(n) = n
  <1> DEFINE d == 2 * HalfWord
  <1>1. d \in Nat \ {0} /\ HalfWord \in Nat \ {0}
    BY ServerAssumption, FileAssumption
  <1> HIDE DEF d
  <1>2. n % d \in 0..(d - 1) /\ n = d * (n \div d) + (n % d) /\ n \div d \in Nat
    BY <1>1
  <1>3. d * (n \div d) \in Nat
    BY <1>1, <1>2
  <1>4. n % d <= n
    BY <1>2, <1>3
  <1>5. n < d => n % d = n
    BY <1>1
  <1>6. input_val(n) = IF n % d < HalfWord THEN n % d ELSE (n % d) - d
    BY DEF input_val, d
  <1>7. d = 2 * HalfWord
    BY DEF d
  <1>8. QED
    BY <1>1, <1>2, <1>4, <1>5, <1>6, <1>7

\* read and pread return a byte count, which does not shrink when more is asked for.
LEMMA BytesType ==
  ASSUME NEW at \in Nat, NEW n \in Nat, NEW m \in Nat, m <= n
  PROVE  Bytes(at, n) \in Nat /\ Bytes(at, m) <= Bytes(at, n)
  BY FileAssumption DEF Bytes

\* lseek returns an offset or -1.
LEMMA SeekTargetType ==
  ASSUME NEW whence \in {"SET", "CUR", "END"}, NEW off \in Int, NEW pos \in Nat
  PROVE  SeekTarget(whence, off, pos) \in Nat \cup {Bad}
  BY FileAssumption DEF SeekTarget, Bad

\* A read that succeeds is on an open descriptor, at a position and of a length that
\* are natural numbers.
ReadAt(h) == IF arg[h].off = -1 THEN fdPos[rfd[h]] ELSE arg[h].off

\* The bytes a successful read delivers.
Got(h) == Bytes(ReadAt(h), input_val(arg[h].n))

\* What hvac_rpc_handler stores after a successful read has its type.
LEMMA ReadOkType ==
  ASSUME TypeOK, NEW h \in Handles, ReadOk(h)
  PROVE  /\ rfd[h] \in Fds
         /\ fdObj[rfd[h]] \in Files \cup Dirs
         /\ ReadAt(h) \in Nat
         /\ Got(h) \in Nat
         /\ Got(h) <= Bytes(ReadAt(h), arg[h].n)
         /\ arg[h].n < HalfWord => Got(h) = Bytes(ReadAt(h), arg[h].n)
         /\ \E p \in Nat : fdPos' = [fdPos EXCEPT ![rfd[h]] = p]
  <1>1. rfd[h] \in Fds /\ fdPos[rfd[h]] \in Nat /\ fdObj[rfd[h]] \in Files \cup Dirs
    BY DEF TypeOK, ReadOk, ReadMoving, IsOpen
  <1>2. ReadAt(h) \in Nat
    BY <1>1, ArgType DEF ReadOk, ReadMoving, ReadAt
  <1>3. /\ arg[h].n \in Nat /\ input_val(arg[h].n) \in Nat /\ input_val(arg[h].n) <= arg[h].n
        /\ arg[h].n < HalfWord => input_val(arg[h].n) = arg[h].n
    BY ArgType, InputVal DEF ReadOk, ReadMoving
  <1>4. /\ Got(h) \in Nat
        /\ Got(h) <= Bytes(ReadAt(h), arg[h].n)
    BY <1>2, <1>3, BytesType DEF Got
  <1>5. arg[h].n < HalfWord => Got(h) = Bytes(ReadAt(h), arg[h].n)
    BY <1>3 DEF Got
  <1>6. fdPos' = [fdPos EXCEPT ![rfd[h]] =
                    IF arg[h].off = -1 THEN fdPos[rfd[h]] + Got(h) ELSE fdPos[rfd[h]]]
    BY DEF ReadOk, ReadMoving, ReadAt, Got
  <1>7. fdPos[rfd[h]] + Got(h) \in Nat
    BY <1>1, <1>4
  <1>8. \E p \in Nat : fdPos' = [fdPos EXCEPT ![rfd[h]] = p]
    BY <1>1, <1>6, <1>7
  <1>9. QED
    BY <1>1, <1>2, <1>4, <1>5, <1>8

\* Every step keeps the types.
LEMMA TypeStep == IInv /\ [Next]_vars => TypeOK'
  <1> SUFFICES ASSUME IInv, [Next]_vars PROVE TypeOK'
    OBVIOUS
  <1> USE ServerAssumption DEF IInv, TypeOK, vars, clientVars, answerVars, kernelVars,
        nvmeVars, queueVars, envVars, moverFrame
  <1>1. ASSUME NEW h \in Handles, NEW f \in Files, OpenCall(h, f) PROVE TypeOK'
    BY <1>1 DEF OpenCall, Stages
  <1>2. ASSUME NEW h \in Handles, OpenReturn(h) PROVE TypeOK'
    BY <1>2 DEF OpenReturn, Stages, StageInv
  <1>3. ASSUME NEW h \in Handles, NEW n \in ReadSizes, NEW off \in Offsets, ReadCall(h, n, off)
        PROVE TypeOK'
    BY <1>3 DEF ReadCall, Stages, Args
  <1>4. ASSUME NEW h \in Handles, ReadReturn(h) PROVE TypeOK'
    BY <1>4, SMTT(30) DEF ReadReturn, Stages, Args, NoArg, NoData, StageInv
  <1>5. ASSUME NEW h \in Handles, NEW off \in Offsets, NEW whence \in Whences,
               SeekCall(h, off, whence)
        PROVE TypeOK'
    BY <1>5 DEF SeekCall, Stages, Args
  <1>6. ASSUME NEW h \in Handles, SeekReturn(h) PROVE TypeOK'
    <2>1. stage' \in [Handles -> Stages] /\ cpos' \in [Handles -> Nat]
      BY <1>6 DEF SeekReturn, Stages, StageInv, Bad
    <2>2. arg' \in [Handles -> Args] /\ ret' \in [Handles -> Int]
      BY <1>6 DEF SeekReturn, Args, NoArg
    <2>3. QED
      BY <1>6, <2>1, <2>2 DEF SeekReturn
  <1>7. ASSUME NEW h \in Handles, CloseCall(h) PROVE TypeOK'
    <2>1. stage' \in [Handles -> Stages] /\ path' \in [Handles -> Files \cup {NoFile}]
      BY <1>7 DEF CloseCall, Stages
    <2>2. rfd' \in [Handles -> Fds \cup {Bad}] /\ cpos' \in [Handles -> Nat]
      BY <1>7 DEF CloseCall
    <2>3. closing' \subseteq Fds \cup {Bad}
      BY <1>7 DEF CloseCall
    <2>4. QED
      BY <1>7, <2>1, <2>2, <2>3 DEF CloseCall
  <1>8. ASSUME NEW h \in Handles, hvac_open_rpc_handler(h) PROVE TypeOK'
    <2>1. CASE Crash
      BY <2>1 DEF Crash
    <2>2. ASSUME NEW obj, OpenOk(h, obj), stage' = [stage EXCEPT ![h] = "opened"],
                 UNCHANGED <<path, rfd, arg, cpos, data, closing, envVars, nvmeVars,
                             path_cache_map, queueVars, mover, aborted>>
          PROVE TypeOK'
      <3>1. obj \in Files \cup Dirs
        BY <2>2 DEF OpenOk, OpenRecording, Exists
      <3>2. PICK fd \in Fds :
              /\ fdObj' = [fdObj EXCEPT ![fd] = obj]
              /\ fdPos' = [fdPos EXCEPT ![fd] = 0]
              /\ fd_to_path' = [fd_to_path EXCEPT ![fd] = path[h]]
              /\ ret' = [ret EXCEPT ![h] = fd]
        BY <2>2 DEF OpenOk, OpenRecording, FreeFds
      <3>3. QED
        BY <2>2, <3>1, <3>2, SMTT(30) DEF Stages
    <2>3. ASSUME NEW obj, OpenFails(h, obj), stage' = [stage EXCEPT ![h] = "opened"],
                 UNCHANGED <<path, rfd, arg, cpos, data, closing, envVars, nvmeVars,
                             path_cache_map, queueVars, mover, aborted>>
          PROVE TypeOK'
      BY <2>3, SMTT(30) DEF OpenFails, Stages, Bad
    <2>4. QED
      BY <1>8, <2>1, <2>2, <2>3 DEF hvac_open_rpc_handler
  <1>9. ASSUME NEW h \in Handles, hvac_rpc_handler(h) PROVE TypeOK'
    <2>1. CASE ReadOk(h)
      <3>1. Content(fdObj[rfd[h]]) \in Files \cup {NoFile}
        BY <2>1, ReadOkType DEF Content
      <3>2. PICK at \in Nat, b \in Nat, c \in Files \cup {NoFile} :
              /\ stage' = [stage EXCEPT ![h] = "bulk"]
              /\ ret' = [ret EXCEPT ![h] = b]
              /\ data' = [data EXCEPT ![h] = [src |-> c, at |-> at]]
              /\ fdPos' = [fdPos EXCEPT ![rfd[h]] = IF arg[h].off = -1 THEN @ + b ELSE @]
              /\ UNCHANGED aborted
        BY <2>1, <3>1, ReadOkType DEF ReadOk, ReadMoving, ReadAt, Got
      <3>3. [src |-> c, at |-> at] \in [src: Files \cup {NoFile}, at: Int]
        OBVIOUS
      <3>4. data' \in [Handles -> [src: Files \cup {NoFile}, at: Int]]
        BY <3>2, <3>3
      <3>5. fdPos' \in [Fds -> Nat]
        <4>1. PICK p \in Nat : fdPos' = [fdPos EXCEPT ![rfd[h]] = p]
          BY <2>1, ReadOkType
        <4>2. fdPos \in [Fds -> Nat] /\ rfd[h] \in Fds
          BY <2>1, ReadOkType
        <4> HIDE DEF IInv, TypeOK
        <4>3. QED
          BY <4>1, <4>2
      <3>6. QED
        BY <1>9, <3>2, <3>4, <3>5, SMTT(30) DEF hvac_rpc_handler, Stages
    <2>2. CASE ReadFails(h) \/ AllocFails(h)
      BY <1>9, <2>2 DEF hvac_rpc_handler, ReadFails, AllocFails
    <2>3. QED
      BY <1>9, <2>1, <2>2 DEF hvac_rpc_handler
  <1>10. ASSUME NEW h \in Handles, hvac_rpc_handler_bulk_cb(h) PROVE TypeOK'
    BY <1>10 DEF hvac_rpc_handler_bulk_cb, Stages
  <1>11. ASSUME NEW h \in Handles, hvac_seek_rpc_handler(h) PROVE TypeOK'
    <2>1. \A fd \in Fds : SeekTarget(arg[h].whence, arg[h].off, fdPos[fd]) \in Nat \cup {Bad}
      BY ArgType, SeekTargetType
    <2>2. PICK to \in Nat \cup {Bad} :
            /\ ret' = [ret EXCEPT ![h] = to]
            /\ fdPos' = IF to = Bad THEN fdPos ELSE [fdPos EXCEPT ![rfd[h]] = to]
      BY <1>11, <2>1 DEF hvac_seek_rpc_handler, SeekWith, IsOpen
    <2>3. to \in Int
      BY DEF Bad
    <2>4. fdPos' \in [Fds -> Nat]
      BY <2>2
    <2>5. ret' \in [Handles -> Int]
      BY <2>2, <2>3
    <2>6. QED
      BY <1>11, <2>4, <2>5 DEF hvac_seek_rpc_handler, SeekWith, Stages
  <1>12. ASSUME NEW fd \in Fds \cup {Bad}, hvac_close_rpc_handler(fd) PROVE TypeOK'
    <2>1. CASE CloseOk(fd)
      <3>1. fd \in Fds /\ fd_to_path[fd] \in Files
        BY <1>12, <2>1 DEF hvac_close_rpc_handler, CloseOk, IsOpen, HandleSeesItsFile
      <3>2. \/ data_queue' = Append(data_queue, fd_to_path[fd]) /\ mover' \in {mover, "woken"}
            \/ UNCHANGED <<data_queue, mover>>
        BY <2>1 DEF CloseOk, Enqueue
      <3>3. data_queue' \in Seq(Files)
        <4>1. Append(data_queue, fd_to_path[fd]) \in Seq(Files)
          BY <3>1, AppendProperties
        <4>2. QED
          BY <3>2, <4>1
      <3>4. mover' \in {"lock", "wait", "woken", "work", "copy", "publish"}
        BY <3>2
      <3>5. fd_to_path' \in [Fds \cup {Bad} -> Files \cup {NoFile}]
        BY <2>1 DEF CloseOk
      <3>6. QED
        BY <2>1, <3>1, <3>3, <3>4, <3>5 DEF CloseOk
    <2>2. CASE CloseFails(fd) \/ Crash
      BY <2>2 DEF CloseFails, Crash
    <2>3. QED
      BY <1>12, <2>1, <2>2 DEF hvac_close_rpc_handler
  <1>13. ASSUME NEW f \in Files, Unlink(f) PROVE TypeOK'
    BY <1>13 DEF Unlink
  <1>22. ASSUME NEW h \in Handles, ClientDies(h) PROVE TypeOK'
    BY <1>22 DEF ClientDies
  <1>14. CASE MoverWait \/ MoverSpuriousWake \/ MoverLoop
    BY <1>14 DEF MoverWait, MoverSpuriousWake, MoverLoop
  <1>15. CASE MoverDrain
    <2>1. local_list' \in Seq(Files) /\ data_queue' \in Seq(Files)
      BY <1>15, ConcatProperties, EmptySeq DEF MoverDrain, DrainTo
    <2>2. QED
      BY <1>15, <2>1 DEF MoverDrain, DrainTo
  <1>16. CASE MoverStartCopy
    BY <1>16 DEF MoverStartCopy
  <1>17. CASE MoverCopyFails
    BY <1>17 DEF MoverCopyFails, CopyFails
  <1>18. CASE MoverCopied
    BY <1>18 DEF MoverCopied, MoverInv
  <1>19. CASE MoverPublish
    BY <1>19 DEF MoverPublish, MoverInv
  <1>20. CASE Stopped \/ UNCHANGED vars
    BY <1>20 DEF Stopped
  <1>21. QED
    BY <1>1, <1>2, <1>3, <1>4, <1>5, <1>6, <1>7, <1>8, <1>9, <1>10, <1>11, <1>12, <1>13,
       <1>14, <1>15, <1>16, <1>17, <1>18, <1>19, <1>20, <1>22
       DEF Next, ClientStep, Serve, hvac_data_mover_fn

\* The mover, a file's removal and a crash of the process leave clients, answers and
\* descriptors alone.
LEMMA ServerSideFrame ==
  ASSUME hvac_data_mover_fn \/ MoverSpuriousWake \/ Stopped \/ UNCHANGED vars
         \/ (\E f \in Files : Unlink(f)) \/ (\E h \in Handles : ClientDies(h)) \/ Crash
  PROVE  UNCHANGED <<clientVars, answerVars, closing, kernelVars, fd_to_path>>
  BY DEF hvac_data_mover_fn, MoverWait, MoverSpuriousWake, MoverDrain, DrainTo, MoverLoop,
     MoverStartCopy, MoverCopyFails, CopyFails, MoverCopied, MoverPublish, Stopped, vars, moverFrame,
     Unlink, ClientDies, Crash, kernelVars

\* Every step keeps the fields of a handle in line with its stage.
LEMMA StageStep == IInv /\ [Next]_vars => StageInv'
  <1> SUFFICES ASSUME IInv, [Next]_vars PROVE StageInv'
    OBVIOUS
  <1> USE ServerAssumption DEF IInv, TypeOK, StageInv
  <1>1. ASSUME UNCHANGED <<stage, path, cpos, ret, rfd>> PROVE StageInv'
    BY <1>1
  <1>2. ASSUME NEW h \in Handles, NEW f \in Files, OpenCall(h, f) PROVE StageInv'
    BY <1>2 DEF OpenCall, answerVars
  <1>3. ASSUME NEW h \in Handles, OpenReturn(h) PROVE StageInv'
    BY <1>3 DEF OpenReturn
  <1>4. ASSUME NEW h \in Handles, NEW n \in ReadSizes, NEW off \in Offsets, ReadCall(h, n, off)
        PROVE StageInv'
    BY <1>4 DEF ReadCall, answerVars
  <1>5. ASSUME NEW h \in Handles, ReadReturn(h) PROVE StageInv'
    BY <1>5 DEF ReadReturn
  <1>6. ASSUME NEW h \in Handles, NEW off \in Offsets, NEW whence \in Whences,
               SeekCall(h, off, whence)
        PROVE StageInv'
    BY <1>6 DEF SeekCall, answerVars
  <1>7. ASSUME NEW h \in Handles, SeekReturn(h) PROVE StageInv'
    BY <1>7 DEF SeekReturn
  <1>8. ASSUME NEW h \in Handles, CloseCall(h) PROVE StageInv'
    BY <1>8 DEF CloseCall, answerVars
  <1>9. ASSUME NEW h \in Handles, hvac_open_rpc_handler(h) PROVE StageInv'
    <2>1. CASE Crash
      BY <1>1, <2>1, ServerSideFrame DEF clientVars, answerVars
    <2>2. CASE ~Crash
      <3>1. \E fd \in Fds \cup {Bad} : ret' = [ret EXCEPT ![h] = fd]
        BY <1>9, <2>2 DEF hvac_open_rpc_handler, OpenOk, OpenRecording, OpenFails, FreeFds
      <3>2. stage' = [stage EXCEPT ![h] = "opened"] /\ UNCHANGED <<path, cpos, rfd>>
            /\ stage[h] = "opening"
        BY <1>9, <2>2 DEF hvac_open_rpc_handler
      <3>3. QED
        BY <3>1, <3>2
    <2>3. QED
      BY <2>1, <2>2
  <1>10. ASSUME NEW h \in Handles, hvac_rpc_handler(h) PROVE StageInv'
    <2>1. CASE ReadOk(h)
      <3>1. rfd[h] \in Fds
        BY <2>1, ReadOkType
      <3>2. \E b \in Nat : ret' = [ret EXCEPT ![h] = b]
        BY <2>1, ReadOkType DEF ReadOk, ReadMoving, ReadAt, Got
      <3>3. stage' = [stage EXCEPT ![h] = "bulk"] /\ UNCHANGED <<path, cpos, rfd>>
            /\ stage[h] = "reading"
        BY <1>10, <2>1 DEF hvac_rpc_handler, ReadOk, ReadMoving
      <3>4. QED
        BY <3>1, <3>2, <3>3
    <2>2. CASE ReadFails(h) \/ AllocFails(h)
      BY <1>1, <1>10, <2>2 DEF hvac_rpc_handler, ReadFails, AllocFails, answerVars
    <2>3. QED
      BY <1>10, <2>1, <2>2 DEF hvac_rpc_handler
  <1>11. ASSUME NEW h \in Handles, hvac_rpc_handler_bulk_cb(h) PROVE StageInv'
    BY <1>11 DEF hvac_rpc_handler_bulk_cb, answerVars
  <1>12. ASSUME NEW h \in Handles, hvac_seek_rpc_handler(h) PROVE StageInv'
    <2>1. \A fd \in Fds : SeekTarget(arg[h].whence, arg[h].off, fdPos[fd]) \in Nat \cup {Bad}
      BY ArgType, SeekTargetType
    <2>2. \E to \in Nat \cup {Bad} : ret' = [ret EXCEPT ![h] = to]
      BY <1>12, <2>1 DEF hvac_seek_rpc_handler, SeekWith, IsOpen
    <2>3. stage' = [stage EXCEPT ![h] = "sought"] /\ UNCHANGED <<path, cpos, rfd>>
          /\ stage[h] = "seeking"
      BY <1>12 DEF hvac_seek_rpc_handler, SeekWith
    <2>4. QED
      BY <2>2, <2>3
  <1>13. ASSUME NEW fd \in Fds \cup {Bad}, hvac_close_rpc_handler(fd) PROVE StageInv'
    BY <1>1, <1>13 DEF hvac_close_rpc_handler, CloseOk, CloseFails, Crash, clientVars, answerVars
  <1>14. CASE hvac_data_mover_fn \/ MoverSpuriousWake \/ Stopped \/ UNCHANGED vars
              \/ (\E f \in Files : Unlink(f)) \/ \E h \in Handles : ClientDies(h)
    BY <1>1, <1>14, ServerSideFrame DEF clientVars, answerVars
  <1>15. QED
    BY <1>2, <1>3, <1>4, <1>5, <1>6, <1>7, <1>8, <1>9, <1>10, <1>11, <1>12, <1>13, <1>14
       DEF Next, ClientStep, Serve

\* Every lookup that ends in a usable redirection gives a finished copy of the path.
LEMMA LookupSound ==
  ASSUME IInv, NEW f \in Files, NEW hit \in Lookup(f), hit \in Dirs
  PROVE  hit \in copied /\ copyOf[hit] = f
  <1>1. hit = path_cache_map[f] \/ (Publishing /\ f = Head(local_list) /\ hit = newdir)
    BY ServerAssumption DEF Lookup
  <1>2. QED
    BY <1>1 DEF IInv, MoverInv, RedirectComplete, Publishing

\* What hvac_open_rpc_handler opens holds the bytes of the path it was asked for.
LEMMA OpenedContent ==
  ASSUME IInv, NEW f \in Files, NEW hit \in Lookup(f), hit # Wild,
         NEW obj, obj = (IF hit = NoDir THEN f ELSE hit), Exists(obj)
  PROVE  /\ obj \in Files \cup Dirs
         /\ obj \in Dirs => obj \in copied
         /\ Content(obj) = f
  <1>1. CASE hit \in Dirs
    <2>1. obj = hit
      BY <1>1, ServerAssumption
    <2>2. QED
      BY <1>1, <2>1, LookupSound DEF Content
  <1>2. CASE hit \notin Dirs
    <2>1. hit \in {NoDir, Torn}
      BY <1>2, ServerAssumption DEF Lookup, IInv, TypeOK, Publishing, MoverInv
    <2>2. obj = f
      BY <2>1, ServerAssumption DEF Exists, IInv, TypeOK
    <2>3. QED
      BY <2>2, ServerAssumption DEF Content
  <1>3. QED
    BY <1>1, <1>2

\* Every step keeps published and open copies complete (hvac_data_mover_fn).
LEMMA MoverStep == IInv /\ [Next]_vars => MoverInv'
  <1> SUFFICES ASSUME IInv, [Next]_vars PROVE MoverInv'
    OBVIOUS
  <1> USE ServerAssumption DEF MoverInv, RedirectComplete
  <1>1. ASSUME UNCHANGED <<nvmeVars, fdObj, path_cache_map, local_list, mover>> PROVE MoverInv'
    BY <1>1 DEF IInv, nvmeVars
  <1>2. ASSUME NEW h \in Handles, ClientStep(h) PROVE MoverInv'
    BY <1>1, <1>2 DEF ClientStep, OpenCall, OpenReturn, ReadCall, ReadReturn, SeekCall,
       SeekReturn, CloseCall, kernelVars, queueVars
  <1>3. ASSUME NEW h \in Handles, hvac_open_rpc_handler(h) PROVE MoverInv'
    <2>1. path[h] \in Files
      BY <1>3 DEF hvac_open_rpc_handler, IInv, StageInv
    <2>2. PICK hit \in Lookup(path[h]) :
            \/ hit = Wild /\ Crash
            \/ /\ hit # Wild
               /\ LET redir_path == IF hit = NoDir THEN path[h] ELSE hit
                  IN  OpenOk(h, redir_path) \/ OpenFails(h, redir_path)
               /\ UNCHANGED <<nvmeVars, path_cache_map, queueVars, mover>>
      BY <1>3 DEF hvac_open_rpc_handler
    <2> DEFINE obj == IF hit = NoDir THEN path[h] ELSE hit
    <2>3. CASE Crash
      BY <1>1, <2>3 DEF Crash, kernelVars, queueVars
    <2>4. CASE hit # Wild /\ OpenFails(h, obj) /\ UNCHANGED <<nvmeVars, path_cache_map, queueVars, mover>>
      BY <1>1, <2>4 DEF OpenFails, kernelVars, queueVars
    <2>5. CASE hit # Wild /\ OpenOk(h, obj) /\ UNCHANGED <<nvmeVars, path_cache_map, queueVars, mover>>
      <3>1. obj \in Dirs => obj \in copied
        BY <2>1, <2>5, OpenedContent DEF OpenOk, OpenRecording
      <3>2. \E fd \in Fds : fdObj' = [fdObj EXCEPT ![fd] = obj]
        BY <2>5 DEF OpenOk, OpenRecording, FreeFds
      <3> HIDE DEF obj
      <3>3. QED
        BY <2>5, <3>1, <3>2 DEF IInv, TypeOK, nvmeVars, queueVars
    <2>6. QED
      BY <2>2, <2>3, <2>4, <2>5
  <1>4. ASSUME NEW h \in Handles,
               hvac_rpc_handler(h) \/ hvac_rpc_handler_bulk_cb(h) \/ hvac_seek_rpc_handler(h)
        PROVE MoverInv'
    BY <1>1, <1>4 DEF hvac_rpc_handler, hvac_rpc_handler_bulk_cb, hvac_seek_rpc_handler, SeekWith,
       kernelVars, queueVars
  <1>5. ASSUME NEW fd \in Fds \cup {Bad}, hvac_close_rpc_handler(fd) PROVE MoverInv'
    <2>1. CASE CloseOk(fd)
      <3>1. fdObj' = [fdObj EXCEPT ![fd] = NoFile] /\ UNCHANGED <<nvmeVars, path_cache_map, local_list>>
        BY <2>1 DEF CloseOk
      <3>2. mover' = mover \/ mover' = "woken"
        BY <2>1 DEF CloseOk, Enqueue
      <3>3. QED
        BY <3>1, <3>2 DEF IInv, TypeOK, nvmeVars
    <2>2. CASE CloseFails(fd) \/ Crash
      BY <1>1, <2>2 DEF CloseFails, Crash, kernelVars, queueVars
    <2>3. QED
      BY <1>5, <2>1, <2>2 DEF hvac_close_rpc_handler
  <1>6. CASE Stopped \/ UNCHANGED vars \/ (\E f \in Files : Unlink(f)) \/ \E h \in Handles : ClientDies(h)
    BY <1>1, <1>6 DEF Stopped, vars, Unlink, ClientDies, kernelVars, queueVars
  <1>7. CASE MoverWait \/ MoverSpuriousWake \/ MoverDrain \/ MoverLoop
    BY <1>7 DEF IInv, MoverWait, MoverSpuriousWake, MoverDrain, DrainTo, MoverLoop, moverFrame,
       nvmeVars, kernelVars
  <1>8. CASE MoverStartCopy
    <2>1. PICK d \in Dirs : /\ copyOf[d] = NoFile
                            /\ copyOf' = [copyOf EXCEPT ![d] = Head(local_list)]
                            /\ newdir' = d
      BY <1>8 DEF MoverStartCopy
    <2>2. d \notin copied
      BY <2>1 DEF IInv
    <2>3. QED
      BY <1>8, <2>1, <2>2 DEF IInv, TypeOK, MoverStartCopy, moverFrame, kernelVars, queueVars
  <1>9. CASE MoverCopyFails
    BY <1>9 DEF IInv, MoverCopyFails, CopyFails, moverFrame, kernelVars
  <1>10. CASE MoverCopied
    BY <1>10 DEF IInv, TypeOK, MoverCopied, moverFrame, kernelVars, queueVars
  <1>11. CASE MoverPublish
    BY <1>11 DEF IInv, TypeOK, MoverPublish, moverFrame, kernelVars
  <1>12. QED
    BY <1>2, <1>3, <1>4, <1>5, <1>6, <1>7, <1>8, <1>9, <1>10, <1>11
       DEF Next, Serve, hvac_data_mover_fn

\* The three invariants about descriptors, proved together.
DescInv == DescriptorAccounting /\ HandleSeesItsFile /\ FailedOpenInv

\* A step that changes who holds what in no way, nor what any descriptor reads.
Quiet ==
    /\ \A g \in Handles, fd \in Fds \cup {Bad} : Holds(g, fd)' <=> Holds(g, fd)
    /\ \A g \in Handles, fd \in Fds \cup {Bad} : Holds(g, fd) => path'[g] = path[g]
    /\ UNCHANGED <<closing, fdObj, fd_to_path>>
    /\ \A fd \in Fds : fdObj[fd] \in Dirs =>
        copyOf'[fdObj[fd]] = copyOf[fdObj[fd]] /\ fdObj[fd] \in copied'

\* A quiet step, one that opens and closes nothing, keeps the descriptor invariant.
LEMMA QuietStep ==
  ASSUME IInv, Quiet
  PROVE  DescInv'
  <1>1. \A fd \in Fds : IsOpen(fd)' <=> IsOpen(fd)
    BY DEF Quiet, IsOpen
  <1>2. \A fd \in Fds : Content(fdObj[fd])' = Content(fdObj[fd])
    BY DEF Quiet, Content, IInv, MoverInv
  <1>3. DescriptorAccounting'
    BY <1>1 DEF IInv, DescriptorAccounting, Quiet
  <1>4. HandleSeesItsFile'
    BY <1>2 DEF IInv, HandleSeesItsFile, Quiet
  <1>5. FailedOpenInv'
    BY DEF IInv, FailedOpenInv, Quiet
  <1>6. QED
    BY <1>3, <1>4, <1>5 DEF DescInv

\* The steps of one call that neither open nor close anything.
LEMMA CallsAreQuiet ==
  ASSUME IInv, NEW h \in Handles,
         \/ \E f \in Files : OpenCall(h, f)
         \/ OpenReturn(h)
         \/ \E n \in ReadSizes, off \in Offsets : ReadCall(h, n, off)
         \/ ReadReturn(h)
         \/ \E off \in Offsets, whence \in Whences : SeekCall(h, off, whence)
         \/ SeekReturn(h)
         \/ hvac_rpc_handler_bulk_cb(h)
         \/ hvac_seek_rpc_handler(h)
         \/ hvac_rpc_handler(h)
  PROVE  Quiet
  <1> USE DEF IInv, TypeOK, MoverInv, Quiet, Holds, Live, answerVars, kernelVars, nvmeVars
  <1>1. ASSUME NEW f \in Files, OpenCall(h, f) PROVE Quiet
    BY <1>1 DEF OpenCall
  <1>2. CASE OpenReturn(h)
    BY <1>2 DEF OpenReturn
  <1>3. ASSUME NEW n \in ReadSizes, NEW off \in Offsets, ReadCall(h, n, off) PROVE Quiet
    BY <1>3 DEF ReadCall
  <1>4. CASE ReadReturn(h)
    BY <1>4 DEF ReadReturn
  <1>5. ASSUME NEW off \in Offsets, NEW whence \in Whences, SeekCall(h, off, whence) PROVE Quiet
    BY <1>5 DEF SeekCall
  <1>6. CASE SeekReturn(h)
    BY <1>6 DEF SeekReturn
  <1>7. CASE hvac_rpc_handler_bulk_cb(h)
    BY <1>7 DEF hvac_rpc_handler_bulk_cb
  <1>8. CASE hvac_seek_rpc_handler(h)
    BY <1>8 DEF hvac_seek_rpc_handler, SeekWith
  <1>9. CASE hvac_rpc_handler(h)
    BY <1>9 DEF hvac_rpc_handler, ReadOk, ReadMoving, ReadFails, AllocFails
  <1>10. QED
    BY <1>1, <1>2, <1>3, <1>4, <1>5, <1>6, <1>7, <1>8, <1>9

\* The mover touches no copy that is already finished.
LEMMA MoverIsQuiet ==
  ASSUME IInv,
         hvac_data_mover_fn \/ MoverSpuriousWake \/ Stopped \/ UNCHANGED vars
         \/ (\E f \in Files : Unlink(f)) \/ (\E h \in Handles : ClientDies(h)) \/ Crash
  PROVE  Quiet
  <1>1. UNCHANGED <<clientVars, answerVars, closing, kernelVars, fd_to_path>>
    BY ServerSideFrame
  <1>2. \A d \in copied : copyOf'[d] = copyOf[d] /\ d \in copied'
    <2> USE DEF IInv, TypeOK, MoverInv, nvmeVars
    <2>1. CASE MoverStartCopy
      BY <2>1, ServerAssumption DEF MoverStartCopy
    <2>2. CASE MoverCopied
      BY <2>2 DEF MoverCopied
    <2>3. CASE MoverCopyFails \/ MoverPublish
      BY <2>3 DEF MoverCopyFails, CopyFails, MoverPublish
    <2>4. CASE MoverWait \/ MoverDrain \/ MoverLoop \/ MoverSpuriousWake
      BY <2>4 DEF MoverWait, MoverDrain, DrainTo, MoverLoop, MoverSpuriousWake
    <2>5. CASE Stopped \/ UNCHANGED vars \/ (\E f \in Files : Unlink(f)) \/ (\E h \in Handles : ClientDies(h)) \/ Crash
      BY <2>5 DEF Stopped, vars, Unlink, ClientDies, Crash
    <2>6. QED
      BY <2>1, <2>2, <2>3, <2>4, <2>5 DEF hvac_data_mover_fn
  <1>3. \A g \in Handles, fd \in Fds \cup {Bad} : Holds(g, fd)' <=> Holds(g, fd)
    BY <1>1 DEF Holds, clientVars, answerVars
  <1>4. QED
    BY <1>1, <1>2, <1>3 DEF Quiet, IInv, MoverInv, clientVars, kernelVars

\* Every step keeps descriptors accounted for and on the right file: the opens
\* and closes of hvac_open_rpc_handler and hvac_close_rpc_handler are the hard part.
LEMMA DescStep == IInv /\ [Next]_vars => DescInv'
  <1> SUFFICES ASSUME IInv, [Next]_vars PROVE DescInv'
    OBVIOUS
  <1>1. ASSUME Quiet PROVE DescInv'
    BY <1>1, QuietStep
  <1>3. ASSUME NEW h \in Handles, ClientStep(h), ~CloseCall(h) PROVE DescInv'
    BY <1>1, <1>3, CallsAreQuiet DEF ClientStep
  <1>4. ASSUME NEW h \in Handles,
               hvac_rpc_handler(h) \/ hvac_rpc_handler_bulk_cb(h) \/ hvac_seek_rpc_handler(h)
        PROVE DescInv'
    BY <1>1, <1>4, CallsAreQuiet
  <1>6. ASSUME NEW h \in Handles, CloseCall(h) PROVE DescInv'
    <2> DEFINE r == rfd[h]
    <2>1. Holds(h, r) /\ r \in Fds \cup {Bad} /\ \A fd : Holds(h, fd) => fd = r
      BY <1>6 DEF CloseCall, Holds, Live, IInv, TypeOK
    <2>2. \A g \in Handles, fd \in Fds \cup {Bad} : Holds(g, fd)' <=> (Holds(g, fd) /\ g # h)
      BY <1>6 DEF CloseCall, Holds, Live, IInv, TypeOK, answerVars
    <2>3. \A g \in Handles : g # h => path'[g] = path[g]
      BY <1>6 DEF CloseCall, IInv, TypeOK
    <2>4. closing' = closing \cup {r} /\ UNCHANGED <<fdObj, fd_to_path, copied, copyOf, aborted>>
      BY <1>6 DEF CloseCall, kernelVars, nvmeVars
    <2>5. path[h] \in Files
      BY <1>6 DEF CloseCall, IInv, StageInv
    <2> HIDE DEF r
    <2>6. \A fd \in Fds : (IsOpen(fd)' <=> IsOpen(fd)) /\ Content(fdObj[fd])' = Content(fdObj[fd])
      BY <2>4 DEF IsOpen, Content
    <2>7. DescriptorAccounting'
      BY <2>1, <2>2, <2>4, <2>6 DEF IInv, DescriptorAccounting
    <2>8. HandleSeesItsFile'
      BY <2>1, <2>2, <2>3, <2>4, <2>5, <2>6 DEF IInv, HandleSeesItsFile
    <2>9. FailedOpenInv'
      BY <2>1, <2>2, <2>4 DEF IInv, FailedOpenInv
    <2>10. QED
      BY <2>7, <2>8, <2>9 DEF DescInv
  <1>7. ASSUME NEW h \in Handles, hvac_open_rpc_handler(h) PROVE DescInv'
    <2>1. path[h] \in Files /\ stage[h] = "opening"
      BY <1>7 DEF hvac_open_rpc_handler, IInv, StageInv
    <2>2. \A fd : ~Holds(h, fd)
      BY <2>1 DEF Holds, Live
    <2>3. CASE Crash
      BY <1>1, <2>3, MoverIsQuiet
    <2>4. CASE ~Crash
      <3>1. PICK hit \in Lookup(path[h]) :
              /\ hit # Wild
              /\ LET redir_path == IF hit = NoDir THEN path[h] ELSE hit
                 IN  OpenOk(h, redir_path) \/ OpenFails(h, redir_path)
        BY <1>7, <2>4 DEF hvac_open_rpc_handler
      <3> DEFINE obj == IF hit = NoDir THEN path[h] ELSE hit
      <3>2. /\ stage' = [stage EXCEPT ![h] = "opened"]
            /\ UNCHANGED <<path, rfd, closing, copied, copyOf, aborted>>
        BY <1>7, <2>4 DEF hvac_open_rpc_handler, nvmeVars
      <3>3. ASSUME NEW n \in Fds \cup {Bad}, ret' = [ret EXCEPT ![h] = n]
            PROVE  \A g \in Handles, fd \in Fds \cup {Bad} :
                     Holds(g, fd)' <=> (Holds(g, fd) \/ (g = h /\ fd = n))
        BY <2>1, <3>2, <3>3 DEF Holds, Live, IInv, TypeOK
      <3>4. CASE OpenOk(h, obj)
        <4>1. Content(obj) = path[h] /\ obj \in Files \cup Dirs
          BY <2>1, <3>1, <3>4, OpenedContent DEF OpenOk, OpenRecording
        <4>2. PICK n \in Fds :
                /\ fdObj[n] = NoFile
                /\ fdObj' = [fdObj EXCEPT ![n] = obj]
                /\ fd_to_path' = [fd_to_path EXCEPT ![n] = path[h]]
                /\ ret' = [ret EXCEPT ![h] = n]
          BY <3>4 DEF OpenOk, OpenRecording, FreeFds
        <4> HIDE DEF obj
        <4>3. \A g \in Handles, fd \in Fds \cup {Bad} :
                Holds(g, fd)' <=> (Holds(g, fd) \/ (g = h /\ fd = n))
          BY <3>3, <4>2
        <4>4. /\ fdObj'[n] = obj
              /\ \A fd \in Fds : fd # n => fdObj'[fd] = fdObj[fd]
          BY <4>2 DEF IInv, TypeOK
        <4>5. n # Bad
          BY ServerAssumption DEF Bad
        <4>6. /\ fd_to_path'[n] = path[h]
              /\ \A fd \in Fds \cup {Bad} : fd # n => fd_to_path'[fd] = fd_to_path[fd]
          BY <4>2 DEF IInv, TypeOK
        <4>7. n \notin closing /\ \A g \in Handles : ~Holds(g, n)
          BY <4>2 DEF IInv, DescriptorAccounting, IsOpen
        <4>8. \A fd \in Fds : IsOpen(fd)' <=> (IsOpen(fd) \/ fd = n)
          BY <4>1, <4>4, ServerAssumption DEF IsOpen
        <4>9. /\ Content(fdObj[n])' = path[h]
              /\ \A fd \in Fds : fd # n => Content(fdObj[fd])' = Content(fdObj[fd])
          BY <3>2, <4>1, <4>4 DEF Content
        <4>10. DescriptorAccounting'
          BY <3>2, <4>3, <4>7, <4>8 DEF IInv, DescriptorAccounting
        <4>11. HandleSeesItsFile'
          BY <3>2, <4>3, <4>6, <4>7, <4>9 DEF IInv, HandleSeesItsFile
        <4>12. FailedOpenInv'
          BY <3>2, <4>3, <4>5, <4>6 DEF IInv, FailedOpenInv
        <4>13. QED
          BY <4>10, <4>11, <4>12 DEF DescInv
      <3>5. CASE OpenFails(h, obj)
        <4>1. /\ fd_to_path' = [fd_to_path EXCEPT ![Bad] = path[h]]
              /\ ret' = [ret EXCEPT ![h] = Bad]
              /\ UNCHANGED fdObj
          BY <3>5 DEF OpenFails, kernelVars
        <4>2. \A g \in Handles, fd \in Fds \cup {Bad} :
                Holds(g, fd)' <=> (Holds(g, fd) \/ (g = h /\ fd = Bad))
          BY <3>3, <4>1
        <4>3. \A fd \in Fds : fd # Bad
          BY ServerAssumption DEF Bad
        <4>4. fd_to_path'[Bad] # NoFile /\ \A fd \in Fds : fd_to_path'[fd] = fd_to_path[fd]
          BY <2>1, <4>1, <4>3, ServerAssumption DEF IInv, TypeOK
        <4>5. \A fd \in Fds : (IsOpen(fd)' <=> IsOpen(fd)) /\ Content(fdObj[fd])' = Content(fdObj[fd])
          BY <3>2, <4>1 DEF IsOpen, Content
        <4>6. \A g \in Handles, fd \in Fds : Holds(g, fd)' <=> Holds(g, fd)
          BY <4>2, <4>3
        <4>7. DescriptorAccounting'
          BY <3>2, <4>5, <4>6 DEF IInv, DescriptorAccounting
        <4>8. HandleSeesItsFile'
          BY <3>2, <4>1, <4>4, <4>5, <4>6 DEF IInv, HandleSeesItsFile
        <4>9. FailedOpenInv'
          BY <4>4 DEF FailedOpenInv
        <4>10. QED
          BY <4>7, <4>8, <4>9 DEF DescInv
      <3>6. QED
        BY <3>1, <3>4, <3>5
    <2>5. QED
      BY <2>3, <2>4
  <1>8. ASSUME NEW fd \in Fds \cup {Bad}, hvac_close_rpc_handler(fd) PROVE DescInv'
    <2>1. CASE CloseOk(fd)
      <3>1. fd \in Fds /\ fd \in closing /\ fd # Bad
        BY <1>8, <2>1, ServerAssumption DEF hvac_close_rpc_handler, CloseOk, IsOpen, Bad
      <3>2. /\ closing' = closing \ {fd}
            /\ fdObj' = [fdObj EXCEPT ![fd] = NoFile]
            /\ fd_to_path' = [fd_to_path EXCEPT ![fd] = NoFile]
            /\ UNCHANGED <<stage, path, ret, rfd, copied, copyOf, aborted>>
        BY <2>1 DEF CloseOk, clientVars, answerVars, nvmeVars
      <3>3. \A g \in Handles, e \in Fds \cup {Bad} : Holds(g, e)' <=> Holds(g, e)
        BY <3>2 DEF Holds
      <3>4. \A g \in Handles : ~Holds(g, fd)
        BY <3>1 DEF IInv, DescriptorAccounting
      <3>5. fdObj'[fd] = NoFile /\ \A e \in Fds : e # fd => fdObj'[e] = fdObj[e]
        BY <3>1, <3>2 DEF IInv, TypeOK
      <3>6. \A e \in Fds \cup {Bad} : e # fd => fd_to_path'[e] = fd_to_path[e]
        BY <3>2 DEF IInv, TypeOK
      <3>7. \A e \in Fds : (IsOpen(e)' <=> (IsOpen(e) /\ e # fd))
                           /\ (e # fd => Content(fdObj[e])' = Content(fdObj[e]))
        BY <3>2, <3>5 DEF IsOpen, Content
      <3>8. DescriptorAccounting'
        BY <3>2, <3>3, <3>4, <3>7 DEF IInv, DescriptorAccounting
      <3>9. HandleSeesItsFile'
        BY <3>2, <3>3, <3>4, <3>6, <3>7 DEF IInv, HandleSeesItsFile
      <3>10. FailedOpenInv'
        BY <3>1, <3>2, <3>3, <3>6 DEF IInv, FailedOpenInv
      <3>11. QED
        BY <3>8, <3>9, <3>10 DEF DescInv
    <2>2. CASE CloseFails(fd)
      <3>1. Quiet
        BY <2>2 DEF CloseFails, Quiet, Holds, clientVars, answerVars, kernelVars, nvmeVars, IInv, MoverInv
      <3>2. QED
        BY <3>1, QuietStep
    <2>3. CASE Crash
      BY <1>1, <2>3, MoverIsQuiet
    <2>4. QED
      BY <1>8, <2>1, <2>2, <2>3 DEF hvac_close_rpc_handler
  <1>9. CASE hvac_data_mover_fn \/ MoverSpuriousWake \/ Stopped \/ UNCHANGED vars
             \/ (\E f \in Files : Unlink(f)) \/ \E h \in Handles : ClientDies(h)
    BY <1>1, <1>9, MoverIsQuiet
  <1>10. QED
    BY <1>3, <1>4, <1>6, <1>7, <1>8, <1>9 DEF Next, Serve

\* The process ends only for a cause, and the cause outlives it.
LEMMA AbortStep == IInv /\ [Next]_vars => AbortHasCause'
  <1> SUFFICES ASSUME IInv, [Next]_vars PROVE AbortHasCause'
    OBVIOUS
  <1> USE DEF AbortHasCause, Up
  <1>1. CASE UNCHANGED vars \/ Stopped
    BY <1>1 DEF IInv, Stopped, vars, clientVars, envVars
  <1>2. ASSUME UNCHANGED aborted, Up PROVE AbortHasCause'
    BY <1>2
  <1>3. ASSUME NEW h \in Handles, ClientStep(h) PROVE AbortHasCause'
    BY <1>2, <1>3 DEF ClientStep, OpenCall, OpenReturn, ReadCall, ReadReturn, SeekCall,
       SeekReturn, CloseCall
  <1>4. ASSUME NEW h \in Handles, hvac_open_rpc_handler(h) PROVE AbortHasCause'
    BY <1>2, <1>4 DEF hvac_open_rpc_handler, Crash
  <1>5. ASSUME NEW h \in Handles, hvac_rpc_handler(h) PROVE AbortHasCause'
    <2>1. UNCHANGED <<arg, fd_to_path>> /\ Up /\ stage[h] = "reading"
      BY <1>5 DEF hvac_rpc_handler
    <2>2. CASE ReadOk(h)
      BY <1>2, <2>1, <2>2 DEF ReadOk, ReadMoving
    <2>3. CASE ReadFails(h) /\ IsOpen(rfd[h])
      BY <2>3 DEF ReadFails
    <2>4. CASE ReadFails(h) /\ ~IsOpen(rfd[h])
      <3>1. Holds(h, rfd[h])
        BY <2>1 DEF Holds, Live
      <3>2. rfd[h] = Bad
        BY <2>4, <3>1 DEF IInv, TypeOK, DescriptorAccounting
      <3>3. fd_to_path[Bad] # NoFile
        BY <3>1, <3>2 DEF IInv, FailedOpenInv
      <3>4. QED
        BY <2>1, <2>4, <3>3 DEF ReadFails
    <2>5. CASE AllocFails(h)
      <3>1. arg[h].n >= HalfWord
        <4>1. arg[h].n \in Nat /\ HalfWord \in Nat
          BY ArgType, ServerAssumption DEF IInv
        <4>2. QED
          BY <2>5, <4>1, InputVal DEF AllocFails
      <3>2. QED
        BY <2>1, <2>5, <3>1 DEF AllocFails
    <2>6. QED
      BY <1>5, <2>2, <2>3, <2>4, <2>5 DEF hvac_rpc_handler
  <1>6. ASSUME NEW h \in Handles, hvac_rpc_handler_bulk_cb(h) \/ hvac_seek_rpc_handler(h)
        PROVE AbortHasCause'
    BY <1>2, <1>6 DEF hvac_rpc_handler_bulk_cb, hvac_seek_rpc_handler, SeekWith, envVars
  <1>7. ASSUME NEW fd \in Fds \cup {Bad}, hvac_close_rpc_handler(fd) PROVE AbortHasCause'
    <2>1. CASE CloseOk(fd)
      BY <1>2, <1>7, <2>1 DEF CloseOk, hvac_close_rpc_handler
    <2>2. CASE CloseFails(fd)
      <3>1. fd = Bad
        BY <1>7, <2>2 DEF hvac_close_rpc_handler, CloseFails, IInv, DescriptorAccounting
      <3>2. fd_to_path[Bad] # NoFile
        BY <1>7, <3>1 DEF hvac_close_rpc_handler, IInv, FailedOpenInv
      <3>3. QED
        BY <2>2, <3>2 DEF CloseFails
    <2>3. CASE Crash
      BY <2>3 DEF Crash
    <2>4. QED
      BY <1>7, <2>1, <2>2, <2>3 DEF hvac_close_rpc_handler
  <1>8. CASE (\E f \in Files : Unlink(f)) \/ \E h \in Handles : ClientDies(h)
    BY <1>2, <1>8 DEF Unlink, ClientDies
  <1>9. CASE hvac_data_mover_fn \/ MoverSpuriousWake
    BY <1>2, <1>9 DEF hvac_data_mover_fn, MoverWait, MoverSpuriousWake, MoverDrain, DrainTo, MoverLoop,
       MoverStartCopy, MoverCopyFails, CopyFails, MoverCopied, MoverPublish, moverFrame
  <1>10. QED
    BY <1>1, <1>3, <1>4, <1>5, <1>6, <1>7, <1>8, <1>9 DEF Next, Serve

-----------------------------------------------------------------------------
(* Reads and seeks.                                                        *)

PosInv == OffsetInv /\ ReadsRightData

\* Two handles that are past their open never share a server descriptor.
LEMMA LiveHolds ==
  ASSUME IInv, NEW h \in Handles, stage[h] \in Live, rfd[h] # Bad
  PROVE  rfd[h] \in Fds /\ Holds(h, rfd[h]) /\ IsOpen(rfd[h]) /\ rfd[h] \notin closing
  <1>1. rfd[h] \in Fds
    BY DEF IInv, TypeOK
  <1>2. Holds(h, rfd[h])
    BY DEF Holds
  <1>3. QED
    BY <1>1, <1>2 DEF IInv, DescriptorAccounting

\* Every step keeps the server's file offset and the client's in agreement.
LEMMA PosStep == IInv /\ PosInv /\ [Next]_vars => PosInv'
  <1> SUFFICES ASSUME IInv, PosInv, [Next]_vars PROVE PosInv'
    OBVIOUS
  <1> USE ServerAssumption DEF PosInv, OffsetInv, ReadsRightData, Wanted, Live
  <1>0. \A fd \in Fds : fd # Bad
    BY DEF Bad
  <1>1. ASSUME UNCHANGED <<clientVars, answerVars>>,
               \A fd \in Fds : fd \notin closing => fdPos'[fd] = fdPos[fd]
        PROVE PosInv'
    <2>1. \A h \in Handles : stage[h] = "opened" /\ ret[h] # Bad => fdPos'[ret[h]] = fdPos[ret[h]]
      BY <1>1 DEF IInv, StageInv, DescriptorAccounting, Holds
    <2>2. \A h \in Handles : stage[h] \in Live /\ rfd[h] # Bad => fdPos'[rfd[h]] = fdPos[rfd[h]]
      BY <1>1, LiveHolds
    <2>3. QED
      BY <1>1, <2>1, <2>2 DEF clientVars, answerVars
  <1>2. ASSUME NEW h \in Handles, NEW f \in Files, OpenCall(h, f) PROVE PosInv'
    BY <1>2 DEF OpenCall, IInv, TypeOK, answerVars, kernelVars
  <1>3. ASSUME NEW h \in Handles, OpenReturn(h) PROVE PosInv'
    BY <1>3 DEF OpenReturn, IInv, TypeOK, StageInv, kernelVars
  <1>4. ASSUME NEW h \in Handles, NEW n \in ReadSizes, NEW off \in Offsets, ReadCall(h, n, off)
        PROVE PosInv'
    BY <1>4 DEF ReadCall, IInv, TypeOK, answerVars, kernelVars
  <1>5. ASSUME NEW h \in Handles, ReadReturn(h) PROVE PosInv'
    BY <1>5 DEF ReadReturn, IInv, TypeOK, kernelVars
  <1>6. ASSUME NEW h \in Handles, NEW off \in Offsets, NEW whence \in Whences,
               SeekCall(h, off, whence)
        PROVE PosInv'
    BY <1>6 DEF SeekCall, IInv, TypeOK, answerVars, kernelVars
  <1>7. ASSUME NEW h \in Handles, SeekReturn(h) PROVE PosInv'
    BY <1>7 DEF SeekReturn, IInv, TypeOK, kernelVars
  <1>8. ASSUME NEW h \in Handles, CloseCall(h) PROVE PosInv'
    BY <1>8 DEF CloseCall, IInv, TypeOK, answerVars, kernelVars
  <1>9. ASSUME NEW h \in Handles, hvac_open_rpc_handler(h) PROVE PosInv'
    <2>1. CASE Crash
      BY <1>1, <2>1 DEF Crash, kernelVars
    <2>2. CASE ~Crash
      <3>1. /\ stage[h] = "opening"
            /\ stage' = [stage EXCEPT ![h] = "opened"]
            /\ UNCHANGED <<path, rfd, arg, cpos, data>>
        BY <1>9, <2>2 DEF hvac_open_rpc_handler
      <3>2. PICK n \in Fds \cup {Bad} :
              /\ ret' = [ret EXCEPT ![h] = n]
              /\ n \in Fds => ~IsOpen(n) /\ fdPos' = [fdPos EXCEPT ![n] = 0]
              /\ n = Bad => UNCHANGED fdPos
        BY <1>0, <1>9, <2>2 DEF hvac_open_rpc_handler, OpenOk, OpenRecording, OpenFails, FreeFds, IsOpen, kernelVars
      <3>3. /\ n # Bad => fdPos'[n] = 0
            /\ \A fd \in Fds : IsOpen(fd) => fdPos'[fd] = fdPos[fd]
        BY <3>2 DEF IInv, TypeOK
      <3>4. \A g \in Handles : stage[g] = "opened" /\ ret[g] # Bad => fdPos'[ret[g]] = fdPos[ret[g]]
        BY <3>3 DEF IInv, StageInv, DescriptorAccounting, Holds
      <3>5. \A g \in Handles : stage[g] \in Live /\ rfd[g] # Bad => fdPos'[rfd[g]] = fdPos[rfd[g]]
        BY <3>3, LiveHolds
      <3>6. OffsetInv'
        BY <3>1, <3>2, <3>3, <3>4 DEF IInv, TypeOK
      <3>7. ReadsRightData'
        BY <3>1, <3>2, <3>5 DEF IInv, TypeOK
      <3>8. QED
        BY <3>6, <3>7
    <2>3. QED
      BY <2>1, <2>2
  <1>10. ASSUME NEW h \in Handles, hvac_rpc_handler(h) PROVE PosInv'
    <2>1. CASE ReadFails(h) \/ AllocFails(h)
      BY <1>1, <1>10, <2>1 DEF hvac_rpc_handler, ReadFails, AllocFails, clientVars
    <2>2. CASE ReadOk(h)
      <3> DEFINE b == Got(h)
      <3>1. /\ stage[h] = "reading"
            /\ stage' = [stage EXCEPT ![h] = "bulk"]
            /\ UNCHANGED <<path, rfd, arg, cpos>>
        BY <1>10, <2>2 DEF hvac_rpc_handler, ReadOk, ReadMoving
      <3>2. /\ ret' = [ret EXCEPT ![h] = b]
            /\ data' = [data EXCEPT ![h] = [src |-> Content(fdObj[rfd[h]]), at |-> ReadAt(h)]]
            /\ fdPos' = [fdPos EXCEPT ![rfd[h]] =
                            IF arg[h].off = -1 THEN fdPos[rfd[h]] + b ELSE fdPos[rfd[h]]]
        BY <2>2 DEF ReadOk, ReadMoving, ReadAt, Got
      <3>3. rfd[h] \in Fds /\ b \in Nat
        BY <2>2, ReadOkType DEF IInv
      <3>4. Holds(h, rfd[h])
        BY <3>1 DEF Holds
      <3>5. Content(fdObj[rfd[h]]) = path[h]
        BY <3>3, <3>4 DEF IInv, HandleSeesItsFile
      <3>6. fdPos[rfd[h]] = cpos[h] /\ ReadAt(h) = Wanted(h)
        BY <1>0, <3>1, <3>3 DEF ReadAt
      <3> HIDE DEF b
      <3>7. /\ fdPos'[rfd[h]] = IF arg[h].off = -1 THEN cpos[h] + b ELSE cpos[h]
            /\ \A fd \in Fds : fd # rfd[h] => fdPos'[fd] = fdPos[fd]
        BY <3>2, <3>3, <3>6 DEF IInv, TypeOK
      <3>8. \A g \in Handles : g # h => ~Holds(g, rfd[h])
        BY <3>3, <3>4 DEF IInv, DescriptorAccounting
      <3>9. \A g \in Handles : stage[g] = "opened" /\ ret[g] # Bad => fdPos'[ret[g]] = fdPos[ret[g]]
        BY <3>1, <3>7, <3>8 DEF IInv, StageInv, Holds
      <3>10. \A g \in Handles : g # h /\ stage[g] \in Live /\ rfd[g] # Bad =>
               fdPos'[rfd[g]] = fdPos[rfd[g]]
        BY <3>7, <3>8, LiveHolds
      <3>11. OffsetInv'
        BY <3>1, <3>2, <3>9 DEF IInv, TypeOK
      <3>12. /\ b <= Bytes(Wanted(h), arg[h].n)
             /\ arg[h].n < HalfWord => b = Bytes(Wanted(h), arg[h].n)
        BY <2>2, <3>6, ReadOkType DEF b, IInv
      <3>13. /\ stage'[h] = "bulk" /\ ret'[h] = b
             /\ data'[h] = [src |-> path[h], at |-> Wanted(h)]
        BY <3>1, <3>2, <3>5, <3>6 DEF IInv, TypeOK
      <3>14. \A g \in Handles : g # h =>
               stage'[g] = stage[g] /\ ret'[g] = ret[g] /\ data'[g] = data[g]
        BY <3>1, <3>2 DEF IInv, TypeOK
      <3>15. ReadsRightData'
        BY <3>1, <3>7, <3>10, <3>12, <3>13, <3>14 DEF Bytes
      <3>16. QED
        BY <3>11, <3>15
    <2>3. QED
      BY <1>10, <2>1, <2>2 DEF hvac_rpc_handler
  <1>11. ASSUME NEW h \in Handles, hvac_rpc_handler_bulk_cb(h) PROVE PosInv'
    <2>1. CASE UNCHANGED stage
      BY <1>1, <1>11, <2>1 DEF hvac_rpc_handler_bulk_cb, clientVars, kernelVars
    <2>2. CASE stage' = [stage EXCEPT ![h] = "read"]
      BY <1>11, <2>2 DEF hvac_rpc_handler_bulk_cb, IInv, TypeOK, answerVars, kernelVars
    <2>3. QED
      BY <1>11, <2>1, <2>2 DEF hvac_rpc_handler_bulk_cb
  <1>12. ASSUME NEW h \in Handles, hvac_seek_rpc_handler(h) PROVE PosInv'
    <2>1. /\ stage[h] = "seeking"
          /\ stage' = [stage EXCEPT ![h] = "sought"]
          /\ UNCHANGED <<path, rfd, arg, cpos, data>>
      BY <1>12 DEF hvac_seek_rpc_handler, SeekWith
    <2>2. \A fd \in Fds : SeekTarget(arg[h].whence, arg[h].off, fdPos[fd]) \in Nat \cup {Bad}
      BY ArgType, SeekTargetType DEF IInv, TypeOK
    <2>3. PICK to \in Nat \cup {Bad} :
            /\ ret' = [ret EXCEPT ![h] = to]
            /\ fdPos' = IF to = Bad THEN fdPos ELSE [fdPos EXCEPT ![rfd[h]] = to]
            /\ rfd[h] = Bad => to = Bad
      BY <1>0, <1>12, <2>2 DEF hvac_seek_rpc_handler, SeekWith, IsOpen
    <2>4. Holds(h, rfd[h])
      BY <2>1 DEF Holds
    <2>5. \A g \in Handles : g # h => ~(rfd[h] \in Fds /\ Holds(g, rfd[h]))
      BY <2>4 DEF IInv, DescriptorAccounting
    <2>6. /\ rfd[h] # Bad => fdPos'[rfd[h]] = IF to = Bad THEN cpos[h] ELSE to
          /\ \A fd \in Fds : fd # rfd[h] => fdPos'[fd] = fdPos[fd]
      <3>1. CASE to = Bad
        BY <2>1, <2>3, <3>1
      <3>2. CASE to # Bad
        <4>1. rfd[h] \in Fds /\ fdPos' = [fdPos EXCEPT ![rfd[h]] = to]
          BY <2>1, <2>3, <3>2, LiveHolds
        <4>2. QED
          BY <3>2, <4>1 DEF IInv, TypeOK
      <3>3. QED
        BY <3>1, <3>2
    <2>7. \A g \in Handles : stage[g] = "opened" /\ ret[g] # Bad => fdPos'[ret[g]] = fdPos[ret[g]]
      BY <2>1, <2>5, <2>6 DEF IInv, StageInv, Holds
    <2>8. \A g \in Handles : g # h /\ stage[g] \in Live /\ rfd[g] # Bad =>
            fdPos'[rfd[g]] = fdPos[rfd[g]]
      BY <2>5, <2>6, LiveHolds
    <2>9. OffsetInv'
      BY <2>1, <2>3, <2>7 DEF IInv, TypeOK
    <2>10. ReadsRightData'
      BY <2>1, <2>3, <2>6, <2>8 DEF IInv, TypeOK
    <2>11. QED
      BY <2>9, <2>10
  <1>13. ASSUME NEW fd \in Fds \cup {Bad}, hvac_close_rpc_handler(fd) PROVE PosInv'
    <2>1. fd \in closing
      BY <1>13 DEF hvac_close_rpc_handler
    <2>2. UNCHANGED <<clientVars, answerVars>>
      BY <1>13 DEF hvac_close_rpc_handler, CloseOk, CloseFails, Crash
    <2>3. fdPos' = [fdPos EXCEPT ![fd] = 0] \/ fdPos' = fdPos
      BY <1>13 DEF hvac_close_rpc_handler, CloseOk, CloseFails, Crash, kernelVars
    <2>4. QED
      BY <1>1, <2>1, <2>2, <2>3 DEF IInv, TypeOK
  <1>14. CASE hvac_data_mover_fn \/ MoverSpuriousWake \/ Stopped \/ UNCHANGED vars
              \/ (\E f \in Files : Unlink(f)) \/ \E h \in Handles : ClientDies(h)
    BY <1>1, <1>14, ServerSideFrame DEF kernelVars
  <1>15. QED
    BY <1>2, <1>3, <1>4, <1>5, <1>6, <1>7, <1>8, <1>9, <1>10, <1>11, <1>12, <1>13, <1>14
       DEF Next, ClientStep, Serve

-----------------------------------------------------------------------------
(* The mover's work list.                                                  *)

\* Popping the front of the batch pops the front of the pending work.
LEMMA TailConcat ==
  ASSUME NEW S, NEW s \in Seq(S), NEW t \in Seq(S), s # <<>>
  PROVE  Tail(s) \o t = Tail(s \o t)
  <1>1. s \o t \in Seq(S) /\ s \o t # <<>>
    BY ConcatEmptySeq, ConcatSimplifications
  <1>2. s = <<Head(s)>> \o Tail(s) /\ Tail(s) \in Seq(S) /\ Head(s) \in S
    BY HeadTailProperties
  <1>3. s \o t = <<Head(s)>> \o (Tail(s) \o t)
    BY <1>2, ConcatAssociative
  <1>4. QED
    BY <1>1, <1>2, <1>3

FifoStep ==
    \/ Pending' = Pending
    \/ \E f \in Files : Pending' = Append(Pending, f)
    \/ local_list # <<>> /\ Pending' = Tail(Pending)

\* Every step treats the pending work as a queue.
LEMMA PendingStep == IInv /\ [Next]_vars => FifoStep
  <1> SUFFICES ASSUME IInv, [Next]_vars PROVE FifoStep
    OBVIOUS
  <1> USE DEF FifoStep, Pending
  <1>0. local_list \in Seq(Files) /\ data_queue \in Seq(Files)
    BY DEF IInv, TypeOK
  <1>1. ASSUME UNCHANGED queueVars PROVE FifoStep
    BY <1>1 DEF queueVars
  <1>2. ASSUME NEW h \in Handles, ClientStep(h) \/ Serve(h) PROVE FifoStep
    BY <1>1, <1>2 DEF ClientStep, OpenCall, OpenReturn, ReadCall, ReadReturn, SeekCall,
       SeekReturn, CloseCall, Serve, hvac_open_rpc_handler, Crash, hvac_rpc_handler,
       hvac_rpc_handler_bulk_cb, hvac_seek_rpc_handler, SeekWith
  <1>3. ASSUME NEW fd \in Fds \cup {Bad}, hvac_close_rpc_handler(fd) PROVE FifoStep
    <2>1. CASE CloseOk(fd)
      <3>1. fd_to_path[fd] \in Files
        BY <1>3, <2>1 DEF hvac_close_rpc_handler, CloseOk, IsOpen, IInv, HandleSeesItsFile
      <3>2. /\ data_queue' \in {data_queue, Append(data_queue, fd_to_path[fd])}
            /\ local_list' = local_list
        BY <2>1 DEF CloseOk, Enqueue
      <3>3. local_list \o Append(data_queue, fd_to_path[fd])
              = Append(local_list \o data_queue, fd_to_path[fd])
        BY <1>0, <3>1, AppendIsConcat, ConcatAssociative, ConcatProperties
      <3>4. QED
        BY <3>1, <3>2, <3>3
    <2>2. CASE CloseFails(fd) \/ Crash
      BY <1>1, <2>2 DEF CloseFails, Crash
    <2>3. QED
      BY <1>3, <2>1, <2>2 DEF hvac_close_rpc_handler
  <1>4. CASE Stopped \/ UNCHANGED vars \/ (\E f \in Files : Unlink(f)) \/ (\E h \in Handles : ClientDies(h)) \/ MoverWait
             \/ MoverSpuriousWake \/ MoverLoop \/ MoverStartCopy \/ MoverCopied
    BY <1>1, <1>4 DEF Stopped, vars, Unlink, ClientDies, MoverWait, MoverSpuriousWake, MoverLoop,
       MoverStartCopy, MoverCopied
  <1>5. CASE MoverDrain
    <2>1. local_list \o data_queue \in Seq(Files)
      BY <1>0, ConcatProperties
    <2>2. (local_list \o data_queue) \o <<>> = local_list \o data_queue
      BY <2>1, ConcatEmptySeq
    <2>3. QED
      BY <1>5, <2>2 DEF MoverDrain, DrainTo
  <1>6. CASE MoverCopyFails \/ MoverPublish
    <2>1. local_list # <<>>
      BY <1>6 DEF MoverCopyFails, CopyFails, MoverPublish, IInv, MoverInv
    <2>2. Tail(local_list) \o data_queue = Tail(local_list \o data_queue)
      BY <1>0, <2>1, TailConcat
    <2>3. QED
      BY <1>6, <2>1, <2>2 DEF MoverCopyFails, CopyFails, MoverPublish
  <1>7. QED
    BY <1>2, <1>3, <1>4, <1>5, <1>6 DEF Next, hvac_data_mover_fn

-----------------------------------------------------------------------------
(* Theorems.                                                               *)

\* The invariant is inductive.
THEOREM Invariance == Spec => []IInv
  <1>1. Init => IInv
    BY InitIInv
  <1>2. IInv /\ [Next]_vars => IInv'
    BY TypeStep, StageStep, MoverStep, DescStep, AbortStep DEF IInv, DescInv
  <1>3. QED
    BY <1>1, <1>2, PTL DEF Spec

\* Type correctness; in particular only paths of files are ever queued, and no
\* answer that is not a descriptor or -1 reaches fd_redir_map.
THEOREM TypeCorrect == Spec => []TypeOK
  <1>1. IInv => TypeOK
    BY DEF IInv
  <1>2. QED
    BY <1>1, Invariance, PTL

\* No late close RPC hits a reused descriptor and none leaks.
THEOREM AccountingCorrect == Spec => []DescriptorAccounting
  <1>1. IInv => DescriptorAccounting
    BY DEF IInv
  <1>2. QED
    BY <1>1, Invariance, PTL

\* Redirection is transparent: every handle reads the file it was opened on.
THEOREM RedirectionTransparent == Spec => []HandleSeesItsFile
  <1>1. IInv => HandleSeesItsFile
    BY DEF IInv
  <1>2. QED
    BY <1>1, Invariance, PTL

\* The mover publishes only finished copies.
THEOREM PublishedComplete == Spec => []RedirectComplete
  <1>1. IInv => RedirectComplete
    BY DEF IInv, MoverInv
  <1>2. QED
    BY <1>1, Invariance, PTL

\* The handlers' assertions fail only downstream of a failed open, of a request too
\* wide for its field or of a client that died.
THEOREM AbortCause == Spec => []AbortHasCause
  <1>1. IInv => AbortHasCause
    BY DEF IInv
  <1>2. QED
    BY <1>1, Invariance, PTL

\* Reads deliver the wanted range; server and client agree on the file offset.
THEOREM ReadsCorrect == Spec => []ReadsRightData
  <1>1. Init => PosInv
    BY InitIInv DEF PosInv
  <1>2. IInv /\ PosInv /\ [Next]_vars => PosInv'
    BY PosStep
  <1>3. PosInv => ReadsRightData
    BY DEF PosInv
  <1>4. QED
    BY <1>1, <1>2, <1>3, Invariance, PTL DEF Spec

\* Paths queued for the mover are handled in order, none lost or repeated.
THEOREM FifoCorrect == Spec => PendingIsFifo
  <1>1. IInv /\ [Next]_vars => [FifoStep]_vars
    BY PendingStep
  <1>2. QED
    BY <1>1, Invariance, PTL DEF Spec, PendingIsFifo, FifoStep
=============================================================================
