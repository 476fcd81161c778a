-------------------- MODULE HvacServerRefinementProofs --------------------
(***************************************************************************)
(* HvacServer implements FileService, for all values of the constants.     *)
(* The argument rests on the invariants of HvacServerProofs: a read can    *)
(* only be the plain service's read because the handle's descriptor is its *)
(* own (DescriptorAccounting), reads its file (HandleSeesItsFile) and      *)
(* stands at the application's offset (ReadsRightData).                    *)
(***************************************************************************)
EXTENDS HvacServerProofs, HvacServerRefinement

fsSt  == [h \in Handles |-> FsSt(h)]
fsOk  == [h \in Handles |-> FsOk(h)]
fsRes == [h \in Handles |-> FsRes(h)]
fsBuf == [h \in Handles |-> FsBuf(h)]

\* The initial state is one of the plain service.
LEMMA InitMaps == Init => FS!Init
  BY DEF Init, FS!Init, FsSt, FsOk, FsRes, FsBuf, Live, FS!NoReq, FS!NoBuf, NoArg, NoData, Up

\* A step of one handle changes the mapped state at that handle only.
LEMMA OneHandle ==
  ASSUME TypeOK, NEW h \in Handles,
         \A g \in Handles : g # h =>
             stage'[g] = stage[g] /\ rfd'[g] = rfd[g] /\ ret'[g] = ret[g] /\ data'[g] = data[g]
  PROVE  /\ fsSt' = [fsSt EXCEPT ![h] = FsSt(h)']
         /\ fsOk' = [fsOk EXCEPT ![h] = FsOk(h)']
         /\ fsRes' = [fsRes EXCEPT ![h] = FsRes(h)']
         /\ fsBuf' = [fsBuf EXCEPT ![h] = FsBuf(h)']
         /\ FsSt(h)' = FsSt(h) => fsSt' = fsSt
         /\ FsOk(h)' = FsOk(h) => fsOk' = fsOk
         /\ FsRes(h)' = FsRes(h) => fsRes' = fsRes
         /\ FsBuf(h)' = FsBuf(h) => fsBuf' = fsBuf
  <1>1. \A g \in Handles : g # h =>
          FsSt(g)' = FsSt(g) /\ FsOk(g)' = FsOk(g) /\ FsRes(g)' = FsRes(g) /\ FsBuf(g)' = FsBuf(g)
    BY DEF FsSt, FsOk, FsRes, FsBuf
  <1>2. QED
    BY <1>1 DEF fsSt, fsOk, fsRes, fsBuf

\* Nothing the plain service knows of has changed.
LEMMA Stutter ==
  ASSUME UNCHANGED <<fsSt, path, fsOk, cpos, arg, fsRes, fsBuf>>
  PROVE  /\ aborted' = aborted => UNCHANGED FS!vars
         /\ Up /\ ~Up' => FS!Stop
  BY DEF FS!vars, FS!Stop, fsSt, fsOk, fsRes, fsBuf, Up

\* The calls and returns of a client are calls and returns of the plain service.
LEMMA ClientMaps ==
  ASSUME IInv, NEW h \in Handles, ClientStep(h)
  PROVE  FS!HandleStep(h)
  <1> USE DEF IInv, TypeOK, Up
  <1>0. Up /\ Up'
    BY DEF ClientStep, OpenCall, OpenReturn, ReadCall, ReadReturn, SeekCall, SeekReturn, CloseCall
  <1>1. ASSUME NEW f \in Files, OpenCall(h, f) PROVE FS!Open(h, f)
    <2>1. /\ FsSt(h) = "closed" /\ FsSt(h)' = "opening"
          /\ FsOk(h)' = FsOk(h) /\ FsRes(h)' = FsRes(h) /\ FsBuf(h)' = FsBuf(h)
      BY <1>1 DEF OpenCall, FsSt, FsOk, FsRes, FsBuf, Live, answerVars
    <2>2. QED
      BY <1>0, <1>1, <2>1, OneHandle DEF OpenCall, answerVars, FS!Open, FS!Step, fsSt, fsOk, fsRes, fsBuf
  <1>2. ASSUME OpenReturn(h) PROVE FS!OpenReturn(h)
    <2>1. /\ FsSt(h) = "opened" /\ FsSt(h)' = "idle"
          /\ FsOk(h)' = (FsRes(h) = 0) /\ FsRes(h)' = 0 /\ FsBuf(h)' = FsBuf(h)
      BY <1>2 DEF OpenReturn, FsSt, FsOk, FsRes, FsBuf, Live, Bad
    <2>2. QED
      BY <1>0, <1>2, <2>1, OneHandle DEF OpenReturn, FS!OpenReturn, FS!Step, fsSt, fsOk, fsRes, fsBuf
  <1>3. ASSUME NEW n \in ReadSizes, NEW off \in Offsets, ReadCall(h, n, off)
        PROVE  FS!Read(h, n, off)
    <2>1. /\ FsSt(h) = "idle" /\ FsSt(h)' = "reading"
          /\ FsOk(h)' = FsOk(h) /\ FsRes(h)' = FsRes(h) /\ FsBuf(h)' = FsBuf(h)
      BY <1>3 DEF ReadCall, FsSt, FsOk, FsRes, FsBuf, Live, answerVars
    <2>2. QED
      BY <1>0, <1>3, <2>1, OneHandle DEF ReadCall, answerVars, FS!Read, FS!Step, fsSt, fsOk, fsRes, fsBuf
  <1>4. ASSUME ReadReturn(h) PROVE FS!ReadReturn(h)
    <2>1. /\ FsSt(h) = "read" /\ FsSt(h)' = "idle" /\ FsRes(h) = ret[h]
          /\ FsOk(h)' = FsOk(h) /\ FsRes(h)' = 0 /\ FsBuf(h)' = NoData
      BY <1>4 DEF ReadReturn, FsSt, FsOk, FsRes, FsBuf, Live
    <2>2. QED
      BY <1>0, <1>4, <2>1, OneHandle DEF ReadReturn, FS!ReadReturn, FS!Step, fsSt, fsOk, fsRes, fsBuf,
         FS!NoReq, FS!NoBuf, NoArg, NoData
  <1>5. ASSUME NEW off \in Offsets, NEW whence \in Whences, SeekCall(h, off, whence)
        PROVE  FS!Seek(h, off, whence)
    <2>1. /\ FsSt(h) = "idle" /\ FsSt(h)' = "seeking"
          /\ FsOk(h)' = FsOk(h) /\ FsRes(h)' = FsRes(h) /\ FsBuf(h)' = FsBuf(h)
      BY <1>5 DEF SeekCall, FsSt, FsOk, FsRes, FsBuf, Live, answerVars
    <2>2. QED
      BY <1>0, <1>5, <2>1, OneHandle DEF SeekCall, answerVars, FS!Seek, FS!Step, fsSt, fsOk, fsRes, fsBuf
  <1>6. ASSUME SeekReturn(h) PROVE FS!SeekReturn(h)
    <2>1. /\ FsSt(h) = "sought" /\ FsSt(h)' = "idle" /\ FsRes(h) = ret[h]
          /\ FsOk(h)' = FsOk(h) /\ FsRes(h)' = 0 /\ FsBuf(h)' = FsBuf(h)
      BY <1>6 DEF SeekReturn, FsSt, FsOk, FsRes, FsBuf, Live
    <2>2. QED
      BY <1>0, <1>6, <2>1, OneHandle DEF SeekReturn, FS!SeekReturn, FS!Step, fsSt, fsOk, fsRes, fsBuf,
         FS!NoReq, NoArg, FS!Bad, Bad
  <1>7. ASSUME CloseCall(h) PROVE FS!Close(h)
    <2>1. /\ FsSt(h) = "idle" /\ FsSt(h)' = "closed"
          /\ FsOk(h)' = FALSE /\ FsRes(h)' = FsRes(h) /\ FsBuf(h)' = FsBuf(h)
      BY <1>7 DEF CloseCall, FsSt, FsOk, FsRes, FsBuf, Live, answerVars
    <2>2. QED
      BY <1>0, <1>7, <2>1, OneHandle DEF CloseCall, FS!Close, FS!Step, fsSt, fsOk, fsRes, fsBuf, answerVars
  <1>8. QED
    BY <1>1, <1>2, <1>3, <1>4, <1>5, <1>6, <1>7 DEF ClientStep, FS!HandleStep

\* An open RPC answers the plain service's open, redirected or not.
LEMMA OpenMaps ==
  ASSUME IInv, NEW h \in Handles, hvac_open_rpc_handler(h)
  PROVE  FS!AnswerOpen(h) \/ FS!Stop
  <1> USE DEF IInv, TypeOK
  <1>1. CASE Crash
    <2>1. UNCHANGED <<stage, rfd, ret, data, path, cpos, arg>> /\ Up /\ ~Up'
      BY <1>1 DEF Crash, Up, clientVars, answerVars, hvac_open_rpc_handler
    <2>2. UNCHANGED <<fsSt, fsOk, fsRes, fsBuf>>
      BY <2>1 DEF fsSt, fsOk, fsRes, fsBuf, FsSt, FsOk, FsRes, FsBuf
    <2>3. QED
      BY <2>1, <2>2, Stutter
  <1>2. CASE ~Crash
    <2>1. /\ stage[h] = "opening" /\ stage' = [stage EXCEPT ![h] = "opened"]
          /\ UNCHANGED <<path, rfd, arg, cpos, data, aborted>> /\ Up
      BY <1>2 DEF hvac_open_rpc_handler
    <2>2. PICK r \in Fds \cup {Bad} : ret' = [ret EXCEPT ![h] = r]
      BY <1>2 DEF hvac_open_rpc_handler, OpenOk, OpenRecording, OpenFails, FreeFds
    <2>3. /\ FsSt(h) = "opening" /\ FsSt(h)' = "opened" /\ FsRes(h)' \in {0, Bad}
          /\ FsOk(h)' = FsOk(h) /\ FsBuf(h)' = FsBuf(h)
      BY <2>1, <2>2 DEF FsSt, FsOk, FsRes, FsBuf, Live
    <2>4. QED
      BY <2>1, <2>2, <2>3, OneHandle DEF FS!AnswerOpen, FS!Step, FS!Bad, Bad, Up, fsSt, fsOk, fsRes, fsBuf
  <1>3. QED
    BY <1>1, <1>2

\* The read into the bulk buffer is invisible; a failed one stops the service.
LEMMA ReadMaps ==
  ASSUME IInv, NEW h \in Handles, hvac_rpc_handler(h)
  PROVE  UNCHANGED FS!vars \/ FS!Stop
  <1> USE DEF IInv, TypeOK
  <1>1. /\ stage[h] = "reading" /\ stage' \in {stage, [stage EXCEPT ![h] = "bulk"]}
        /\ \A g \in Handles : g # h =>
             stage'[g] = stage[g] /\ rfd'[g] = rfd[g] /\ ret'[g] = ret[g] /\ data'[g] = data[g]
        /\ UNCHANGED <<path, rfd, arg, cpos>>
    BY DEF hvac_rpc_handler, ReadOk, ReadMoving, ReadFails, AllocFails, answerVars
  <1>2. /\ FsSt(h)' = FsSt(h) /\ FsOk(h)' = FsOk(h)
        /\ FsRes(h)' = FsRes(h) /\ FsBuf(h)' = FsBuf(h)
    BY <1>1 DEF FsSt, FsOk, FsRes, FsBuf, Live
  <1>3. UNCHANGED <<fsSt, fsOk, fsRes, fsBuf>>
    BY <1>1, <1>2, OneHandle
  <1>4. Up /\ (aborted' = aborted \/ ~Up')
    BY DEF hvac_rpc_handler, ReadOk, ReadMoving, ReadFails, AllocFails, Up
  <1>5. QED
    BY <1>1, <1>3, <1>4, Stutter

\* The response after the bulk push answers the plain service's read.
LEMMA BulkMaps ==
  ASSUME IInv, PosInv, NEW h \in Handles, hvac_rpc_handler_bulk_cb(h)
  PROVE  FS!AnswerRead(h) \/ FS!Stop
  <1> USE DEF IInv, TypeOK
  <1>1. /\ stage[h] = "bulk" /\ Up
        /\ UNCHANGED <<path, rfd, arg, cpos, ret, data>>
    BY DEF hvac_rpc_handler_bulk_cb, answerVars
  <1>2. CASE aborted' = "peer" /\ UNCHANGED stage
    <2>1. UNCHANGED <<fsSt, fsOk, fsRes, fsBuf>>
      BY <1>1, <1>2 DEF fsSt, fsOk, fsRes, fsBuf, FsSt, FsOk, FsRes, FsBuf
    <2>2. ~Up'
      BY <1>2 DEF Up
    <2>3. QED
      BY <1>1, <2>1, <2>2, Stutter
  <1>3. CASE stage' = [stage EXCEPT ![h] = "read"] /\ UNCHANGED aborted
    <2>1. /\ FsSt(h) = "reading" /\ FsSt(h)' = "read" /\ FsRes(h)' = ret[h]
          /\ FsOk(h)' = FsOk(h) /\ FsBuf(h)' = data[h]
      BY <1>1, <1>3 DEF FsSt, FsOk, FsRes, FsBuf, Live
    <2>2. fsOk[h]
      <3>1. rfd[h] \in Fds
        BY <1>1 DEF StageInv
      <3>2. rfd[h] # Bad
        BY <3>1, ServerAssumption DEF Bad
      <3>3. FsOk(h)
        BY <1>1, <3>2 DEF FsOk, Live
      <3>4. QED
        BY <3>3 DEF fsOk
    <2>3. /\ data[h] = [src |-> path[h], at |-> FS!From(h)]
          /\ ret[h] <= FS!Bytes(FS!From(h), arg[h].n)
          /\ arg[h].n < HalfWord => ret[h] = FS!Bytes(FS!From(h), arg[h].n)
      BY <1>1 DEF PosInv, ReadsRightData, Wanted, FS!From, Bytes, FS!Bytes
    <2>4. ret[h] \in 0..FS!Bytes(FS!From(h), arg[h].n)
      <3>1. ret[h] \in Nat /\ Wanted(h) \in Int /\ arg[h].n \in Nat
        BY <1>1, ArgType DEF StageInv, Wanted
      <3>2. FS!Bytes(FS!From(h), arg[h].n) \in Int
        BY <3>1, FileAssumption DEF FS!Bytes, FS!From, Wanted
      <3>3. QED
        BY <2>3, <3>1, <3>2
    <2>5. \A g \in Handles : g # h =>
            stage'[g] = stage[g] /\ rfd'[g] = rfd[g] /\ ret'[g] = ret[g] /\ data'[g] = data[g]
      BY <1>1, <1>3
    <2>6. /\ fsSt' = [fsSt EXCEPT ![h] = "read"] /\ fsOk' = fsOk
          /\ fsRes' = [fsRes EXCEPT ![h] = ret[h]]
          /\ fsBuf' = [fsBuf EXCEPT ![h] = [src |-> path[h], at |-> FS!From(h)]]
      BY <2>1, <2>3, <2>5, OneHandle
    <2>7. fsSt[h] = "reading"
      BY <2>1 DEF fsSt
    <2>8. FS!Step(h, "reading", "read")
      BY <1>1, <1>3, <2>6, <2>7 DEF FS!Step, fsSt, Up
    <2>9. QED
      BY <1>1, <2>2, <2>3, <2>4, <2>6, <2>8 DEF FS!AnswerRead, fsOk, fsRes, fsBuf
  <1>4. QED
    BY <1>2, <1>3 DEF hvac_rpc_handler_bulk_cb

\* A seek RPC answers the plain service's seek.
LEMMA SeekMaps ==
  ASSUME IInv, PosInv, NEW h \in Handles, hvac_seek_rpc_handler(h)
  PROVE  FS!AnswerSeek(h)
  <1> USE DEF IInv, TypeOK
  <1> DEFINE to == IF rfd[h] # Bad THEN SeekTarget(arg[h].whence, arg[h].off, cpos[h]) ELSE Bad
  <1>1. /\ stage[h] = "seeking" /\ stage' = [stage EXCEPT ![h] = "sought"] /\ Up
        /\ UNCHANGED <<path, rfd, arg, cpos, data, aborted>>
    BY DEF hvac_seek_rpc_handler, SeekWith
  <1>2. rfd[h] # Bad => IsOpen(rfd[h]) /\ fdPos[rfd[h]] = cpos[h]
    BY <1>1, LiveHolds DEF Live, PosInv, ReadsRightData
  <1>3. rfd[h] = Bad => ~IsOpen(rfd[h])
    BY ServerAssumption DEF IsOpen, Bad
  <1>4. ret' = [ret EXCEPT ![h] = to]
    BY <1>2, <1>3 DEF hvac_seek_rpc_handler, SeekWith
  <1>5. SeekTarget(arg[h].whence, arg[h].off, cpos[h]) = FS!SeekTarget(arg[h].whence, arg[h].off, cpos[h])
    BY DEF SeekTarget, FS!SeekTarget, Bad, FS!Bad
  <1>6. fsOk[h] = (rfd[h] # Bad)
    BY <1>1 DEF fsOk, FsOk, Live
  <1>7. to = IF fsOk[h] THEN FS!SeekTarget(arg[h].whence, arg[h].off, cpos[h]) ELSE FS!Bad
    BY <1>5, <1>6 DEF Bad, FS!Bad
  <1> HIDE DEF to
  <1>8. /\ FsSt(h) = "seeking" /\ FsSt(h)' = "sought" /\ FsRes(h)' = to
        /\ FsOk(h)' = FsOk(h) /\ FsBuf(h)' = FsBuf(h)
    BY <1>1, <1>4 DEF FsSt, FsOk, FsRes, FsBuf, Live
  <1>9. \A g \in Handles : g # h =>
          stage'[g] = stage[g] /\ rfd'[g] = rfd[g] /\ ret'[g] = ret[g] /\ data'[g] = data[g]
    BY <1>1, <1>4
  <1>10. /\ fsSt' = [fsSt EXCEPT ![h] = "sought"] /\ fsOk' = fsOk /\ fsBuf' = fsBuf
         /\ fsRes' = [fsRes EXCEPT ![h] = to]
    BY <1>8, <1>9, OneHandle
  <1>11. FS!Step(h, "seeking", "sought")
    BY <1>1, <1>8, <1>10 DEF FS!Step, fsSt, Up
  <1>12. QED
    BY <1>1, <1>7, <1>10, <1>11 DEF FS!AnswerSeek, fsOk, fsRes, fsBuf

\* Whatever changes no handle is a stutter or the end of the service: the mover, close
\* RPCs, files that vanish, clients that die.
LEMMA RestMaps ==
  ASSUME UNCHANGED <<clientVars, answerVars>>, aborted' = aborted \/ (Up /\ ~Up')
  PROVE  UNCHANGED FS!vars \/ FS!Stop
  <1>1. UNCHANGED <<fsSt, fsOk, fsRes, fsBuf>>
    BY DEF clientVars, answerVars, fsSt, fsOk, fsRes, fsBuf, FsSt, FsOk, FsRes, FsBuf
  <1>2. QED
    BY <1>1, Stutter DEF clientVars

\* Every step of the server maps to a step of the plain service or to none.
LEMMA StepMaps == IInv /\ PosInv /\ [Next]_vars => [FS!Next]_(FS!vars)
  <1> SUFFICES ASSUME IInv, PosInv, [Next]_vars PROVE FS!Next \/ UNCHANGED FS!vars
    OBVIOUS
  <1> USE DEF FS!Next, FS!HandleStep
  <1>1. ASSUME NEW h \in Handles, ClientStep(h) PROVE FS!Next
    BY <1>1, ClientMaps
  <1>2. ASSUME NEW h \in Handles, Serve(h) PROVE FS!Next \/ UNCHANGED FS!vars
    BY <1>2, OpenMaps, ReadMaps, BulkMaps, SeekMaps DEF Serve
  <1>3. ASSUME NEW fd \in Fds \cup {Bad}, hvac_close_rpc_handler(fd)
        PROVE  FS!Next \/ UNCHANGED FS!vars
    <2>1. UNCHANGED <<clientVars, answerVars>>
      BY <1>3 DEF hvac_close_rpc_handler, CloseOk, CloseFails, Crash
    <2>2. aborted' = aborted \/ (Up /\ ~Up')
      BY <1>3 DEF hvac_close_rpc_handler, CloseOk, CloseFails, Crash, Up
    <2>3. QED
      BY <2>1, <2>2, RestMaps
  <1>4. CASE hvac_data_mover_fn \/ MoverSpuriousWake \/ Stopped \/ UNCHANGED vars
             \/ (\E f \in Files : Unlink(f)) \/ (\E h \in Handles : ClientDies(h))
    <2>1. UNCHANGED <<clientVars, answerVars>>
      BY <1>4, ServerSideFrame
    <2>2. aborted' = aborted
      BY <1>4 DEF hvac_data_mover_fn, MoverWait, MoverSpuriousWake, MoverDrain, DrainTo, MoverLoop,
         MoverStartCopy, MoverCopyFails, CopyFails, MoverCopied, MoverPublish, moverFrame, Stopped, vars,
         Unlink, ClientDies
    <2>3. QED
      BY <2>1, <2>2, RestMaps
  <1>5. QED
    BY <1>1, <1>2, <1>3, <1>4 DEF Next

\* The server with its redirections, descriptor reuse, asynchronous closes and mover
\* implements the plain file service.
THEOREM Refinement == Spec => ImplementsFileService
  <1>1. Init => FS!Init
    BY InitMaps
  <1>2. Init => PosInv
    BY InitIInv DEF PosInv
  <1>3. IInv /\ PosInv /\ [Next]_vars => PosInv'
    BY PosStep
  <1>4. IInv /\ PosInv /\ [Next]_vars => [FS!Next]_(FS!vars)
    BY StepMaps
  <1>5. QED
    BY <1>1, <1>2, <1>3, <1>4, Invariance, PTL DEF Spec, ImplementsFileService, FS!Spec
=============================================================================
