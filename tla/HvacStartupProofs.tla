-------------------------- MODULE HvacStartupProofs --------------------------
(***************************************************************************)
(* Proofs about HvacStartup, for any number of servers, clients, launches  *)
(* and opens, whichever servers end and whenever they do.  One lemma per   *)
(* part of the inductive invariant IInv shows that every step preserves    *)
(* the part.                                                               *)
(***************************************************************************)
EXTENDS HvacStartup, SequenceTheorems, TLAPS

(* The inductive invariant behind the safety properties.                   *)

\* The lock is held from the look at the end of file to the release, and a server
\* that got that far has created the file.
LockInv ==
    \A r \in Ranks :
        /\ srv[r] \in {"write", "unlock"} => lock = r
        /\ srv[r] = "write" => eof[r] = Len(ports)
        /\ srv[r] \in {"lock", "write"} \cup Listed => exists
        /\ srv[r] \notin {"register", "up"} => registered[r] = 0
        /\ srv[r] = "register" => registered[r] < Len(RpcOrder)
        /\ srv[r] = "up" => registered[r] = Len(RpcOrder)

\* Address a was posted by a launch of its rank that is running or gone.
Posted(a) ==
    /\ a \in Addrs
    /\ a[2] <= inc[a[1]]
    /\ srv[a[1]] \notin Listed \cup {"down"} => a[2] < inc[a[1]]

\* Lines carry the address of their rank; a server that is through with posting, and
\* is the rank's first, is listed.
PortsInv ==
    /\ \A i \in 1..Len(ports) : Posted(ports[i].addr) /\ ports[i].addr[1] = ports[i].rank
    /\ \A r \in Ranks : srv[r] \in Listed => \E i \in 1..Len(ports) : ports[i].rank = r

\* a is the address that look-ups of its rank find.
Found(a) == \E i \in 1..Len(ports) : FirstLine(a[1], i) /\ ports[i].addr = a

\* A cached address is what a look-up of its rank finds.
CacheInv ==
    \A c \in Clients, r \in Ranks : address_cache[c][r] # None =>
        Found(address_cache[c][r]) /\ address_cache[c][r][1] = r

\* What a call in progress has established, and what is left of a client that ended.
CallOk(c) ==
    /\ pc[c] \in {"lookup", "scan", "forward"} =>
         file[c] # None /\ tgt[c] = host(file[c]) /\ op[c] # "none" /\ opens[c] > 0
    /\ pc[c] = "scan" =>
         /\ line[c] \in 1..(Len(ports) + 1)
         /\ address_cache[c][tgt[c]] = None
         /\ \A j \in 1..(line[c] - 1) : ports[j].rank # tgt[c]
    /\ pc[c] = "forward" => dest[c] = address_cache[c][tgt[c]] /\ dest[c] # None
    /\ crash[c] # "no" => pc[c] = "off"
    /\ pc[c] = "off" => file[c] = None /\ (crash[c] = "no" => opens[c] = 0)

LookupInv == CacheInv /\ \A c \in Clients : CallOk(c)

\* There is one stream for each rank that is cached or being scanned for.
StreamInv ==
    \A c \in Clients, r \in Ranks :
        /\ streams[c][r] <= 1
        /\ streams[c][r] = 1 => address_cache[c][r] # None \/ (pc[c] = "scan" /\ tgt[c] = r)

\* The address the file of c was opened at.
Home(c) == address_cache[c][host(file[c])]

\* c has its file open at a server: the open RPC has been answered.
Opened(c) ==
    /\ file[c] # None
    /\ \/ pc[c] = "idle"
       \/ pc[c] \in {"lookup", "scan", "forward"} /\ op[c] # "open"
       \/ pc[c] = "wait" /\ \A m \in wire : m.c = c /\ m.k = opens[c] => m.op # "open"

\* A file that is open is open at the cached address, and its server descriptor is
\* there as long as the server process is.
HomeInv ==
    \A c \in Clients : Opened(c) =>
        /\ opens[c] > 0
        /\ Home(c) # None
        /\ Alive(Home(c)) => [c |-> c, k |-> opens[c], addr |-> Home(c)] \in held

\* RPCs in flight: one that has an answer is its client's only such one and is for
\* the open file; a close is the last RPC of its file.
WireInv ==
    /\ \A m \in wire :
        /\ Found(m.addr)
        /\ m.op # "close" =>
            /\ pc[m.c] = "wait" /\ file[m.c] # None /\ m.k = opens[m.c] /\ m.addr = Home(m.c)
            /\ \A n \in wire : n.c = m.c /\ n.op # "close" => n = m
        /\ m.op = "close" =>
            /\ m.k < opens[m.c] \/ (m.k = opens[m.c] /\ file[m.c] = None)
            /\ \A n \in wire : n.c = m.c /\ n.k = m.k => n = m
    /\ RpcToOpener

\* Descriptors are held by running processes, at the address their client found.
HeldInv ==
    \A e \in held :
        /\ Alive(e.addr) /\ Found(e.addr)
        /\ e.k <= opens[e.c]
        /\ e.k = opens[e.c] /\ file[e.c] # None => e.addr = Home(e.c)

\* Every rank has ended since, or is as it was when c began ...
Ended(r) == srv[r] = "down" \/ inc[r] > 1

\* ... and what a look-up of the rank finds is a server that knows all RPCs, or gone.
ReadyInv ==
    \A c \in Clients : since[c] = "up" => \A r \in Ranks :
        /\ srv[r] = "up" \/ Ended(r)
        /\ \E i \in 1..Len(ports) : ports[i].rank = r
        /\ \A a \in Addrs : a[1] = r /\ Found(a) /\ Alive(a) => srv[r] = "up"

IInv ==
    /\ TypeOK
    /\ LockInv
    /\ PortsInv
    /\ LookupInv
    /\ StreamInv
    /\ HomeInv
    /\ WireInv
    /\ HeldInv
    /\ ReadyInv
    /\ ReadyClientsServed
    /\ NoOrphans

-----------------------------------------------------------------------------
\* Every path hashes to a rank.
LEMMA HostType == \A x \in Nat : host(x) \in Ranks
  <1> SUFFICES ASSUME NEW x \in Nat PROVE x % Count \in 0..(Count - 1)
    BY DEF host, Ranks
  <1>1. Count \in Nat \ {0}
    BY StartupAssumption
  <1>2. QED
    BY <1>1

\* None is no rank, address or hash.
LEMMA NoneIsNone == None \notin Ranks /\ None \notin Nat /\ None \notin Addrs
  BY StartupAssumption DEF Addrs

\* The initial state satisfies every invariant.
LEMMA InitIInv == Init => IInv
  <1> SUFFICES ASSUME Init PROVE IInv
    OBVIOUS
  <1> USE NoneIsNone DEF Init
  <1>0. Len(RpcOrder) = 4
    BY DEF RpcOrder
  <1>1. TypeOK
    <2>1. 1 \in 1..MaxInc /\ 0 \in 0..MaxOpens /\ 0 \in 0..Len(RpcOrder)
      BY <1>0, StartupAssumption
    <2>2. ports \in Seq(Lines)
      OBVIOUS
    <2>3. address_cache \in [Clients -> [Ranks -> Addrs \cup {None}]]
      BY DEF NoCache
    <2>4. streams \in [Clients -> [Ranks -> Nat]]
      BY DEF NoStreams
    <2>5. QED
      BY <2>1, <2>2, <2>3, <2>4 DEF TypeOK, Listening
  <1>2. LockInv /\ PortsInv
    BY DEF LockInv, PortsInv, Listed
  <1>3. LookupInv /\ StreamInv
    BY DEF LookupInv, CacheInv, CallOk, StreamInv, NoCache, NoStreams
  <1>4. HomeInv
    BY DEF HomeInv, Opened
  <1>5. WireInv /\ HeldInv /\ NoOrphans
    BY DEF WireInv, RpcToOpener, HeldInv, NoOrphans
  <1>6. ReadyInv /\ ReadyClientsServed
    BY DEF ReadyInv, ReadyClientsServed
  <1>7. QED
    BY <1>1, <1>2, <1>3, <1>4, <1>5, <1>6 DEF IInv

-----------------------------------------------------------------------------
(* The address file.                                                       *)

\* A server that holds the lock writes its line at the end of the file.
LEMMA WriteAppends ==
  ASSUME TypeOK, LockInv, NEW r \in Ranks, WriteLine(r)
  PROVE  /\ [rank |-> r, addr |-> <<r, inc[r]>>] \in Lines
         /\ ports' \in Seq(Lines)
         /\ Len(ports') = Len(ports) + 1
         /\ \A i \in 1..Len(ports) : ports'[i] = ports[i]
         /\ ports'[Len(ports) + 1] = [rank |-> r, addr |-> <<r, inc[r]>>]
  <1> DEFINE l == [rank |-> r, addr |-> <<r, inc[r]>>]
  <1>1. eof[r] = Len(ports)
    BY DEF LockInv, WriteLine, Advance
  <1>2. inc[r] \in 1..MaxInc /\ ports \in Seq(Lines)
    BY DEF TypeOK
  <1>3. l \in Lines
    BY <1>2 DEF Lines, Addrs
  <1>4. Len(ports) \in Nat
    BY <1>2
  <1> DEFINE n == Len(ports) + 1
             f == [i \in 1..n |-> IF i = n THEN l ELSE ports[i]]
  <1>5. ports' = f
    BY <1>1, <1>4 DEF WriteLine, WriteAt
  <1> HIDE DEF l
  <1>6. \A i \in 1..n : (IF i = n THEN l ELSE ports[i]) \in Lines
    BY <1>2, <1>3, <1>4
  <1>7. f \in Seq(Lines)
    BY <1>4, <1>6, IsASeq
  <1>8. Len(f) = n
    <2>1. DOMAIN f = 1..Len(f) /\ Len(f) \in Nat
      BY <1>7, LenProperties
    <2>2. QED
      BY <2>1, <1>4
  <1>9. f[n] = l /\ \A i \in 1..Len(ports) : f[i] = ports[i]
    BY <1>4
  <1> HIDE DEF f
  <1>10. QED
    BY <1>3, <1>5, <1>7, <1>8, <1>9 DEF l

\* Only WriteLine changes the file.
LEMMA OthersKeepPorts ==
  ASSUME [Next]_vars, ~ \E r \in Ranks : WriteLine(r)
  PROVE  ports' = ports
  BY DEF Next, ServerStep, hvac_init_comm, OpenPorts, LockPorts, UnlockPorts, Register, RegisterUpTo, ServerDies,
         Relaunch, hvac_client_init, OpenFile, ReadFile, UseFile, CloseFile, Lookup, LookupCached,
         LookupOpens, LookupNoFile, ScanSkips, ScanFinds, ScanGives, Cached, ScanEof, HG_Forward, ForwardFails,
         Delivery, ServeRpc, FailRpc, UnknownRpc, UnreachableRpc, portsVars, vars

\* The file only grows, by at most a line.
LEMMA PortsGrow ==
  ASSUME TypeOK, LockInv, [Next]_vars
  PROVE  /\ ports' \in Seq(Lines)
         /\ Len(ports') \in Nat /\ Len(ports) \in Nat
         /\ Len(ports) <= Len(ports')
         /\ \A i \in 1..Len(ports) : ports'[i] = ports[i]
  <1>0. ports \in Seq(Lines) /\ Len(ports) \in Nat
    BY DEF TypeOK
  <1>1. ASSUME NEW r \in Ranks, WriteLine(r)
        PROVE  /\ ports' \in Seq(Lines)
               /\ Len(ports') = Len(ports) + 1
               /\ \A i \in 1..Len(ports) : ports'[i] = ports[i]
    BY <1>1, WriteAppends
  <1>2. CASE \E r \in Ranks : WriteLine(r)
    BY <1>0, <1>1, <1>2
  <1>3. CASE ~ \E r \in Ranks : WriteLine(r)
    BY <1>0, <1>3, OthersKeepPorts
  <1>4. QED
    BY <1>2, <1>3

\* What a look-up found, later look-ups find too.
LEMMA FoundStays ==
  ASSUME TypeOK, LockInv, [Next]_vars, NEW a, Found(a)
  PROVE  Found(a)'
  <1>1. PICK i \in 1..Len(ports) : FirstLine(a[1], i) /\ ports[i].addr = a
    BY DEF Found
  <1>2. i \in 1..Len(ports') /\ ports'[i] = ports[i] /\ \A j \in 1..(i - 1) : ports'[j] = ports[j]
    BY <1>1, PortsGrow
  <1>3. QED
    BY <1>1, <1>2 DEF Found, FirstLine

\* An address that look-ups find was posted.
LEMMA FoundPosted ==
  ASSUME PortsInv, NEW a, Found(a)
  PROVE  Posted(a)
  BY DEF PortsInv, Found, FirstLine

\* Look-ups of a rank find one address.
LEMMA FoundUnique ==
  ASSUME TypeOK, NEW a, NEW b, Found(a), Found(b), a[1] = b[1]
  PROVE  a = b
  <1>1. PICK i \in 1..Len(ports) : FirstLine(a[1], i) /\ ports[i].addr = a
    BY DEF Found
  <1>2. PICK j \in 1..Len(ports) : FirstLine(b[1], j) /\ ports[j].addr = b
    BY DEF Found
  <1>3. ~ (i < j) /\ ~ (j < i) /\ Len(ports) \in Nat
    BY <1>1, <1>2 DEF FirstLine, TypeOK
  <1>4. QED
    BY <1>1, <1>2, <1>3

-----------------------------------------------------------------------------
(* Types.                                                                  *)

\* A call that looks up an address is about an open file and its rank.
LEMMA TargetType ==
  ASSUME TypeOK, LookupInv, NEW c \in Clients, pc[c] \in {"lookup", "scan", "forward"}
  PROVE  file[c] \in Hashes /\ tgt[c] = host(file[c]) /\ tgt[c] \in Ranks
  <1>1. file[c] \in Hashes /\ tgt[c] = host(file[c])
    BY DEF LookupInv, CacheInv, CallOk, TypeOK
  <1>2. QED
    BY <1>1, HostType, StartupAssumption

\* The end of a client keeps the types.
LEMMA CrashType ==
  ASSUME TypeOK, NEW c \in Clients, NEW w \in {"nofile", "noaddr", "noentry", "unreachable"},
         Crash(c, w), UNCHANGED <<serverVars, portsVars, held>>, wire' \subseteq wire
  PROVE  TypeOK'
  <1>1. address_cache' \in [Clients -> [Ranks -> Addrs \cup {None}]]
    BY DEF TypeOK, Crash, NoCache
  <1>2. streams' \in [Clients -> [Ranks -> Nat]]
    BY DEF TypeOK, Crash, NoStreams
  <1>3. UNCHANGED <<srv, inc, registered, exists, ports, lock, eof, held, since, opens>>
    BY DEF Crash, serverVars, portsVars
  <1>4. QED
    BY <1>1, <1>2, <1>3 DEF TypeOK, Crash

\* Every step keeps the types.
LEMMA TypeStep == IInv /\ Next => TypeOK'
  <1> SUFFICES ASSUME IInv, Next PROVE TypeOK'
    OBVIOUS
  <1>t. TypeOK /\ LockInv /\ LookupInv /\ WireInv /\ PortsInv
    BY DEF IInv
  <1>h. \A x \in Hashes : host(x) \in Ranks
    BY StartupAssumption, HostType
  <1> USE DEF serverVars, portsVars, callVars, lookupVars, clientVars
  <1>1. ASSUME NEW r \in Ranks, ServerStep(r) \/ ServerDies(r) \/ Relaunch(r) PROVE TypeOK'
    <2>1. CASE hvac_init_comm(r)
      BY <1>t, <2>1 DEF hvac_init_comm, Advance, TypeOK, Listening
    <2>2. CASE OpenPorts(r)
      BY <1>t, <2>2 DEF OpenPorts, Advance, TypeOK, Listening
    <2>3. CASE LockPorts(r)
      <3>1. Len(ports) \in Nat
        BY <1>t DEF TypeOK
      <3>2. QED
        BY <1>t, <2>3, <3>1 DEF LockPorts, Advance, TypeOK, Listening
    <2>4. CASE WriteLine(r)
      <3>1. ports' \in Seq(Lines)
        BY <1>t, <2>4, WriteAppends
      <3>2. QED
        BY <1>t, <2>4, <3>1 DEF WriteLine, Advance, TypeOK, Listening
    <2>5. CASE UnlockPorts(r)
      BY <1>t, <2>5 DEF UnlockPorts, Advance, TypeOK, Listening
    <2>6. CASE Register(r)
      <3>0. Len(RpcOrder) = 4
        BY DEF RpcOrder
      <3>1. registered[r] \in Nat /\ registered[r] + 1 \in 0..Len(RpcOrder)
        <4>1. registered[r] \in 0..Len(RpcOrder)
          BY <1>t DEF TypeOK
        <4>2. registered[r] < Len(RpcOrder)
          BY <1>t, <2>6 DEF Register, RegisterUpTo, LockInv
        <4>3. QED
          BY <3>0, <4>1, <4>2
      <3>2. QED
        BY <1>t, <2>6, <3>1 DEF Register, RegisterUpTo, TypeOK, Listening
    <2>7. CASE ServerDies(r)
      <3>1. 0 \in 0..Len(RpcOrder)
        BY DEF RpcOrder
      <3>2. QED
        BY <1>t, <2>7, <3>1 DEF ServerDies, TypeOK, Listening
    <2>8. CASE Relaunch(r)
      <3>1. inc[r] \in Nat /\ inc[r] + 1 \in 1..MaxInc
        BY <1>t, <2>8, StartupAssumption, SMTT(30) DEF Relaunch, TypeOK
      <3>2. QED
        BY <1>t, <2>8, <3>1 DEF Relaunch, Advance, TypeOK, Listening
    <2>9. QED
      BY <1>1, <2>1, <2>2, <2>3, <2>4, <2>5, <2>6, <2>7, <2>8 DEF ServerStep
  <1>2. ASSUME NEW c \in Clients, hvac_client_init(c) PROVE TypeOK'
    BY <1>t, <1>2 DEF hvac_client_init, Goto, TypeOK
  <1>3. ASSUME NEW c \in Clients, NEW x \in Hashes, OpenFile(c, x) PROVE TypeOK'
    <2>1. opens[c] + 1 \in 0..MaxOpens
      BY <1>t, <1>3, StartupAssumption, SMTT(30) DEF OpenFile, TypeOK
    <2>2. QED
      BY <1>t, <1>h, <1>3, <2>1 DEF OpenFile, Goto, TypeOK
  <1>4. ASSUME NEW c \in Clients, ReadFile(c) \/ CloseFile(c) PROVE TypeOK'
    <2>1. file[c] \in Hashes
      BY <1>t, <1>4 DEF ReadFile, UseFile, CloseFile, TypeOK
    <2>2. CASE ReadFile(c)
      BY <1>t, <1>h, <2>1, <2>2 DEF ReadFile, UseFile, Goto, TypeOK
    <2>3. CASE CloseFile(c)
      BY <1>t, <1>h, <2>1, <2>3 DEF CloseFile, UseFile, Goto, TypeOK
    <2>4. QED
      BY <1>4, <2>2, <2>3
  <1>5. ASSUME NEW c \in Clients, LookupCached(c) PROVE TypeOK'
    <2>1. address_cache[c][tgt[c]] \in Addrs \cup {None}
      BY <1>t, <1>5, TargetType, SMTT(30) DEF LookupCached, Goto, TypeOK
    <2>2. QED
      BY <1>t, <1>5, <2>1 DEF LookupCached, Goto, TypeOK
  <1>6. ASSUME NEW c \in Clients, LookupOpens(c) PROVE TypeOK'
    <2>0. tgt[c] \in Ranks /\ streams[c][tgt[c]] \in Nat
      BY <1>t, <1>6, TargetType DEF LookupOpens, Goto, TypeOK
    <2>1. streams' \in [Clients -> [Ranks -> Nat]]
      BY <1>t, <1>6, <2>0 DEF LookupOpens, TypeOK
    <2>2. QED
      BY <1>t, <1>6, <2>1 DEF LookupOpens, Goto, TypeOK
  <1>7. ASSUME NEW c \in Clients, LookupNoFile(c) \/ ScanEof(c) \/ ForwardFails(c) PROVE TypeOK'
    BY <1>t, <1>7, CrashType DEF LookupNoFile, ScanEof, ForwardFails
  <1>8. ASSUME NEW c \in Clients, ScanSkips(c) PROVE TypeOK'
    BY <1>t, <1>8, SMTT(30) DEF ScanSkips, Goto, TypeOK
  <1>9. ASSUME NEW c \in Clients, ScanFinds(c) PROVE TypeOK'
    <2>1. line[c] \in 1..Len(ports)
      BY <1>t, <1>9 DEF ScanFinds, ScanGives, Cached, Goto, LookupInv, CacheInv, CallOk, TypeOK
    <2>2. ports[line[c]].addr \in Addrs
      BY <1>t, <2>1 DEF PortsInv, Posted
    <2>3. address_cache' \in [Clients -> [Ranks -> Addrs \cup {None}]]
      BY <1>t, <1>9, <2>2 DEF ScanFinds, ScanGives, Cached, TypeOK
    <2>4. QED
      BY <1>t, <1>9, <2>2, <2>3 DEF ScanFinds, ScanGives, Cached, Goto, TypeOK
  <1>10. ASSUME NEW c \in Clients, HG_Forward(c) PROVE TypeOK'
    <2>1. op[c] \in {"open", "read", "close"} /\ opens[c] \in 1..MaxOpens /\ dest[c] \in Addrs
      BY <1>t, <1>10, StartupAssumption DEF HG_Forward, Goto, LookupInv, CacheInv, CallOk, TypeOK
    <2>2. wire' \subseteq Rpcs
      BY <1>t, <1>10, <2>1 DEF HG_Forward, TypeOK, Rpcs
    <2>3. QED
      BY <1>t, <1>10, <2>2 DEF HG_Forward, Goto, TypeOK
  <1>11. ASSUME NEW m \in wire, ServeRpc(m) PROVE TypeOK'
    <2>1. m \in Rpcs
      BY <1>t DEF TypeOK
    <2>2. m.c \in Clients /\ m.k \in 1..MaxOpens /\ m.addr \in Addrs /\ m.op \in {"open", "read", "close"}
      BY <2>1 DEF Rpcs
    <2>3. held' \subseteq [c: Clients, k: 1..MaxOpens, addr: Addrs]
      BY <1>t, <1>11, <2>2 DEF ServeRpc, TypeOK
    <2>4. wire' \subseteq Rpcs
      BY <1>t, <1>11 DEF ServeRpc, Arrives, TypeOK
    <2>5. QED
      BY <1>t, <1>11, <2>3, <2>4 DEF ServeRpc, TypeOK
  <1>12. ASSUME NEW m \in wire, UnknownRpc(m) \/ UnreachableRpc(m) PROVE TypeOK'
    <2>1. m.c \in Clients
      BY <1>t DEF TypeOK, Rpcs
    <2>2. PICK w \in {"noentry", "unreachable"} : FailRpc(m, w)
      BY <1>12 DEF UnknownRpc, UnreachableRpc
    <2>3. wire' \subseteq wire /\ UNCHANGED <<serverVars, portsVars, held>>
      BY <2>2 DEF FailRpc, Arrives
    <2>4. CASE Crash(m.c, w)
      BY <1>t, <2>1, <2>3, <2>4, CrashType
    <2>5. CASE UNCHANGED clientVars
      BY <1>t, <2>3, <2>5 DEF TypeOK
    <2>6. QED
      BY <2>2, <2>4, <2>5 DEF FailRpc
  <1>13. QED
    BY <1>1, <1>2, <1>3, <1>4, <1>5, <1>6, <1>7, <1>8, <1>9, <1>10, <1>11, <1>12 DEF Next, Lookup, Delivery

-----------------------------------------------------------------------------
(* Servers: the lock and the posted lines.                                 *)

ServerMoves(r) == ServerStep(r) \/ ServerDies(r) \/ Relaunch(r)

\* A step is one of a server, or leaves the servers and the file alone.
LEMMA ServerOrNot ==
  ASSUME Next
  PROVE  \/ \E r \in Ranks : ServerMoves(r)
         \/ UNCHANGED <<serverVars, portsVars>>
  BY DEF Next, ServerMoves, hvac_client_init, OpenFile, ReadFile, UseFile, CloseFile, Lookup, LookupCached,
         LookupOpens, LookupNoFile, ScanSkips, ScanFinds, ScanGives, Cached, ScanEof, HG_Forward, ForwardFails,
         Delivery, ServeRpc, FailRpc, UnknownRpc, UnreachableRpc, serverVars, portsVars

\* A step of a server leaves the clients and the RPCs in flight alone.
LEMMA ServerFrame ==
  ASSUME NEW r \in Ranks, ServerMoves(r)
  PROVE  UNCHANGED <<wire, clientVars>>
  BY DEF ServerMoves, ServerStep, hvac_init_comm, OpenPorts, LockPorts, WriteLine, UnlockPorts,
         Register, RegisterUpTo, ServerDies, Relaunch

\* Every step keeps LockInv.
LEMMA LockStep == IInv /\ Next => LockInv'
  <1> SUFFICES ASSUME IInv, Next PROVE LockInv'
    OBVIOUS
  <1>t. TypeOK /\ LockInv
    BY DEF IInv
  <1>l. Len(RpcOrder) = 4
    BY DEF RpcOrder
  <1>1. CASE UNCHANGED <<serverVars, portsVars>>
    BY <1>t, <1>1 DEF LockInv, serverVars, portsVars
  <1>2. ASSUME NEW r \in Ranks, ServerMoves(r) PROVE LockInv'
    <2> SUFFICES ASSUME NEW q \in Ranks
                 PROVE  /\ srv'[q] \in {"write", "unlock"} => lock' = q
                        /\ srv'[q] = "write" => eof'[q] = Len(ports')
                        /\ srv'[q] \in {"lock", "write"} \cup Listed => exists'
                        /\ srv'[q] \notin {"register", "up"} => registered'[q] = 0
                        /\ srv'[q] = "register" => registered'[q] < Len(RpcOrder)
                        /\ srv'[q] = "up" => registered'[q] = Len(RpcOrder)
      BY DEF LockInv
    <2> USE <1>t, NoneIsNone DEF LockInv, TypeOK, Listed, portsVars
    <2>1. CASE hvac_init_comm(r)
      BY <2>1 DEF hvac_init_comm, Advance
    <2>2. CASE OpenPorts(r)
      BY <2>2 DEF OpenPorts, Advance
    <2>3. CASE LockPorts(r)
      BY <2>3 DEF LockPorts, Advance
    <2>4. CASE WriteLine(r)
      BY <2>4 DEF WriteLine, Advance
    <2>5. CASE UnlockPorts(r)
      BY <2>5, <1>l DEF UnlockPorts, Advance
    <2>6. CASE Register(r)
      <3>1. CASE q # r
        BY <2>6, <3>1 DEF Register, RegisterUpTo
      <3>2. CASE q = r
        <4>1. registered[r] \in 0..4 /\ registered[r] < 4 /\ exists
          BY <2>6, <1>l DEF Register, RegisterUpTo
        <4>2. registered'[r] = registered[r] + 1
          BY <2>6 DEF Register, RegisterUpTo
        <4>3. srv'[r] = IF registered[r] + 1 = 4 THEN "up" ELSE "register"
          BY <2>6, <1>l DEF Register, RegisterUpTo
        <4>4. exists' = exists
          BY <2>6 DEF Register, RegisterUpTo
        <4>5. QED
          BY <1>l, <3>2, <4>1, <4>2, <4>3, <4>4
      <3>3. QED
        BY <3>1, <3>2
    <2>7. CASE ServerDies(r)
      BY <2>7 DEF ServerDies
    <2>8. CASE Relaunch(r)
      BY <2>8 DEF Relaunch, Advance
    <2>9. QED
      BY <1>2, <2>1, <2>2, <2>3, <2>4, <2>5, <2>6, <2>7, <2>8 DEF ServerMoves, ServerStep
  <1>3. QED
    BY <1>1, <1>2, ServerOrNot

\* An address that was posted stays posted.
LEMMA PostedStays ==
  ASSUME TypeOK, Next, NEW a, Posted(a)
  PROVE  Posted(a)'
  <1>a. a \in Addrs /\ a[1] \in Ranks /\ a[2] \in 1..MaxInc /\ inc[a[1]] \in Nat
    BY DEF Posted, Addrs, TypeOK
  <1>1. CASE UNCHANGED <<serverVars, portsVars>>
    BY <1>1 DEF Posted, serverVars
  <1>2. ASSUME NEW r \in Ranks, ServerMoves(r) PROVE Posted(a)'
    <2> USE <1>a DEF Posted, TypeOK, Listed
    <2>1. CASE hvac_init_comm(r) \/ OpenPorts(r) \/ LockPorts(r) \/ WriteLine(r) \/ UnlockPorts(r)
      BY <2>1, SMTT(30) DEF hvac_init_comm, OpenPorts, LockPorts, WriteLine, UnlockPorts, Advance
    <2>2. CASE Register(r) \/ ServerDies(r)
      BY <2>2, SMTT(30) DEF Register, RegisterUpTo, ServerDies
    <2>3. CASE Relaunch(r)
      BY <2>3 DEF Relaunch, Advance
    <2>4. QED
      BY <1>2, <2>1, <2>2, <2>3 DEF ServerMoves, ServerStep
  <1>3. QED
    BY <1>1, <1>2, ServerOrNot

\* Every step keeps PortsInv.
LEMMA PortsStep == IInv /\ Next => PortsInv'
  <1> SUFFICES ASSUME IInv, Next PROVE PortsInv'
    OBVIOUS
  <1>t. TypeOK /\ LockInv /\ PortsInv
    BY DEF IInv
  <1>g. /\ Len(ports') \in Nat /\ Len(ports) \in Nat /\ Len(ports) <= Len(ports')
        /\ \A i \in 1..Len(ports) : ports'[i] = ports[i]
    BY <1>t, PortsGrow
  <1>1. ASSUME NEW i \in 1..Len(ports)
        PROVE  Posted(ports[i].addr)' /\ ports'[i].addr[1] = ports'[i].rank
    <2>1. PICK a : a = ports[i].addr
      OBVIOUS
    <2>2. Posted(a) /\ a[1] = ports[i].rank
      BY <1>t, <2>1 DEF PortsInv
    <2>3. Posted(a)' /\ ports'[i].addr = a /\ ports'[i].rank = ports[i].rank
      BY <1>t, <1>g, <2>1, <2>2, PostedStays
    <2>4. QED
      BY <2>2, <2>3 DEF Posted
  <1>2. \A q \in Ranks : srv[q] \in Listed => \E i \in 1..Len(ports') : ports'[i].rank = q
    BY <1>t, <1>g DEF PortsInv
  <1>3. ASSUME NEW r \in Ranks, WriteLine(r) PROVE PortsInv'
    <2> DEFINE n == Len(ports) + 1
    <2>1. Len(ports') = n /\ ports'[n] = [rank |-> r, addr |-> <<r, inc[r]>>]
      BY <1>t, <1>3, WriteAppends
    <2>2. ports'[n].addr = <<r, inc[r]>> /\ ports'[n].rank = r
      BY <2>1
    <2>3. inc' = inc /\ srv' = [srv EXCEPT ![r] = "unlock"] /\ srv'[r] \in Listed
      BY <1>3, <1>t DEF WriteLine, Advance, TypeOK, Listed
    <2>4. \A i \in Nat : i = n => Posted(ports[i].addr)'
      <3>1. PICK a : a = <<r, inc[r]>>
        OBVIOUS
      <3>2. inc[r] \in 1..MaxInc
        BY <1>t DEF TypeOK
      <3>3. a \in Addrs /\ a[1] = r /\ a[2] = inc[r]
        BY <3>1, <3>2 DEF Addrs
      <3>4. a \in Addrs /\ a[2] <= inc'[a[1]] /\ srv'[a[1]] \in Listed \cup {"down"}
        BY <2>3, <3>2, <3>3
      <3>5. QED
        BY <2>2, <3>1, <3>4 DEF Posted
    <2>5. \A i \in 1..Len(ports') : i \in 1..Len(ports) \/ (i = n /\ i \in Nat)
      BY <1>g, <2>1
    <2>6. \A i \in 1..Len(ports') : Posted(ports[i].addr)' /\ ports'[i].addr[1] = ports'[i].rank
      BY <1>1, <2>2, <2>4, <2>5
    <2>7. ASSUME NEW q \in Ranks, srv'[q] \in Listed
          PROVE  \E i \in 1..Len(ports') : ports'[i].rank = q
      <3>1. CASE q = r
        BY <1>g, <2>1, <2>2, <3>1
      <3>2. CASE q # r
        BY <1>2, <1>t, <2>3, <2>7, <3>2 DEF TypeOK
      <3>3. QED
        BY <3>1, <3>2
    <2>8. QED
      BY <2>6, <2>7 DEF PortsInv
  <1>4. ASSUME ~ \E r \in Ranks : WriteLine(r) PROVE PortsInv'
    <2>1. ports' = ports
      BY <1>4, OthersKeepPorts
    <2>2. \A q \in Ranks : srv'[q] \in Listed => srv[q] \in Listed
      <3>1. CASE UNCHANGED <<serverVars, portsVars>>
        BY <3>1 DEF serverVars
      <3>2. ASSUME NEW r \in Ranks, ServerMoves(r), NEW q \in Ranks, srv'[q] \in Listed
            PROVE  srv[q] \in Listed
        <4>1. CASE hvac_init_comm(r) \/ OpenPorts(r) \/ LockPorts(r) \/ UnlockPorts(r)
          BY <1>t, <3>2, <4>1 DEF hvac_init_comm, OpenPorts, LockPorts, UnlockPorts, Advance, TypeOK, Listed
        <4>2. CASE Register(r) \/ ServerDies(r) \/ Relaunch(r)
          BY <1>t, <3>2, <4>2 DEF Register, RegisterUpTo, ServerDies, Relaunch, Advance, TypeOK, Listed
        <4>3. QED
          BY <1>4, <3>2, <4>1, <4>2 DEF ServerMoves, ServerStep
      <3>3. QED
        BY <3>1, <3>2, ServerOrNot
    <2>3. QED
      BY <1>1, <1>2, <2>1, <2>2 DEF PortsInv
  <1>5. QED
    BY <1>3, <1>4

-----------------------------------------------------------------------------
(* Clients: the cache, calls in progress and streams.                      *)

ClientMoves(c) ==
    \/ hvac_client_init(c)
    \/ \E x \in Hashes : OpenFile(c, x)
    \/ ReadFile(c)
    \/ CloseFile(c)
    \/ Lookup(c)
    \/ HG_Forward(c)
    \/ ForwardFails(c)

\* The step does nothing to client d.
Same(d) ==
    UNCHANGED <<pc[d], since[d], op[d], file[d], opens[d], tgt[d], line[d], dest[d],
                address_cache[d], streams[d], crash[d]>>

\* Who takes the step.
LEMMA WhoMoves ==
  ASSUME Next
  PROVE  \/ \E r \in Ranks : ServerMoves(r)
         \/ \E c \in Clients : ClientMoves(c)
         \/ \E m \in wire : Delivery(m)
  BY DEF Next, ServerMoves, ClientMoves

\* The end of a client does nothing to another.
LEMMA CrashOthers ==
  ASSUME TypeOK, NEW c \in Clients, NEW d \in Clients, d # c, NEW w, Crash(c, w)
  PROVE  Same(d)
  BY DEF TypeOK, Crash, Same

\* A step of one client does nothing to another.
LEMMA OtherClients ==
  ASSUME TypeOK, NEW c \in Clients, NEW d \in Clients, d # c, ClientMoves(c)
  PROVE  Same(d)
  <1> USE DEF callVars, lookupVars, Goto, Same, TypeOK
  <1>1. CASE hvac_client_init(c)
    BY <1>1 DEF hvac_client_init
  <1>2. ASSUME NEW x \in Hashes, OpenFile(c, x) PROVE Same(d)
    BY <1>2 DEF OpenFile
  <1>3. CASE ReadFile(c)
    BY <1>3 DEF ReadFile, UseFile
  <1>4. CASE CloseFile(c)
    BY <1>4 DEF CloseFile, UseFile
  <1>5. CASE LookupCached(c) \/ LookupOpens(c)
    BY <1>5 DEF LookupCached, LookupOpens
  <1>6. CASE LookupNoFile(c) \/ ScanEof(c) \/ ForwardFails(c)
    BY <1>6, CrashOthers DEF LookupNoFile, ScanEof, ForwardFails
  <1>7. CASE ScanSkips(c) \/ ScanFinds(c)
    BY <1>7 DEF ScanSkips, ScanFinds, ScanGives, Cached
  <1>8. CASE HG_Forward(c)
    BY <1>8 DEF HG_Forward
  <1>9. QED
    BY <1>1, <1>2, <1>3, <1>4, <1>5, <1>6, <1>7, <1>8 DEF ClientMoves, Lookup

\* Nor does a delivery to one client, nor a step of a server.
LEMMA DeliveryOthers ==
  ASSUME TypeOK, NEW m \in wire, Delivery(m), NEW d \in Clients, d # m.c
  PROVE  Same(d)
  <1>m. m.c \in Clients
    BY DEF TypeOK, Rpcs
  <1>1. CASE ServeRpc(m)
    BY <1>1, <1>m DEF ServeRpc, TypeOK, Same, callVars, lookupVars
  <1>2. ASSUME NEW w, FailRpc(m, w) PROVE Same(d)
    <2>1. CASE UNCHANGED clientVars
      BY <2>1 DEF Same, clientVars, callVars, lookupVars
    <2>2. CASE Crash(m.c, w)
      BY <1>m, <2>2, CrashOthers
    <2>3. QED
      BY <1>2, <2>1, <2>2 DEF FailRpc
  <1>3. QED
    BY <1>1, <1>2 DEF Delivery, UnknownRpc, UnreachableRpc

LEMMA ServerSame ==
  ASSUME NEW r \in Ranks, ServerMoves(r), NEW d \in Clients
  PROVE  Same(d)
  BY ServerFrame DEF Same, clientVars, callVars, lookupVars

\* A client that does not move keeps what its call has established, whatever is
\* appended to the file.
LEMMA CallFrame ==
  ASSUME TypeOK, LockInv, LookupInv, Next, NEW d \in Clients, Same(d)
  PROVE  CallOk(d)'
  <1>1. CallOk(d)
    BY DEF LookupInv
  <1>2. /\ Len(ports') \in Nat /\ Len(ports) \in Nat /\ Len(ports) <= Len(ports')
        /\ \A i \in 1..Len(ports) : ports'[i] = ports[i]
    BY PortsGrow
  <1>3. line[d] \in Nat
    BY DEF TypeOK
  <1>4. line[d] \in 1..(Len(ports) + 1) =>
          /\ line[d] \in 1..(Len(ports') + 1)
          /\ \A j \in 1..(line[d] - 1) : ports'[j] = ports[j]
    BY <1>2, <1>3
  <1>5. QED
    BY <1>1, <1>4 DEF CallOk, Same

\* An idle client with a file has opened one.
LEMMA HomeOpens ==
  ASSUME HomeInv, NEW c \in Clients, pc[c] = "idle", file[c] # None
  PROVE  opens[c] > 0
  BY DEF HomeInv, Opened

\* What is left of a client that ended is as CallOk says.
LEMMA CrashCallOk ==
  ASSUME TypeOK, NEW c \in Clients, NEW w \in {"nofile", "noaddr", "noentry", "unreachable"}, Crash(c, w)
  PROVE  CallOk(c)'
  BY DEF Crash, CallOk, TypeOK

\* Every step keeps CallOk of the client that takes it ...
LEMMA MoverCallOk ==
  ASSUME IInv, NEW c \in Clients, ClientMoves(c)
  PROVE  CallOk(c)'
  <1>t. TypeOK /\ LookupInv /\ CallOk(c) /\ Len(ports) \in Nat
    BY DEF IInv, LookupInv, TypeOK
  <1> USE <1>t DEF callVars, lookupVars, portsVars, Goto, CallOk, TypeOK
  <1>1. CASE hvac_client_init(c)
    BY <1>1 DEF hvac_client_init
  <1>2. ASSUME NEW x \in Hashes, OpenFile(c, x) PROVE CallOk(c)'
    <2>1. x # None
      BY StartupAssumption, NoneIsNone
    <2>2. opens'[c] = opens[c] + 1 /\ opens[c] \in Nat
      BY <1>2, StartupAssumption DEF OpenFile
    <2>3. QED
      BY <1>2, <2>1, <2>2 DEF OpenFile
  <1>3. CASE ReadFile(c) \/ CloseFile(c)
    <2>0. opens[c] > 0
      BY <1>3, HomeOpens DEF ReadFile, UseFile, CloseFile, IInv
    <2>1. CASE ReadFile(c)
      BY <2>0, <2>1 DEF ReadFile, UseFile
    <2>2. CASE CloseFile(c)
      BY <2>0, <2>2 DEF CloseFile, UseFile
    <2>3. QED
      BY <1>3, <2>1, <2>2
  <1>4. CASE LookupCached(c)
    BY <1>4 DEF LookupCached
  <1>5. CASE LookupOpens(c)
    <2>1. line'[c] = 1 /\ 1 \in 1..(Len(ports') + 1)
      BY <1>5 DEF LookupOpens
    <2>2. QED
      BY <1>5, <2>1 DEF LookupOpens
  <1>6. CASE LookupNoFile(c) \/ ScanEof(c) \/ ForwardFails(c)
    BY <1>6, CrashCallOk DEF LookupNoFile, ScanEof, ForwardFails
  <1>7. CASE ScanSkips(c)
    <2>1. line'[c] = line[c] + 1 /\ line[c] \in 1..Len(ports) /\ ports' = ports
      BY <1>7 DEF ScanSkips
    <2>2. \A j \in 1..(line'[c] - 1) : ports[j].rank # tgt[c]
      BY <1>7, <2>1 DEF ScanSkips
    <2>3. QED
      BY <1>7, <2>1, <2>2 DEF ScanSkips
  <1>8. CASE ScanFinds(c)
    <2>1. tgt[c] \in Ranks /\ line[c] \in 1..Len(ports)
      BY <1>8, TargetType, SMTT(30) DEF ScanFinds, ScanGives, Cached
    <2>2. address_cache'[c][tgt[c]] = ports[line[c]].addr /\ ports[line[c]].addr \in Addrs
      BY <1>8, <2>1 DEF ScanFinds, ScanGives, Cached, IInv, PortsInv, Posted
    <2>3. QED
      BY <1>8, <2>2, NoneIsNone DEF ScanFinds, ScanGives, Cached
  <1>9. CASE HG_Forward(c)
    BY <1>9 DEF HG_Forward
  <1>10. QED
    BY <1>1, <1>2, <1>3, <1>4, <1>5, <1>6, <1>7, <1>8, <1>9 DEF ClientMoves, Lookup

\* ... or whose RPC is delivered.
LEMMA DeliveryCallOk ==
  ASSUME IInv, NEW m \in wire, Delivery(m)
  PROVE  CallOk(m.c)'
  <1>t. TypeOK /\ WireInv /\ m.c \in Clients
    BY DEF IInv, TypeOK, Rpcs
  <1>c. CallOk(m.c)
    BY <1>t DEF IInv, LookupInv
  <1>1. CASE ServeRpc(m)
    <2>1. m.op # "close" => pc[m.c] = "wait"
      BY <1>t DEF WireInv
    <2>2. QED
      BY <1>1, <1>t, <1>c, <2>1 DEF ServeRpc, CallOk, TypeOK, portsVars, callVars, lookupVars
  <1>2. ASSUME NEW w \in {"noentry", "unreachable"}, FailRpc(m, w) PROVE CallOk(m.c)'
    <2>1. CASE UNCHANGED clientVars
      BY <1>2, <1>c, <2>1 DEF FailRpc, CallOk, clientVars, portsVars, callVars, lookupVars
    <2>2. CASE Crash(m.c, w)
      BY <1>t, <2>2, CrashCallOk
    <2>3. QED
      BY <1>2, <2>1, <2>2 DEF FailRpc
  <1>3. QED
    BY <1>1, <1>2 DEF Delivery, UnknownRpc, UnreachableRpc

\* The address a scan finds is the rank's, from its first line.
LEMMA ScanFindsFound ==
  ASSUME IInv, NEW c \in Clients, ScanFinds(c)
  PROVE  /\ tgt[c] \in Ranks
         /\ Found(ports[line[c]].addr) /\ ports[line[c]].addr[1] = tgt[c]
         /\ ports[line[c]].addr \in Addrs
         /\ address_cache[c][tgt[c]] = None
         /\ address_cache' = [address_cache EXCEPT ![c][tgt[c]] = ports[line[c]].addr]
  <1>1. TypeOK /\ CallOk(c) /\ LookupInv /\ PortsInv
    BY DEF IInv, LookupInv
  <1>2. tgt[c] \in Ranks /\ line[c] \in 1..Len(ports)
    BY <1>1, TargetType, SMTT(30) DEF ScanFinds, ScanGives, Cached, Goto, CallOk, TypeOK
  <1>3. ports[line[c]].addr[1] = tgt[c] /\ ports[line[c]].addr \in Addrs
    BY <1>1, <1>2 DEF ScanFinds, ScanGives, Cached, PortsInv, Posted
  <1>4. FirstLine(tgt[c], line[c])
    BY <1>1, <1>2 DEF ScanFinds, ScanGives, Cached, Goto, CallOk, FirstLine
  <1>5. QED
    BY <1>1, <1>2, <1>3, <1>4 DEF Found, ScanFinds, ScanGives, Cached, Goto, CallOk

\* A step adds at most one address to a cache, or empties it.
LEMMA CacheStep ==
  ASSUME IInv, Next, NEW c \in Clients, NEW r \in Ranks
  PROVE  \/ address_cache'[c][r] \in {address_cache[c][r], None}
         \/ /\ ScanFinds(c) /\ r = tgt[c] /\ address_cache[c][r] = None
            /\ address_cache'[c][r] = ports[line[c]].addr
  <1>t. TypeOK
    BY DEF IInv
  <1>1. CASE \E q \in Ranks : ServerMoves(q)
    BY <1>1, ServerSame DEF Same
  <1>2. ASSUME NEW d \in Clients, ClientMoves(d), d # c
        PROVE  address_cache'[c][r] = address_cache[c][r]
    BY <1>t, <1>2, OtherClients DEF Same
  <1>3. ASSUME NEW m \in wire, Delivery(m)
        PROVE  address_cache'[c][r] \in {address_cache[c][r], None}
    <2>1. CASE UNCHANGED address_cache
      BY <2>1
    <2>2. ASSUME NEW w, Crash(m.c, w) PROVE address_cache'[c][r] \in {address_cache[c][r], None}
      BY <1>t, <2>2 DEF Crash, NoCache, TypeOK
    <2>3. QED
      BY <1>3, <2>1, <2>2 DEF Delivery, ServeRpc, UnknownRpc, UnreachableRpc, FailRpc, clientVars,
         lookupVars
  <1>4. CASE ScanFinds(c)
    BY <1>4, <1>t, ScanFindsFound DEF TypeOK
  <1>5. CASE ClientMoves(c) /\ ~ScanFinds(c)
    BY <1>5, <1>t DEF ClientMoves, hvac_client_init, OpenFile, ReadFile, UseFile, CloseFile, Lookup,
       LookupCached, LookupOpens, LookupNoFile, ScanSkips, ScanEof, HG_Forward, ForwardFails,
       Crash, NoCache, TypeOK, lookupVars
  <1>6. QED
    BY <1>1, <1>2, <1>3, <1>4, <1>5, WhoMoves

\* Every step keeps LookupInv.
LEMMA LookupStep == IInv /\ Next => LookupInv'
  <1> SUFFICES ASSUME IInv, Next PROVE LookupInv'
    OBVIOUS
  <1>t. TypeOK /\ LockInv /\ LookupInv /\ CacheInv
    BY DEF IInv, LookupInv
  <1>1. ASSUME NEW c \in Clients PROVE CallOk(c)'
    <2>1. ASSUME NEW r \in Ranks, ServerMoves(r) PROVE CallOk(c)'
      BY <1>t, <2>1, ServerSame, CallFrame
    <2>2. ASSUME NEW d \in Clients, ClientMoves(d) PROVE CallOk(c)'
      BY <1>t, <2>2, OtherClients, CallFrame, MoverCallOk
    <2>3. ASSUME NEW m \in wire, Delivery(m) PROVE CallOk(c)'
      BY <1>t, <2>3, DeliveryOthers, CallFrame, DeliveryCallOk
    <2>4. QED
      BY <2>1, <2>2, <2>3, WhoMoves
  <1>2. ASSUME NEW c \in Clients, NEW r \in Ranks, address_cache'[c][r] # None
        PROVE  Found(address_cache[c][r])' /\ address_cache'[c][r][1] = r
    <2>1. PICK a : a = address_cache'[c][r]
      OBVIOUS
    <2>2. Found(a) /\ a[1] = r
      BY <1>t, <1>2, <2>1, CacheStep, ScanFindsFound DEF CacheInv
    <2>3. Found(a)'
      BY <1>t, <2>2, FoundStays
    <2>4. QED
      BY <2>1, <2>2, <2>3 DEF Found, FirstLine
  <1>3. QED
    BY <1>1, <1>2 DEF LookupInv, CacheInv

\* Every step keeps StreamInv.
LEMMA StreamStep == IInv /\ Next => StreamInv'
  <1> SUFFICES ASSUME IInv, Next, NEW c \in Clients, NEW r \in Ranks
               PROVE  /\ streams'[c][r] <= 1
                      /\ streams'[c][r] = 1 =>
                           address_cache'[c][r] # None \/ (pc'[c] = "scan" /\ tgt'[c] = r)
    BY DEF StreamInv
  <1>t. TypeOK /\ StreamInv /\ LookupInv /\ CallOk(c) /\ streams[c][r] \in Nat /\ WireInv
    BY DEF IInv, TypeOK, LookupInv
  <1>f. ASSUME Same(c)
        PROVE  /\ streams'[c][r] <= 1
               /\ streams'[c][r] = 1 =>
                    address_cache'[c][r] # None \/ (pc'[c] = "scan" /\ tgt'[c] = r)
    BY <1>t, <1>f DEF Same, StreamInv
  <1>w. ASSUME NEW w, Crash(c, w) PROVE streams'[c][r] = 0
    BY <1>t, <1>w DEF Crash, NoStreams, TypeOK
  <1>1. ASSUME NEW q \in Ranks, ServerMoves(q) PROVE Same(c)
    BY <1>1, ServerSame
  <1>2. ASSUME NEW d \in Clients, ClientMoves(d), d # c PROVE Same(c)
    BY <1>t, <1>2, OtherClients
  <1>3. CASE ClientMoves(c)
    <2> USE <1>t DEF StreamInv, TypeOK, Goto, callVars, lookupVars
    <2>1. CASE hvac_client_init(c) \/ ReadFile(c) \/ CloseFile(c) \/ LookupCached(c)
      BY <2>1 DEF hvac_client_init, ReadFile, UseFile, CloseFile, LookupCached
    <2>2. CASE (\E x \in Hashes : OpenFile(c, x)) \/ HG_Forward(c) \/ ScanSkips(c)
      BY <2>2 DEF OpenFile, HG_Forward, ScanSkips
    <2>3. CASE LookupOpens(c)
      <3>1. tgt[c] \in Ranks
        BY <2>3, TargetType DEF LookupOpens
      <3>2. streams'[c][r] = IF r = tgt[c] THEN streams[c][r] + 1 ELSE streams[c][r]
        BY <2>3, <3>1, SMTT(30) DEF LookupOpens
      <3>3. ASSUME r = tgt[c] PROVE streams[c][r] = 0
        <4>1. pc[c] = "lookup" /\ address_cache[c][r] = None
          BY <2>3, <3>3 DEF LookupOpens
        <4>2. streams[c][r] <= 1 /\ streams[c][r] # 1
          BY <4>1
        <4>3. QED
          BY <4>2, SMTT(30)
      <3>4. QED
        BY <2>3, <3>2, <3>3 DEF LookupOpens
    <2>4. CASE LookupNoFile(c) \/ ScanEof(c) \/ ForwardFails(c)
      BY <2>4, <1>w DEF LookupNoFile, ScanEof, ForwardFails
    <2>5. CASE ScanFinds(c)
      <3>1. address_cache'[c][r] = IF r = tgt[c] THEN ports[line[c]].addr ELSE address_cache[c][r]
        BY <2>5, ScanFindsFound, SMTT(30)
      <3>2. r = tgt[c] => address_cache'[c][r] # None
        BY <2>5, <3>1, ScanFindsFound, NoneIsNone
      <3>3. QED
        BY <2>5, <3>1, <3>2 DEF ScanFinds, ScanGives, Cached
    <2>6. QED
      BY <1>3, <2>1, <2>2, <2>3, <2>4, <2>5 DEF ClientMoves, Lookup
  <1>4. ASSUME NEW m \in wire, Delivery(m)
        PROVE  /\ streams'[c][r] <= 1
               /\ streams'[c][r] = 1 =>
                    address_cache'[c][r] # None \/ (pc'[c] = "scan" /\ tgt'[c] = r)
    <2>1. CASE ServeRpc(m)
      <3>1. pc'[c] = "scan" <=> pc[c] = "scan"
        BY <1>t, <2>1 DEF ServeRpc, WireInv, TypeOK
      <3>2. QED
        BY <1>t, <2>1, <3>1 DEF ServeRpc, StreamInv, callVars, lookupVars
    <2>2. CASE c # m.c
      BY <1>t, <1>f, <1>4, <2>2, DeliveryOthers
    <2>3. CASE UNCHANGED clientVars
      BY <1>f, <2>3 DEF Same, clientVars, callVars, lookupVars
    <2>4. ASSUME NEW w, Crash(c, w)
          PROVE  streams'[c][r] = 0
      BY <2>4, <1>w
    <2>5. QED
      BY <1>4, <2>1, <2>2, <2>3, <2>4 DEF Delivery, UnknownRpc, UnreachableRpc, FailRpc
  <1>5. QED
    BY <1>f, <1>1, <1>2, <1>3, <1>4, WhoMoves

-----------------------------------------------------------------------------
(* Descriptors at the servers and RPCs in flight.                          *)

\* A step of a client leaves servers, file and descriptors alone and sends at most
\* one RPC.
LEMMA ClientFrame ==
  ASSUME NEW c \in Clients, ClientMoves(c)
  PROVE  /\ UNCHANGED <<srv, inc, registered, eof, exists, ports, lock, held>>
         /\ wire' = wire \/ HG_Forward(c)
  BY DEF ClientMoves, hvac_client_init, OpenFile, ReadFile, UseFile, CloseFile, Lookup, LookupCached,
         LookupOpens, LookupNoFile, ScanSkips, ScanFinds, ScanGives, Cached, ScanEof, HG_Forward, ForwardFails,
         serverVars, portsVars

\* Nor does a delivery change servers or file; it takes one RPC off the wire.
LEMMA DeliveryFrame ==
  ASSUME NEW m \in wire, Delivery(m)
  PROVE  /\ UNCHANGED <<srv, inc, registered, eof, exists, ports, lock>>
         /\ wire' = wire \ {m}
  BY DEF Delivery, ServeRpc, UnknownRpc, UnreachableRpc, FailRpc, Arrives, serverVars, portsVars

\* A process that a look-up finds does not come to life again.
LEMMA AliveBefore ==
  ASSUME IInv, Next, NEW a, Found(a), Alive(a)'
  PROVE  Alive(a)
  <1>t. TypeOK /\ PortsInv
    BY DEF IInv
  <1>p. Posted(a)
    BY <1>t, FoundPosted
  <1>a. a[1] \in Ranks /\ a[2] \in 1..MaxInc /\ inc[a[1]] \in Nat
    BY <1>p, <1>t DEF Posted, Addrs, TypeOK
  <1>1. CASE UNCHANGED <<serverVars, portsVars>>
    BY <1>1 DEF Alive, serverVars
  <1>2. ASSUME NEW r \in Ranks, ServerMoves(r) PROVE Alive(a)
    <2> USE <1>t, <1>p, <1>a DEF Alive, Listening, TypeOK, Posted, Listed
    <2>1. CASE hvac_init_comm(r)
      BY <2>1 DEF hvac_init_comm, Advance
    <2>2. CASE OpenPorts(r) \/ LockPorts(r) \/ WriteLine(r) \/ UnlockPorts(r)
      BY <2>2 DEF OpenPorts, LockPorts, WriteLine, UnlockPorts, Advance
    <2>3. CASE Register(r) \/ ServerDies(r)
      BY <2>3 DEF Register, RegisterUpTo, ServerDies
    <2>4. CASE Relaunch(r)
      BY <2>4 DEF Relaunch, Advance
    <2>5. QED
      BY <1>2, <2>1, <2>2, <2>3, <2>4 DEF ServerMoves, ServerStep
  <1>3. QED
    BY <1>1, <1>2, ServerOrNot

\* A step of a server keeps the descriptors of the processes that go on.
LEMMA ServerKeepsHeld ==
  ASSUME TypeOK, NEW r \in Ranks, ServerMoves(r)
  PROVE  /\ held' \subseteq held
         /\ \A e \in held : Alive(e.addr)' => e \in held'
  <1>1. CASE ServerDies(r)
    <2>1. held' = {e \in held : e.addr # <<r, inc[r]>>} /\ srv'[r] = "down"
      BY <1>1 DEF ServerDies, TypeOK
    <2>2. \A e \in held : e.addr = <<r, inc[r]>> => e.addr[1] = r
      OBVIOUS
    <2>3. QED
      BY <2>1, <2>2 DEF Alive, Listening
  <1>2. CASE ~ServerDies(r)
    BY <1>2 DEF ServerMoves, ServerStep, hvac_init_comm, OpenPorts, LockPorts, WriteLine, UnlockPorts,
         Register, RegisterUpTo, Relaunch
  <1>3. QED
    BY <1>1, <1>2

\* An address is a rank and a launch.
LEMMA AddrParts ==
  ASSUME NEW a \in Addrs
  PROVE  a[1] \in Ranks /\ a[2] \in 1..MaxInc /\ a = <<a[1], a[2]>>
  BY DEF Addrs

\* Descriptors that survive a step of a server are those of processes that do.
LEMMA ServerDropsHeld ==
  ASSUME TypeOK, HeldInv, NEW r \in Ranks, ServerMoves(r), NEW e \in held'
  PROVE  Alive(e.addr)'
  <1>1. e \in held /\ Alive(e.addr)
    BY ServerKeepsHeld DEF HeldInv
  <1>2. PICK a : a = e.addr
    OBVIOUS
  <1>3. a \in Addrs /\ a[1] \in Ranks /\ a = <<a[1], a[2]>> /\ Alive(a)
    BY <1>1, <1>2, AddrParts DEF TypeOK
  <1> USE <1>3 DEF Alive, Listening, TypeOK
  <1>i. CASE hvac_init_comm(r)
    BY <1>2, <1>i DEF hvac_init_comm, Advance
  <1>o. CASE OpenPorts(r) \/ LockPorts(r) \/ WriteLine(r)
    BY <1>2, <1>o, SMTT(30) DEF OpenPorts, LockPorts, WriteLine, Advance
  <1>u. CASE UnlockPorts(r)
    BY <1>2, <1>u DEF UnlockPorts, Advance
  <1>4. CASE Register(r)
    BY <1>2, <1>4 DEF Register, RegisterUpTo
  <1>5. CASE ServerDies(r)
    <2>1. a # <<r, inc[r]>>
      BY <1>2, <1>5 DEF ServerDies
    <2>2. a[1] # r
      BY <2>1
    <2>3. QED
      BY <1>2, <1>5, <2>2 DEF ServerDies
  <1>6. CASE Relaunch(r)
    BY <1>2, <1>6 DEF Relaunch, Advance
  <1>7. QED
    BY <1>i, <1>o, <1>u, <1>4, <1>5, <1>6 DEF ServerMoves, ServerStep

\* An RPC in flight has its types.
LEMMA RpcType ==
  ASSUME TypeOK, NEW m \in wire
  PROVE  /\ m.c \in Clients /\ m.k \in 1..MaxOpens /\ m.k \in Nat /\ m.addr \in Addrs
         /\ m.op \in {"open", "read", "close"}
         /\ m = [c |-> m.c, k |-> m.k, op |-> m.op, addr |-> m.addr]
  <1>1. m \in Rpcs
    BY DEF TypeOK
  <1>2. QED
    BY <1>1, StartupAssumption DEF Rpcs

\* So has a descriptor.
LEMMA HeldType ==
  ASSUME TypeOK, NEW e \in held
  PROVE  e.c \in Clients /\ e.k \in 1..MaxOpens /\ e.k \in Nat /\ e.addr \in Addrs
  <1>1. e \in [c: Clients, k: 1..MaxOpens, addr: Addrs]
    BY DEF TypeOK
  <1>2. QED
    BY <1>1, StartupAssumption

\* The home of an open file is what look-ups find.
LEMMA HomeFound ==
  ASSUME IInv, NEW c \in Clients, file[c] # None, Home(c) # None
  PROVE  Found(Home(c)) /\ Home(c) \in Addrs
  <1>1. TypeOK /\ CacheInv /\ PortsInv
    BY DEF IInv, LookupInv
  <1>2. host(file[c]) \in Ranks
    BY <1>1, HostType, StartupAssumption DEF TypeOK
  <1>3. QED
    BY <1>1, <1>2 DEF CacheInv, Home, TypeOK

\* Every step keeps HomeInv.
LEMMA HomeStep == IInv /\ Next => HomeInv'
  <1> SUFFICES ASSUME IInv, Next, NEW d \in Clients, Opened(d)', NEW a, a = Home(d)'
               PROVE  /\ opens'[d] > 0
                      /\ a # None
                      /\ Alive(a)' => [c |-> d, k |-> opens'[d], addr |-> a] \in held'
    BY DEF HomeInv, Home, Alive
  <1>t. TypeOK /\ LookupInv /\ HomeInv /\ WireInv /\ CallOk(d)
    BY DEF IInv, LookupInv
  <1>f. file'[d] # None
    BY DEF Opened
  <1>1. ASSUME NEW r \in Ranks, ServerMoves(r)
        PROVE  /\ opens'[d] > 0 /\ a # None
               /\ Alive(a)' => [c |-> d, k |-> opens'[d], addr |-> a] \in held'
    <2>1. Opened(d) /\ a = Home(d) /\ opens'[d] = opens[d]
      BY <1>1, ServerFrame DEF Opened, Home, clientVars, callVars, lookupVars
    <2>2. opens[d] > 0 /\ a # None /\ (Alive(a) => [c |-> d, k |-> opens[d], addr |-> a] \in held)
      BY <1>t, <2>1 DEF HomeInv
    <2>3. Alive(a)' => Alive(a)
      BY <2>1, <2>2, HomeFound, AliveBefore DEF Opened
    <2>4. QED
      BY <1>t, <1>1, <2>1, <2>2, <2>3, ServerKeepsHeld
  <1>k. ASSUME Opened(d), a = Home(d), opens'[d] = opens[d], UNCHANGED <<srv, inc>>,
               [c |-> d, k |-> opens[d], addr |-> a] \in held =>
                  [c |-> d, k |-> opens[d], addr |-> a] \in held'
        PROVE  /\ opens'[d] > 0 /\ a # None
               /\ Alive(a)' => [c |-> d, k |-> opens'[d], addr |-> a] \in held'
    BY <1>t, <1>k DEF HomeInv, Alive
  <1>2. ASSUME NEW c \in Clients, ClientMoves(c), c # d
        PROVE  Opened(d) /\ a = Home(d) /\ opens'[d] = opens[d] /\ UNCHANGED <<srv, inc, held>>
    <2>1. Same(d) /\ wire \subseteq wire' /\ UNCHANGED <<srv, inc, held>>
      BY <1>t, <1>2, OtherClients, ClientFrame DEF HG_Forward
    <2>2. QED
      BY <2>1 DEF Same, Opened, Home
  <1>3. CASE ClientMoves(d)
    <2>0. UNCHANGED <<srv, inc, held>>
      BY <1>3, ClientFrame
    <2>1. ASSUME hvac_client_init(d) \/ (\E x \in Hashes : OpenFile(d, x)) PROVE FALSE
      BY <1>t, <1>f, <2>1 DEF hvac_client_init, OpenFile, Goto, Opened, CallOk, TypeOK, callVars
    <2>2. ASSUME LookupNoFile(d) \/ ScanEof(d) \/ ForwardFails(d) PROVE FALSE
      BY <1>t, <1>f, <2>2 DEF LookupNoFile, ScanEof, ForwardFails, Crash, TypeOK
    <2>3. CASE ReadFile(d) \/ CloseFile(d)
      <3>1. Opened(d) /\ a = Home(d) /\ opens'[d] = opens[d]
        BY <2>3 DEF ReadFile, UseFile, CloseFile, Goto, Opened, Home, lookupVars
      <3>2. QED
        BY <1>k, <2>0, <3>1
    <2>4. CASE LookupCached(d) \/ LookupOpens(d) \/ ScanSkips(d)
      <3>1. Opened(d) /\ a = Home(d) /\ opens'[d] = opens[d]
        BY <1>t, <2>4 DEF LookupCached, LookupOpens, ScanSkips, Goto, Opened, Home, callVars, TypeOK
      <3>2. QED
        BY <1>k, <2>0, <3>1
    <2>5. ASSUME ScanFinds(d) PROVE FALSE
      <3>1. Opened(d)
        BY <1>t, <2>5 DEF ScanFinds, ScanGives, Cached, Goto, Opened, callVars, TypeOK
      <3>2. Home(d) = None
        BY <1>t, <2>5 DEF ScanFinds, ScanGives, Cached, Goto, CallOk, Home
      <3>3. QED
        BY <1>t, <3>1, <3>2 DEF HomeInv
    <2>6. CASE HG_Forward(d)
      <3>1. op[d] # "close"
        BY <1>t, <1>f, <2>6 DEF HG_Forward, TypeOK
      <3>2. op[d] # "open"
        <4>1. ASSUME op[d] = "open" PROVE FALSE
          <5>1. [c |-> d, k |-> opens[d], op |-> "open", addr |-> dest[d]] \in wire'
            BY <2>6, <4>1 DEF HG_Forward
          <5>2. pc'[d] = "wait" /\ opens' = opens
            BY <1>t, <2>6, <4>1 DEF HG_Forward, Goto, TypeOK
          <5>3. QED
            BY <5>1, <5>2 DEF Opened
        <4>2. QED
          BY <4>1
      <3>3. Opened(d)
        BY <1>t, <2>6, <3>1, <3>2 DEF HG_Forward, Goto, Opened, CallOk
      <3>4. a = Home(d) /\ opens'[d] = opens[d]
        BY <1>t, <2>6, <3>1 DEF HG_Forward, Home, TypeOK
      <3>5. QED
        BY <1>k, <2>0, <3>3, <3>4
    <2>7. QED
      BY <1>3, <2>1, <2>2, <2>3, <2>4, <2>5, <2>6 DEF ClientMoves, Lookup
  <1>4. ASSUME NEW m \in wire, Delivery(m)
        PROVE  /\ opens'[d] > 0 /\ a # None
               /\ Alive(a)' => [c |-> d, k |-> opens'[d], addr |-> a] \in held'
    <2>0. UNCHANGED <<srv, inc>> /\ wire' = wire \ {m}
      BY <1>4, DeliveryFrame
    <2>m. m.c \in Clients /\ m.k \in Nat /\ m.op \in {"open", "read", "close"} /\ m.addr \in Addrs
      BY <1>t, RpcType
    <2>w. m.op # "close" => pc[m.c] = "wait" /\ file[m.c] # None /\ m.k = opens[m.c] /\ m.addr = Home(m.c)
      BY <1>t DEF WireInv
    <2>1. ASSUME m.op = "close" \/ m.c # d, Same(d)
          PROVE  Opened(d) /\ a = Home(d) /\ opens'[d] = opens[d]
      BY <2>0, <2>1 DEF Same, Opened, Home
    <2>2. ASSUME m.c = d, m.op = "close", ServeRpc(m)
          PROVE  /\ Same(d)
                 /\ [c |-> d, k |-> opens[d], addr |-> a] \in held =>
                      [c |-> d, k |-> opens[d], addr |-> a] \in held'
      <3>1. Same(d)
        BY <1>t, <2>2 DEF ServeRpc, Same, callVars, lookupVars, TypeOK
      <3>2. file[d] # None
        BY <1>f, <3>1 DEF Same
      <3>3. m.k # opens[d]
        BY <1>t, <2>2, <2>m, <3>2 DEF WireInv, TypeOK
      <3>4. QED
        BY <2>2, <3>1, <3>3 DEF ServeRpc
    <2>3. CASE m.c # d
      <3>1. Same(d)
        BY <1>t, <1>4, <2>3, DeliveryOthers
      <3>2. [c |-> d, k |-> opens[d], addr |-> a] \in held =>
              [c |-> d, k |-> opens[d], addr |-> a] \in held'
        BY <1>4, <2>m, <2>3 DEF Delivery, ServeRpc, UnknownRpc, UnreachableRpc, FailRpc
      <3>3. QED
        BY <1>k, <2>0, <2>1, <2>3, <3>1, <3>2
    <2>4. CASE m.c = d /\ m.op = "close" /\ ServeRpc(m)
      BY <1>k, <2>0, <2>1, <2>2, <2>4
    <2>5. CASE m.c = d /\ m.op = "open" /\ ServeRpc(m)
      <3>1. a = m.addr /\ opens'[d] = m.k /\ m.k > 0
        BY <1>t, <2>5, <2>w, RpcType DEF ServeRpc, Home, callVars, lookupVars
      <3>2. [c |-> m.c, k |-> m.k, addr |-> m.addr] \in held'
        BY <2>5 DEF ServeRpc
      <3>3. QED
        BY <2>m, <2>5, <3>1, <3>2, NoneIsNone
    <2>6. CASE m.c = d /\ m.op = "read" /\ ServeRpc(m)
      <3>1. Opened(d)
        <4>1. \A n \in wire : n.c = d /\ n.op # "close" => n = m
          BY <1>t, <2>6 DEF WireInv
        <4>2. QED
          BY <2>6, <2>w, <4>1 DEF Opened
      <3>2. a = Home(d) /\ opens'[d] = opens[d] /\ held' = held
        BY <2>6 DEF ServeRpc, Home, callVars, lookupVars
      <3>3. QED
        BY <1>k, <2>0, <3>1, <3>2
    <2>7. ASSUME NEW w, FailRpc(m, w), m.c = d
          PROVE  m.op = "close" /\ Same(d) /\ held' = held
      <3>1. ~ Crash(d, w)
        BY <1>t, <1>f DEF Crash, TypeOK
      <3>2. QED
        BY <2>7, <3>1 DEF FailRpc, Same, clientVars, callVars, lookupVars
    <2>8. CASE m.c = d /\ m.op = "close" /\ Same(d) /\ held' = held
      BY <1>k, <2>0, <2>1, <2>8
    <2>9. QED
      BY <1>4, <2>m, <2>3, <2>4, <2>5, <2>6, <2>7, <2>8 DEF Delivery, UnknownRpc, UnreachableRpc
  <1>5. QED
    BY <1>k, <1>1, <1>2, <1>3, <1>4, WhoMoves

\* What a step of a client does to its file.
LEMMA MoverFile ==
  ASSUME TypeOK, NEW c \in Clients, ClientMoves(c)
  PROVE  /\ pc[c] # "wait"
         /\ \/ file'[c] \in {file[c], None} /\ opens'[c] = opens[c]
            \/ file[c] = None /\ opens'[c] = opens[c] + 1
         /\ address_cache'[c] = address_cache[c] \/ ScanFinds(c) \/ file'[c] = None
         /\ file'[c] = None /\ file[c] # None => crash'[c] # "no" \/ (HG_Forward(c) /\ op[c] = "close")
         /\ since'[c] = since[c] \/ hvac_client_init(c)
         /\ crash[c] = "no"
  <1> USE DEF TypeOK, Goto, callVars, lookupVars
  <1>1. CASE hvac_client_init(c) \/ ReadFile(c) \/ CloseFile(c)
    BY <1>1 DEF hvac_client_init, ReadFile, UseFile, CloseFile
  <1>2. CASE \E x \in Hashes : OpenFile(c, x)
    BY <1>2 DEF OpenFile
  <1>3. CASE LookupCached(c) \/ LookupOpens(c) \/ ScanSkips(c) \/ ScanFinds(c)
    BY <1>3 DEF LookupCached, LookupOpens, ScanSkips, ScanFinds, ScanGives, Cached
  <1>4. CASE LookupNoFile(c) \/ ScanEof(c) \/ ForwardFails(c)
    <2>1. PICK w \in {"nofile", "noaddr", "unreachable"} : Crash(c, w)
      BY <1>4 DEF LookupNoFile, ScanEof, ForwardFails
    <2>2. pc[c] # "wait" /\ crash[c] = "no"
      BY <1>4 DEF LookupNoFile, ScanEof, ForwardFails
    <2>3. QED
      BY <2>1, <2>2 DEF Crash
  <1>5. CASE HG_Forward(c)
    BY <1>5 DEF HG_Forward
  <1>6. QED
    BY <1>1, <1>2, <1>3, <1>4, <1>5 DEF ClientMoves, Lookup

\* What a delivery does to the client and to the descriptors.
LEMMA DeliveryFile ==
  ASSUME TypeOK, NEW m \in wire, Delivery(m)
  PROVE  /\ opens' = opens
         /\ file'[m.c] \in {file[m.c], None}
         /\ since' = since
         /\ address_cache' = address_cache \/ file'[m.c] = None
         /\ file'[m.c] = file[m.c] \/ crash'[m.c] # "no"
         /\ crash'[m.c] = crash[m.c] \/ (m.op # "close" /\ ~ServeRpc(m))
         /\ m.op = "close" => Same(m.c)
         /\ \A e \in held : e \notin held' =>
              m.op = "close" /\ e = [c |-> m.c, k |-> m.k, addr |-> m.addr]
         /\ \A e \in held' : e \notin held =>
              m.op = "open" /\ e = [c |-> m.c, k |-> m.k, addr |-> m.addr] /\ ServeRpc(m)
  <1>m. m.c \in Clients /\ m.op \in {"open", "read", "close"}
    BY RpcType
  <1>1. CASE ServeRpc(m)
    <2>1. m.op = "close" => Same(m.c)
      BY <1>1, <1>m DEF ServeRpc, Same, callVars, lookupVars, TypeOK
    <2>2. held' = IF m.op = "open" THEN held \cup {[c |-> m.c, k |-> m.k, addr |-> m.addr]}
                  ELSE IF m.op = "close" THEN held \ {[c |-> m.c, k |-> m.k, addr |-> m.addr]}
                  ELSE held
      BY <1>1, <1>m DEF ServeRpc
    <2>3. opens' = opens /\ file' = file /\ since' = since /\ address_cache' = address_cache /\ crash' = crash
      BY <1>1 DEF ServeRpc, callVars, lookupVars
    <2>4. QED
      BY <1>1, <1>m, <2>1, <2>2, <2>3
  <1>2. CASE UnknownRpc(m) \/ UnreachableRpc(m)
    <2>1. PICK w \in {"noentry", "unreachable"} : FailRpc(m, w)
      BY <1>2 DEF UnknownRpc, UnreachableRpc
    <2>2. held' = held
      BY <2>1 DEF FailRpc
    <2>n. ~ServeRpc(m)
      BY <1>2 DEF UnknownRpc, UnreachableRpc, ServeRpc
    <2>3. CASE m.op = "close"
      BY <2>1, <2>2, <2>3 DEF FailRpc, Same, clientVars, callVars, lookupVars
    <2>4. CASE m.op # "close"
      BY <1>m, <2>1, <2>2, <2>n, <2>4 DEF FailRpc, Crash, TypeOK
    <2>5. QED
      BY <2>3, <2>4
  <1>3. QED
    BY <1>1, <1>2 DEF Delivery

\* What holds when a client sends an RPC.
ForwardFacts(c) ==
    /\ file[c] # None /\ dest[c] = Home(c) /\ dest[c] \in Addrs /\ Found(dest[c])
    /\ op[c] \in {"open", "read", "close"} /\ opens[c] \in 1..MaxOpens
    /\ pc[c] = "forward" /\ (op[c] # "open" => Opened(c))
    /\ wire' = wire \cup {[c |-> c, k |-> opens[c], op |-> op[c], addr |-> dest[c]]}
    /\ opens' = opens /\ address_cache' = address_cache
    /\ pc'[c] = (IF op[c] = "close" THEN "idle" ELSE "wait")
    /\ file'[c] = (IF op[c] = "close" THEN None ELSE file[c])

\* The RPC a client sends.
LEMMA ForwardSends ==
  ASSUME IInv, NEW c \in Clients, HG_Forward(c)
  PROVE  ForwardFacts(c)
  <1>t. TypeOK /\ LookupInv /\ CallOk(c)
    BY DEF IInv, LookupInv
  <1>1. pc[c] = "forward" /\ file[c] # None /\ dest[c] = Home(c) /\ dest[c] # None
    BY <1>t DEF HG_Forward, Goto, CallOk, Home
  <1>2. op[c] \in {"open", "read", "close"} /\ opens[c] \in 1..MaxOpens
    <2>1. op[c] # "none" /\ opens[c] > 0
      BY <1>t, <1>1 DEF CallOk
    <2>2. op[c] \in {"none", "open", "read", "close"} /\ opens[c] \in 0..MaxOpens
      BY <1>t DEF TypeOK
    <2>3. MaxOpens \in Nat
      BY StartupAssumption
    <2>4. QED
      BY <2>1, <2>2, <2>3
  <1>3. dest[c] \in Addrs /\ Found(dest[c])
    BY <1>1, HomeFound
  <1>4. QED
    BY <1>t, <1>1, <1>2, <1>3 DEF HG_Forward, Goto, Opened, TypeOK, ForwardFacts

\* What WireInv says of RPC m.
WireOk(m) ==
    /\ Found(m.addr)
    /\ m.op # "close" =>
         /\ pc[m.c] = "wait" /\ file[m.c] # None /\ m.k = opens[m.c] /\ m.addr = Home(m.c)
         /\ \A n \in wire : n.c = m.c /\ n.op # "close" => n = m
    /\ m.op = "close" =>
         /\ m.k < opens[m.c] \/ (m.k = opens[m.c] /\ file[m.c] = None)
         /\ \A n \in wire : n.c = m.c /\ n.k = m.k => n = m
    /\ m.op \in {"read", "close"} /\ Alive(m.addr) =>
         [c |-> m.c, k |-> m.k, addr |-> m.addr] \in held

\* Every step keeps WireInv.
LEMMA WireStep == IInv /\ Next => WireInv'
  <1> SUFFICES ASSUME IInv, Next, NEW m \in wire' PROVE WireOk(m)'
    BY DEF WireInv, RpcToOpener, WireOk
  <1>t. TypeOK /\ LockInv /\ LookupInv /\ HomeInv /\ WireInv
    BY DEF IInv
  <1>1. ASSUME m \in wire
        PROVE  /\ m.c \in Clients /\ m.k \in Nat /\ opens[m.c] \in Nat
               /\ m.op \in {"open", "read", "close"}
               /\ WireOk(m) /\ Found(m.addr)'
    <2>1. m.c \in Clients /\ m.k \in Nat /\ opens[m.c] \in Nat /\ m.op \in {"open", "read", "close"}
      BY <1>t, <1>1, RpcType, StartupAssumption DEF TypeOK
    <2>2. Found(m.addr)
      BY <1>t, <1>1 DEF WireInv
    <2>3. Found(m.addr)'
      BY <1>t, <2>2, FoundStays
    <2>4. QED
      BY <1>t, <1>1, <2>1, <2>2, <2>3 DEF WireInv, RpcToOpener, WireOk
  <1>2. ASSUME NEW r \in Ranks, ServerMoves(r) PROVE WireOk(m)'
    <2>1. m \in wire /\ wire' = wire /\ Same(m.c) /\ Home(m.c)' = Home(m.c)
      BY <1>t, <1>2, ServerFrame, ServerSame, RpcType DEF Home, clientVars, callVars, lookupVars
    <2>2. Alive(m.addr)' => Alive(m.addr)
      BY <1>1, <2>1, AliveBefore DEF WireOk
    <2>3. [c |-> m.c, k |-> m.k, addr |-> m.addr] \in held /\ Alive(m.addr)' =>
             [c |-> m.c, k |-> m.k, addr |-> m.addr] \in held'
      <3>1. PICK e : e = [c |-> m.c, k |-> m.k, addr |-> m.addr]
        OBVIOUS
      <3>2. e.addr = m.addr
        BY <3>1
      <3>3. e \in held /\ Alive(e.addr)' => e \in held'
        BY <1>t, <1>2, ServerKeepsHeld
      <3>4. QED
        BY <3>1, <3>2, <3>3
    <2>4. QED
      BY <1>1, <2>1, <2>2, <2>3 DEF WireOk, Same
  <1>3. ASSUME NEW c \in Clients, ClientMoves(c), m \in wire PROVE WireOk(m)'
    <2>1. UNCHANGED <<srv, inc, held>> /\ (Alive(m.addr)' <=> Alive(m.addr))
      BY <1>3, ClientFrame DEF Alive
    <2>2. \A n \in wire' : n \notin wire => HG_Forward(c) /\ n.c = c /\ n.k = opens[c] /\ file[c] # None
      BY <1>3, ClientFrame, ForwardSends DEF ForwardFacts
    <2>3. CASE m.c # c
      <3>1. Same(m.c) /\ Home(m.c)' = Home(m.c)
        BY <1>t, <1>1, <1>3, <2>3, OtherClients DEF Same, Home
      <3>2. \A n \in wire' : n.c = m.c => n \in wire
        BY <2>2, <2>3
      <3>3. QED
        BY <1>1, <1>3, <2>1, <3>1, <3>2 DEF WireOk, Same
    <2>4. CASE m.c = c
      <3>1. m.op = "close"
        BY <1>t, <1>1, <1>3, <2>4, MoverFile DEF WireOk
      <3>2. m.k < opens'[c] \/ (m.k = opens'[c] /\ file'[c] = None)
        BY <1>t, <1>1, <1>3, <2>4, <3>1, MoverFile DEF WireOk
      <3>3. \A n \in wire' : n.c = m.c /\ n.k = m.k => n = m
        BY <1>1, <1>3, <2>2, <2>4, <3>1 DEF WireOk
      <3>4. QED
        BY <1>1, <1>3, <2>1, <2>4, <3>1, <3>2, <3>3 DEF WireOk
    <2>5. QED
      BY <2>3, <2>4
  <1>4. ASSUME NEW c \in Clients, ClientMoves(c), m \notin wire PROVE WireOk(m)'
    <2>0. HG_Forward(c)
      BY <1>4, ClientFrame
    <2>s. ForwardFacts(c)
      BY <2>0, ForwardSends
    <2>1. m = [c |-> c, k |-> opens[c], op |-> op[c], addr |-> dest[c]]
      BY <1>4, <2>s DEF ForwardFacts
    <2>2. m.c = c /\ m.k = opens[c] /\ m.op = op[c] /\ m.addr = dest[c] /\ m.k \in Nat
      BY <2>1, <2>s, StartupAssumption DEF ForwardFacts
    <2>3. Found(m.addr)'
      <3>1. Found(m.addr)
        BY <2>2, <2>s DEF ForwardFacts
      <3>2. QED
        BY <1>t, <3>1, FoundStays
    <2>4. Home(c)' = Home(c) \/ op[c] = "close"
      BY <1>t, <2>0, <2>s DEF Home, ForwardFacts, HG_Forward, TypeOK
    <2>5. \A n \in wire : n.c = c => n.op = "close" /\ n.k # opens[c]
      <3> SUFFICES ASSUME NEW n \in wire, n.c = c PROVE n.op = "close" /\ n.k # opens[c]
        OBVIOUS
      <3>1. n.op = "close"
        BY <1>t, <2>s DEF WireInv, ForwardFacts
      <3>2. n.k < opens[c] \/ file[c] = None
        BY <1>t, <3>1 DEF WireInv
      <3>3. QED
        BY <1>t, <2>s, <3>1, <3>2, RpcType, StartupAssumption DEF ForwardFacts, TypeOK
    <2>6. \A n \in wire' : n \in wire \/ n = m
      BY <2>1, <2>s DEF ForwardFacts
    <2>7. m.op # "open" /\ Alive(m.addr)' => [c |-> m.c, k |-> m.k, addr |-> m.addr] \in held'
      <3>1. ASSUME m.op # "open", Alive(m.addr)' PROVE [c |-> c, k |-> opens[c], addr |-> dest[c]] \in held
        <4>1. Alive(Home(c)) /\ Opened(c) /\ dest[c] = Home(c)
          BY <1>4, <2>2, <2>s, <3>1, ClientFrame DEF ForwardFacts, Alive
        <4>2. QED
          BY <1>t, <4>1 DEF HomeInv
      <3>2. held' = held
        BY <1>4, ClientFrame
      <3>3. QED
        BY <2>2, <3>1, <3>2
    <2>8. QED
      BY <2>2, <2>3, <2>4, <2>5, <2>6, <2>7, <2>s DEF WireOk, ForwardFacts
  <1>5. ASSUME NEW n \in wire, Delivery(n) PROVE WireOk(m)'
    <2>0. UNCHANGED <<srv, inc>> /\ wire' = wire \ {n} /\ (Alive(m.addr)' <=> Alive(m.addr))
      BY <1>5, DeliveryFrame DEF Alive
    <2>1. m \in wire /\ m # n
      BY <2>0
    <2>n. n.c \in Clients /\ n.op \in {"open", "read", "close"}
          /\ n = [c |-> n.c, k |-> n.k, op |-> n.op, addr |-> n.addr]
      BY <1>t, RpcType
    <2>2. n.op = "close" => ~ (n.c = m.c /\ n.k = m.k)
      BY <1>t, <2>1 DEF WireInv
    <2>3. [c |-> m.c, k |-> m.k, addr |-> m.addr] \in held =>
             [c |-> m.c, k |-> m.k, addr |-> m.addr] \in held'
      <3>1. PICK e : e = [c |-> m.c, k |-> m.k, addr |-> m.addr]
        OBVIOUS
      <3>2. e.c = m.c /\ e.k = m.k
        BY <3>1
      <3>3. e \in held => e \in held'
        BY <1>t, <1>5, <2>2, <3>2, DeliveryFile
      <3>4. QED
        BY <3>1, <3>3
    <2>4. CASE m.op # "close"
      <3>1. Same(m.c)
        <4>1. n.c = m.c => n.op = "close"
          BY <1>1, <2>1, <2>4 DEF WireOk
        <4>2. QED
          BY <1>t, <1>1, <1>5, <2>1, <4>1, DeliveryFile, DeliveryOthers
      <3>2. Home(m.c)' = Home(m.c)
        BY <3>1 DEF Same, Home
      <3>3. QED
        BY <1>1, <2>0, <2>1, <2>3, <2>4, <3>1, <3>2 DEF WireOk, Same
    <2>5. CASE m.op = "close"
      <3>1. opens' = opens /\ file'[m.c] \in {file[m.c], None}
        BY <1>t, <1>1, <1>5, <2>1, DeliveryFile, DeliveryOthers DEF Same
      <3>2. QED
        BY <1>1, <2>0, <2>1, <2>3, <2>5, <3>1 DEF WireOk
    <2>6. QED
      BY <2>4, <2>5
  <1>6. QED
    BY <1>2, <1>3, <1>4, <1>5, WhoMoves

\* The home of a file does not change while the file is open.
LEMMA HomeStays ==
  ASSUME IInv, Next, NEW c \in Clients, file[c] # None, Home(c) # None, file'[c] = file[c]
  PROVE  Home(c)' = Home(c)
  <1>t. TypeOK /\ LookupInv /\ CallOk(c)
    BY DEF IInv, LookupInv
  <1>r. host(file[c]) \in Ranks
    BY <1>t, HostType, StartupAssumption DEF TypeOK
  <1>1. ASSUME NEW r \in Ranks, ServerMoves(r) PROVE address_cache'[c] = address_cache[c]
    BY <1>1, ServerSame DEF Same
  <1>2. ASSUME NEW d \in Clients, ClientMoves(d)
        PROVE  address_cache'[c] = address_cache[c] \/ (ScanFinds(c) /\ d = c)
    BY <1>t, <1>2, OtherClients, MoverFile DEF Same
  <1>3. ASSUME NEW m \in wire, Delivery(m) PROVE address_cache'[c] = address_cache[c]
    BY <1>t, <1>3, DeliveryOthers, DeliveryFile DEF Same
  <1>4. ASSUME ScanFinds(c) PROVE FALSE
    BY <1>t, <1>4 DEF ScanFinds, ScanGives, Cached, Goto, CallOk, Home
  <1>5. address_cache'[c] = address_cache[c]
    BY <1>1, <1>2, <1>3, <1>4, WhoMoves
  <1>6. QED
    BY <1>5 DEF Home

\* Every step keeps HeldInv.
LEMMA HeldStep == IInv /\ Next => HeldInv'
  <1> SUFFICES ASSUME IInv, Next, NEW e \in held'
               PROVE  /\ Alive(e.addr)' /\ Found(e.addr)'
                      /\ e.k <= opens'[e.c]
                      /\ e.k = opens'[e.c] /\ file'[e.c] # None => e.addr = Home(e.c)'
    BY DEF HeldInv
  <1>t. TypeOK /\ LockInv /\ HeldInv /\ WireInv
    BY DEF IInv
  <1>1. ASSUME e \in held, Alive(e.addr)',
               \/ opens'[e.c] = opens[e.c] /\ file'[e.c] \in {file[e.c], None}
               \/ opens'[e.c] = opens[e.c] + 1
        PROVE  /\ Alive(e.addr)' /\ Found(e.addr)'
               /\ e.k <= opens'[e.c]
               /\ e.k = opens'[e.c] /\ file'[e.c] # None => e.addr = Home(e.c)'
    <2>1. e.c \in Clients /\ e.k \in Nat /\ e.addr \in Addrs /\ opens[e.c] \in Nat
      BY <1>t, <1>1, HeldType, StartupAssumption, SMTT(30) DEF TypeOK
    <2>2. Found(e.addr) /\ e.k <= opens[e.c] /\ (e.k = opens[e.c] /\ file[e.c] # None => e.addr = Home(e.c))
      BY <1>t, <1>1 DEF HeldInv
    <2>3. Found(e.addr)'
      BY <1>t, <2>2, FoundStays
    <2>4. ASSUME e.k = opens'[e.c], file'[e.c] # None PROVE e.addr = Home(e.c)'
      <3>1. opens'[e.c] = opens[e.c] /\ file'[e.c] = file[e.c]
        BY <1>1, <2>1, <2>2, <2>4
      <3>2. e.addr = Home(e.c) /\ Home(e.c) # None
        BY <2>1, <2>2, <2>4, <3>1, NoneIsNone
      <3>3. Home(e.c)' = Home(e.c)
        BY <2>1, <2>4, <3>1, <3>2, HomeStays
      <3>4. QED
        BY <3>2, <3>3
    <2>5. QED
      BY <1>1, <2>1, <2>2, <2>3, <2>4
  <1>2. ASSUME NEW r \in Ranks, ServerMoves(r)
        PROVE  /\ e \in held /\ Alive(e.addr)'
               /\ opens'[e.c] = opens[e.c] /\ file'[e.c] = file[e.c]
    BY <1>t, <1>2, ServerKeepsHeld, ServerDropsHeld, ServerFrame DEF clientVars, callVars
  <1>3. ASSUME NEW c \in Clients, ClientMoves(c)
        PROVE  /\ e \in held /\ Alive(e.addr)'
               /\ \/ opens'[e.c] = opens[e.c] /\ file'[e.c] \in {file[e.c], None}
                  \/ opens'[e.c] = opens[e.c] + 1
    <2>1. UNCHANGED <<srv, inc, held>>
      BY <1>3, ClientFrame
    <2>2. e \in held /\ e.c \in Clients
      BY <1>t, <2>1, HeldType
    <2>3. Alive(e.addr)'
      BY <1>t, <2>1, <2>2 DEF HeldInv, Alive
    <2>4. QED
      BY <1>t, <1>3, <2>2, <2>3, MoverFile, OtherClients DEF Same
  <1>4. ASSUME NEW m \in wire, Delivery(m), e \in held
        PROVE  /\ Alive(e.addr)'
               /\ opens'[e.c] = opens[e.c] /\ file'[e.c] \in {file[e.c], None}
    <2>1. UNCHANGED <<srv, inc>> /\ e.c \in Clients
      BY <1>t, <1>4, DeliveryFrame, HeldType
    <2>2. Alive(e.addr)'
      BY <1>t, <1>4, <2>1 DEF HeldInv, Alive
    <2>3. QED
      BY <1>t, <1>4, <2>1, <2>2, DeliveryFile, DeliveryOthers DEF Same
  <1>5. ASSUME NEW m \in wire, Delivery(m), e \notin held
        PROVE  /\ Alive(e.addr)' /\ Found(e.addr)'
               /\ e.k <= opens'[e.c]
               /\ e.k = opens'[e.c] /\ file'[e.c] # None => e.addr = Home(e.c)'
    <2>1. m.op = "open" /\ ServeRpc(m) /\ e = [c |-> m.c, k |-> m.k, addr |-> m.addr]
      BY <1>t, <1>5, DeliveryFile
    <2>2. e.c = m.c /\ e.k = m.k /\ e.addr = m.addr /\ m.c \in Clients /\ m.k \in Nat
      BY <1>t, <2>1, RpcType
    <2>3. m.k = opens[m.c] /\ m.addr = Home(m.c) /\ Found(m.addr)
      BY <1>t, <2>1 DEF WireInv
    <2>4. Alive(m.addr)' /\ opens' = opens /\ Home(m.c)' = Home(m.c)
      BY <2>1 DEF ServeRpc, Alive, Home, serverVars, callVars, lookupVars
    <2>5. Found(m.addr)'
      BY <1>t, <2>3, FoundStays
    <2>6. QED
      BY <2>2, <2>3, <2>4, <2>5
  <1>6. QED
    BY <1>1, <1>2, <1>3, <1>4, <1>5, WhoMoves

-----------------------------------------------------------------------------
(* Clients that begin when all servers are up.                             *)

\* A server that is up can only end, and a launch that is over stays over.
LEMMA UpStays ==
  ASSUME TypeOK, Next, NEW r \in Ranks
  PROVE  /\ srv[r] = "up" => srv'[r] \in {"up", "down"}
         /\ Ended(r) => Ended(r)'
  <1>i. inc[r] \in Nat /\ inc[r] > 0
    BY DEF TypeOK
  <1>1. CASE UNCHANGED <<serverVars, portsVars>>
    BY <1>1 DEF serverVars, Ended
  <1>2. ASSUME NEW q \in Ranks, ServerMoves(q)
        PROVE  /\ srv[r] = "up" => srv'[r] \in {"up", "down"}
               /\ Ended(r) => Ended(r)'
    <2> USE <1>i DEF Ended, TypeOK
    <2>1. CASE hvac_init_comm(q) \/ OpenPorts(q) \/ LockPorts(q) \/ WriteLine(q) \/ UnlockPorts(q)
      BY <2>1 DEF hvac_init_comm, OpenPorts, LockPorts, WriteLine, UnlockPorts, Advance
    <2>2. CASE Register(q) \/ ServerDies(q)
      BY <2>2 DEF Register, RegisterUpTo, ServerDies
    <2>3. CASE Relaunch(q)
      BY <2>3 DEF Relaunch, Advance
    <2>4. QED
      BY <1>2, <2>1, <2>2, <2>3 DEF ServerMoves, ServerStep
  <1>3. QED
    BY <1>1, <1>2, ServerOrNot

\* Once a rank is listed, later lines do not change what look-ups find.
LEMMA FoundBefore ==
  ASSUME TypeOK, LockInv, Next, NEW a, Found(a)', \E i \in 1..Len(ports) : ports[i].rank = a[1]
  PROVE  Found(a)
  <1>1. PICK i \in 1..Len(ports') : FirstLine(a[1], i)' /\ ports'[i].addr = a
    BY DEF Found
  <1>2. PICK j \in 1..Len(ports) : ports[j].rank = a[1]
    OBVIOUS
  <1>g. /\ Len(ports') \in Nat /\ Len(ports) \in Nat /\ Len(ports) <= Len(ports')
        /\ \A k \in 1..Len(ports) : ports'[k] = ports[k]
    BY PortsGrow
  <1>3. i <= j
    <2>1. ports'[j].rank = a[1] /\ \A k \in 1..(i - 1) : ports'[k].rank # a[1]
      BY <1>1, <1>2, <1>g DEF FirstLine
    <2>2. QED
      BY <1>1, <1>2, <1>g, <2>1
  <1>4. i \in 1..Len(ports) /\ ports'[i] = ports[i] /\ \A k \in 1..(i - 1) : ports'[k] = ports[k]
    BY <1>1, <1>2, <1>3, <1>g
  <1>5. QED
    BY <1>1, <1>4 DEF Found, FirstLine

\* Whether a client began when all servers were up is settled when it begins.
LEMMA SinceStep ==
  ASSUME TypeOK, Next, NEW c \in Clients
  PROVE  since'[c] = since[c] \/ hvac_client_init(c)
  <1>1. ASSUME NEW r \in Ranks, ServerMoves(r) PROVE since'[c] = since[c]
    BY <1>1, ServerSame DEF Same
  <1>2. ASSUME NEW d \in Clients, ClientMoves(d) PROVE since'[c] = since[c] \/ hvac_client_init(c)
    BY <1>2, MoverFile, OtherClients DEF Same
  <1>3. ASSUME NEW m \in wire, Delivery(m) PROVE since'[c] = since[c]
    BY <1>3, DeliveryFile
  <1>4. QED
    BY <1>1, <1>2, <1>3, WhoMoves

\* Every step keeps ReadyInv.
LEMMA ReadyStep == IInv /\ Next => ReadyInv'
  <1> SUFFICES ASSUME IInv, Next, NEW c \in Clients, since'[c] = "up", NEW r \in Ranks
               PROVE  /\ srv'[r] = "up" \/ Ended(r)'
                      /\ \E i \in 1..Len(ports') : ports'[i].rank = r
                      /\ \A a \in Addrs : a[1] = r /\ Found(a)' /\ Alive(a)' => srv'[r] = "up"
    BY DEF ReadyInv
  <1>t. TypeOK /\ LockInv /\ PortsInv /\ ReadyInv
    BY DEF IInv
  <1>1. CASE hvac_client_init(c)
    <2>1. srv[r] = "up" /\ srv' = srv /\ ports' = ports
      BY <1>1, <1>t DEF hvac_client_init, serverVars, portsVars, TypeOK
    <2>2. \E i \in 1..Len(ports) : ports[i].rank = r
      BY <1>t, <2>1 DEF PortsInv, Listed
    <2>3. QED
      BY <2>1, <2>2
  <1>2. CASE since[c] = "up"
    <2>1. /\ srv[r] = "up" \/ Ended(r)
          /\ \E i \in 1..Len(ports) : ports[i].rank = r
          /\ \A a \in Addrs : a[1] = r /\ Found(a) /\ Alive(a) => srv[r] = "up"
      BY <1>t, <1>2 DEF ReadyInv
    <2>2. srv'[r] = "up" \/ Ended(r)'
      <3>1. srv[r] = "up" => srv'[r] = "up" \/ Ended(r)'
        BY <1>t, UpStays DEF Ended
      <3>2. QED
        BY <1>t, <2>1, <3>1, UpStays
    <2>3. \E i \in 1..Len(ports') : ports'[i].rank = r
      BY <1>t, <2>1, PortsGrow
    <2>4. ASSUME NEW a \in Addrs, a[1] = r, Found(a)', Alive(a)' PROVE srv'[r] = "up"
      <3>1. Found(a)
        BY <1>t, <2>1, <2>4, FoundBefore
      <3>2. Alive(a)
        BY <2>4, <3>1, AliveBefore
      <3>3. srv[r] = "up"
        BY <2>1, <2>4, <3>1, <3>2
      <3>4. srv'[r] # "down"
        BY <2>4 DEF Alive, Listening
      <3>5. QED
        BY <1>t, <3>3, <3>4, UpStays
    <2>5. QED
      BY <2>2, <2>3, <2>4
  <1>3. QED
    BY <1>1, <1>2, <1>t, SinceStep

\* A client that began when all servers were up finds every rank's server, running or
\* ended.
LEMMA ReadyFinds ==
  ASSUME IInv, NEW c \in Clients, since[c] = "up", NEW a, Found(a)
  PROVE  Alive(a) \/ Ended(a[1])
  <1>t. TypeOK /\ PortsInv /\ ReadyInv
    BY DEF IInv
  <1>1. Posted(a)
    BY <1>t, FoundPosted
  <1>2. a[1] \in Ranks /\ a[2] \in 1..MaxInc /\ inc[a[1]] \in 1..MaxInc /\ a[2] <= inc[a[1]]
    BY <1>1, <1>t, AddrParts DEF Posted, TypeOK
  <1>3. srv[a[1]] = "up" \/ Ended(a[1])
    BY <1>t, <1>2 DEF ReadyInv
  <1>4. QED
    BY <1>2, <1>3, StartupAssumption DEF Alive, Listening, Ended

\* A server that is up knows the RPCs that clients send.
LEMMA UpKnows ==
  ASSUME LockInv, NEW r \in Ranks, srv[r] = "up"
  PROVE  {"open", "read", "close"} \subseteq Knows(r)
  <1>1. registered[r] = 4 /\ RpcOrder[1] = "read" /\ RpcOrder[2] = "open" /\ RpcOrder[3] = "close"
    BY DEF LockInv, RpcOrder
  <1>2. 1 \in 1..registered[r] /\ 2 \in 1..registered[r] /\ 3 \in 1..registered[r]
    BY <1>1
  <1>3. QED
    BY <1>1, <1>2 DEF Knows

\* Every step keeps ReadyClientsServed.
LEMMA ServedStep == IInv /\ Next => ReadyClientsServed'
  <1> SUFFICES ASSUME IInv, Next, NEW c \in Clients, since'[c] = "up", crash'[c] # "no"
               PROVE  \E r \in Ranks : Ended(r)'
    BY DEF ReadyClientsServed, Ended
  <1>t. TypeOK /\ LockInv /\ LookupInv /\ CallOk(c) /\ ReadyInv /\ ReadyClientsServed /\ WireInv
    BY DEF IInv, LookupInv
  <1>s. since[c] = "up"
    BY <1>t, SinceStep DEF hvac_client_init, Goto
  <1>e. ASSUME NEW r \in Ranks, Ended(r) PROVE \E q \in Ranks : Ended(q)'
    BY <1>t, <1>e, UpStays
  <1>1. CASE crash[c] # "no"
    BY <1>t, <1>s, <1>e, <1>1 DEF ReadyClientsServed, Ended
  <1>2. CASE LookupNoFile(c)
    <2>1. Count \in Nat \ {0} /\ 0 \in Ranks
      BY StartupAssumption DEF Ranks
    <2>2. srv[0] # "up"
      BY <1>t, <1>2, <2>1 DEF LookupNoFile, LockInv, Listed
    <2>3. Ended(0)
      BY <1>t, <1>s, <2>1, <2>2 DEF ReadyInv
    <2>4. QED
      BY <1>e, <2>1, <2>3
  <1>3. ASSUME ScanEof(c) PROVE FALSE
    <2>1. tgt[c] \in Ranks /\ line[c] \in Nat /\ line[c] > Len(ports) /\ Len(ports) \in Nat
      BY <1>t, <1>3, TargetType DEF ScanEof, TypeOK
    <2>2. \A j \in 1..(line[c] - 1) : ports[j].rank # tgt[c]
      BY <1>t, <1>3 DEF ScanEof, CallOk
    <2>3. \E i \in 1..Len(ports) : ports[i].rank = tgt[c]
      BY <1>t, <1>s, <2>1 DEF ReadyInv
    <2>4. QED
      BY <2>1, <2>2, <2>3
  <1>4. CASE ForwardFails(c)
    <2>1. PICK a : a = dest[c]
      OBVIOUS
    <2>2. file[c] # None /\ a = Home(c) /\ Home(c) # None /\ ~Alive(a)
      BY <1>t, <1>4, <2>1 DEF ForwardFails, CallOk, Home
    <2>3. Found(a) /\ a[1] \in Ranks
      BY <2>2, HomeFound, AddrParts
    <2>4. Ended(a[1])
      BY <1>s, <2>2, <2>3, ReadyFinds
    <2>5. QED
      BY <1>e, <2>3, <2>4
  <1>5. ASSUME NEW m \in wire, m.c = c, UnknownRpc(m) PROVE FALSE
    <2>1. Found(m.addr) /\ Alive(m.addr) /\ m.addr \in Addrs /\ m.op \in {"open", "read", "close"}
      BY <1>t, <1>5, RpcType DEF WireInv, UnknownRpc
    <2>2. m.addr[1] \in Ranks
      BY <2>1, AddrParts
    <2>3. srv[m.addr[1]] = "up"
      BY <1>t, <1>s, <2>1, <2>2 DEF ReadyInv
    <2>4. QED
      BY <1>t, <1>5, <2>1, <2>2, <2>3, UpKnows DEF UnknownRpc
  <1>6. ASSUME NEW m \in wire, m.c = c, UnreachableRpc(m) PROVE \E q \in Ranks : Ended(q)'
    <2>1. Found(m.addr) /\ ~Alive(m.addr) /\ m.addr[1] \in Ranks
      BY <1>t, <1>6, RpcType, AddrParts DEF WireInv, UnreachableRpc
    <2>2. QED
      BY <1>s, <1>e, <2>1, ReadyFinds
  <1>7. CASE crash[c] = "no"
    <2>1. ASSUME NEW r \in Ranks, ServerMoves(r) PROVE FALSE
      BY <1>7, <2>1, ServerSame DEF Same
    <2>2. ASSUME NEW d \in Clients, ClientMoves(d) PROVE LookupNoFile(c) \/ ScanEof(c) \/ ForwardFails(c)
      <3>1. d = c
        BY <1>t, <1>7, <2>2, OtherClients DEF Same
      <3>2. QED
        BY <1>7, <2>2, <3>1 DEF ClientMoves, Lookup, hvac_client_init, OpenFile, ReadFile, UseFile, CloseFile,
           LookupCached, LookupOpens, ScanSkips, ScanFinds, ScanGives, Cached, HG_Forward
    <2>3. ASSUME NEW m \in wire, Delivery(m) PROVE m.c = c /\ (UnknownRpc(m) \/ UnreachableRpc(m))
      <3>1. m.c = c
        BY <1>t, <1>7, <2>3, DeliveryOthers DEF Same
      <3>2. QED
        BY <1>t, <1>7, <2>3, <3>1, DeliveryFile DEF Delivery
    <2>4. QED
      BY <1>2, <1>3, <1>4, <1>5, <1>6, <2>1, <2>2, <2>3, WhoMoves
  <1>8. QED
    BY <1>1, <1>7

\* Every step keeps NoOrphans.
LEMMA OrphanStep == IInv /\ Next => NoOrphans'
  <1> SUFFICES ASSUME IInv, Next, NEW e \in held', since'[e.c] = "up", crash'[e.c] = "no"
               PROVE  \/ file'[e.c] # None /\ opens'[e.c] = e.k
                      \/ [c |-> e.c, k |-> e.k, op |-> "close", addr |-> e.addr] \in wire'
    BY DEF NoOrphans
  <1>t. TypeOK /\ LockInv /\ LookupInv /\ HeldInv /\ WireInv /\ ReadyInv /\ NoOrphans
    BY DEF IInv
  <1>1. ASSUME e \in held
        PROVE  e.c \in Clients /\ e.k \in Nat /\ e.k > 0 /\ e.addr \in Addrs /\ e.addr[1] \in Ranks
               /\ opens[e.c] \in Nat /\ Alive(e.addr) /\ Found(e.addr) /\ e.k <= opens[e.c]
    <2>1. e.c \in Clients /\ e.k \in 1..MaxOpens /\ e.k \in Nat /\ e.addr \in Addrs
      BY <1>t, <1>1, HeldType
    <2>2. QED
      BY <1>t, <1>1, <2>1, AddrParts, StartupAssumption DEF HeldInv, TypeOK
  <1>2. ASSUME e \in held
        PROVE  since[e.c] = "up"
    <2>1. ASSUME hvac_client_init(e.c) PROVE FALSE
      <3>1. opens[e.c] = 0
        BY <1>t, <1>1, <1>2, <2>1 DEF hvac_client_init, Goto, LookupInv, CallOk
      <3>2. QED
        BY <1>1, <1>2, <3>1
    <2>2. QED
      BY <1>t, <1>1, <1>2, <2>1, SinceStep
  <1>3. ASSUME e \in held, crash[e.c] = "no"
        PROVE  \/ file[e.c] # None /\ opens[e.c] = e.k
               \/ [c |-> e.c, k |-> e.k, op |-> "close", addr |-> e.addr] \in wire
    BY <1>t, <1>2, <1>3 DEF NoOrphans
  <1>4. ASSUME NEW r \in Ranks, ServerMoves(r)
        PROVE  e \in held /\ Same(e.c) /\ wire' = wire
    BY <1>t, <1>1, <1>4, ServerKeepsHeld, ServerSame, ServerFrame
  <1>5. CASE e \in held /\ Same(e.c) /\ wire \subseteq wire'
    BY <1>3, <1>5 DEF Same
  <1>6. ASSUME NEW c \in Clients, ClientMoves(c)
        PROVE  \/ file'[e.c] # None /\ opens'[e.c] = e.k
               \/ [c |-> e.c, k |-> e.k, op |-> "close", addr |-> e.addr] \in wire'
    <2>1. e \in held /\ wire \subseteq wire'
      BY <1>6, ClientFrame DEF HG_Forward
    <2>2. CASE e.c # c
      BY <1>t, <1>1, <1>5, <1>6, <2>1, <2>2, OtherClients
    <2>3. CASE e.c = c
      <3>1. crash[c] = "no"
        BY <1>t, <1>6, MoverFile
      <3>2. CASE [c |-> e.c, k |-> e.k, op |-> "close", addr |-> e.addr] \in wire
        BY <2>1, <3>2
      <3>3. CASE file[c] # None /\ opens[c] = e.k /\ file'[c] = None
        <4>1. HG_Forward(c) /\ op[c] = "close"
          BY <1>t, <1>6, <2>3, <3>3, MoverFile
        <4>2. e.addr = Home(c)
          BY <1>t, <2>1, <2>3, <3>3 DEF HeldInv
        <4>3. [c |-> c, k |-> opens[c], op |-> op[c], addr |-> dest[c]] \in wire' /\ dest[c] = Home(c)
          BY <4>1, ForwardSends DEF ForwardFacts
        <4>4. QED
          BY <2>3, <3>3, <4>1, <4>2, <4>3
      <3>4. CASE file[c] # None /\ opens[c] = e.k /\ file'[c] # None
        BY <1>t, <1>6, <2>3, <3>4, MoverFile
      <3>5. QED
        BY <1>3, <2>1, <2>3, <3>1, <3>2, <3>3, <3>4
    <2>4. QED
      BY <2>2, <2>3
  <1>7. ASSUME NEW m \in wire, Delivery(m), e \in held
        PROVE  \/ file'[e.c] # None /\ opens'[e.c] = e.k
               \/ [c |-> e.c, k |-> e.k, op |-> "close", addr |-> e.addr] \in wire'
    <2>0. wire' = wire \ {m} /\ m.c \in Clients /\ m.op \in {"open", "read", "close"}
      BY <1>t, <1>7, DeliveryFrame, RpcType
    <2>1. CASE m.c # e.c
      <3>1. Same(e.c)
        BY <1>t, <1>1, <1>7, <2>1, DeliveryOthers
      <3>2. PICK x : x = [c |-> e.c, k |-> e.k, op |-> "close", addr |-> e.addr]
        OBVIOUS
      <3>3. x # m
        BY <2>1, <3>2
      <3>4. QED
        BY <1>3, <1>7, <2>0, <3>1, <3>2, <3>3 DEF Same
    <2>2. CASE m.c = e.c
      <3>1. crash[e.c] = "no" /\ file'[e.c] = file[e.c] /\ opens' = opens
        <4>1. crash[e.c] # "no" => crash'[e.c] = crash[e.c]
          <5>1. crash[e.c] # "no" => pc[m.c] = "off"
            BY <1>t, <2>0, <2>2 DEF LookupInv, CallOk
          <5>2. crash[e.c] # "no" => m.op = "close"
            BY <1>t, <5>1 DEF WireInv
          <5>3. QED
            BY <1>t, <1>7, <2>2, <5>2, DeliveryFile
        <4>2. QED
          BY <1>t, <1>7, <2>2, <4>1, DeliveryFile
      <3>2. ASSUME m = [c |-> e.c, k |-> e.k, op |-> "close", addr |-> e.addr] PROVE FALSE
        <4>1. m.op = "close" /\ m.addr = e.addr /\ m.k = e.k
          BY <3>2
        <4>2. ~ServeRpc(m)
          <5>1. ASSUME ServeRpc(m) PROVE FALSE
            <6>1. held' = held \ {[c |-> m.c, k |-> m.k, addr |-> m.addr]}
              BY <4>1, <5>1 DEF ServeRpc
            <6>2. e = [c |-> e.c, k |-> e.k, addr |-> e.addr]
              BY <1>t, <1>7 DEF TypeOK
            <6>3. QED
              BY <2>2, <4>1, <6>1, <6>2
          <5>2. QED
            BY <5>1
        <4>3. srv[e.addr[1]] = "up"
          BY <1>t, <1>1, <1>2, <1>7 DEF ReadyInv
        <4>4. m.op \in Knows(m.addr[1])
          BY <1>t, <1>1, <1>7, <4>1, <4>3, UpKnows
        <4>5. QED
          BY <1>1, <1>7, <4>1, <4>2, <4>4 DEF Delivery, UnknownRpc, UnreachableRpc
      <3>3. QED
        BY <1>3, <1>7, <2>0, <3>1, <3>2
    <2>3. QED
      BY <2>1, <2>2
  <1>8. ASSUME NEW m \in wire, Delivery(m), e \notin held
        PROVE  file'[e.c] # None /\ opens'[e.c] = e.k
    <2>1. m.op = "open" /\ ServeRpc(m) /\ e = [c |-> m.c, k |-> m.k, addr |-> m.addr]
      BY <1>t, <1>8, DeliveryFile
    <2>2. e.c = m.c /\ e.k = m.k /\ file[m.c] # None /\ m.k = opens[m.c]
      BY <1>t, <2>1 DEF WireInv
    <2>3. QED
      BY <2>1, <2>2 DEF ServeRpc, callVars
  <1>9. QED
    BY <1>4, <1>5, <1>6, <1>7, <1>8, WhoMoves

-----------------------------------------------------------------------------
(* The theorems.                                                           *)

\* A step that changes nothing keeps IInv.
LEMMA StutterIInv == IInv /\ UNCHANGED vars => IInv'
  BY DEF IInv, vars, serverVars, portsVars, callVars, lookupVars, clientVars, TypeOK, LockInv, PortsInv,
     Posted, LookupInv, CacheInv, CallOk, Found, FirstLine, StreamInv, HomeInv, Home, Opened, Alive,
     WireInv, RpcToOpener, HeldInv, ReadyInv, Ended, ReadyClientsServed, NoOrphans

\* IInv is an invariant of the start-up protocol.
THEOREM Invariance == Spec => []IInv
  <1>1. IInv /\ [Next]_vars => IInv'
    <2>1. IInv /\ Next => IInv'
      <3> SUFFICES ASSUME IInv, Next PROVE IInv'
        OBVIOUS
      <3>1. TypeOK' /\ LockInv' /\ PortsInv' /\ LookupInv' /\ StreamInv'
        BY TypeStep, LockStep, PortsStep, LookupStep, StreamStep
      <3>2. HomeInv' /\ WireInv' /\ HeldInv'
        BY HomeStep, WireStep, HeldStep
      <3>3. ReadyInv' /\ ReadyClientsServed' /\ NoOrphans'
        BY ReadyStep, ServedStep, OrphanStep
      <3>4. QED
        BY <3>1, <3>2, <3>3 DEF IInv
    <2>2. QED
      BY <2>1, StutterIInv
  <1>2. QED
    BY <1>1, InitIInv, PTL DEF Spec

\* Every variable keeps its type: ranks are hashed into range, lines are well formed and
\* RPCs carry real addresses.
THEOREM TypeCorrect == Spec => []TypeOK
  <1>1. IInv => TypeOK
    BY DEF IInv
  <1>2. QED
    BY <1>1, Invariance, PTL

\* Whatever servers post at the same time, and whichever ends with the lock held, no
\* posted line is lost or changed.
THEOREM LinesSurvive == Spec => PostedLinesSurvive
  <1>1. IInv /\ [Next]_vars => [\A i \in 1..Len(ports) : i <= Len(ports') /\ ports'[i] = ports[i]]_vars
    <2> SUFFICES ASSUME IInv, [Next]_vars
                 PROVE  \A i \in 1..Len(ports) : i <= Len(ports') /\ ports'[i] = ports[i]
      OBVIOUS
    <2>1. TypeOK /\ LockInv
      BY DEF IInv
    <2>2. QED
      BY <2>1, PortsGrow
  <1>2. QED
    BY <1>1, Invariance, PTL DEF Spec, PostedLinesSurvive

\* Cached addresses are those of their ranks' first lines.
THEOREM FirstLineCorrect == Spec => []FirstLineWins
  <1>1. IInv => FirstLineWins
    <2> SUFFICES ASSUME IInv, NEW c \in Clients, NEW r \in Ranks, address_cache[c][r] # None
                 PROVE  \E i \in 1..Len(ports) : FirstLine(r, i) /\ address_cache[c][r] = ports[i].addr
      BY DEF FirstLineWins
    <2>1. Found(address_cache[c][r]) /\ address_cache[c][r][1] = r
      BY DEF IInv, LookupInv, CacheInv
    <2>2. QED
      BY <2>1 DEF Found
  <1>2. QED
    BY <1>1, Invariance, PTL

\* A look-up's FILE, which is never closed, is one for each rank at most.
THEOREM StreamsBounded == Spec => []OneStreamPerRank
  <1>1. IInv => OneStreamPerRank
    BY DEF IInv, StreamInv, OneStreamPerRank
  <1>2. QED
    BY <1>1, Invariance, PTL

\* Read and close RPCs reach the process that handed their descriptor out.
THEOREM OpenerReached == Spec => []RpcToOpener
  <1>1. IInv => RpcToOpener
    BY DEF IInv, WireInv
  <1>2. QED
    BY <1>1, Invariance, PTL

\* A client that begins when all servers are up ends only because a server did.
THEOREM ReadyServed == Spec => []ReadyClientsServed
  <1>1. IInv => ReadyClientsServed
    BY DEF IInv
  <1>2. QED
    BY <1>1, Invariance, PTL

\* Such a client leaves no descriptor behind.
THEOREM OrphansNone == Spec => []NoOrphans
  <1>1. IInv => NoOrphans
    BY DEF IInv
  <1>2. QED
    BY <1>1, Invariance, PTL

\* Two clients that know an address of a rank know the same one.
CachesAgree ==
    \A c, d \in Clients, r \in Ranks :
        address_cache[c][r] # None /\ address_cache[d][r] # None =>
            address_cache[c][r] = address_cache[d][r]

\* All clients send a rank's RPCs to the same process, whenever each looked it up
\* (hvac_client_comm_lookup_addr).
THEOREM ClientsAgree == Spec => []CachesAgree
  <1>1. IInv => CachesAgree
    BY FoundUnique DEF IInv, LookupInv, CacheInv, CachesAgree
  <1>2. QED
    BY <1>1, Invariance, PTL

=============================================================================
