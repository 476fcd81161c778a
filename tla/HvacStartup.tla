----------------------------- MODULE HvacStartup -----------------------------
(***************************************************************************)
(* How clients find servers (hvac_server.cpp, hvac_comm.cpp,               *)
(* hvac_comm_client.cpp).  A server starts listening, appends its rank and *)
(* address to ./.ports.cfg.<job> under flock, and only then registers its  *)
(* four RPCs.  A client hashes a path to a rank, scans the file for the    *)
(* rank's first line the first time, keeps the address in address_cache,   *)
(* and sends its open, read and close RPCs there.                          *)
(*                                                                         *)
(* Servers may end at any step and be launched again in the same job, in   *)
(* which case a second line for their rank is appended.  A client here has *)
(* one thread and one file open at a time.                                 *)
(***************************************************************************)
EXTENDS Integers, Sequences

CONSTANTS
    Clients,    \* client processes
    Count,      \* HVAC_SERVER_COUNT
    Hashes,     \* hashes of the paths the clients open
    EmptyHash,  \* hash of the empty path
    MaxInc,     \* bound: launches of one rank's server
    MaxOpens,   \* bound: opens of one client
    Mortal,     \* ranks whose server process may end
    None

Ranks == 0..(Count - 1)

ASSUME StartupAssumption ==
    /\ Count \in Nat \ {0}
    /\ Hashes \subseteq Nat /\ EmptyHash \in Nat
    /\ MaxInc \in Nat \ {0} /\ MaxOpens \in Nat
    /\ Mortal \subseteq Ranks
    /\ None \notin Ranks \cup Nat \cup (Ranks \X (1..MaxInc))

VARIABLES
    srv,        \* where each server's start-up is
    inc,        \* which launch of the rank is running
    registered, \* how many RPCs it has registered
    exists,     \* has .ports.cfg been created?
    ports,      \* its lines: a rank and an address
    lock,       \* the rank whose server holds the flock
    eof,        \* the end of file each server has seen
    held,       \* descriptors the servers hold: for which open of which client
    pc,         \* where each client is
    since,      \* how far all servers were when it began
    op,         \* its current operation
    file,       \* hash of the path it has open
    opens,      \* how many files it has opened
    tgt,        \* the rank it is looking up
    line,       \* the line fscanf is at
    dest,       \* the address found
    address_cache,
    streams,    \* FILEs opened by look-ups of each rank, never closed
    wire,       \* RPCs in flight
    crash       \* why the client ended, "no" while it runs

serverVars == <<srv, inc, registered, eof>>
portsVars  == <<exists, ports, lock>>
callVars   == <<op, file, opens, tgt>>
lookupVars == <<line, dest, address_cache, streams>>
clientVars == <<pc, since, callVars, lookupVars, crash>>
vars == <<serverVars, portsVars, held, wire, clientVars>>

\* Addresses are not reused: a launch has one of its own.
Addrs == Ranks \X (1..MaxInc)
Lines == [rank: Ranks, addr: Addrs]
Rpcs == [c: Clients, k: 1..MaxOpens, op: {"open", "read", "close"}, addr: Addrs]

\* The order of the calls in hvac_start_comm_server.
RpcOrder == <<"read", "open", "close", "seek">>
Knows(r) == {RpcOrder[i] : i \in 1..registered[r]}

Listening == {"open", "lock", "write", "unlock", "register", "up"}
Listed == {"unlock", "register", "up"}

TypeOK ==
    /\ srv \in [Ranks -> Listening \cup {"init", "down"}]
    /\ inc \in [Ranks -> 1..MaxInc]
    /\ registered \in [Ranks -> 0..Len(RpcOrder)]
    /\ exists \in BOOLEAN
    /\ ports \in Seq(Lines)
    /\ lock \in Ranks \cup {None}
    /\ eof \in [Ranks -> Nat]
    /\ held \subseteq [c: Clients, k: 1..MaxOpens, addr: Addrs]
    /\ pc \in [Clients -> {"off", "idle", "lookup", "scan", "forward", "wait"}]
    /\ since \in [Clients -> {"none", "listed", "up"}]
    /\ op \in [Clients -> {"none", "open", "read", "close"}]
    /\ file \in [Clients -> Hashes \cup {None}]
    /\ opens \in [Clients -> 0..MaxOpens]
    /\ tgt \in [Clients -> Ranks \cup {None}]
    /\ line \in [Clients -> Nat]
    /\ dest \in [Clients -> Addrs \cup {None}]
    /\ address_cache \in [Clients -> [Ranks -> Addrs \cup {None}]]
    /\ streams \in [Clients -> [Ranks -> Nat]]
    /\ wire \subseteq Rpcs
    /\ crash \in [Clients -> {"no", "nofile", "noaddr", "noentry", "unreachable"}]

NoCache == [r \in Ranks |-> None]
NoStreams == [r \in Ranks |-> 0]

Init ==
    /\ srv = [r \in Ranks |-> "init"]
    /\ inc = [r \in Ranks |-> 1]
    /\ registered = [r \in Ranks |-> 0]
    /\ exists = FALSE
    /\ ports = <<>>
    /\ lock = None
    /\ eof = [r \in Ranks |-> 0]
    /\ held = {}
    /\ pc = [c \in Clients |-> "off"]
    /\ since = [c \in Clients |-> "none"]
    /\ op = [c \in Clients |-> "none"]
    /\ file = [c \in Clients |-> None]
    /\ opens = [c \in Clients |-> 0]
    /\ tgt = [c \in Clients |-> None]
    /\ line = [c \in Clients |-> 0]
    /\ dest = [c \in Clients |-> None]
    /\ address_cache = [c \in Clients |-> NoCache]
    /\ streams = [c \in Clients |-> NoStreams]
    /\ wire = {}
    /\ crash = [c \in Clients |-> "no"]

-----------------------------------------------------------------------------
(* A server, from main to the idle loop of hvac_start_comm_server.         *)

Advance(r, from, to) ==
    /\ srv[r] = from
    /\ srv' = [srv EXCEPT ![r] = to]

\* HG_Init in listening mode and the progress thread: from now on RPCs arrive.
hvac_init_comm(r) ==
    /\ Advance(r, "init", "open")
    /\ UNCHANGED <<inc, registered, eof, portsVars, held, wire, clientVars>>

\* fopen(filename, "a+") creates the file.
OpenPorts(r) ==
    /\ Advance(r, "open", "lock")
    /\ exists' = TRUE
    /\ UNCHANGED <<inc, registered, eof, ports, lock, held, wire, clientVars>>

\* Mutant: hvac_comm_list_addr as it was before the file lock.
LockNothing(r) ==
    /\ Advance(r, "lock", "write")
    /\ eof' = [eof EXCEPT ![r] = Len(ports)]
    /\ UNCHANGED <<inc, registered, portsVars, held, wire, clientVars>>

\* flock(fd, LOCK_EX).  The end of a file that other nodes append to is what this
\* node last saw of it; taking the lock brings it up to date.
LockPorts(r) ==
    /\ Advance(r, "lock", "write")
    /\ lock = None
    /\ lock' = r
    /\ eof' = [eof EXCEPT ![r] = Len(ports)]
    /\ UNCHANGED <<inc, registered, exists, ports, held, wire, clientVars>>

\* What the shared file system makes of an append at the end of file n.
WriteAt(n, l) == [i \in 1..(IF n < Len(ports) THEN Len(ports) ELSE n + 1) |->
                    IF i = n + 1 THEN l ELSE ports[i]]

\* fprintf and fflush: one line reaches the file.
WriteLine(r) ==
    /\ Advance(r, "write", "unlock")
    /\ ports' = WriteAt(eof[r], [rank |-> r, addr |-> <<r, inc[r]>>])
    /\ UNCHANGED <<inc, registered, eof, exists, lock, held, wire, clientVars>>

\* Mutant: the lock is kept by a stream that is never closed.
KeepLock(r) ==
    /\ Advance(r, "unlock", "register")
    /\ eof' = [eof EXCEPT ![r] = 0]
    /\ UNCHANGED <<inc, registered, portsVars, held, wire, clientVars>>

\* flock(fd, LOCK_UN) and fclose.
UnlockPorts(r) ==
    /\ Advance(r, "unlock", "register")
    /\ lock' = IF lock = r THEN None ELSE lock
    /\ eof' = [eof EXCEPT ![r] = 0]
    /\ UNCHANGED <<inc, registered, exists, ports, held, wire, clientVars>>

\* The next of the first n RPCs is registered.
RegisterUpTo(r, n) ==
    /\ srv[r] = "register"
    /\ registered' = [registered EXCEPT ![r] = @ + 1]
    /\ srv' = [srv EXCEPT ![r] = IF registered[r] + 1 = n THEN "up" ELSE @]
    /\ UNCHANGED <<inc, eof, portsVars, held, wire, clientVars>>

\* Mutant: the close RPC is not registered.
RegisterAllButClose(r) == RegisterUpTo(r, 2)

\* hvac_rpc_register, hvac_open_rpc_register, hvac_close_rpc_register and
\* hvac_seek_rpc_register, one after the other.
Register(r) == RegisterUpTo(r, Len(RpcOrder))

ServerStep(r) ==
    \/ hvac_init_comm(r)
    \/ OpenPorts(r)
    \/ LockPorts(r)
    \/ WriteLine(r)
    \/ UnlockPorts(r)
    \/ Register(r)

\* The process ends: killed, an exit of hvac_comm_list_addr, or a failed assertion.
\* The kernel closes its descriptors and drops its lock.
ServerDies(r) ==
    /\ r \in Mortal
    /\ srv[r] # "down"
    /\ srv' = [srv EXCEPT ![r] = "down"]
    /\ registered' = [registered EXCEPT ![r] = 0]
    /\ lock' = IF lock = r THEN None ELSE lock
    /\ eof' = [eof EXCEPT ![r] = 0]
    /\ held' = {e \in held : e.addr # <<r, inc[r]>>}
    /\ UNCHANGED <<inc, exists, ports, wire, clientVars>>

\* hvac_server is launched again in the same job.
Relaunch(r) ==
    /\ Advance(r, "down", "init")
    /\ inc[r] < MaxInc
    /\ inc' = [inc EXCEPT ![r] = @ + 1]
    /\ UNCHANGED <<registered, eof, portsVars, held, wire, clientVars>>

-----------------------------------------------------------------------------
(* A client.                                                               *)

Goto(c, from, to) ==
    /\ crash[c] = "no"
    /\ pc[c] = from
    /\ pc' = [pc EXCEPT ![c] = to]

\* The client process ends, and with it all it knew.
Crash(c, why) ==
    /\ crash' = [crash EXCEPT ![c] = why]
    /\ pc' = [pc EXCEPT ![c] = "off"]
    /\ op' = [op EXCEPT ![c] = "none"]
    /\ file' = [file EXCEPT ![c] = None]
    /\ tgt' = [tgt EXCEPT ![c] = None]
    /\ line' = [line EXCEPT ![c] = 0]
    /\ dest' = [dest EXCEPT ![c] = None]
    /\ address_cache' = [address_cache EXCEPT ![c] = NoCache]
    /\ streams' = [streams EXCEPT ![c] = NoStreams]
    /\ UNCHANGED <<since, opens>>

\* The library is loaded into a client.
hvac_client_init(c) ==
    /\ Goto(c, "off", "idle")
    /\ since' = [since EXCEPT ![c] =
         IF \A r \in Ranks : srv[r] = "up" THEN "up"
         ELSE IF \A r \in Ranks : srv[r] \in Listed THEN "listed" ELSE "none"]
    /\ UNCHANGED <<serverVars, portsVars, held, wire, callVars, lookupVars, crash>>

\* Mutant: one server too many.
HostOffByOne(x) == x % (Count + 1)

\* std::hash(path) % g_hvac_server_count.
host(x) == x % Count

\* hvac_track_file: a tracked open.
OpenFile(c, x) ==
    /\ Goto(c, "idle", "lookup")
    /\ file[c] = None
    /\ opens[c] < MaxOpens
    /\ op' = [op EXCEPT ![c] = "open"]
    /\ file' = [file EXCEPT ![c] = x]
    /\ opens' = [opens EXCEPT ![c] = @ + 1]
    /\ tgt' = [tgt EXCEPT ![c] = host(x)]
    /\ UNCHANGED <<serverVars, portsVars, held, wire, since, lookupVars, crash>>

\* A call on the open file goes to the server that x hashes to.
UseFile(c, call, x) ==
    /\ Goto(c, "idle", "lookup")
    /\ file[c] # None
    /\ op' = [op EXCEPT ![c] = call]
    /\ tgt' = [tgt EXCEPT ![c] = host(x)]
    /\ UNCHANGED <<serverVars, portsVars, held, wire, since, file, opens, lookupVars, crash>>

\* hvac_remote_read and hvac_remote_pread hash the path in fd_map again.
ReadFile(c) == UseFile(c, "read", file[c])

\* Mutant: hvac_remove_fd erases fd_map[fd] before hvac_remote_close looks at it.
CloseErased(c) == UseFile(c, "close", EmptyHash)

\* hvac_remote_close, then hvac_remove_fd.
CloseFile(c) == UseFile(c, "close", file[c])

\* hvac_client_comm_lookup_addr finds the rank in address_cache ...
LookupCached(c) ==
    /\ Goto(c, "lookup", "forward")
    /\ address_cache[c][tgt[c]] # None
    /\ dest' = [dest EXCEPT ![c] = address_cache[c][tgt[c]]]
    /\ UNCHANGED <<serverVars, portsVars, held, wire, since, callVars, line,
                   address_cache, streams, crash>>

\* ... or opens the file, which it will not close ...
LookupOpens(c) ==
    /\ Goto(c, "lookup", "scan")
    /\ address_cache[c][tgt[c]] = None
    /\ exists
    /\ line' = [line EXCEPT ![c] = 1]
    /\ streams' = [streams EXCEPT ![c][tgt[c]] = @ + 1]
    /\ UNCHANGED <<serverVars, portsVars, held, wire, since, callVars, dest,
                   address_cache, crash>>

\* ... or hands fscanf the NULL that fopen returned.
LookupNoFile(c) ==
    /\ crash[c] = "no"
    /\ pc[c] = "lookup"
    /\ address_cache[c][tgt[c]] = None
    /\ ~exists
    /\ Crash(c, "nofile")
    /\ UNCHANGED <<serverVars, portsVars, held, wire>>

\* fscanf reads a line of another rank.
ScanSkips(c) ==
    /\ Goto(c, "scan", "scan")
    /\ line[c] <= Len(ports)
    /\ ports[line[c]].rank # tgt[c]
    /\ line' = [line EXCEPT ![c] = @ + 1]
    /\ UNCHANGED <<serverVars, portsVars, held, wire, since, callVars, dest,
                   address_cache, streams, crash>>

\* The scan stops at a line of the rank and gives address a; the cache becomes cache.
ScanGives(c, a, cache) ==
    /\ Goto(c, "scan", "forward")
    /\ line[c] <= Len(ports)
    /\ ports[line[c]].rank = tgt[c]
    /\ address_cache' = cache
    /\ dest' = [dest EXCEPT ![c] = a]
    /\ UNCHANGED <<serverVars, portsVars, held, wire, since, callVars, line, streams, crash>>

Cached(c, a) == [address_cache EXCEPT ![c][tgt[c]] = a]

\* Mutant: no break, so the last line of the rank wins.
ScanFindsLast(c) ==
    \E i \in 1..Len(ports) :
        /\ ports[i].rank = tgt[c]
        /\ \A j \in (i + 1)..Len(ports) : ports[j].rank # tgt[c]
        /\ ScanGives(c, ports[i].addr, Cached(c, ports[i].addr))

\* Mutant: the address is not put into address_cache.
ScanForgets(c) == ScanGives(c, ports[line[c]].addr, address_cache)

\* fscanf reads the first line of the rank: break.
ScanFinds(c) == ScanGives(c, ports[line[c]].addr, Cached(c, ports[line[c]].addr))

\* Mutant: a feof loop, which ends before the last line is looked at.
ScanEofEarly(c) ==
    /\ crash[c] = "no"
    /\ pc[c] = "scan"
    /\ line[c] >= Len(ports)
    /\ Crash(c, "noaddr")
    /\ UNCHANGED <<serverVars, portsVars, held, wire>>

\* End of file: a null address, which HG_Create or HG_Forward refuses (assert).
ScanEof(c) ==
    /\ crash[c] = "no"
    /\ pc[c] = "scan"
    /\ line[c] > Len(ports)
    /\ Crash(c, "noaddr")
    /\ UNCHANGED <<serverVars, portsVars, held, wire>>

\* HG_Forward.  A close has no response: the call is over.  The locals of the stub
\* are gone.
HG_Forward(c) ==
    /\ Goto(c, "forward", IF op[c] = "close" THEN "idle" ELSE "wait")
    /\ wire' = wire \cup {[c |-> c, k |-> opens[c], op |-> op[c], addr |-> dest[c]]}
    /\ file' = [file EXCEPT ![c] = IF op[c] = "close" THEN None ELSE @]
    /\ op' = [op EXCEPT ![c] = "none"]
    /\ tgt' = [tgt EXCEPT ![c] = None]
    /\ line' = [line EXCEPT ![c] = 0]
    /\ dest' = [dest EXCEPT ![c] = None]
    /\ UNCHANGED <<serverVars, portsVars, held, since, opens, address_cache, streams, crash>>

Alive(a) == srv[a[1]] \in Listening /\ inc[a[1]] = a[2]

\* The transport knows that the peer is gone: assert(ret == 0).
ForwardFails(c) ==
    /\ crash[c] = "no"
    /\ pc[c] = "forward"
    /\ ~Alive(dest[c])
    /\ Crash(c, "unreachable")
    /\ UNCHANGED <<serverVars, portsVars, held, wire>>

Lookup(c) ==
    \/ LookupCached(c)
    \/ LookupOpens(c)
    \/ LookupNoFile(c)
    \/ ScanSkips(c)
    \/ ScanFinds(c)
    \/ ScanEof(c)

-----------------------------------------------------------------------------
(* An RPC arrives, or does not.                                            *)

Arrives(m) == m \in wire /\ wire' = wire \ {m}

\* The server knows the RPC and answers it; a close has no answer.
ServeRpc(m) ==
    /\ Arrives(m)
    /\ Alive(m.addr)
    /\ m.op \in Knows(m.addr[1])
    /\ LET e == [c |-> m.c, k |-> m.k, addr |-> m.addr] IN
       held' = CASE m.op = "open"  -> held \cup {e}
                 [] m.op = "close" -> held \ {e}
                 [] m.op = "read"  -> held
    /\ pc' = [pc EXCEPT ![m.c] = IF m.op = "close" THEN @ ELSE "idle"]
    /\ UNCHANGED <<serverVars, portsVars, since, callVars, lookupVars, crash>>

\* Mutant: the callbacks return early on an error, without done++.
FailRpcSilent(m, why) ==
    /\ Arrives(m)
    /\ UNCHANGED <<serverVars, portsVars, held, clientVars>>

\* The answer is an error: the callbacks of open and read assert that info->ret is
\* HG_SUCCESS, and for a close nobody asks.
FailRpc(m, why) ==
    /\ Arrives(m)
    /\ IF m.op = "close" THEN UNCHANGED clientVars ELSE Crash(m.c, why)
    /\ UNCHANGED <<serverVars, portsVars, held>>

\* Mercury answers HG_NOENTRY for an RPC that is not registered.
UnknownRpc(m) ==
    /\ Alive(m.addr)
    /\ m.op \notin Knows(m.addr[1])
    /\ FailRpc(m, "noentry")

UnreachableRpc(m) ==
    /\ ~Alive(m.addr)
    /\ FailRpc(m, "unreachable")

Delivery(m) == ServeRpc(m) \/ UnknownRpc(m) \/ UnreachableRpc(m)

-----------------------------------------------------------------------------
Next ==
    \/ \E r \in Ranks : ServerStep(r) \/ ServerDies(r) \/ Relaunch(r)
    \/ \E c \in Clients :
        \/ hvac_client_init(c)
        \/ \E x \in Hashes : OpenFile(c, x)
        \/ ReadFile(c)
        \/ CloseFile(c)
        \/ Lookup(c)
        \/ HG_Forward(c)
        \/ ForwardFails(c)
    \/ \E m \in wire : Delivery(m)

Spec == Init /\ [][Next]_vars

\* Servers go on with their start-up, clients with a call they have begun, and the
\* transport delivers or reports.  Nothing is assumed of applications, nor that a
\* server ends or is launched again.
FairSpec ==
    /\ Spec
    /\ \A r \in Ranks : WF_vars(ServerStep(r))
    /\ \A c \in Clients : WF_vars(Lookup(c) \/ HG_Forward(c))
    /\ \A c \in Clients : WF_vars(\E m \in wire : m.c = c /\ Delivery(m))

-----------------------------------------------------------------------------
(* Properties.                                                             *)

\* Lines are only ever added: servers that post at the same time on different nodes
\* do not overwrite each other, also if one ends with the lock held
\* (hvac_comm_list_addr).
PostedLinesSurvive ==
    [][\A i \in 1..Len(ports) : i <= Len(ports') /\ ports'[i] = ports[i]]_vars

\* Line i is the first of rank r.
FirstLine(r, i) ==
    /\ i \in 1..Len(ports)
    /\ ports[i].rank = r
    /\ \A j \in 1..(i - 1) : ports[j].rank # r

\* A cached address is that of the rank's first line, whenever it was looked up and
\* however often the rank's server was launched again: lines appended during or
\* after a scan change nothing, and so all clients send a rank's RPCs to the same
\* process (hvac_client_comm_lookup_addr).
FirstLineWins ==
    \A c \in Clients, r \in Ranks : address_cache[c][r] # None =>
        \E i \in 1..Len(ports) : FirstLine(r, i) /\ address_cache[c][r] = ports[i].addr

\* A read or close RPC names a descriptor: the process it reaches is the one that
\* handed the descriptor out for this open of this client.
RpcToOpener ==
    \A m \in wire : m.op \in {"read", "close"} /\ Alive(m.addr) =>
        [c |-> m.c, k |-> m.k, addr |-> m.addr] \in held

\* The FILE of a look-up is never closed, but there is at most one for each rank.
OneStreamPerRank == \A c \in Clients, r \in Ranks : streams[c][r] <= 1

\* A client that began when every server had finished its start-up finds an address
\* for every path and a server that knows its RPCs: it ends only because a server
\* process did.
ReadyClientsServed ==
    \A c \in Clients : since[c] = "up" /\ crash[c] # "no" =>
        \E r \in Ranks : srv[r] = "down" \/ inc[r] > 1

\* Such a client leaves no descriptor behind at a server unless it crashes: every one
\* is open in the client or has its close RPC on the way.
NoOrphans ==
    \A e \in held : since[e.c] = "up" /\ crash[e.c] = "no" =>
        \/ file[e.c] # None /\ opens[e.c] = e.k
        \/ [c |-> e.c, k |-> e.k, op |-> "close", addr |-> e.addr] \in wire

\* Every server comes up, or ends: nobody waits for the lock for ever.
ServersComeUp == \A r \in Ranks : srv[r] \notin {"up", "down"} ~> srv[r] \in {"up", "down"}

\* Every call of a client ends, or the client does.
CallsEnd == \A c \in Clients : pc[c] \notin {"off", "idle"} ~> (pc[c] = "idle" \/ crash[c] # "no")

\* The comment at hvac_comm_list_addr expects "that the server will be started in
\* advance of the clients"; then posting an address is an invitation to use it.
PostedServersServe == \A c \in Clients : since[c] = "listed" => crash[c] = "no"
=============================================================================
