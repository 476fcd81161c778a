# TLA+ models of HVAC

HVAC (High Velocity AI Cache) puts node-local copies of training files in front of a parallel
file system. An application runs under `LD_PRELOAD=libhvac_client.so`; its `open`, `read`,
`pread` and `close` are intercepted and, for files below `HVAC_DATA_DIR`, sent as Mercury RPCs to
an `hvac_server`. The server opens the file, or its NVMe copy if there is one, and after the
close a data mover thread copies it for the next epoch.

Paths below are relative to the root of the repository (`src/...`, `tests/...`).

## 1. Inventory

| Part | State | Operations | Hard behaviour |
|---|---|---|---|
| RPC handlers (`src/hvac_comm.cpp` 305-465) | `fd_to_path`, the server's descriptors and offsets | open, read and bulk completion, seek, close (no response) | race with the mover; late closes and reuse of descriptor numbers; failed opens |
| Data mover (`src/hvac_data_mover.cpp`) | `data_queue`, `local_list`, `path_cache_map`, NVMe directories | wait, drain, copy, publish | lost and spurious wake-ups; failing copies; unlocked map |
| Client stubs and callbacks (`src/hvac_comm_client.cpp`) | `done`, `read_ret`, `address_cache` | forward an RPC, block, callback | one flag for all threads; reset outside the lock; no timeouts |
| Descriptor tracking (`src/hvac_client.cpp`) | `fd_map`, `fd_redir_map`, `g_mercury_init` | track, look up, remove | lazy initialisation; reuse of local descriptors; default 0 of `operator[]` |
| Wrappers (`src/wrappers.c`) | timing statistics | `open`, `read`, `pread`, `close` | order of tracking and the real calls |
| Start-up and addresses (`src/hvac_server.cpp`, `src/hvac_comm.cpp` 44-242, `src/hvac_comm_client.cpp` 360-398) | `.ports.cfg.<job>`, `address_cache` | post an address under `flock`, register the RPCs, look an address up | several nodes append to one file; posted before the RPCs are registered; servers that end and come again; stale entries |
| Tiered cache policy (`src/hvac_cache_policy.cpp`) | `g_fileMetaMap`, used bytes of two tiers | add, access, move, open state, victim, remove, evict | mutex not recursive; unsigned wrap-around; boundaries. Not in the build yet |
| Multi-source read (`src/hvac_multi_source_read.cpp`) | per-call RPC states | read from two tiers at once | not in the build, does not compile |
| Logging (`src/hvac_logging.c`) | log4c handles | log | none |

How the parts meet. Wrappers call the tracking functions, which call the stubs; a stub forwards an
RPC and the calling thread waits on `done_cond` until a callback, on the client's progress thread,
counts `done` up. On the server one progress thread runs handlers and callbacks one at a time; the
close handler and the mover share `data_queue` under `data_mutex`, and the handlers and the mover
share `path_cache_map` under nothing. Before any of this, each server appends its rank and address
to `.ports.cfg.<job>`; a client hashes a path to a rank and scans that file the first time it needs
the rank.

What makes each part correct:

* server: a handle reads the file it was opened on, at the offset the application expects;
  descriptors neither leak nor get mixed up; only finished copies are served; queued work is
  done once, in order, eventually; the server survives its clients' errors;
* client: a call returns when, and only when, its own RPC has completed, with its own answer;
  the maps describe the descriptors that are open now; Mercury is initialised once;
* start-up: no posted line is lost; all clients find the same process for a rank; an RPC that names
  a descriptor reaches the process that issued it; a client that starts late enough is served;
* policy: usage equals the files placed; capacities hold; every function returns.

The hazards behind these, with lines, are listed in `PROJECT.json`.

## 2. Modules

| Module | Models |
|---|---|
| `PosixFile` | what `read`, `pread` and `lseek64` return and where they leave an offset |
| `HvacServer` | one server process: progress thread, mover, kernel descriptors, and the clients as the server sees them |
| `FileService` | the promise: a read-only file service with one offset per handle, no redirection, no mover |
| `HvacServerRefinement` | the mapping under which `HvacServer` implements `FileService` |
| `HvacServerHistory` | `HvacServer` with a history variable, for what a signal to the mover achieves |
| `HvacServerProofs`, `HvacServerRefinementProofs` | theorems about the two |
| `HvacClient` | one client process: application threads, shared flags, callbacks, and the server as the client sees it |
| `HvacClientProofs` | theorems about it |
| `HvacStartup` | all servers and clients of a job, as far as they find each other |
| `HvacStartupProofs` | theorems about it |
| `CachePolicy` | the cache policy, one action per function |
| `CachePolicyProofs` | theorems about it |
| `MCHvacServer`, `MCHvacServerHistory`, `MCHvacClient`, `MCHvacStartup`, `MCCachePolicy` | values for TLC |

Definitions carry the names of the functions they model. Definitions introduced by a comment
`Mutant:` are deliberate mistakes; replacing the definition that follows by one makes a named
property fail, which shows that the property watches that code (pairs in `PROJECT.json`). Where
a mutant differs from the code in one place, both are uses of one operator with that place as its
parameter. The inductive invariants are at the head of the modules that prove them.

### HvacServer

A *handle* is one tracked descriptor of some client. `stage[h]` follows its current call;
`rfd[h]` is its entry of `fd_redir_map`, `cpos[h]` the offset the application believes in. Close
RPCs are a set `closing`, because nothing orders them after the client's next calls.

`fdObj` and `fdPos` are the kernel's table: what each descriptor refers to and its offset.
`open` may return any free number. Directories under `BBPATH` are model values; `copyOf` says for
which path one was made, `copied` whether the copy is complete. `Content` is what a reader finds.

The mover's program counter is `lock`, `wait`, `woken`, `work`, `copy`, `publish`. The assignment
`path_cache_map[p] = filename` spans the stage `publish`, in which `Lookup` is the set of results
that an unlocked search of the tree may give: the old entry, the new one, an empty string
(`Torn`), no entry, or a crash (`Wild`). `read` with an error and `close` of a bad descriptor end
the process as the `assert`s do; the default build does not define `NDEBUG`.

A read's byte count passes through the `int32_t` field `input_val`: `HalfWord` stands for 2^31, and
a count from there on is cut to its low bits. If that makes it negative, `calloc` fails and the
assertion on the buffer ends the server; otherwise the read is shortened.

`ClientDies` is a client process that ends with files open. `hvac_client_shutdown` sends nothing, so
what was in flight is still served; the push of a read to a process that is gone may fail, and the
assertion in `hvac_rpc_handler_bulk_cb` then ends the server.

Abstractions: all files have one length, below 2 GiB; bytes are identified by their file and
offset; seeks beyond the end are left out, so that seek offsets fit their `int32_t`. An offset of -1
in a read RPC is the plain read, as in the code; a `pread` at -1, which ought to fail and which
the code turns into a plain read, is assumed not to be made, so neither `ReadsRightData` nor the
refinement says anything of it. `MaxQueue` keeps `CloseCall` from being taken with a full queue,
which the code does not do; it is a bound of the model, and no property rests on it.

`HvacServerHistory` adds `owed`, true from a push that finds the mover in `pthread_cond_wait`
(waiting, or signalled and not yet back with the mutex) until the queue is empty. `QueueDrained`,
which speaks of every push, fails; `SignalDrainsQueue` says that these pushes at least are taken,
without the help of another close, and everything queued before them too. It fails when the
signal is left out of the close handler, and when the mover takes one path where it should take all.

### FileService and the refinement

`FileService` has per handle a file, an offset and one call in progress. A read answers the bytes of
that file from that offset (or from `pread`'s), in full if it asks for fewer than `Limit` bytes; an
open may fail; the service may stop. `HvacServerRefinement` hides descriptor numbers (an open
answers 0 or -1), the kernel's offset (the abstract one is what the application has consumed),
the bulk stage (the buffer counts only once the response is there), NVMe copies, the queue and the
mover. `ImplementsFileService` says that nothing else can be told apart. It is checked by the run
`server_offsets` and proved in `HvacServerRefinementProofs`. The abstract service may stop at any
time; when the real one does is the business of `AbortHasCause`.

### HvacClient

Each thread has a program counter through `open` (`track`, `init`, `reset`, `forward`, `block`,
`wait`), `read`/`pread`/`hvac_remote_lseek` and `close` (`realclose`). No wrapper calls
`hvac_remote_lseek` at present; it is modelled as a call an application may make. `done = HG_FALSE` happens outside the mutex;
`done++` in a callback is a load (`CallbackBegin`) and a store (`CallbackEnd`), so the reset can
fall between them. `done` is an 8-bit integer, compared with 1. `read_ret` holds the identity of
the call whose answer it is, or `None`: -1, or the uninitialised value that `hvac_seek_cb` stores
when the RPC failed, because it does not look at `info->ret`. The server answers any open with a free descriptor or -1, and dies
when it is sent -1, as `HvacServer` shows. `owner` records for which local descriptor the server
opened each of its own.

Assumed of applications: no thread uses a descriptor before the `open` that returns it has
returned, nor closes one that another thread is using. After a second `hvac_init_comm` the model
stops, because two progress threads then share overwritten globals.

### HvacStartup

A server goes through `init`, `open`, `lock`, `write`, `unlock`, `register` (four steps) and `up`,
which are the lines of `hvac_start_comm_server` and `hvac_comm_list_addr`. It listens from
`hvac_init_comm` on. `ports` is the file, a sequence of lines; `eof[r]` is the end of file that
server `r` has seen, which taking the lock brings up to date, as nodes of a shared file system see
each other's appends only then. A server whose rank is in `Mortal` may end at any step; the kernel
drops its lock and its descriptors. It may be launched again (`inc`), with an address of its own,
and then appends another line.

A client opens, reads and closes one file at a time. Each call hashes the path to a rank (`host`),
looks the rank up in `address_cache` or scans the file line by line while servers append to it,
and forwards an RPC. `held` is the set of descriptors the servers hold, with the open they are for.
An RPC is served, unknown to the server (`HG_NOENTRY`) or undeliverable; the callbacks of open and
read assert success, so an error ends the client, and a close has no answer. `since` remembers how
far the servers were when the client began.

Assumed: a line reaches the file in one write (`fprintf` and `fflush` of a short line); a new
launch gets a new address. A look-up always takes the first line of a rank, so a client that begins
after a server was launched again is led to the old address and fails: the code has no recovery
from that, and `ReadyClientsServed` promises nothing then.

### CachePolicy

Each function holds `g_cacheMutex` throughout and is one action. Counters are taken modulo
`Modulus` (2^64 in the code). `exit(-1)`, the crash of `std::stoull(NULL)` and a thread that locks
the mutex it holds are values of `status`. `last` is the last call that returned.
`ScanFor` is the loop over `g_fileMetaMap` in key order, as a fold that visits the greatest key last.

## 3. Runs

| Run | Result | Bounds |
|---|---|---|
| `server_faults` | `TypeOK`, `DescriptorAccounting`, `PendingIsFifo`, `HandleSeesItsFile`, `RedirectComplete` hold | 2 handles, 2 files, 2 descriptors, 2 directories, unlink and I/O errors, no reads |
| `server_offsets` | `ReadsRightData`, `AbortHasCause`, `ImplementsFileService` hold | 1 handle, 2 files of 3 bytes, a word of 8 values, reads of 2, 5 and 9, offsets -2..2, all origins, I/O errors, dying clients |
| `server_live` | `CallsReturn`, `BatchFinishes`, `SignalDrainsQueue` hold | 1 handle, unlink, I/O errors, dying clients, fairness |
| `server_lost_wakeup` | `QueueDrained` is violated | 1 handle, no faults, fairness |
| `server_close_assert` | `CloseAssertHolds` is violated | 1 handle, unlink |
| `client_single` | `TypeOK`, `BlocksUntilDone`, `ReadsOwnAnswer`, `TrackingMatchesKernel`, `RedirectionConsistent`, `CallsReturn` hold | 1 thread, 2 tracked files and 1 untracked, 2 local and 2 server descriptors, fairness |
| `client_hang` | `CallsReturn` is violated | 2 threads, fairness |
| `client_init_once` | `InitOnce` is violated | 2 threads |
| `policy` | `TypeOK`, `CapacityRespected`, `VictimIsLeast`, `EvictReturns` hold | 3 files, capacities 3 and 2, sizes 1..3 of an 8-value word: no sum wraps |
| `policy_evict` | `EvictMakesRoom` is violated | the same |
| `startup` | `TypeOK`, `FirstLineWins`, `RpcToOpener`, `OneStreamPerRank`, `ReadyClientsServed`, `NoOrphans`, `PostedLinesSurvive`, `ServersComeUp`, `CallsEnd` hold | 2 servers, one of which may end and be launched once more, 1 client, 2 opens, fairness |
| `startup_race` | `PostedServersServe` is violated | 1 server that does not end, 1 client, 1 open |

Why the bounds are enough. Two handles and two descriptors give every case of one client's late
close against another's open, and exhaustion of the table. Two directories let a path be copied
twice and still leave the third attempt without space. `MaxQueue` bounds close RPCs in flight plus
queued paths; two of them suffice for a path that arrives during a copy and one whose signal
repairs that. Counts 2, 5 and 9 are, for a word of 8, one that fits, one that turns negative and one that wraps to a short positive count.
Two servers suffice for an overwritten line and for a path whose rank is not the first; two opens
for a cached address and for a late close. In the client, two
local and two server descriptors give reuse on both sides. The offsets run covers both sides of
the end of the file and invalid offsets. The safety properties of all
runs are also proved for all values of the constants, those of the client for one thread as far
as they need it. The violations need no more than two threads or one
handle.

What the violations say (quotations and lines in `PROJECT.json`):

* the mover's wait has no predicate, so the last files closed may never be cached;
  a signal is lost when it is sent before the first wait (the shortest trace) or during a batch.
  `SignalDrainsQueue` shows that the next close that finds the mover waiting repairs it;
* one client whose open fails on the server (the file vanished in between) ends the server by
  closing the file again;
* the client is correct for one application thread only: with two, calls may never return, and
  Mercury can be initialised twice (`BlocksUntilDone`, which `client_single` shows for one thread,
  fails with two as well);
* a server invites clients before it can serve them: an open RPC that arrives between the posting of
  the address and the registration ends the client. `ReadyClientsServed` shows that clients
  started after the registration are safe;
* the cache policy does not evict when persistent memory is full. Nor does it ever otherwise:
  `EvictReturns` holds because the path that evicts, on which the function would lock the mutex it
  holds, cannot be reached unless a sum of sizes wraps around.

Three more things about the policy are plain in the code and have no run of their own:
`cache_policy_init` tests `HVAC_PM_CAPACITY` where its message names `HVAC_FSDAX_CAPACITY`; a file
that fits on neither tier gets no metadata, and a later `cache_policy_set_open_state` for it exits;
a size near 2^64 passes the capacity test by wrapping around, after which a removal can drive the
counter above the capacity and into the self-deadlock.

Deadlock is checked in every run but the two of `HvacStartup`, where a job may come to its end: all
servers down for good and all clients ended. Elsewhere `Stopped` lets a process that has aborted
stay so.

### Fairness

`HvacServer!Fairness`: weak fairness of each handle's service, of each close RPC, of the mover and
of the delivery of responses: `hvac_progress_fn` and `hvac_data_mover_fn` are endless loops and
the transport is reliable. Nothing is assumed of applications, of spurious wake-ups or of faults.

`HvacStartup!FairSpec`: a server goes on with its start-up (the lock is free again after finitely many
steps of its holder, or when that process ends), a client goes on with a call it has begun, and the
transport delivers each RPC or reports that it cannot. Nothing is assumed of applications, nor that
servers end or come again.

`HvacClient!FairSpec`: a thread inside a call gets the processor and `done_mutex` in turn (strong
fairness, as the mutex is taken and released by others), RPCs are answered or fail, and the
progress thread takes up every thread's completions (strong fairness, as completions are queued).

That an RPC is answered or fails is an assumption on the transport. The code has no timeout: if a
server dies and the transport does not report it, the caller waits for ever, and no property here
says otherwise.

## 4. Proofs

### The server

`HvacServerProofs` proves for every value of the constants that satisfies `FileAssumption` and
`ServerAssumption` (descriptors are naturals, files are shorter than 2 GiB, the special values differ
from files and directories):

| Theorem | Statement |
|---|---|
| `Invariance` | `Spec => []IInv` |
| `TypeCorrect` | `Spec => []TypeOK` |
| `AccountingCorrect` | `Spec => []DescriptorAccounting` |
| `RedirectionTransparent` | `Spec => []HandleSeesItsFile` |
| `PublishedComplete` | `Spec => []RedirectComplete` |
| `AbortCause` | `Spec => []AbortHasCause` |
| `ReadsCorrect` | `Spec => []ReadsRightData` |
| `FifoCorrect` | `Spec => PendingIsFifo` |

None of the safety properties is inductive alone. `HandleSeesItsFile` needs to know that what is
published, or about to be (`MoverInv`: the directory being filled belongs to the front of the
batch, and in stage `publish` it is complete), is right, and that two handles never share a
descriptor (`DescriptorAccounting`). That in turn needs `StageInv`, which says what an answer on
its way may be, and `FailedOpenInv` traces every -1 back to a failed open. `IInv` is their
conjunction with `TypeOK`. The step lemmas follow the actions; most steps neither open nor close
anything (`Quiet`) and are dealt with once by `QuietStep`, leaving opens and closes. Offsets
(`OffsetInv` and `ReadsRightData`) are proved on top of `IInv`.

### The refinement

`HvacServerRefinementProofs` proves `Refinement`: `Spec => ImplementsFileService`. Initial states map to
the initial state. Each step of a client or a handler maps to the abstract action of its name, or,
when an assertion fails, to `Stop`; the mover, the close handler, deaths and deletions map to
stuttering. The answers are right because of `IInv` (the descriptor a handle holds is open on its
file) and `ReadsRightData` (the kernel's offset is the application's).

### Start-up

`HvacStartupProofs` proves for any number of servers, clients, launches and opens
(`StartupAssumption`: there is a server, hashes are naturals, `None` is none of the values):

| Theorem | Statement |
|---|---|
| `Invariance` | `Spec => []IInv` |
| `TypeCorrect` | `Spec => []TypeOK` |
| `LinesSurvive` | `Spec => PostedLinesSurvive` |
| `FirstLineCorrect` | `Spec => []FirstLineWins` |
| `StreamsBounded` | `Spec => []OneStreamPerRank` |
| `OpenerReached` | `Spec => []RpcToOpener` |
| `ReadyServed` | `Spec => []ReadyClientsServed` |
| `OrphansNone` | `Spec => []NoOrphans` |
| `ClientsAgree` | `Spec => []CachesAgree`: two clients cache the same address for a rank |

The argument. `LockInv`: between the look at the end of file and the release the lock is held, so
that the end seen is the real one and appending keeps every line; hence the first line of a rank
never changes (`Found` is stable), and what is cached stays what look-ups find (`CacheInv`, and
`CallOk` for a scan in progress). `HomeInv` says where the open file of a client lives, and that its
descriptor is there while that process is; `WireInv` that an RPC awaiting an answer is its client's
only one and that a close is the last RPC of its file, so no descriptor is closed under a read;
`HeldInv` that descriptors belong to running processes. `ReadyInv` fixes what a late client finds:
every rank listed, and its first address either all registered or gone.

### The client

`HvacClientProofs` has two layers, under `ClientAssumption` (descriptors are naturals, those of
the server not 0, a path is tracked or not, the special values are none of these).

For any number of application threads, with each access to the maps taken as atomic:

| Theorem | Statement |
|---|---|
| `ThreadsInvariance` | `Spec => []ThreadsInv` |
| `TypeCorrect` | `Spec => []TypeOK` |
| `TrackingCorrect` | `Spec => []TrackingMatchesKernel` |

`TrackingMatchesKernel` needs `KernelInv`: a descriptor between `__real_open` and
`hvac_track_file`, or between `hvac_remove_fd` and `__real_close`, is not in `fd_map` and nobody
else works on it, so the number cannot be reused while the map still has the old entry. `PcInv`
ties the place a call has reached to what the call is.

For one thread (`OneThread`, a hypothesis of each theorem and not an assumption of the model, as the
runs `client_hang` and `client_init_once` refute the like for two):

| Theorem | Statement |
|---|---|
| `Invariance` | `Spec => []IInv` |
| `BlockingCorrect` | `Spec => []BlocksUntilDone` |
| `ReadsCorrect` | `Spec => []ReadsOwnAnswer` |
| `RedirectionCorrect` | `Spec => []RedirectionConsistent` |
| `InitOnceCorrect` | `Spec => []InitOnce` |

The heart is `FlightInv` (at most one RPC is under way, in one place, and it is the call its thread
is blocked in) with `DoneInv` (`done` is 0 from the reset to the callback's store, and the callback
has loaded 0). Together they say that the only event that lets the thread go is its own callback;
`AnswerInv` adds that `read_ret` is then the call's own. With two threads both parts break at once:
a callback of one sets the flag the other has just reset. `RedirInv` and `ClosesInv` follow a server
descriptor from the answer to its open through `fd_redir_map` into its close RPC, so that it is in
one place at a time; the default 0 of `operator[]` is never sent because a thread reads an entry
only after its open has written it. `MercuryInv` counts the calls of `hvac_init_comm`.

### The cache policy

`CachePolicyProofs` proves, under `PolicyAssumption`, for any set of paths, finite or not:

| Theorem | Statement |
|---|---|
| `BaseInvariance` | `Spec => []BaseInv` |
| `TypeCorrect` | `Spec => []TypeOK` |
| `VictimCorrect` | `Spec => []VictimIsLeast` |
| `Invariance` | `NoWrap` implies `Spec => []IInv` |
| `CapacityCorrect` | `NoWrap` implies `Spec => []CapacityRespected` |
| `EvictCorrect` | `NoWrap` implies `Spec => []EvictReturns` |

`NoWrap` says that no file's size plus a capacity reaches 2^64. Nothing in the code enforces it.
File sizes are below 2^63 (`off_t`), so it holds for capacities up to 2^63; it cannot be dropped, as
a size near 2^64 passes the capacity test by wrapping (section 3). Types and the victim do not need it.

Two properties are about folds over a finite set of files: the loop that selects the victim
(`ScanFor`) and the sums `BytesIn`. The folds are defined by `CHOOSE` of a recursive function on the
subsets, so nothing is known of them before such a function is shown to exist. For each there is a
closed form. The bytes of a set of files are the number of its *cells*, pairs of a file and a byte
number (`Load`), and adding a file adds its size by the library's theorems on cardinality. The
victim is the one file that precedes all other candidates (`IsBest`), which a round of the loop
keeps because the file visited last has the greatest path (`VisitBest`). The closed form is such a
recursive function (`LoadSums`, `BestScans`), and every such function is the closed form
(`SumsAreLoad`, `ScansAreBest`), since a smallest subset on which they differ leads to a smaller one
(`MinimalSet`, from the well-foundedness of strict inclusion on finite sets).

With that, `UsedInv` (each counter is the `Load` of its tier and within the capacity) is kept by
each action: a tier gets a file, loses one, or stays as it is (`TierGets`, `TierLoses`, `TierSame`).
`EvictReturns` follows, as the test of `cache_policy_evict_if_needed` never finds the counter above
the capacity.

### Left to TLC

Liveness (`CallsReturn` of server and client, `BatchFinishes`, `SignalDrainsQueue`,
`ServersComeUp`, `CallsEnd`): fairness is out of the prover's reach. Every invariant and every
action property of a passing run has a theorem. The inductive invariants were checked by TLC on
small instances before they were proved.

## 5. Plan

Everything planned is in place: each modelled component has its runs, its invariants are proved, and
the server's refinement is. What would come next, should the code grow: wrappers of `lseek` (now
commented out) as client actions, the policy composed with the mover once something calls it, and the
multi-source read once it compiles.

## 6. Not modelled

* Logging (`src/hvac_logging.c`) and the statistics of the wrappers: output only.
* The multi-source read (`src/hvac_multi_source_read.cpp`): not in the build, and not compilable as it
  stands (undeclared types, functions without a body), so it has no behaviour to model.
* What is commented out or under `#if 0`: the wrappers of `lseek`, `write`, `readv`, `fopen` and others,
  and two earlier versions of `hvac_comm_list_addr`. An application's own `lseek` therefore moves
  the local descriptor only, which no module shows.
* The path tests of `hvac_track_file` (an open is tracked or not), `fork` and `dup`.
* Missing environment variables, and a failing `HG_Init` or `pthread_create`, which the code only logs.
* Corruption of the client's maps by several application threads: each access to a map is atomic in
  `HvacClient`. `BlocksUntilDone` and `ReadsOwnAnswer` are about one application thread and the
  progress thread; for several threads only `client_hang` and `client_init_once` speak.
