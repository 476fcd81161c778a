----------------------------- MODULE CachePolicy ----------------------------
(***************************************************************************)
(* The tiered cache policy (hvac_cache_policy.cpp): metadata of the files  *)
(* placed in persistent memory (FSDAX) or on SSD, and the bytes used on    *)
(* each tier.  Every function holds g_cacheMutex from its first line to    *)
(* its last, so each is one action, whatever threads call it.  The mutex   *)
(* is not recursive: a function that calls another one of them while       *)
(* holding it never returns, and nobody else gets in.                      *)
(*                                                                         *)
(* No code of the repository calls the policy yet, so callers are free to  *)
(* make any call.                                                          *)
(***************************************************************************)
EXTENDS Integers, FiniteSetsExt

CONSTANTS
    Paths,          \* file paths, as numbers: the order of std::map
    Sizes,          \* file sizes callers pass
    FsdaxCapacity,  \* HVAC_FSDAX_CAPACITY
    SsdCapacity,    \* HVAC_SSD_CAPACITY
    Modulus,        \* 2^64 in the code
    MaxCount,       \* bound: access_count
    EmptyPath       \* ""

ASSUME PolicyAssumption ==
    /\ Paths \subseteq Nat
    /\ Modulus \in Nat \ {0}
    /\ Sizes \subseteq 0..(Modulus - 1)
    /\ {FsdaxCapacity, SsdCapacity} \subseteq 0..(Modulus - 1)
    /\ MaxCount \in Nat
    /\ EmptyPath \notin Paths

VARIABLES
    env,                    \* the environment variables that are set
    g_fileMetaMap,
    g_fsdax_used_bytes,
    g_ssd_used_bytes,
    last,                   \* the last call that returned, and the path it names
    status                  \* "new", "up", or why no call succeeds any more

vars == <<env, g_fileMetaMap, g_fsdax_used_bytes, g_ssd_used_bytes, last, status>>
usage == <<g_fsdax_used_bytes, g_ssd_used_bytes>>

Tiers == {"FSDAX", "SSD"}
EnvNames == {"HVAC_FSDAX_PATH", "HVAC_SSD_PATH", "HVAC_PM_CAPACITY",
             "HVAC_FSDAX_CAPACITY", "HVAC_SSD_CAPACITY"}
Metas == [current_tier: Tiers, size: Sizes, access_count: 0..MaxCount, is_open: BOOLEAN]
Absent == [size |-> -1]
Ops == {"none", "init", "add", "access", "tier", "open", "remove", "select", "evict"}

TypeOK ==
    /\ env \subseteq EnvNames
    /\ g_fileMetaMap \in [Paths -> Metas \cup {Absent}]
    /\ g_fsdax_used_bytes \in 0..(Modulus - 1)
    /\ g_ssd_used_bytes \in 0..(Modulus - 1)
    /\ last \in [op: Ops, path: Paths \cup {EmptyPath}]
    /\ status \in {"new", "up", "exit", "crash", "stuck"}

Init ==
    /\ env \in SUBSET EnvNames
    /\ g_fileMetaMap = [p \in Paths |-> Absent]
    /\ g_fsdax_used_bytes = 0
    /\ g_ssd_used_bytes = 0
    /\ last = [op |-> "none", path |-> EmptyPath]
    /\ status = "new"

Up == status = "up"
Registered == {p \in Paths : g_fileMetaMap[p] # Absent}
InTier(tier) == {p \in Registered : g_fileMetaMap[p].current_tier = tier}
Returns(op, p) == last' = [op |-> op, path |-> p]
SetMeta(p, m) == g_fileMetaMap' = [g_fileMetaMap EXCEPT ![p] = m]

\* uint64_t arithmetic.
Plus(a, b) == (a + b) % Modulus
Minus(a, b) == (a - b) % Modulus

-----------------------------------------------------------------------------
\* The environment is tested, then read: std::stoull(NULL) is a crash.
cache_policy_init ==
    /\ status = "new"
    /\ status' = IF EnvNames \ {"HVAC_FSDAX_CAPACITY"} \subseteq env
                 THEN IF "HVAC_FSDAX_CAPACITY" \in env THEN "up" ELSE "crash"
                 ELSE "exit"
    /\ Returns("init", EmptyPath)
    /\ UNCHANGED <<env, g_fileMetaMap, usage>>

\* Mutant: the sum is stored without the test against the capacity.
AddUnchecked(p, size) ==
    /\ Up
    /\ Returns("add", p)
    /\ p \notin Registered
    /\ g_fsdax_used_bytes' = Plus(g_fsdax_used_bytes, size)
    /\ SetMeta(p, [current_tier |-> "FSDAX", size |-> size, access_count |-> 0, is_open |-> TRUE])
    /\ UNCHANGED <<env, g_ssd_used_bytes, status>>

\* A new file goes to persistent memory, else to SSD, else nowhere.
cache_policy_add_file(p, size) ==
    LET pm == Plus(g_fsdax_used_bytes, size)
        ssd == Plus(g_ssd_used_bytes, size)
        meta(tier) == [current_tier |-> tier, size |-> size, access_count |-> 0, is_open |-> TRUE]
    IN  /\ Up
        /\ Returns("add", p)
        /\ \/ /\ p \in Registered \/ (pm > FsdaxCapacity /\ ssd > SsdCapacity)
              /\ UNCHANGED <<g_fileMetaMap, usage>>
           \/ /\ p \notin Registered /\ pm <= FsdaxCapacity
              /\ g_fsdax_used_bytes' = pm
              /\ SetMeta(p, meta("FSDAX"))
              /\ UNCHANGED g_ssd_used_bytes
           \/ /\ p \notin Registered /\ pm > FsdaxCapacity /\ ssd <= SsdCapacity
              /\ g_ssd_used_bytes' = ssd
              /\ SetMeta(p, meta("SSD"))
              /\ UNCHANGED g_fsdax_used_bytes
        /\ UNCHANGED <<env, status>>

cache_policy_update_access(p) ==
    /\ Up
    /\ Returns("access", p)
    /\ IF p \notin Registered THEN UNCHANGED g_fileMetaMap
       ELSE /\ g_fileMetaMap[p].access_count < MaxCount
            /\ g_fileMetaMap' = [g_fileMetaMap EXCEPT ![p].access_count = @ + 1]
    /\ UNCHANGED <<env, usage, status>>

\* Mutant: the bytes of the demoted file stay booked on persistent memory.
UpdateTierLeaks(p, new_tier) ==
    LET size == g_fileMetaMap[p].size
        ssd == Plus(g_ssd_used_bytes, size)
    IN  /\ Up
        /\ Returns("tier", p)
        /\ p \in InTier("FSDAX") /\ new_tier = "SSD" /\ ssd <= SsdCapacity
        /\ g_ssd_used_bytes' = ssd
        /\ g_fileMetaMap' = [g_fileMetaMap EXCEPT ![p].current_tier = "SSD"]
        /\ UNCHANGED <<env, g_fsdax_used_bytes, status>>

\* Mutant: every requested tier is recorded, PFS too.
UpdateTierAny(p, new_tier) ==
    /\ Up
    /\ Returns("tier", p)
    /\ p \in Registered
    /\ g_fileMetaMap' = [g_fileMetaMap EXCEPT ![p].current_tier = new_tier]
    /\ UNCHANGED <<env, usage, status>>

\* Move p between the tiers; a demotion that does not fit ends the process, a
\* promotion that does not fit is ignored.
cache_policy_update_tier(p, new_tier) ==
    LET size == g_fileMetaMap[p].size
        pm == Plus(g_fsdax_used_bytes, size)
        ssd == Plus(g_ssd_used_bytes, size)
        move == g_fileMetaMap' = [g_fileMetaMap EXCEPT ![p].current_tier = new_tier]
    IN  /\ Up
        /\ Returns("tier", p)
        /\ \/ /\ p \in InTier("FSDAX") /\ new_tier = "SSD" /\ ssd <= SsdCapacity
              /\ g_ssd_used_bytes' = ssd
              /\ g_fsdax_used_bytes' = Minus(g_fsdax_used_bytes, size)
              /\ move /\ UNCHANGED status
           \/ /\ p \in InTier("FSDAX") /\ new_tier = "SSD" /\ ssd > SsdCapacity
              /\ status' = "exit"
              /\ UNCHANGED <<g_fileMetaMap, usage>>
           \/ /\ p \in InTier("SSD") /\ new_tier = "FSDAX" /\ pm <= FsdaxCapacity
              /\ g_fsdax_used_bytes' = pm
              /\ g_ssd_used_bytes' = Minus(g_ssd_used_bytes, size)
              /\ move /\ UNCHANGED status
           \/ /\ \/ p \notin Registered
                 \/ p \in InTier(new_tier) \/ new_tier \notin Tiers
                 \/ p \in InTier("SSD") /\ new_tier = "FSDAX" /\ pm > FsdaxCapacity
              /\ UNCHANGED <<g_fileMetaMap, usage, status>>
        /\ UNCHANGED env

\* A path that has no metadata ends the process.
cache_policy_set_open_state(p, is_open) ==
    /\ Up
    /\ Returns("open", p)
    /\ IF p \in Registered
       THEN /\ g_fileMetaMap' = [g_fileMetaMap EXCEPT ![p].is_open = is_open]
            /\ UNCHANGED status
       ELSE status' = "exit" /\ UNCHANGED g_fileMetaMap
    /\ UNCHANGED <<env, usage>>

cache_policy_get_tier(p) ==
    IF p \in Registered THEN g_fileMetaMap[p].current_tier ELSE "UNKNOWN"

\* The loop over g_fileMetaMap, in key order (the greatest key last): the files in
\* eligible may become the victim.
ScanFor(eligible) ==
    LET visit(p, victim) ==
            IF /\ p \in eligible
               /\ \/ victim = EmptyPath
                  \/ g_fileMetaMap[p].access_count < g_fileMetaMap[victim].access_count
            THEN p ELSE victim
    IN  MapThenFoldSet(visit, EmptyPath, LAMBDA p : p, Max, Registered)

\* Mutant: open files are candidates as well.
SelectAny == ScanFor(InTier("FSDAX"))

\* Closed files in persistent memory.
select_victim == ScanFor({p \in InTier("FSDAX") : ~g_fileMetaMap[p].is_open})

cache_policy_select_victim_for_eviction ==
    /\ Up
    /\ Returns("select", select_victim)
    /\ UNCHANGED <<env, g_fileMetaMap, usage, status>>

\* A path that has no metadata ends the process.
cache_policy_remove_file(p) ==
    LET size == g_fileMetaMap[p].size IN
    /\ Up
    /\ Returns("remove", p)
    /\ IF p \in Registered
       THEN /\ g_fsdax_used_bytes' = IF p \in InTier("FSDAX")
                                     THEN Minus(g_fsdax_used_bytes, size) ELSE g_fsdax_used_bytes
            /\ g_ssd_used_bytes' = IF p \in InTier("SSD")
                                   THEN Minus(g_ssd_used_bytes, size) ELSE g_ssd_used_bytes
            /\ SetMeta(p, Absent)
            /\ UNCHANGED status
       ELSE status' = "exit" /\ UNCHANGED <<g_fileMetaMap, usage>>
    /\ UNCHANGED env

\* Beyond the test, cache_policy_select_victim_for_eviction locks g_cacheMutex
\* again: the call never returns and the mutex is never released.
cache_policy_evict_if_needed ==
    /\ Up
    /\ IF g_fsdax_used_bytes <= FsdaxCapacity
       THEN Returns("evict", EmptyPath) /\ UNCHANGED status
       ELSE status' = "stuck" /\ UNCHANGED last
    /\ UNCHANGED <<env, g_fileMetaMap, usage>>

-----------------------------------------------------------------------------
Stopped == status \notin {"new", "up"} /\ UNCHANGED vars

Next ==
    \/ cache_policy_init
    \/ \E p \in Paths :
        \/ \E size \in Sizes : cache_policy_add_file(p, size)
        \/ cache_policy_update_access(p)
        \/ \E tier \in Tiers \cup {"PFS"} : cache_policy_update_tier(p, tier)
        \/ \E is_open \in BOOLEAN : cache_policy_set_open_state(p, is_open)
        \/ cache_policy_remove_file(p)
    \/ cache_policy_select_victim_for_eviction
    \/ cache_policy_evict_if_needed
    \/ Stopped

Spec == Init /\ [][Next]_vars

-----------------------------------------------------------------------------
(* Properties.                                                             *)

BytesIn(tier) == MapThenSumSet(LAMBDA p : g_fileMetaMap[p].size, InTier(tier))

\* For sizes that cannot wrap, the used bytes of both tiers are the sizes of the
\* files on them (what cache_policy_get_usage_bytes reports), and no tier ever
\* holds more than its capacity, through any placements, moves and removals.
CapacityRespected ==
    /\ g_fsdax_used_bytes = BytesIn("FSDAX") /\ BytesIn("FSDAX") <= FsdaxCapacity
    /\ g_ssd_used_bytes = BytesIn("SSD") /\ BytesIn("SSD") <= SsdCapacity

Candidates == {p \in InTier("FSDAX") : ~g_fileMetaMap[p].is_open}
Less(p, q) ==
    \/ g_fileMetaMap[p].access_count < g_fileMetaMap[q].access_count
    \/ g_fileMetaMap[p].access_count = g_fileMetaMap[q].access_count /\ p < q

\* The loop of cache_policy_select_victim_for_eviction finds a closed file in
\* persistent memory that is least accessed, the first such in path order, and
\* "" exactly if there is none.
VictimIsLeast ==
    last.op = "select" =>
        IF Candidates = {} THEN last.path = EmptyPath
        ELSE last.path \in Candidates /\ \A p \in Candidates \ {last.path} : Less(last.path, p)

\* "@return 0 if no eviction happened or eviction succeeded, non-zero on
\* failure": cache_policy_evict_if_needed returns, and releases g_cacheMutex.
EvictReturns == status # "stuck"

\* "evicts the (a few) least accessed file if the PM is full": after the call
\* there is room, or no closed file was left to evict.
EvictMakesRoom ==
    last.op = "evict" => g_fsdax_used_bytes < FsdaxCapacity \/ Candidates = {}
=============================================================================
