----------------------------- MODULE CacheAside -----------------------------
(***************************************************************************)
(* One key of a Redis cache with a time to live, in front of data that     *)
(* change: CacheAside of notebook 08 (get_or_fetch, invalidate), and       *)
(* cache_get of the Redis broker, which reads the value and its remaining  *)
(* time in two commands.                                                   *)
(*                                                                         *)
(* The data are a version number, the key holds a version.  One tick of    *)
(* the clock is the unit in which a time to live is counted.               *)
(***************************************************************************)
EXTENDS Integers

CONSTANTS
    Readers,     \* calls of get_or_fetch, or of cache_get
    TTL,         \* ttl, or default_ttl
    Latency,     \* bound: ticks from a fetch to its SET, and from GET to TTL
    LastVersion, \* bound: versions of the data
    LastTick,    \* bound: of the clock
    NoEntry      \* there is no key

ASSUME CacheAssumption == TTL \in Nat \ {0} /\ {Latency, LastVersion, LastTick} \subseteq Nat

VARIABLES
    tick,       \* the clock
    since,      \* [0 .. LastVersion -> tick at which it became current, or -1]
    entry,      \* the version under the key and the tick at which it expires
    reader,     \* [Readers -> its command, the version in hand and its tick]
    served      \* [Readers -> version, tick, and the time cache_get says remains]

cacheVars == <<tick, since, entry, reader, served>>

Versions == 0 .. LastVersion
Ticks == 0 .. LastTick
Known(v) == since[v] # -1
Current == CHOOSE v \in Versions : Known(v) /\ \A w \in Versions : Known(w) => w <= v

NotServed == [version |-> 0, at |-> 0, remaining |-> -1]

CacheInit ==
    /\ tick = 0
    /\ since = [v \in Versions |-> IF v = 0 THEN 0 ELSE -1]
    /\ entry = NoEntry
    /\ reader = [r \in Readers |-> [at |-> "idle", version |-> 0, tick |-> 0]]
    /\ served = [r \in Readers |-> NotServed]

CacheTypeOK ==
    /\ tick \in Ticks
    /\ since \in [Versions -> Ticks \cup {-1}]
    /\ entry = NoEntry \/ entry \in [version : Versions, expires : 1 .. LastTick + TTL]
    /\ reader \in [Readers ->
                     [at : {"idle", "fetch", "store", "ttl", "done"},
                      version : Versions, tick : Ticks]]
    /\ served \in [Readers -> [version : Versions, at : Ticks, remaining : -2 .. TTL]]

-----------------------------------------------------------------------------
Serve(r, v, remaining) ==
    served' = [served EXCEPT
                 ![r] = [version |-> v, at |-> tick, remaining |-> remaining]]

ReaderGoes(r, stage, v) ==
    reader' = [reader EXCEPT ![r] = [at |-> stage, version |-> v, tick |-> tick]]

\* get_or_fetch: GET, and a hit is returned.
GetOrMiss(r) ==
    /\ reader[r].at = "idle"
    /\ IF entry # NoEntry
       THEN ReaderGoes(r, "done", entry.version) /\ Serve(r, entry.version, 0)
       ELSE ReaderGoes(r, "fetch", 0) /\ UNCHANGED served
    /\ UNCHANGED <<tick, since, entry>>

\* fetch_func reads the data.
Fetch(r) ==
    /\ reader[r].at = "fetch"
    /\ ReaderGoes(r, "store", Current)
    /\ UNCHANGED <<tick, since, entry, served>>

\* Mutant: SET without EX.
SetForever(r) ==
    /\ reader[r].at = "store"
    /\ entry' = [version |-> reader[r].version, expires |-> LastTick + TTL]
    /\ ReaderGoes(r, "done", reader[r].version)
    /\ Serve(r, reader[r].version, 0)
    /\ UNCHANGED <<tick, since>>

\* SET ... EX ttl, executed, and the fetched data are returned.
Set(r) ==
    /\ reader[r].at = "store"
    /\ entry' = [version |-> reader[r].version, expires |-> tick + TTL]
    /\ ReaderGoes(r, "done", reader[r].version)
    /\ Serve(r, reader[r].version, 0)
    /\ UNCHANGED <<tick, since>>

\* The fetch or the SET raises; the key may have been set.
FetchRaises(r) ==
    /\ reader[r].at \in {"fetch", "store"}
    /\ \/ UNCHANGED entry
       \/ /\ reader[r].at = "store"
          /\ entry' = [version |-> reader[r].version, expires |-> tick + TTL]
    /\ ReaderGoes(r, "idle", 0)
    /\ UNCHANGED <<tick, since, served>>

\* cache_get: GET; on a hit the TTL is asked for by a second command.
GetValue(r) ==
    /\ reader[r].at = "idle"
    /\ entry # NoEntry
    /\ ReaderGoes(r, "ttl", entry.version)
    /\ UNCHANGED <<tick, since, entry, served>>

\* TTL: -2 if there is no key any more, else that of the key as it is now.
GetRemaining(r) ==
    /\ reader[r].at = "ttl"
    /\ Serve(r, reader[r].version,
              IF entry = NoEntry THEN -2 ELSE entry.expires - tick)
    /\ ReaderGoes(r, "done", reader[r].version)
    /\ UNCHANGED <<tick, since, entry>>

Again(r) ==
    /\ reader[r].at = "done"
    /\ ReaderGoes(r, "idle", 0)
    /\ served' = [served EXCEPT ![r] = NotServed]
    /\ UNCHANGED <<tick, since, entry>>

-----------------------------------------------------------------------------
\* invalidate, and cache_delete.
Invalidate ==
    /\ entry' = NoEntry
    /\ UNCHANGED <<tick, since, reader, served>>

\* The data change, behind the back of the cache.
Change ==
    /\ Current < LastVersion
    /\ since' = [since EXCEPT ![Current + 1] = tick]
    /\ UNCHANGED <<tick, entry, reader, served>>

\* Time passes, and a key expires when its time is over.
TickOn ==
    /\ tick < LastTick
    /\ \A r \in Readers :
          reader[r].at \in {"store", "ttl"} => tick - reader[r].tick < Latency
    /\ tick' = tick + 1
    /\ entry' = IF entry # NoEntry /\ entry.expires = tick + 1 THEN NoEntry ELSE entry
    /\ UNCHANGED <<since, reader, served>>

Reading(r) ==
    \/ GetOrMiss(r) \/ Fetch(r) \/ Set(r) \/ FetchRaises(r)
    \/ GetValue(r) \/ GetRemaining(r) \/ Again(r)

CacheNext == (\E r \in Readers : Reading(r)) \/ Invalidate \/ Change \/ TickOn

CacheSpec == CacheInit /\ [][CacheNext]_cacheVars

-----------------------------------------------------------------------------
\* How long the version has not been current any more at a tick.
StaleFor(v, at) ==
    IF v < LastVersion /\ Known(v + 1) THEN at - since[v + 1] ELSE 0

(* What get_or_fetch returns has been current within the time to live and    *)
(* the latency of the fetch that set it, also when data that were read       *)
(* before a change are set after it, or after an invalidation; cache_get may *)
(* be late once more.  And whoever keeps a value for as long as cache_get    *)
(* says it remains keeps it for less than twice that past its day: the two   *)
(* commands may read of two entries.                                         *)
StaleAtMost ==
    \A r \in Readers :
       LET s == served[r]
           late == IF s.remaining = 0 THEN Latency ELSE 2 * Latency
       IN  s # NotServed =>
              /\ StaleFor(s.version, s.at) < TTL + late
              /\ s.remaining > 0 =>
                    StaleFor(s.version, s.at + s.remaining) < 2 * (TTL + Latency)

=============================================================================
