----------------------------- MODULE ChartQueries ----------------------------
(***************************************************************************)
(* Chart requests of one API process: the result cache, the gate around    *)
(* the analytical queries and their deadline, while the dataset moves to   *)
(* other revisions and its file may be changed on disk.                    *)
(*                                                                         *)
(* A chart result is the chart, the file and the states of the file it was *)
(* computed from.  Entries of the cache are in order of use, oldest first; *)
(* the clock is the fact that an entry or a query has expired.             *)
(***************************************************************************)
EXTENDS Integers, FiniteSets, Sequences, Functions

CONSTANTS Queries,          \* request threads
          Charts,
          Paths,            \* files of the dataset's revisions
          Lengths,          \* bytes a result may have
          MaxConcurrent,    \* DASHBOARD_QUERY_MAX_CONCURRENT
          MaxEntries,       \* DASHBOARD_CACHE_MAX_ENTRIES
          MaxBytes,         \* DASHBOARD_CACHE_MAX_BYTES
          MaxChanges        \* bound: revisions and changes of a file on disk

ASSUME ChartAssumption ==
  /\ IsFiniteSet(Queries) /\ IsFiniteSet(Paths) /\ Paths # {} /\ Charts # {}
  /\ Lengths \subseteq Nat \ {0}
  /\ MaxConcurrent \in Nat \ {0} /\ MaxEntries \in Nat \ {0} /\ MaxBytes \in Nat
  /\ MaxChanges \in Nat

VARIABLES version, path,   \* the current row of the dataset
          stamp,           \* stat identity of each file
          query,           \* the request each thread serves
          active,          \* QueryGate._active
          cache,           \* ChartCache._entries
          bytes            \* ChartCache._bytes

chartVars == <<version, path, stamp, query, active, cache, bytes>>

Stamps == 0..MaxChanges
Versions == 1..(MaxChanges + 1)
Keys == [chart : Charts, version : Versions, path : Paths, stamp : Stamps]
InsideGate == {"loading", "open", "executing", "ran", "failing"}

\* The fields of an idle thread say nothing.
NoQuery == [at |-> "idle", chart |-> CHOOSE c \in Charts : TRUE, version |-> 1,
            path |-> CHOOSE p \in Paths : TRUE, stamp |-> 0,
            from |-> {}, late |-> FALSE, during |-> {}]

ChartTypeOK ==
  /\ version \in Versions /\ path \in Paths
  /\ stamp \in [Paths -> Stamps]
  /\ query \in [Queries ->
       [at : InsideGate \union {"idle", "row", "keyed", "missed", "computed", "answered"},
        chart : Charts, version : Versions, path : Paths, stamp : Stamps,
        from : SUBSET Stamps, late : BOOLEAN, during : SUBSET Stamps]]
  /\ active \in Int /\ bytes \in Int
  /\ cache \in Seq([key : Keys, from : SUBSET Stamps, size : Lengths, expired : BOOLEAN])

ChartInit ==
  /\ version = 1 /\ path = CHOOSE p \in Paths : TRUE
  /\ stamp = [p \in Paths |-> 0]
  /\ query = [q \in Queries |-> NoQuery]
  /\ active = 0 /\ cache = <<>> /\ bytes = 0

Move(q, to) == query' = [query EXCEPT ![q].at = to]
DataKept == UNCHANGED <<version, path, stamp>>
CacheKept == UNCHANGED <<cache, bytes>>

\* Mutant: the revision and the path are the whole identity.
KeyWithoutStat(r) == [chart |-> r.chart, version |-> r.version, path |-> r.path, stamp |-> 0]
KeyOf(r) == [chart |-> r.chart, version |-> r.version, path |-> r.path, stamp |-> r.stamp]

Sizes(entries) == [i \in DOMAIN entries |-> entries[i].size]
Bytes(entries) == SumFunction(Sizes(entries))

\* The entries of s whose index is in I, in their order.
Picked(s, I) ==
  [n \in 1..Cardinality(I) |-> s[CHOOSE i \in I : Cardinality({j \in I : j <= i}) = n]]

-----------------------------------------------------------------------------
(* One request *)

\* Authorisation reads the chart and the row of its dataset.
ReadRow(q, c) ==
  /\ query[q].at = "idle"
  /\ query' = [query EXCEPT ![q] =
       [NoQuery EXCEPT !.at = "row", !.chart = c, !.version = version, !.path = path,
                       !.during = {stamp[path]}]]
  /\ DataKept /\ CacheKept /\ UNCHANGED active

\* _cache_key: the stat identity of the file, or 400 when the file is gone.
MakeKey(q) ==
  /\ query[q].at = "row"
  /\ \/ query' = [query EXCEPT ![q].at = "keyed", ![q].stamp = stamp[query[q].path]]
     \/ query' = [query EXCEPT ![q] = NoQuery]
  /\ DataKept /\ CacheKept /\ UNCHANGED active

\* ChartCache.get: a live entry becomes the newest, an expired one goes.
Lookup(q) ==
  /\ query[q].at = "keyed"
  /\ LET found == {i \in DOMAIN cache : cache[i].key = KeyOf(query[q])}
         others == Picked(cache, DOMAIN cache \ found)
     IN  \/ /\ found = {}
            /\ Move(q, "missed") /\ CacheKept
         \/ \E i \in found :
              /\ cache[i].expired
              /\ cache' = others /\ bytes' = bytes - cache[i].size
              /\ Move(q, "missed")
         \/ \E i \in found :
              /\ ~cache[i].expired
              /\ cache' = Append(others, cache[i]) /\ UNCHANGED bytes
              /\ query' = [query EXCEPT ![q].at = "answered", ![q].from = cache[i].from]
  /\ DataKept /\ UNCHANGED active

\* QueryGate.acquire: 503 at the limit.  Some files and charts are computed by
\* Pandas, which has no deadline; the others arm the timer of their connection.
EnterGate(q) ==
  /\ query[q].at = "missed"
  /\ IF active < MaxConcurrent
       THEN active' = active + 1 /\ \E s \in {"loading", "open"} : Move(q, s)
       ELSE query' = [query EXCEPT ![q] = NoQuery] /\ UNCHANGED active
  /\ DataKept /\ CacheKept

\* An execution starts unless the deadline has passed; a histogram has two.
Execute(q) ==
  /\ query[q].at \in {"open", "ran"}
  /\ Move(q, IF query[q].late THEN "failing" ELSE "executing")
  /\ DataKept /\ CacheKept /\ UNCHANGED active

\* The execution or Pandas has read the file.
ReadFile(q) ==
  /\ query[q].at \in {"loading", "executing"}
  /\ query' = [query EXCEPT ![q].at = "ran", ![q].from = @ \union {stamp[query[q].path]}]
  /\ DataKept /\ CacheKept /\ UNCHANGED active

\* The timer interrupts what executes at that moment, if anything does.
TimerFires(q) ==
  /\ query[q].at \in {"open", "executing", "ran"} /\ ~query[q].late
  /\ \E s \in {query[q].at} \union (IF query[q].at = "executing" THEN {"failing"} ELSE {}) :
       query' = [query EXCEPT ![q].at = s, ![q].late = TRUE]
  /\ DataKept /\ CacheKept /\ UNCHANGED active

\* Validation, the memory budget, a missing file.
QueryFails(q) ==
  /\ query[q].at \in {"loading", "open", "executing", "ran"}
  /\ Move(q, "failing")
  /\ DataKept /\ CacheKept /\ UNCHANGED active

\* Mutant: a query that failed keeps its place.
LeftBySuccess(q) == IF query[q].at = "failing" THEN active ELSE active - 1
Left(q) == active - 1
\* The last check of the deadline, then the gate's finally.
LeaveGate(q) ==
  /\ query[q].at \in {"ran", "failing"}
  /\ active' = Left(q)
  /\ IF query[q].at = "ran" /\ ~query[q].late
       THEN Move(q, "computed")
       ELSE query' = [query EXCEPT ![q] = NoQuery]
  /\ DataKept /\ CacheKept

\* Mutant: the entry a result replaces stays counted.
CountWithoutReplaced(key, dropped) ==
  bytes - Bytes(Picked(dropped, {i \in DOMAIN dropped : dropped[i].key # key}))
CountWithout(key, dropped) == bytes - Bytes(dropped)

\* ChartCache.put: the entry of the key goes, then those that had expired when
\* the clock was read before the lock, then the oldest while the cache is full.
Put(q, size) ==
  LET key == KeyOf(query[q])
      entry == [key |-> key, from |-> query[q].from, size |-> size, expired |-> FALSE]
  IN  IF size > MaxBytes THEN CacheKept
      ELSE \E gone \in SUBSET {i \in DOMAIN cache : cache[i].expired} :
             LET goes == gone \union {i \in DOMAIN cache : cache[i].key = key}
                 kept == Picked(cache, DOMAIN cache \ goes)
                 count == CountWithout(key, Picked(cache, goes))
                 Rest(n) == SubSeq(kept, n + 1, Len(kept))
                 Oldest(n) == Bytes(SubSeq(kept, 1, n))
                 Fitting(n) == Len(kept) - n < MaxEntries /\ count - Oldest(n) + size <= MaxBytes
                 evicted == CHOOSE n \in 0..Len(kept) :
                              /\ Fitting(n) \/ n = Len(kept)
                              /\ \A m \in 0..(n - 1) : ~Fitting(m)
             IN  /\ cache' = Append(Rest(evicted), entry)
                 /\ bytes' = count - Oldest(evicted) + size

\* The result of a chart is as long as its data make it.
Store(q) ==
  /\ query[q].at = "computed"
  /\ \E size \in Lengths : Put(q, size)
  /\ Move(q, "answered")
  /\ DataKept /\ UNCHANGED active

Respond(q) ==
  /\ query[q].at = "answered"
  /\ query' = [query EXCEPT ![q] = NoQuery]
  /\ DataKept /\ CacheKept /\ UNCHANGED active

-----------------------------------------------------------------------------
(* Around the requests *)

Changes == (version - 1) + SumFunction(stamp)

\* A transformation or an undo: a newer revision, with a file of its own or of
\* an earlier revision.
Revise ==
  /\ Changes < MaxChanges
  /\ version' = version + 1
  /\ path' \in Paths
  /\ UNCHANGED <<stamp, query, active>> /\ CacheKept

\* Something changes a file in place, one that the row or a request names.
Touch(p) ==
  /\ p = path \/ \E q \in Queries : query[q].at # "idle" /\ query[q].path = p
  /\ Changes < MaxChanges
  /\ stamp' = [stamp EXCEPT ![p] = @ + 1]
  /\ query' = [q \in Queries |->
                 IF query[q].at # "idle" /\ query[q].path = p
                   THEN [query[q] EXCEPT !.during = @ \union {stamp[p] + 1}] ELSE query[q]]
  /\ UNCHANGED <<version, path, active>> /\ CacheKept

\* The time to live of an entry passes.
EntryExpires(i) ==
  /\ ~cache[i].expired
  /\ cache' = [cache EXCEPT ![i].expired = TRUE]
  /\ UNCHANGED <<query, active, bytes>> /\ DataKept

ChartRestart ==
  /\ query' = [q \in Queries |-> NoQuery]
  /\ active' = 0 /\ cache' = <<>> /\ bytes' = 0
  /\ DataKept

ChartNext ==
  \/ \E q \in Queries :
       \/ \E c \in Charts : ReadRow(q, c)
       \/ MakeKey(q) \/ Lookup(q) \/ EnterGate(q) \/ Execute(q) \/ ReadFile(q)
       \/ TimerFires(q) \/ QueryFails(q) \/ LeaveGate(q) \/ Store(q) \/ Respond(q)
  \/ \E p \in Paths : Touch(p)
  \/ \E i \in DOMAIN cache : EntryExpires(i)
  \/ Revise \/ ChartRestart

ChartSpec == ChartInit /\ [][ChartNext]_chartVars

-----------------------------------------------------------------------------
\* A chart is answered from the file of the revision its request read, in the
\* states the file had while the request ran, whoever computed the result and
\* however the entry got into the cache (_cache_key).
ChartAnswers ==
  \A q \in Queries : query[q].at = "answered" => query[q].from \subseteq query[q].during

\* The gate counts the queries that are inside, and the cache counts its bytes,
\* over failures, expiry, replacement and eviction: neither passes its limit,
\* and no key has two entries (QueryGate.acquire, ChartCache.get and put).
ChartsBounded ==
  /\ active = Cardinality({q \in Queries : query[q].at \in InsideGate})
  /\ active <= MaxConcurrent
  /\ bytes = Bytes(cache) /\ bytes <= MaxBytes /\ Len(cache) <= MaxEntries
  /\ \A i, j \in DOMAIN cache : cache[i].key = cache[j].key => i = j

=============================================================================
