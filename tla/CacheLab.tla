------------------------------ MODULE CacheLab ------------------------------
(*****************************************************************************)
(* The exercises of lab 11 (11-caching/python/cache_lab.py): cache-aside,    *)
(* read-through, write-through, write-back, eviction and benchmark, one      *)
(* call to Redis or to the backend (backend/app.py) after the other.  Any    *)
(* number of programs share Redis and the backend, one after the other or    *)
(* at once.  A call may fail, which ends the program wherever it is.         *)
(*                                                                           *)
(* A program makes the calls of Main, stage by stage: the calls of a stage  *)
(* once for each of its products, in their order.  All programs write the    *)
(* same values, so a record is the seeded one, the new one, or the part of   *)
(* the new one that an exercise knows.                                       *)
(*****************************************************************************)
EXTENDS Integers, Sequences

CONSTANTS
    Programs,       \* runs of a program
    Products,       \* products of the backend, by number
    Aside,          \* the product of exercises 1 and 3
    Timed,          \* the product of exercise 2
    Later,          \* the products of exercise 4
    Nobody

ASSUME ProductsAssumption ==
    /\ Products \subseteq Nat
    /\ Aside \in Products /\ Timed \in Products /\ Aside # Timed
    /\ Later \subseteq Products \ {Aside, Timed} /\ Later # {}
ASSUME NobodyAssumption == Nobody \notin Programs

VARIABLES
    stored,     \* the records of the backend
    cache,      \* the keys product:p in Redis
    timed,      \* the keys with a TTL
    dirty,      \* the set dirty_keys in Redis
    policy,     \* maxmemory-policy
    memory,     \* maxmemory
    pc,         \* pc[c]: where program c is
    held,       \* held[c]: the record it holds
    state,      \* state[c]: what has become of c
    last,       \* history: the program that was started last
    crowded,    \* history: two programs ran at once
    evicted     \* history: Redis evicted a product or the dirty keys

redis == <<cache, timed, dirty, policy, memory>>
history == <<last, crowded, evicted>>
cacheVars == <<stored, redis, pc, held, state, history>>

Records == {"none", "seed", "new", "part"}

Get == <<"get", "fetch", "set">>

GetTimed == <<"get", "fetch", "setex">>

Put == <<"put", "set">>

\* Faulty variant: the key is not added to dirty_keys.
WriteLater_Unmarked == <<"setpart">>

WriteLater == <<"setpart", "mark">>

\* Faulty variant: the key is taken out of dirty_keys before its record is sent.
Flush_Early == <<"getdirty", "unmark", "send">>

Flush == <<"getdirty", "send", "unmark">>

\* Faulty variant: the policy is not set back.
Evicting_Left == <<"flushall", "lru", "1mb", "10mb">>

\* exercise_eviction.  The 200 bulk keys are left out: they are deleted at its end.
Evicting == <<"flushall", "lru", "1mb", "10mb", "noeviction">>

\* The calls for each of the products, or once.
Each(calls, products) == [calls |-> calls, products |-> products]

Once(calls) == Each(calls, {})

\* main, with one round each of the benchmark for misses and for hits.  What is flushed
\* is known when Redis has answered "smembers".
Main ==
    << Once(<<"flushall">>),
       Each(Get, {Aside}), Each(Get, {Aside}),
       Each(GetTimed, {Timed}), Each(GetTimed, {Timed}),
       Each(Put, {Aside}),
       Each(WriteLater, Later), Once(<<"smembers">>), Each(Flush, {}),
       Once(Evicting),
       Once(<<"flushall">>), Each(Get, Products), Each(Get, Products) >>

Stages == 1..Len(Main)

\* The beginning of stage n, or the end.
Position(n) ==
    [stage |-> n, call |-> 1, left |-> IF n \in Stages THEN Main[n].products ELSE {}]

Positions == [stage : Nat \ {0}, call : Nat, left : SUBSET Products]

CacheTypeOK ==
    /\ stored \in [Products -> {"seed", "new"}]
    /\ cache \in [Products -> Records]
    /\ timed \subseteq {p \in Products : cache[p] # "none"}
    /\ dirty \subseteq Later
    /\ policy \in {"noeviction", "lru"} /\ memory \in {"1mb", "10mb"}
    /\ pc \in [Programs -> Positions]
    /\ held \in [Programs -> Records]
    /\ state \in [Programs -> {"idle", "running", "ok", "error"}]
    /\ \A c \in Programs : state[c] = "ok" <=> pc[c].stage \notin Stages
    /\ last \in Programs \cup {Nobody} /\ crowded \in BOOLEAN /\ evicted \in BOOLEAN

CacheInit ==
    /\ stored = [p \in Products |-> "seed"]
    /\ cache = [p \in Products |-> "none"]
    /\ timed = {} /\ dirty = {}
    /\ policy = "noeviction" /\ memory = "10mb"
    /\ pc = [c \in Programs |-> Position(1)]
    /\ held = [c \in Programs |-> "none"]
    /\ state = [c \in Programs |-> "idle"]
    /\ last = Nobody /\ crowded = FALSE /\ evicted = FALSE

-----------------------------------------------------------------------------

Running == {c \in Programs : state[c] = "running"}

Launch(c) ==
    /\ state[c] = "idle"
    /\ state' = [state EXCEPT ![c] = "running"]
    /\ last' = c
    /\ crowded' = (crowded \/ Running # {})
    /\ UNCHANGED <<stored, redis, pc, held, evicted>>

Stage(c) == Main[pc[c].stage]

At(c, name) == state[c] = "running" /\ Stage(c).calls[pc[c].call] = name

\* The products of the stage come in their order.
Product(c) == CHOOSE p \in pc[c].left : \A q \in pc[c].left : p <= q

\* All is done for the product.
After(c) ==
    LET rest == {p \in pc[c].left : \E q \in pc[c].left : q < p}
    IN  IF rest = {} THEN Position(pc[c].stage + 1)
        ELSE [pc[c] EXCEPT !.call = 1, !.left = rest]

Following(c) ==
    IF pc[c].call = Len(Stage(c).calls) THEN After(c) ELSE [pc[c] EXCEPT !.call = @ + 1]

\* The call returns r, and the program goes on at position q.
Return(c, q, r) ==
    /\ pc' = [pc EXCEPT ![c] = q]
    /\ held' = [held EXCEPT ![c] = r]
    /\ state' = [state EXCEPT ![c] = IF q.stage \in Stages THEN "running" ELSE "ok"]
    /\ UNCHANGED history

Proceed(c) == Return(c, Following(c), held[c])

\* get_product, read_through: a hit leaves the backend alone.
GetCached(c) ==
    /\ At(c, "get")
    /\ Return(c, IF cache[Product(c)] = "none" THEN Following(c) ELSE After(c), cache[Product(c)])
    /\ UNCHANGED <<stored, redis>>

\* http_get
Fetch(c) ==
    /\ At(c, "fetch")
    /\ Return(c, Following(c), stored[Product(c)])
    /\ UNCHANGED <<stored, redis>>

Stored(c, p, r) ==
    /\ cache' = [cache EXCEPT ![p] = r]
    /\ timed' = IF At(c, "setex") THEN timed \cup {p} ELSE timed \ {p}
    /\ UNCHANGED <<dirty, policy, memory>>

\* SET, with EX or without: a TTL there was ends.
Set(c) ==
    /\ At(c, "set") \/ At(c, "setex")
    /\ Stored(c, Product(c), held[c])
    /\ Proceed(c)
    /\ UNCHANGED stored

\* update_product: the backend merges and returns the whole record.
PutThrough(c) ==
    /\ At(c, "put")
    /\ stored' = [stored EXCEPT ![Product(c)] = "new"]
    /\ Return(c, Following(c), "new")
    /\ UNCHANGED redis

-----------------------------------------------------------------------------
(* update_product_async, flush_dirty *)

SetPart(c) ==
    /\ At(c, "setpart")
    /\ Stored(c, Product(c), "part")
    /\ Proceed(c)
    /\ UNCHANGED stored

Mark(c) ==
    /\ At(c, "mark")
    /\ dirty' = dirty \cup {Product(c)}
    /\ Proceed(c)
    /\ UNCHANGED <<stored, cache, timed, policy, memory>>

Members(c) ==
    /\ At(c, "smembers")
    /\ Return(c, IF dirty = {} THEN Position(pc[c].stage + 2)
                 ELSE [Position(pc[c].stage + 1) EXCEPT !.left = dirty], held[c])
    /\ UNCHANGED <<stored, redis>>

\* A key without a record is only unmarked.
GetDirty(c) ==
    /\ At(c, "getdirty")
    /\ Return(c, IF cache[Product(c)] = "none" THEN [pc[c] EXCEPT !.call = @ + 2] ELSE Following(c),
              cache[Product(c)])
    /\ UNCHANGED <<stored, redis>>

\* What was cached is merged into the record of the backend.
Send(c) ==
    /\ At(c, "send")
    /\ stored' = [stored EXCEPT ![Product(c)] = IF held[c] = "seed" THEN "seed" ELSE "new"]
    /\ Proceed(c)
    /\ UNCHANGED redis

Unmark(c) ==
    /\ At(c, "unmark")
    /\ dirty' = dirty \ {Product(c)}
    /\ Proceed(c)
    /\ UNCHANGED <<stored, cache, timed, policy, memory>>

-----------------------------------------------------------------------------

\* FLUSHALL leaves the configuration.
FlushAll(c) ==
    /\ At(c, "flushall")
    /\ cache' = [p \in Products |-> "none"]
    /\ timed' = {} /\ dirty' = {}
    /\ Proceed(c)
    /\ UNCHANGED <<stored, policy, memory>>

SetPolicy(c) ==
    /\ At(c, "lru") \/ At(c, "noeviction")
    /\ policy' = Stage(c).calls[pc[c].call]
    /\ Proceed(c)
    /\ UNCHANGED <<stored, cache, timed, dirty, memory>>

SetMemory(c) ==
    /\ At(c, "1mb") \/ At(c, "10mb")
    /\ memory' = Stage(c).calls[pc[c].call]
    /\ Proceed(c)
    /\ UNCHANGED <<stored, cache, timed, dirty, policy>>

\* The call fails, whether or not it took effect.
Fail(c) ==
    /\ state[c] = "running"
    /\ state' = [state EXCEPT ![c] = "error"]
    /\ UNCHANGED <<stored, redis, pc, held, history>>

\* Redis: a TTL ends, or memory is short and any key may go.
Expire(p) ==
    /\ p \in timed
    /\ timed' = timed \ {p}
    /\ cache' = [cache EXCEPT ![p] = "none"]
    /\ UNCHANGED <<stored, dirty, policy, memory, pc, held, state, history>>

Evict ==
    /\ policy = "lru" /\ memory = "1mb"
    /\ \/ \E p \in Products : /\ cache[p] # "none"
                              /\ cache' = [cache EXCEPT ![p] = "none"]
                              /\ timed' = timed \ {p}
                              /\ UNCHANGED dirty
       \/ dirty # {} /\ dirty' = {} /\ UNCHANGED <<cache, timed>>
    /\ evicted' = TRUE
    /\ UNCHANGED <<stored, policy, memory, pc, held, state, last, crowded>>

CacheNext ==
    \/ \E c \in Programs :
          \/ Launch(c) \/ Fail(c)
          \/ GetCached(c) \/ Fetch(c) \/ Set(c) \/ PutThrough(c)
          \/ SetPart(c) \/ Mark(c) \/ Members(c) \/ GetDirty(c) \/ Send(c) \/ Unmark(c)
          \/ FlushAll(c) \/ SetPolicy(c) \/ SetMemory(c)
    \/ \E p \in Products : Expire(p)
    \/ Evict

CacheSpec == CacheInit /\ [][CacheNext]_cacheVars

-----------------------------------------------------------------------------
(* Properties *)

\* The program that was started last has gone past its first FLUSHALL.
Cleared == last # Nobody /\ state[last] \in {"running", "ok"} /\ pc[last].stage > 1

\* Programs that come to their end leave no trace: no dirty key, no record that is a part
\* only, and Redis with the memory and the policy it started with (cache_lab.py:252-255).
\* This holds of programs that ran at once, and of one that ran alone after others broke off.
EndsClean ==
    (\A c \in Programs : state[c] \in {"idle", "ok"})
    \/ (~crowded /\ last # Nobody /\ state[last] = "ok") =>
        /\ dirty = {}
        /\ \A p \in Products : cache[p] # "part"
        /\ policy = "noeviction" /\ memory = "10mb"

\* At every step Redis holds what the exercises put there, and after them nothing is left.
LeavesNoTrace == CacheTypeOK /\ EndsClean

\* What a program wrote through is in the backend once it ends.  So is what it wrote
\* back ("pushes dirty entries to the backend later", README.md:236), where programs ran
\* one after the other, whatever became of the earlier ones, and no key was evicted.
WritesArrive ==
    \A c \in Programs : state[c] = "ok" =>
        /\ stored[Aside] = "new"
        /\ ~crowded /\ ~evicted => \A p \in Later : stored[p] = "new"

Current(p) == cache[p] \in {"none", stored[p]} \/ (cache[p] = "part" /\ stored[p] = "new")

\* "Strong (cache always current)" for write-through, "Eventual (dirty keys pending)" for
\* write-back (LAB-MACOS.md:632-633): where programs run one after the other, a cached
\* record differs from the backend's only before the second half of a write, or marked.
CacheIsCurrent ==
    ~crowded /\ Cleared => \A p \in Products :
        \/ Current(p)
        \/ (At(last, "set") \/ At(last, "mark")) /\ Product(last) = p
        \/ p \in dirty \/ evicted
=============================================================================
