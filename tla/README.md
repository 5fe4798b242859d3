# Verification of the system design labs

This directory holds the TLA+ models of the programs in the system design course: what each
component does, step by step, what must never go wrong in it, and the machine-checked proofs of the
statements that matter most. TLC checks small instances; TLAPS proves theorems for every instance.

## The system

The repository is a set of labs. Each lab is a small system of its own, started with Docker; they
share no state. What carries logic:

| Component | State it keeps | Operations | What is hard | What makes it correct |
|---|---|---|---|---|
| Replicated key-value node, `05-*/app/kv_node.py` | data, Lamport clock, queue per peer, mode, ready flag, all in memory | PUT, GET, replicate, snapshot, mode switch, crash; sync loop; warm-up | threads between lock releases, late and lost calls, partitions, crashes | clocks and versions, nothing acknowledged is forgotten, quorums, replicas agree in the end |
| Serverless gateway, `15-serverless/gateway/gateway.py` | queue, receive counts, dead letters; environments in use | send, receive, delete, fail, purge, poll; acquire, invoke, release | redelivery, failed and lost invocations, a purge under way, containers that come and go | environments serve one call at a time, counts balance, every message settles |
| Payment processor, `15-serverless/functions/processor/app.py` | a charge counter and an idempotency record per order, in DynamoDB | one record after the other of a batch | a write that outlives its invocation, partial batches | charged once, deleted only if charged, good records not repeated |
| Order workers, `14-distributed-messaging/app/worker.py` | messages in a quorum queue, their attempts and failed deliveries; the dead letter queue | deliver, work, acknowledge, retry by a copy, reject | a crash between two operations, a copy the broker refuses | no order lost, duplicates from crashes only, dead letters for a reason |
| Payment consumer, ledger and producer, `app/payment.py`, `ledger.py`, `producer.py` | queue, ledger with charges and processed IDs | publish (again), charge, acknowledge, reset | the three guarantees under crashes, in any mix of flags | at most once, at least once, effectively once |
| Architecture exercise, `13-*/arch-builder/app/core.js`, `app.js` | one attempt with tiles, locks, verdicts, hints and time; its copy for undo and in localStorage; a record per puzzle | place, move, hint, submit, retry, clear, undo, reveal, reload, navigate, the clock | the clock under an open dialog, undo of an older attempt, resumed attempts | tiles, locks and points agree in every copy, a challenge stays strict, perfect means perfect |
| Builder and icons of that exercise, `arch-builder/build.sh`, `tools/build.py`, `tools/icons.py` | puzzle files, extracted icons and their manifest, the site | validate, extract, validate again, write; edits by authors | files read three times while they change, a run that breaks off, rules counted in several ways | what is published can be drawn and solved; an error writes nothing |
| Database visualizer, `10-databases/visualizer/server.py` | a MySQL primary and its replica: enrollments and counters, replication state, index, view, buffer pool, benchmark table | transfer, reset, console, stop and start replication, CAP test, benchmarks | statements of several handlers in between each other, deadlocks, a replica behind | transfers are atomic, counters are counts, every request ends; a reset resets all |
| Caches, `11-caching/python/cache_lab.py`, `backend/app.py` | Redis, dirty set, policy and memory limit, backend store | cache-aside, read- and write-through, write-back and flush, eviction, benchmark | a program that breaks off between two calls, two programs at once, evictions | nothing is left behind, writes arrive, a stale record is a marked one |

The other labs (HAProxy, networking, DNS, storage, proxies, OAuth client, web container, ECS demo,
slides) are configuration, vendored examples or one-shot scripts; `PROJECT.json` lists each with the
reason it is left out, and lists the hazards of the code at their lines with the properties that cover
them.

## Modules

| Component | Module | Abstract specification | Proofs | Runs |
|---|---|---|---|---|
| lab 05 node | `KVNode` | | `KVNode_proofs` | `KV_mixed`, `KV_crash`, `KV_live` |
| lab 15 gateway and processor | `LambdaQueue` | `ChargeOnce` | `LambdaQueue_proofs` | `LQ` |
| lab 14 workers | `OrderWorker` | | `OrderWorker_proofs` | `OW` |
| lab 14 payments | `PaymentConsumer` | `ChargeOnce` | `PaymentConsumer_proofs` | `PC` |
| lab 13 rules, and the page around them | `ArchCore`, `ArchSession` | | `ArchSession_proofs` | `AS`, `AS_v_perfect` |
| lab 13 validation, and the build around it | `PuzzleRules`, `ArchBuilder` | | `Programs_proofs` | `BD` |
| lab 10 enrollments | `Enrollments` | `AtomicTransfer` | `Enrollments_proofs` | `EN` |
| lab 10 replication, schema, pool, benchmark, reset | `Visualizer` | | `Visualizer_proofs` | `VZ` |
| lab 11 caches | `CacheLab` | | `Programs_proofs` | `CL` |

`ArchSession` extends `ArchCore`: the rules are operators on an attempt, the page adds the handlers.
`ArchBuilder` extends `PuzzleRules` in the same way: what is accepted, and the runs that read, check
and write. What `ExercisesWork` states of the site is what `ArchCore` takes for granted of its palette.
`LambdaQueue` composes the queue, the poller, the environment pool and the processor. `ChargeOnce` is
one specification that two independent programs implement. `Programs_proofs` holds the proofs about the
two command line programs, one after the other; they share nothing else. Each `MC*` module holds the definitions
that give constants their values. Definitions named `X_Something` above a definition `X` are variants
of it with a plausible fault; nothing refers to them, and `PROJECT.json` names the property that each
of them breaks.

The runs and what they ask:

| Run | Question |
|---|---|
| `KV_mixed` | Two writes, mode ap with node 1 switching to cp and back, partitions: are clocks, versions, queues, quorums and replicas right? |
| `KV_crash` | Mode cp, two writes, a node that crashes and warms up from the peers that answer: does an acknowledged write survive, and does the node that acknowledged it serve it? |
| `KV_live` | Do replicas agree in the end? |
| `LQ` | Do counts balance, is a payment charged once and before it is deleted, does every message settle, with one failure and one purge anywhere? |
| `OW` | Is any order lost, repeated without a crash, or dead without a reason, and does the queue drain? |
| `PC` | Does each delivery guarantee hold under its flags? |
| `AS` | Do tiles, locks, verdicts, points and copies of an attempt agree, and does a challenge stay strict? |
| `AS_v_perfect` | A statement of the lab that the code does not keep (see Findings). |
| `EN` | Are transfers atomic, are counters counts, and does every request end? |
| `VZ` | Does a reset restore both nodes, is the benchmark table whole, and is what was reported of the replica true of it? |
| `CL` | What do programs leave behind, do their writes arrive, and when is a cached record old? |
| `BD` | Can everything published be drawn and solved, and does a failed build leave the site alone, a broken one no data newer than its scripts? |

Deadlock checking is off in all of them: when clients have no more to ask for, these systems rest.

## Lab 05: KVNode

One module describes a cluster of nodes. A critical section of `Store` is one step, and so is each
point at which a handler sends, gives up or replies.

| TLA+ | kv_node.py |
|---|---|
| `data`, `clock`, `pending`, `mode`, `life` | the fields of `Store` (`life` adds "the process is down" to `ready`) |
| `put[w]`, `get[r]` | the local variables of one `do_PUT` / `get_key` handler thread |
| `net` | the calls to `/internal/replicate` that are open at their sender or may still reach their receiver |
| `warm` | the local variables of `warm_up` |
| `cut` | the Toxiproxy links with a `timeout` toxic |

`NewRecord`, `ApplyAP`, `ReplyAP`, `ReplicateSync`, `Commit`, `Reject` and `ReplyCP` are the stages of
a PUT. The mode is read once, between `NewRecord` and what follows. `Replicate` applies one record of
a batch, because the receiver takes the lock for each. `CallSucceeds` and `CallFails` are the two
results of `send_to_peer`; a call that fails may still be applied later, because a time-out at the
sender stops nothing at the receiver. `CallFails` includes the done callback of `replicate_sync`.

Bounds: three nodes, one key (keys do not interact except that the sync loop sends them in one
batch), at most two PUTs, one GET. Three nodes are the size of the lab and the smallest with a quorum
smaller than the cluster; two writes are needed for every ordering problem and a third adds no new
kind of conflict. In `KV_crash` node 1 may crash again and again; writes go to node 1, one of them
perhaps to node 2; the read goes to node 2, which does not crash, after it has acknowledged a write, and
the run is not followed past its answer (`CrashBound`). So writes before and after a warm-up meet, with
peers that were skipped, and `ReadYourWrites` is asked where it says something; a read changes nothing.

Fairness (`FairSpec`): handler threads and the warm-up thread keep running; the sync loop visits
every peer in every round and each visit ends within `REPL_TIMEOUT`, so a peer with a queue is tried
again and again (strong fairness of `SyncSend`, which is disabled while another visit is open); a
request on an open link arrives; Docker restarts a node. Nothing is assumed of clients or operators:
`Converges` holds under the hypothesis that partitions end.

`AgreeUnlessRefused` and `Converges` leave out PUTs that were answered 503: what a peer stored of one
stays there (`kv_node.py:283-289`), and nothing repairs it, though lab 05 `README.md:161` says that
replicas converge once updates stop and links work again. A GET in mode cp answers from the local copy
(`kv_node.py:266-271`), so a node outside the acknowledging quorum may return the older value, though
`LAB.md:668` says that CP keeps the answers correct; `ReadYourWrites` speaks of the node that
acknowledged the write. Neither agreement is checked with crashes: the queue of undelivered writes is in
memory, and a crash of a node in mode ap loses it. Concurrent quorum writes at different nodes are
beyond the instance of `KV_mixed`; the durability theorems cover them.

### Proofs

`KVNode_proofs` proves for any number of nodes, keys and requests, with crashes:
`TypeCorrect`, `ClockAlwaysDominates` and `StoredVersionsMoveForward`. `TypeOK` is inductive because it
also says that a call belongs to the node that makes the PUT it carries. `ClockDominates` covers queues,
running writes and open calls as well as stored records: a failing call queues the record it carries,
so the clock must dominate that record before.

The second part of `KVNode_proofs` is about durability. Its first theorems assume that no node crashes
(`NoCrash`) and show that an acknowledged write is never forgotten for a peer and that a write
acknowledged in mode cp is on a quorum. Neither statement is inductive. `DurabilityInv` strengthens them
with what a call carries (`CallsCarry`), what a receiver has worked off (`Delivered`), what a vote means
(`VotersStore`), the answers a waiting write has (`PeersAccountedFor`), the votes behind a commit
(`QuorumVoted`) and the local copy (`AckedStored`). The step proofs follow what one step can do to a
request (`Evolves`), to a call (`NetFrom`, `CallContinues`) and to a queue (`StillOwed`), and then treat
the parts one by one.

Two more theorems of the module build on these lemmas. `AcksSurviveMinority` allows crashes, but only of
fewer nodes than a quorum (`MinorityCrashes`): every quorum then has a member that never loses its store.
It speaks of the write itself or of one that beats it, so a record with the same version is not enough.
For that every record anywhere must come from a PUT (`MadeInv`), and the versions of a node that does not
crash must be given out once (`VersionsTaken`); a node that crashes may give one out again, and the
writes that share it are left out (`Reused`, see Findings).
Its invariant, `SurvivalInv`, says of the nodes that do not crash what `DurabilityInv` says of all
(`DeliveredLasts`, `VotersLast`, `AckedLasts`), and of a running read that the writes it must return or
supersede were acknowledged (`FloorsKept`). `QuietReplicasAgree` is about the end of a run without
crashes. Its invariant, `AgreeInv`, adds to `DurabilityInv` the same two, `MadeInv` and `VersionsTaken`,
which now is about all nodes: two replicas that hold records of each other's versions then hold the same one.

## Lab 15: LambdaQueue

A step is a critical section of `Queue` or `EnvironmentPool`, the beginning or the end of an HTTP call to
an environment, or one record inside the function.

| TLA+ | gateway.py, processor/app.py |
|---|---|
| `queue`, `sentAt`, `receives`, `hidden`, `dead`, `deleted` | `Queue.messages` in order of sending, with `receive_count` and `visible_at`; `dead_letters`; `deleted` |
| `call[c]` | the local variables of `poll_once` (for `poller`) or of a handler thread, through `invoke` |
| `busy`, `up` | `EnvironmentPool._busy`; the addresses Docker DNS returns |
| `run[e]`, `late` | the invocation an environment works on; a write to DynamoDB whose sender is gone |
| `charges`, `recorded` | the items `PAYMENT#o` and `IDEMPOTENCY#o` |

An invocation fails by an exception, a timeout or a stopped container; a write in progress is then lost
or takes effect later (`late`). A caller notices a stopped container as a broken connection. Which idle
environment is preferred is left out, since it decides only about warm starts. The model assumes that
an environment answers or breaks off within the 30 s that the gateway waits for it, so a function does
not run on behind a gateway that gave up while its environment is free again.

Bounds: a payment and an invalid message in the queue, by direct invocation the same payment once more
and a record that crashes the function, batches of two, two receives, one environment, one failure, one
purge. A batch of one good and one bad message is the smallest mix; a second receive is the first one that
can dead-letter; the direct invocations deliver the same order at the same time, crash, and compete for
the environment. Races between several environments are beyond the instance; the theorems hold for any.

Fairness: the poller thread is never blocked for good (`poll_queue` catches everything), callers go on
when an environment is idle, environments work, visibility timeouts end. Sending, purging, failing and
starting containers are not fair. `EveryMessageSettles` needs nothing more: a function without a container
makes the poller fail the batch.

Proofs (`LambdaQueue_proofs`), for any batch size, callers, environments and failures: `TypeCorrect`;
`PoolIsExclusive`, inductive because it relates `busy`, `call` and `run` in one statement;
`RecordAndChargeTogether` and `ProcessorChargesOnce`, from the lemma that a step changes the table by a
conditional charge or not at all (`TableChanges`); `DeletedMeansCharged`, whose invariant `ChargeInv` follows a
message from the function's loop (`WorkDone`) through the answer (`SettledRight`) to the deletion.
`QueueAccountsBalance` counts with the theorems on finite sets; it needs that a message on its last receive
is in the poller's batch even when it is visible again (`LastReceive`), or a purge or a further receive could
break the sum. `GoodPaymentsReceivedOnce` supposes at least one environment (without one the poller fails
every batch) and follows a failure from the container (`PollerRun`) to the settling (`PollerVerdict`).

## Lab 14: OrderWorker

`ready`, `unacked`, `dlq` and the numbers of stored messages are RabbitMQ's, modelled from what the code
asks of it and marked external; `task[w]` is the callback `on_message` of a worker. Retrying takes three
steps: sleep and fail (`FailPoison`), the confirmed copy (`StoreCopy`), the acknowledgment of the original
(`AckOriginal`); after `CopyRefused`, a copy that is returned or not confirmed, the original is
requeued and the worker goes on. A crash anywhere gives back what is unacknowledged, counted against the
delivery limit of the quorum queue. The broker handles an acknowledgment in the step that sends it: losing
one with the connection is a crash just before. The order of the queue is left out: any ready message may
be delivered.

Bounds: a good, a poison and an unreadable order, two workers with prefetch 1, two attempts, delivery
limit 1, two crashes, one refusal: enough for a second delivery, a retry, a dead letter by each of the
three reasons, and a crash at every stage of a retry. Fairness: the broker delivers to a worker with room,
and a worker gets on with its message; crashes are bounded, not fair.

Proofs (`OrderWorker_proofs`): `TypeCorrect`; `OrdersAreNeverLost`, which needs that stored messages are
numbered once (`Numbered`) and are in one place (`OnePlace`), or the settling of one could drop another;
`DeadLettersHaveAReason`, which needs that only poison messages are retried or given up (`PoisonHandled`);
`WorkRepeatedByCrashesOnly`, which counts the live copies of an order (`Counted`) and needs that no dead
letter is still queued or in hand (`DeadApart`). `QueueDrains` is model-checked only.

## Lab 14: PaymentConsumer

`proc[c]` is a process of `payment.py` with its flags; `queue` counts the copies of each order; `charges` and
`processed` are the two tables of the ledger. `Charge` with `--idempotent` is one transaction of both
tables. With automatic acknowledgment the broker pushes messages ahead (`held`), which die with the
process. The producer publishes an order again when it lost a confirmation.

Each promise names the flags it holds under: `DeliveredAsPromised` is `AtMostOnce` if no consumer
acknowledged by hand and `AtLeastOnce` if none automatically, `EffectivelyOnce` holds if all were
idempotent. A reset of the ledger under a running consumer (`torn`) voids the first two. Bounds: two
orders, two publishes (two orders, or one twice), two consumers, three starts, one reset. `ChargesOnce`
states that the consumers implement `ChargeOnce` between resets.

Proofs (`PaymentConsumer_proofs`): `TypeCorrect`, `OrdersAreChargedOnce` and `ConsumersImplementChargeOnce`,
from the invariant that every running consumer is idempotent if all ever were (`AllIdempotent`).
`GuaranteesAreKept` is about `DeliveredAsPromised`. For automatic acknowledgment it
counts charges, queued copies and the copies consumers hold uncharged against those published (`Covered`);
by hand it needs that what is about to be acknowledged was charged (`Worked`).

## Lab 13: ArchCore and ArchSession

`ArchCore` translates the functions of `core.js` that make a new attempt from an old one (place, move,
remove, hint, submit, retry, clear, reveal, time) and those that count points. `ArchSession` is the page:
`att` is `V.att`, `undo` the attempt kept for Undo, `dialog` an open confirmation, `open` the attempt in
localStorage, `rec` the record of the puzzle. Every handler is one step and ends with what it saves. Time
is counted in steps of the clock (`unbanked` are those not yet saved).

Assumed: localStorage takes every write, one tab, and a click that navigates is one step with the
navigation. Left out: drawing, language, drag and keyboard, the list dialog.

Bounds: a puzzle of two slots that share services with decoys (three services), a budget of two clock
steps, two submits an attempt, two counted attempts. Two slots are the fewest with one right and one
wrong; two attempts are needed to see one counted twice. There is no liveness: nothing has to happen on
a page nobody touches.

`AttemptsAreSound` is checked on the attempt shown, on the one Undo would restore and on the stored one,
since each of them can become the attempt.

Proofs (`ArchSession_proofs`), for any slots, services, answers and budget: one lemma for each function of
`core.js` says that it makes a good attempt of a good one (`Good`: typed, fits the tiles, follows the
rules), and one for each handler that it keeps `SessionInv`: every kept attempt is good and strict, and
what is stored is current. `Good` adds to `AttemptsAreSound` that a verdict on an open slot is of the
present try, without which a tile could be put on a judged slot. Points are counted by value (10, 5, 2),
since a sum over a set is out of the prover's reach. From the invariant follow `HandlersKeepTheRules`,
`EveryChangeIsSaved` and `ChallengesStayStrict`.

## Lab 13: PuzzleRules and ArchBuilder

`PuzzleRules` is what the builder accepts of a puzzle: first its form (`Formed`, the part of the JSON
schema that the later checks need), then what `validate` and `validate_overlay` check: groups and their
parents, margins and overlaps in hundredths of a grid cell, the chain of groups around a slot, tiles and
their uses, roles and near misses, requirements with their gaps in two languages, numbers, arrows, texts
that name an answer (`NoLeaks`), the ids and reasons that are translated. `Normalized` is the puzzle as it
is published, with the uses and roles a file leaves out. Below it are the statements an exercise relies
on, which say the same in other words: `Nested` (a drawing can be read), `Solvable` (the tiles fill the
slots and none that answers is left over), `AskedOnce`.

The code walks from a group to its parent until it meets a group again. `Chain` is what such a walk
visits, stated without recursion: the least set that has the group and, with a group, its parent.

`ArchBuilder` is `build.sh`: `puzzle[f]` are the files, `run` the process with what it has read so far,
`svgs` and `manifest` what `icons.py` extracts, `app`, `data` and `index` the written site: the runs that
the scripts are from, `game-data.js` with the icons drawn in it, and the run of `index.html`. Each file
read, icon removed or written and each part of the site is a step; authors edit between any two of
them, and a run may break off at each, also while it writes, which leaves a mix of scripts, or data or a
page that cannot be used. `--published-only` and the last part of the build alone are starts of a run.
A service that is not in the registry stops a run twice: in the validation, and in `icons.py`, which also
takes the answers that no tile offers (`Wanted`).

An error (a message and exit 1) is told from a break (an exception nobody catches, the disk, the machine):
an icon that the manifest does not name is an error, one that it names and is not there breaks the run.

`SiteIsWhole` has three parts. `ErrorsWriteNothing`: until a run has found no error, and when it ends with
one, the site is as it found it. `NewestFirst`: a run that succeeds leaves a site all of its own; one that
breaks off while it writes leaves parts of two runs, which stay until one succeeds, but no script is
older than the data and no data older than the page. `IconsAreDrawn`: the data published has all icons
its puzzles use, though the files in `dist/icons` go away one by one while the manifest stays.

Bounds: two files, one edit, three runs. The edit replaces one part of one puzzle by any of about a
thousand that are put together from right and wrong pieces: a child that fits by a hundredth or does
not, siblings that touch or overlap, parents in a cycle or unknown, a service with too many or too few
uses, gaps and numbers swapped. One edit is enough for what a run reads to differ from what an earlier
part of it has read. Three runs are needed for a manifest that one run left, an extraction that broke off
in the next and a build that goes by both; edits that matter there (another icon, one that is not in the
registry, one less, a plain error, publishing) are followed through all three, any other to the end of
the first run. The edit comes during the first run or before it, or while a second one reads after a
first that succeeded (`BuildBound`). The instance has about 290,000 states. Left out: identifiers and
clouds, how a name is found in a text and the rest of what is asked of texts (one Boolean a language),
warnings and how an icon is drawn.

Proofs (`Programs_proofs`), for any puzzle, files, edits and runs. `AcceptedPuzzlesWork` is about the rules
alone: every accepted puzzle, normalized, is `Nested`, `Solvable` and `AskedOnce`.

- `Nested`. `validate` checks that an item lies in all groups around it, and compares a group with its
  parent and with its siblings; the statement is about any two groups. Containment passes along the chain
  because it is exact, without the tolerance that the comparisons of siblings have. Chains are linear
  (`ChainLinear`), so two groups of which neither is around the other have ancestors, or are themselves,
  siblings (`ForkBelow`); those are apart, and so is what they hold. Groups are finitely many and their
  chains do not come back, so any set of groups has one whose parent is outside of it (`Topmost`): this
  takes the place of an induction along the parents.
- `Solvable`. The uses of the tiles of a service add up to the slots it answers, because a service has
  one tile; the assignment maps each slot to it.
- `AskedOnce`. One loop counts the gaps of a slot, another compares the numbers, and the translation is
  compared with both: the requirement with the gap has the number of the slot, and no other has either.

The site follows by `SiteInv`: what a run has read is accepted as long as it found no error, and what it is
about to write is sound and has its icons (`Readings`); how far it has come in writing says which parts are
its own, and no part is newer than the last run (`Progress`).
`ErrorsStopTheBuild`, `PublishedDrawingsNest` and `PublishedExercisesWork` are its consequences.

## Lab 10: Enrollments

The database of the visualizer as its handler threads change it. `rows` and `enrolled` are what is
committed; `tx[t]` is one call of `consistency_transfer`, `reset[r]` the statement a `db_reset` is at. A
statement is one step, enabled when no lock it needs is held. What a transaction did is applied by
`Commit`: nobody reads it before, because its row locks are held until then. `RowsOf` and `CoursesOf` say
which rows the statements so far have locked, `ReferredBy` the course that an insert's foreign key locks
shared; `Victim` is InnoDB's deadlock detection. `Fail` is an exception at any statement, or the end of the
server: MySQL rolls back either way, and at `Commit` only the answer may be lost.

`CountsAgree`, a part of `Consistent`, holds while only transfers have touched the tables since an
undisturbed reset (`trust`): the console and overlapping resets write enrollments without counters by
design. `CommitsAreAtomic` is the refinement of `AtomicTransfer` under the same condition. Of the console,
inserts of enrollments are modelled; deletes and updates are not.

Bounds: two transfers, one reset, two courses, two seeded students and one added, one insert from the
console: two transfers in opposite directions deadlock, and each can fall between any two statements of
the reset. Fairness: handler threads run and deadlocks are detected; failures are not needed for
`RequestsEnd`. In MySQL a reset locks rows one by one and can itself be the victim of a deadlock; here its
statements are atomic and `ResetFails` covers that end.

Proofs (`Enrollments_proofs`), for any finite tables and any numbers of transfers and resets:
`TablesAreConsistent` and `TransfersImplementAtomicTransfer`. The counters agree only because of what the
locks give. `LocksExclusive` says that no transaction holds what another has; from it follow that a row a
transfer has deleted is still there for all others and one it has inserted is not (`RowsHold`), and that
what its decrement read of the counter still holds (`TakenHolds`). `ResetHolds` carries a reset that is alone:
the table is empty while it runs, so no transfer can have got beyond its first statement, and its
counters are those of the rows it is about to insert. `CountMoves` counts the students of a course
before and after a move.

## Lab 10: Visualizer

The other routes of the server. A request `req[r]` is the statements its handler still has to run
(`Program`), on connections that commit each by itself; the first one is at its head. MySQL is external:
every change of the tables is an entry of `log`, of which the replica has applied the first `applied`;
`repl` are the replication threads, which connect and apply by themselves; the buffer pool goes from
`actual` to the size `asked` for in the background. `lock` is `_BENCH_LOCK`. Nothing else writes to the
replica: it is `super_read_only` (`setup.sh:69-71`). A wait with a timeout (`poll_for_row`,
`buffer_pool_state`, the replica in `db_reset`) may end at any time, with what is true at that time.

`ResetRestores` says what a reset that answers OK has done: always that the replica has applied it, and,
if no other request changed anything since it began (`sole`), that both nodes have the seeded tables and
the pool its default size. `FoundIsReplicated` says of a write or a CAP test, which reads primary,
replication state and replica one after the other, that a row it reports on the replica stays there as
long as the primary has it: what is reported mixes three moments and is true of the last. `SetBuffer` is
the answer of the route that resizes the pool; the replica status a write shows besides is read and not
judged.

Bounds: three requests to any three of the twelve routes, one that breaks off at any statement, two
sizes of the pool. Two requests interfere with each other; a third is needed for one that finds what a
broken second left to the first. There is no liveness: every wait of the code ends by its timeout.

Proofs (`Visualizer_proofs`), for any requests, routes, sizes and failures: `TypeCorrect`,
`BenchIsWholeHolds`, `FoundStays`, `ResetsRestore`. What makes `TypeOK` inductive is that a request's
statements are the end of a program: `Ordered` says which statement follows which, and `Holder` that the
lock belongs to the request that is between the guarded ones, so that nobody else changes what it builds
(`Built`). For `FoundStays` the rows of a request must be in the log without a gap (`Contiguous`),
because it inserts once (`Once`), and a CAP test that did not see its row on the primary will not find
it there (`Seen`). For `ResetsRestore` the statements left of a reset are an end of the whole list
(`Suffix`), and how many they are says what it has restored already (`Restored`): no added rows at nine,
no table `enrollment_summary` at eight, no index at seven, the place in the log to wait for at six, the
size asked for at five and, unless it gave up waiting, the size of the pool at four. Whatever changes
one of these also disturbs the reset (`Undisturbed`).

## Lab 11: CacheLab

`Main` is the program: thirteen stages, each the calls to Redis or to the backend that an operation
makes, once or for each of its products in their order. `pc[c]` is where program c is: the stage, the call,
and the products of the stage that are left; `held[c]` is the record it holds. The stage that flushes gets
its products when `SMEMBERS` returns. All exercises write the same values, so a record is the seeded one,
the new one, or the part of the new one that write-back knows. Redis evicts keys while memory is short
and ends TTLs at any time; any call may fail, which ends the program wherever it is.

Bounds: two programs, one after the other or at once, four products: one for cache-aside and
write-through, one with a TTL, two written back. The second program finds whatever the first left.
`crowded` and `evicted` record that two ran at once, or that Redis evicted a product or the dirty keys.

`LeavesNoTrace`: when the programs are at their end, or the one that ran alone is, there is no dirty key
and no partial record, and policy and memory are as before. `WritesArrive`: what a program wrote is in the
backend. `CacheIsCurrent`: a cached record is the backend's, half written, marked dirty, or an eviction's
doing. Two programs at once are outside of `CacheIsCurrent` and of what `WritesArrive` says of write-back:
`get_product` may store what it read before an update of the same product (`cache_lab.py:80`), which no
document promises against. The programs in Go, Java, C# and C++ make the same calls.

Proofs (`Programs_proofs`), for any number of programs and products: the three invariants, as
`ProgramsLeaveNoTrace`, `ProgramsWritesArrive` and `ProgramsCacheIsCurrent`. None of them is inductive;
`CacheInv` is, and says four kinds of things.

- Where a program may be (`Walks`): at a call of its stage, with products of the stage left. A set of
  products that is not empty has a smallest one, because the natural numbers are well-founded
  (`Smallest`); so the next product is always defined, and the rest without it is smaller.
- Whose debts there are (`Debts`): while a key is dirty, a record partial, the policy or the memory
  changed, some program has the call that puts it right ahead of it, or has broken off. Programs at once
  may clean up for each other, so the statement names no program; it must say which part of the
  eviction exercise is still ahead, since memory is set back one call before the policy.
- What a program has behind it whatever the others do (`Written`, `Fresh`): product 1 is updated for
  good, and what is about to be set in the cache is a whole record.
- What holds for the program that runs alone, past its first `FLUSHALL` (`Orderly`): what it holds is what
  the backend stores, products already handled in write-back are dirty, those already flushed are stored.
  Without evictions a dirty key has its record, so that a flush sends it.

## Findings

| Run | What the documents say | What the code does |
|---|---|---|
| `AS_v_perfect` | lab 13 `LAB.md:181`: a hint rules out the perfect bonus | Clear, a hint, Undo: the hint is forgotten with the attempt Undo replaces |

Met while modelling, and left outside of the properties' conditions:

- The two statements about refused writes and reads in mode cp (see KVNode).
- In mode cp a write can be acknowledged that a quorum does not store, against `kv_node.py:10` ("acknowledged
  only after a majority (quorum) of nodes stored it"). Node 1 gives a write version (1, node 1), which only
  node 2 stores; node 1 crashes, and warms up while node 2 does not answer, which skips it
  (`kv_node.py:199-202`). Its clock starts from 0, and its next write gets version (1, node 1) as well. Node 2
  has that version and keeps the first write, but answers 200 (`kv_node.py:319-320`), which counts as a vote.
  The second write is acknowledged although node 1 alone stores it, and gone after its next crash. TLC
  finds this in `KV_crash` once `SurvivesMinorityCrash` is stated without the premise `~ Reused(w)`; the
  premise leaves out exactly the writes that share a version.
- Undo after Clear forgets, besides hints, the time since Clear and answers shown meanwhile
  (`app.js:1152-1160`, `1183-1188`), which no document speaks of.
- The answer of a transfer says that all four operations were applied (`server.py:363`) also when
  `enrolled > 0` kept the decrement from matching a row, which takes enrollments inserted at the console.

## What is proved and what is checked

Thirty-nine theorems in eight proof modules hold for all values of the constants under the named
assumptions in the modules (finite sets, limits that are positive, null values outside the sets). The
assumptions are evaluated in every run. The durability theorems of `KVNode_proofs` assume in addition that
no node crashes, except for `AcksSurviveMinority`, where fewer nodes than a quorum may.

Every invariant and every action property of a run is stated by a theorem. Left to TLC is liveness, and
anything about ENABLED, which the prover does not do: `Converges`, `EveryMessageSettles`, `QueueDrains`,
`RequestsEnd`. Histories (variables marked so in the modules) record what a property needs to know about
the past and guard nothing.

## Not modelled

- HAProxy and the scripts of lab 05: the balancer is configuration, and which node a client reaches is
  any node in `KVNode` already.
- The API Gateway role of lab 15 (route matching, events, statuses), which keeps no state, and the
  functions that do one DynamoDB call per request.
- Subscriber, monitor and topology of lab 14: command line tools and declarations.
- Routes of the visualizer that only read, and what its SQL console can do beyond rows of students and
  enrollments; the page.
- Drawing and wording of the architecture exercise, and a second tab or a full localStorage.
- The web container of lab 17: the order of a rolling update is the business of Kubernetes and of Go's
  `http.Server`; the program adds one channel to wait for (`main.go:120`).
- Proxies, OAuth client, load balancing, DNS, networks, storage, the ECS demo, slides and diagrams:
  configuration, libraries and one-shot scripts.
