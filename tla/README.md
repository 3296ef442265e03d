# Verification of the NATS JetStream cluster plugin

TLA+ models, TLC runs and TLAPS proofs for `mcpg-plugin-cluster-nats`: a plugin
that gives a host process leases with fencing tokens, a key/value store, a peer
list and pub/sub, all kept in NATS JetStream. Nodes share nothing but the
server, so every operation is a conversation of reads and conditional writes,
and everything between two of them can change.

## 1. Inventory

| part | source | state | operations | what is hard | correct when |
|---|---|---|---|---|---|
| lease | `lease.rs`, `record.rs`, `error.rs` | one record per key in the leases bucket, one counter per key in the fencing bucket; per handle the shown expiry and a renewal task | acquire, try-acquire, renew (task and host), release, drop | read-then-CAS races, lost answers applied late, crashes, clocks, whole-second expiry | no live lease is stolen, tokens are unique, a live holder keeps its lease, every acquire ends |
| KV store | `state/kv.rs` | one record per key: value, expiry, or a marker | put, put_if_absent, delete, get, expire, incr, incr_floor, sweep | lazy expiry, CAS retries, sweep against writers | one winner per claim, no lost increment, the sweep removes only what is dead |
| key index | `state/index.rs`, `state/kv.rs` | one index record per key, a completion mark per bucket | index with a put, unindex, backfill, complete, invalidate | two records per key, written one after the other | every live key of a complete index has an entry |
| listing | `state/kv.rs` | a cursor | list_page | keys come and go between pages | a key present throughout is returned, and once unless its record moved |
| sweeper | `sweep.rs` | lease on the sweep, per-bucket index gate | sweep round, gate, complete | rounds of two nodes, older builds in the cluster, marks set and deleted by several nodes | a complete index misses nothing that was there; trust ends while a writer ignores the index, and returns after |
| peer list | `peer.rs` | table of peers with last heartbeat | heartbeat, fold, evict, leave | reordered or lost heartbeats | the list settles on the truth, a silent peer goes in time, a watcher ends with the same list |
| pub/sub | `pubsub.rs`, `state/topic.rs` | forwarder task per stream, bounded event channel | publish, subscribe, watch, drop | drop while a callback runs, slow watcher | no callback after a drop has returned, every drop returns |
| connection | `client.rs`, `lib.rs` | one connection, the buckets | connect, create or grow a bucket | concurrent creators | one connection, one set of buckets |
| configuration | `config.rs` | none | validate | - | out of range values are rejected |

Interactions: the lease, KV and sweep paths meet only in JetStream, through the
revision of a key's last record. The sweeper takes a lease before it sweeps. The
index gate reads the peer list. The host calls all parts, from any thread.

## 2. Modules

| module | models | proofs |
|---|---|---|
| `Lease` (contract `LeaseSlot`) | the lease protocol on one key | `LeaseProofs`, `LeaseTimingProofs` |
| `KvStore` (contract `KvCell`) | data and index record of one key under all its writers and the sweep | `KvStoreProofs`, `KvStormProofs`, `KvIndexProofs` |
| `IndexGate` | backfill, completion mark and trust in the index, in a fleet with older builds | `IndexGateProofs` |
| `ListPage` | a listing page by page while others write | `ListPageProofs` |
| `StreamForwarder` | one stream handed to the host, and its cancel | `PeersProofs` |
| `Peers` | heartbeats, cache, events and a watching host; extends `StreamForwarder` | `PeersProofs` |

The modules meet where the code does. `IndexGate` takes a key's index record to
be in step with its data record, which `KvStore` is about; the peers it sees come
and go the way `Peers` lets them; the sweep lease is lost and taken as in `Lease`.
`ListPage` reads an `index_ready` that changes at any time, which is what
`IndexGate` does to it. The peers, the lease and `index_ready` are wider choices
than the other modules make. The index record in step is not: a put whose index
record is refused or lost leaves a gap, which `KvStore` accounts for
(`GapsReported`) and `IndexGate` leaves out.

Left of the plan: bucket bootstrap and growth with concurrent creators.

## 3. The lease model

`Lease` models one lease key. A *session* is one acquire call and the handle it
returns; any number of sessions run on any number of nodes.

| model | code |
|---|---|
| `lease`, `fence` | last record of the key in the two buckets, with its revision |
| `pc`, `loc`, `mine` | program point and locals of `acquire_async` / `try_acquire_async`, and its `LeaseRecord` |
| `task[s]["auto"]`, `task[s]["host"]` | the renewal task, and the host's renew or release call |
| `shown` | `LeaseInner.expires_at` |
| `late`, `lateFence` | writes whose caller no longer listens |
| `BumpRead`, `BumpCas` | `bump_fencing_token` |
| `Create`, `ReclaimRead`, `ReclaimCas`, `Held`, `Retry` | `try_create`, `reclaim_if_expired`, the wait of `acquire_async` |
| `Wake`, `RenewRead`, `RenewCas`, `RenewReread` | `renewal_loop`, `renew_inner`, `read_held` |
| `ReleaseRead`, `ReleaseCas` | `release_async` |
| `DropHandle`, `Crash`, `AcquireFail`, `RenewFail`, `ReleaseFail` | `Drop`, a dead process, a failed or unanswered store call |

Each store call is one atomic step, and time may pass between any two. A write
in flight when its caller fails, is aborted or crashes goes to `late`; the server
applies it at any later time if its revision still matches. This one mechanism
covers lost requests, lost answers, delays and reordering. A failed call may
also be one that never reached the server: then the write stays in `late` forever.

Time is a tick counter, `Sec` ticks to the second, and each node's clock is ahead
of the slowest by its `Skew`. `ExpiryFor` and `ShownFor` truncate to seconds the
way `expiry_for` and `rfc3339_after` do.

Assumptions: clocks do not run backwards; one host call at a time per handle (the
renewal task runs beside it); the buckets hold parseable records, except that an
undated record of an older version may be there at the start (`LegacyHolder`).

`LeaseSlot` is the contract: the slot is taken only when free or lapsed on the
taker's clock, by a token that never held it; renewed only in its own name and
never to an earlier expiry; released only for a holder that asked. It knows
nothing of reads, revisions or messages. `KeepsContract` is the refinement, with
`slot <- lease.body` and the askers read off the sessions.

`MCLease` holds the constants of the runs.

## 4. The KV model

`KvStore` models one key. A *call* is one put, put_if_absent ("claim"), delete,
expire or incr of some replica, or one sweep as far as it meets this key. `get`
is the read the other calls share.

| model | code |
|---|---|
| `data`, `seq` | last record of the key and the stream's revision: value or marker, expiry, time stored, header or not |
| `index` | the key's index record, live or absent ("never a marker") |
| `pc`, `call`, `loc` | program point, arguments and locals of each call; `ack`, `indexed` are the results of its two publishes |
| `late` | requests whose caller no longer listens |
| `Live`, `IsExpired`, `ExpiresAt` | `slot`, `is_expired`, `expires_at_from` |
| `Begin` | entry of each operation, to its first publish or read |
| `ReadForClaim`, `ReadForDelete`, `ReadForExpire`, `ReadForIncr` | the read and the decision in `put_if_absent`, `delete`, `expire`, `update_counter` |
| `WriteData`, `WriteIndex`, `Answer`, `LostCas` | the pipelined data and index publish, their acks, what each operation makes of them |
| `RemoveIndex`, `RemoveData`, `Reread`, `Rewrite` | `unindex` and `remove_dead`: the removals, the new read, the index record written back |
| `Scan`, `Settle` | `sweep`'s verdict on the record, `settle_legacy` |
| `RefuseData`, `RefuseIndex`, `RefuseRewrite` | a full bucket |
| `LoseData`, `LoseIndex`, `Fail`, `Crash` | a lost ack, a store call that fails, a dead process or dropped future |
| `Deliver` | the server gets to a late request, or it is lost |

Assumptions. The replicas share a clock, in whole seconds, which is what
`now_unix_secs` returns. A read and the expiry check behind it are one step.
The records one call publishes are stored in order (`PendingWrite`), also when
the first is late. A record of an older build is met with its index record, as
a backfill leaves it. Left out: `incr_floor`, which is `update_counter` with an
arithmetic step of another crate; the branch of `remove_dead` for a marker on an
index subject, which is for the index state's delete marker (`IndexGate` has it),
since no write leaves one on a key's index subject; the sweep's concurrency over
keys.

`KvCell` is the contract: a claim takes only a key without a live value, an
increment adds to what is there, expire keeps the value, an upgrade keeps value
and expiry, only what is dead is removed. `KeepsContract` is the refinement with
`cell <- data`.

`MCKvStore` holds the starting records of the runs.

## 5. The index gate

`IndexGate` models one bucket, the replicas of this build with their sweep task
and a host call of `complete_key_index`, and processes of an older build, which
write data records only.

| model | code |
|---|---|
| `live`, `idx`, `mark` | keys with a data record, with an index record, the record under `INDEX_STATE_KEY` |
| `sees`, `recent`, `ready` | older peers in the cache, `unindexed_seen`, `index_ready` |
| `Open`, `OpenMark` | `complete_index_if_empty`: the look, then the mark |
| `SweepTick`, `Gate`, `DeleteMark`, `GateTick`, `GateRead` | the task loop, `gate_index`, `invalidate_index` |
| `TakeLease`, `Sweep` | the sweep lease; the sweep, of which only the removal of the mark's delete marker matters here, and the decision to complete |
| `StartScan`, `Backfill`, `ScanEnds`, `MarkComplete`, `Trust` | `backfill_index`, `complete_index`, `complete_key_index` |
| `Elapse`, `Lapse`, `Fail`, `GateFail`, `MarkUnanswered`, `Restart` | time, a lost lease, failed or unanswered store calls, a new process |

`fresh` and `wild` are history: the keys older peers wrote since a task looked at
the bucket, and since the look behind the last mark. A key an older peer writes is
never indexed by it, so an index can be complete only up to those.

## 6. The peer list and its stream

`StreamForwarder` is the life of one stream: receiver, forwarder task, handle.
The tokio rules it rests on are in its header: an abort takes effect between two
polls, so a callback under way always returns first. `Peers` puts the peer cache
in front of it.

| model | code |
|---|---|
| `Start`, `Beat`, `Leave`, `Die` | `publisher_loop`, `PeerWorkers::leave`, a crash |
| `wire` | messages under way: in order within one process's life, in any order between two lives |
| `Receive`, `Fold`, `Sweep`, `Judge`, `SendEvent` | `subscriber_loop` |
| `cache` with ages, `sweepIn`, `beatIn` | entries with their last heartbeat, and the two interval timers |
| `WatchPeers`, `SpawnWatch`, `ListPeers`, `EmitEvent` | `watch_peers`, `list_peers`, the forwarder's callback |
| `Post`, `inbox` | the broadcast channel, which drops the oldest when full |
| `Cancel`, `CancelReturns`, `CancelGivesUp`, `DropFuture` | `StreamState::drop` and its `recv_timeout` |

`view` is what a host knows that applies each event to what it had. `Prompt`
makes time wait for work that is due; without it no bound on ages could hold.

## 7. The listing

`ListPage` models `list_page` and its caller. The first page chooses to read the
subject list ("s"), index records ("i") or all records ("d"); the cursor keeps
the choice.

| model | code |
|---|---|
| `seq`, `data`, `index` | the stream, and the sequence of each key's two records |
| `Put`, `Index`, `Delete`, `Lapse`, `SweepReads`, `SweepUnindexes`, `SweepPurges` | what writers and the sweep store and remove |
| `FirstPage`, `NextSubjects` | `index_ready`, `SUBJECT_LISTING_MAX`, `subjects_page` |
| `OpenConsumer`, `Deliver`, `ReadRecord`, `Stall` | the ordered consumer, its pending count, the page's limit, the five-second wait |
| `Fetch`, `NextCursor` | `live_entries` and the page's `next` |
| `Fail` | an error, after which the caller passes its cursor again |

The consumer sends ahead, so a record may be purged or replaced between its
sending and its reading, and `more` is the pending count at the sending. `Filtered`
is what the server's filter lets through (`prefix_filter` cuts the prefix to whole
tokens): a key in it that is not in `Matching` costs a record and counts for
nothing. `owed` and `moved` are history.

## 8. Runs

| run | instance | shows |
|---|---|---|
| `lease_faults` | 2 sessions of one node, 1 fault, 3 ticks, server 2.14; the key empty or with an undated record | types (bounded CAS rounds), unique tokens, shown expiry, contract, under every interleaving and late write; the undated record is never stolen |
| `lease_timing` | TTL 3 s, 2 ticks to the second, timely tasks | a live holder never lapses |
| `lease_liveness` | fair scheduling, 1 crash or lost answer | every acquire returns, an orphan is replaced |
| `lease_token_order` | 2 sessions | *violated*: highest token holds |
| `kv_faults` | 2 calls of any kind, lapsing record of this build or an older one, TTLs, counter at its limit, 1 fault, 1 refusal, 3 s | each call stores at most once and answers truthfully; a live key missing in the index was reported; contract, also beside `settle_legacy` |
| `kv_index` | 3 calls of any kind that ask for no TTL, a lapsing value, 1 refusal | types (bounded CAS rounds); without TTLs on new values, no interleaving hides a live key from the index unreported; contract |
| `kv_storm` | 3 increments, 3 rounds, 1 fault, fair scheduling | nobody gives up, the count adds up, every call answers |
| `kv_index_revived` | put, expire and sweep, no failure | *violated*: every live key has an index record |
| `gate` | 2 replicas, 1 older process, 1 key, 1 failure, restart, lapse, silent peer or host call, fair scheduling | a complete index misses only what older peers wrote since; an older peer ends trust for as long as it stays; trust returns when it is gone |
| `gate_brief` | the same without any failure | *violated*: at rest, a complete index has every live key |
| `peers` | 1 node that runs twice, first as an older build; interval 2, expiry 5, channel of 2, 2 faults | types, the watcher ends with the cache, events make sense, a silent peer goes in time, one loss is forgiven, the list settles, a cancelled stream never calls back and every cancel returns |
| `list` | 2 keys, pages of 1 or 2, a subject list of at most 1 or 2, 2 records sent ahead, 2 writes with any lapses, stalls, sweeps and failures | nothing owed is missed, nothing unmoved comes twice, every cursor advances |

Bounds. Two sessions suffice for every pairwise race, and putting both on one
node makes the ownership test tell sessions apart by token alone. `MaxTime` is at least two TTLs where
expiry matters, so that a lease can be taken, lapse and be taken over. One fault
is enough for one late write to meet later holders; the theorems lift all of
this. `Rounds`, `WaitFactor` are small where the code has 16 and 10, so that the
limit is reached. Deadlock is not checked: the clock bound ends every behaviour.

Fairness (`lease_liveness` only): weak fairness of the clock and of the steps of
a task that has started, which is what the tokio runtime gives a ready task. The
host is not obliged to call, nor the network to fail or to deliver.

KV bounds. Two calls cover every pair of operations with every fault; three
are needed for the sweep, a writer and the writer's rival. `Grace` is 1 s for
60, `Rounds` 2 or 3 for 8 and 64, `MaxCount` 0 or 2 for 2^63 - 1, so that each
limit is met. New values get no TTL in `kv_index`, for the reason
`kv_index_revived` shows: with them `GapsReported` fails without any failure.
Its invariants hold for what is left, a value that lapses being there at the
start. `kv_storm` gives three contenders three rounds, the ratio the comment in
`update_counter` asks for.

KV fairness (`kv_storm` only): weak fairness of the steps of a call that has
begun, and of the fate of a request under way (served or lost; the ack timeout
of the client ends the wait).

Bounds of the other runs. `gate`: two replicas are needed for one to take back
what the other completes; one key and one older process suffice because gaps of
different keys do not interact, and the theorem lifts it. `peers`: two lives make
messages of an earlier process late, two faults make two heartbeats in a row go
missing, and a channel of two overflows. `list`: two keys in either order, with
their index records, make four records, so pages end before, between and after
them; index records of a pass over all records are the ones that count for
nobody. Keys outside the prefix, and a filter wider than it, would do the same in
the other passes; two keys leave no room for them, and the theorems have them. Deadlock is not checked there either: a finished pass, and a fleet whose
bounds are used up, stop.

Fairness. `peers`: timers fire, a ready task is polled, a message under way
arrives, `recv_timeout` ends; no callback has to return and no host has to call.
`gate`: the steps of the sweep task, the arrival of heartbeats, the expiry of
what nobody renews. The sweep tick is strongly fair because the task's `select!`
is biased to it, so the gate ticks in between cannot keep it out. A backfill must
reach a record with none pending, which the code needs too: it reads faster than
others write.

The violated properties state what the documentation says; PROJECT.json quotes
it. `lease_token_order` is a consequence of the order mint-then-take; the contract
holds regardless. `kv_index_revived` is a defect: a sweep takes an old marker,
a put with a short TTL stores a value and finds the old index record in place,
an expire reads that value live, the sweep removes the index record, the value
lapses, the sweep's new read finds it dead, and the expire's CAS brings it back.
The key is live, nothing failed, and no indexed listing returns it until the
next put, claim or backfill. `gate_brief` is a defect of the same kind: the look
at an empty bucket and the mark are two calls, an older process writes a key in
between and stops before any replica hears of it, and then nobody takes the mark
back. `GapsAreRecent` says how far the damage can go.

Limits met while modelling that no run is spent on:

- a release that loses its CAS to its own renewal task returns Ok with the record
  in place; a 2.14 server answers the lost CAS with 10164, which the client
  does not sort into the error kind that `lease.rs:528` looks at (`error.rs:18`
  explains it for the other writes), and the release returns an error;
- a blocking acquire waits ten times three TTLs (`lease.rs:229`), not about ten as
  `lease.rs:175` and `lib.rs:849` say;
- a lease with a TTL of one second lapses at the next second boundary, before its
  task wakes (`lease_timing` needs three); with a fractional TTL the two expiries
  of a record differ by a second;
- a put whose index record is refused reports it and leaves a live key outside the
  index (hence "reported" in `GapsReported`); an expire whose value lapses between
  read and CAS brings it back;
- in a pass over index records, a sweep that removes a record and writes it back
  moves the key: it may come twice, or be missed, though nobody rewrote it (hence
  "indexed all along" in `NothingMissed`);
- a record stream that ends without an error ends the pass without a cursor
  (`kv.rs:1244`), and a backfill as if it had read everything (`kv.rs:439`); the
  client ends it only behind an error, so neither model has that step;
- the subject list of an indexed listing comes in pages of its own
  (`kv.rs:604` to `kv.rs:622`); `ListPage` reads it in one step;
- two nodes that grow a bucket from a configuration each read before the other
  wrote may lower a cap that `client.rs:345` says is never lowered;
- a routing key or topic with a dot in it has two tokens, which the single
  wildcard of a subscription (`pubsub.rs:51`, `pubsub.rs:61`) does not match.

## 9. Proofs

`LeaseProofs` proves, for every set of sessions and nodes, every TTL, skew and
bound, from `SessionsAssumption` and `TimeAssumption`:

- `LeaseTyped`: `Spec => []TypeOK`;
- `Invariance`: `Spec => []IInv`;
- `TokensNeverShared`: `Spec => []TokensUnique`;
- `HandleNeverAhead`: `Spec => []HandleNotAhead`;
- `LeaseKeepsContract`: `Spec => KeepsContract`.

The invariant `IInv` is needed because a write is decided long before it is
applied. Its centre is `FlightInv`: every write in flight, whoever sent it and
whether anyone still waits for it, either carries a revision that has passed, so
the server will refuse it, or is exactly a write the contract allows in this
state (`Allowed`). That survives time (records lapse but never come back), other
writes (they raise the revision) and release requests (never taken back). The
rest feeds it: `CounterInv` (the counter is ahead of every token in circulation,
and an increment that can still be applied is the next one), `StampInv` (no
record is stamped later than its node's clock would now, hence a renewal never
shortens), `AttemptInv` (an attempt's token never held the lease and is in no
abandoned write), `HandleInv`, `CreateInv`, `SlotInv`. Each kind of step has a
lemma; the frame lemmas `StampFrame` and `FlightFrame` say once what time and a
write do to the two quantified parts. `StepRefines` is the refinement of one step,
which the timing proof uses as well.

`LeaseTimingProofs` proves `LiveHolderAlwaysKeeps`, `[]LiveHolderKeeps`, from two
hypotheses on the constants:

- `Timely`: `Prompt` and no faults; a renewal that fails is retried only by the
  next sleep, and then a holder may lapse;
- `SpareSuffices`: for any two nodes, `SleepFor + (Skew[n] - Skew[m]) + Sec <=
  Sec * (TTL \div Sec)`. Expiries are whole seconds with the fraction of the TTL
  dropped, so the sleep, the difference of the clocks and one second of rounding
  must fit into the whole seconds. `lease_timing` meets it with equality; with one
  more tick of skew TLC finds a holder that lapses, so it cannot be weakened there.

That the record covers the present is not inductive: it must cover what its renewal
task has yet to sleep and write. `KeepInv` says so: the holder's record was stamped
no earlier than its present sleep began or, while the task renews, one sleep ago.
`FreshInv` says that a record about to be written, by an acquire or a renewal, is
stamped at the present tick, and `StrayInv` that the renewals still under way without
a caller are of dropped handles. Who may replace a record at all comes from the
refinement: a step is a step of `LeaseSlot`, and a take needs a lapsed slot.

`KvStoreProofs` proves, for every set of calls, values, TTLs, rounds and bounds,
from `CallsAssumption` and `FirstAssumption`:

- `KvTyped`: `Spec => []TypeOK`;
- `KvInvariance`: `Spec => []IInv`;
- `WritesApplyOnce`: `Spec => []AppliedOnce`;
- `StoreKeepsContract`: `Spec => KeepsContract`.

Here too the centre of the invariant is `FlightInv`: a data write in flight is
refused by its revision (`Harmless`) or is one the contract allows for the record
that is there (`Fits`). `SweepInv` says the same of a purge: the record named by
`mark` is dead or has been replaced. `OnceInv` ties the history count to the
place of the call and to what is in `late`, which is why an unanswered write is
never sent again; `RoundsInv` bounds the retries; `SlotInv`, `CallInv` and
`PlaceInv` relate revisions, operations and places. A change of the store is
summed up once (`StoreChange`), and the frame lemmas carry the other calls'
parts across it.

`KvStormProofs` proves two facts about many calls on one key.

- `NoCallGivesUp`: `[]StormSurvived`, if `RoundsSuffice`: finitely many calls, and
  as many rounds as calls, one more where claims are among them. The code has a
  fixed number of rounds, so the hypothesis says how many contenders it serves; a
  claim starts out expecting no record, and may lose its first round to a dead one
  that was always there. `StormInv` counts: a call changes the record at most once
  and is then *spent*, and a call that lost *n* rounds has *n* spent rivals.
- `CountsAlwaysAddUp`: `[]CountsAddUp`, if `CountersOnly`: finitely many calls, no
  puts, claims or deletes, no TTLs, and a key that starts without a value or at
  zero. TTL removals and sweeps may run beside the increments. `Tally` says that the
  record is the sum of the stored shares; `CountInv`, that an increment in flight
  which the server would take adds its own share to the record that is there, or is
  a first count. The sum is the community modules' `SumFunction`, a recursive
  function. The library's induction theorems take an operator as a parameter and
  cannot be applied, but `WFMin` does not: `SmallestSet` makes of it that a set of
  subsets has a smallest member, and the lemmas on sums (such a function exists, any
  two agree, another value at one place changes the sum by the difference) look at
  the smallest subset that fails.

`KvIndexProofs` proves `GapsAlwaysReported`, `[]GapsReported`, from `NoTtls` (no call
asks for a TTL; what the key starts with may have one) and `FirstsIndexed` (the key
does not start out live and unindexed). Without `NoTtls` it is false with three
calls, which is what `kv_index_revived` shows; `kv_faults`, with TTLs, has two. The
invariant is `Tidy \/ Reported`. `Reported`, some call has met a failure and returns
or has returned it, once true stays so. Until then `Tidy` holds: a live key without
its index record has a call that is about to store it (`NoGap`); nothing is late but
index records (`Calm`); and what is stored behind a sweep's back has no expiry (`SweepTidy`,
`WriteTidy`), so that the sweep's last look is right for good. A value about to be
replaced by a write that relies on its index record counts as live (`Vital`), even
if it lapses in between.

`IndexGateProofs` proves, for any replicas, older processes, keys and bounds, from
`GateAssumption`:

- `GateTypes`: `Spec => []TypeOK`;
- `GapsStayRecent`: `Spec => []GapsAreRecent`.

The mark is written long after the look it stands for, by tasks that do not know
of each other. `TaskInv` therefore follows each of them: while it scans, every
gap is a key it has still to read or one written since it looked; when it is about
to mark, every gap was written since. `MarkInv` is what the mark then stands for,
and it survives the mark's deletion and the sweep's removal of the marker, which is
why a replica whose `index_ready` outlives them is covered.

`PeersProofs` proves, for any nodes, lives, capacity, interval and expiry, from
`PeersAssumption` and `CapacityAssumption`:

- `StreamCancelSafe`: `StreamSpec => []NoCallbackAfterCancel`, for any stream;
- `PeersTypes`, `WatchCancelSafe`: types, and the same in the composition;
- `SilentPeersGo`: with `Prompt`, `Spec => []SilentEvicted`;
- `WatcherConverges`: `Spec => []WatcherSeesCache`;
- `OneLossIsForgiven`: with `Prompt`, `Spec => []OneLossForgiven`;
- `EventsAlwaysMakeSense`: `Spec => EventsMakeSense`, an action property.

`StreamInv` ties the signal a handle hears to the end of the future. `AgeInv`
bounds an entry's age by the time to the next sweep tick. `WatcherSeesCache` is
inductive only with `EventInv`, `InboxInv` and `ViewInv`: what an event still to be
sent, the latest unread event, and the host's view each say of a peer, in that
order of precedence. `BeatInv` bounds the age of an entry by what its peer has
missed and the time to its next beat. `SenseInv` says of every unread event and
every event to be sent that it follows from the one about the same peer before it,
or from what the host knows (`Follows`).

`ListPageProofs` proves, for any keys, prefix, page sizes, number of records sent
ahead and number of writes, and any filter that lets the prefix through, from `ListAssumption`:

- `ListInvariance`: `Spec => []ListInv`;
- `CursorsAdvance`: `Spec => CursorAdvances`;
- `PassReturnsOnce`: `Spec => []NothingTwice`;
- `PassMissesNothing`: `Spec => []NothingMissed`.

`OrderInv` puts cursor, page and what was sent in one line. `TwiceInv` follows a key
whose record has not moved: it is behind the cursor, counted in the page, sent
once, or ahead. `OwedInv` follows a key the pass owes: its record is never behind
the cursor, and as long as it is neither counted nor sent, every record before it
said that more was pending. `StoreInv` (no two records share a sequence, a sweep
purges only what is dead) is what makes the consumer's next record unique. A
write is summed up once (`WriteChange`).

Only model-checked: the liveness properties (`AcquireReturns`, `OrphanReplaced`,
`EveryCallAnswers`, `ListSettles`, `CancelEnds`, `OldPeerEndsTrust`, `TrustReturns`),
which rest on fairness and are out of the prover's reach. Every invariant and
action property of the passing runs is stated by a theorem, some under the
hypotheses named above.

## 10. Not modelled

- Connection (`client.rs`): bucket bootstrap and growth with concurrent creators,
  TLS and authentication.
- Configuration (`config.rs`): checks of fields against fixed ranges, no state.
- The key codec of `index.rs` and the rendering of subjects: string encodings; keys
  are abstract in every module.
- State topics (`state/topic.rs`): an adapter to publish and subscribe. Publish
  itself is one call.
- `incr_floor`, `enumerate_held_roles`, usage reports, metrics and logging; FFI
  pointer handling beyond the order of callbacks and drops.
