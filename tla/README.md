# slatedb-go in TLA+

A specification of slatedb-go, an embedded key-value store that keeps a
log-structured merge tree in an object store. The modules are translated from
the Go code; `PROJECT.json` maps each definition to the lines it models. TLC
checks them on small instances. TLAPS proves the theorems of `StoreProofs`,
`FencedWritersProofs`, `CompactionProofs` and `WritePathProofs` for every
instance.

## The system

| Part | State | Operations | Module |
|---|---|---|---|
| Manifest store (`slatedb/store/manifest_store.go`, `object_store.go`) | manifest files with consecutive ids; per handle: id and contents last seen, local epoch | create, load, refresh, update, epoch bump, epoch check | `ManifestStore` |
| Write path (`slatedb/db.go`, `flush.go`, `slatedb/state`, `slatedb/table`) | WAL, immutable WALs, memtable, immutable memtables, `CoreDBState`, notification channels | Open with WAL replay, Put/Delete, Get, `FlushWAL`, `FlushMemtableToL0`, two background tasks, Close | `WritePath` |
| Compactor (`slatedb/compaction`) | its copy of the state, the jobs accepted, workers, result channel | poll, schedule, run, finish, shut down | `Compaction` |
| One compaction job (`executor.go`, `internal/iter/merge.go`) | iterators, heap, writer, output SSTs | load, merge, split, fail | `CompactionJob` |
| SST format (`internal/sstable`, `internal/sstable/block`) | rows, blocks, block index, filter | encode and decode rows, build blocks and tables, search them | `SSTFormat` |
| SST lookup (`slatedb/db.go`, `internal/sstable`, `slatedb/compacted`) | SSTs and sorted runs | flush a table, find a key | `CompactionJob` |
| Several processes on one database (`slatedb/db.go`, `flush.go`, `slatedb/store`) | WAL SSTs and the latest manifest; per process: Open, WAL task, memtable task | open, replay, flush, be replaced, crash | `FencedWriters` |
| Manifest states (`slatedb/state`, `slatedb/manifest/codec.go`) | `CoreDBState`, `ManifestV1` | encode, decode, `RefreshDBState` of writer and compactor | `CoreDBState` |

How they interact: Put adds to the WAL. The WAL task freezes it, uploads it as a
WAL SST, moves its entries to the memtable and wakes the waiting Puts. A
memtable that is large enough is frozen and announced on a channel. The memtable
task uploads it to L0 and writes a manifest. The compactor merges L0 into sorted
runs and writes manifests too. Both sides first merge the other's part of the
latest manifest into their own. After a crash, Open reads the latest manifest
and replays the WAL SSTs above `lastCompactedWalSSTID`.

What makes it hard: two background tasks, application goroutines that may call
`FlushWAL` and `FlushMemtableToL0`, and the compactor's goroutines share one
state under short locks. A manifest is put by an `Exists` and an `Upload` that
are not atomic. Uploads may fail, or land although they report an error. The
process may crash between any two steps.

## Modules

### ManifestStore

A client is a writer's or a compactor's handle. Every call to the bucket is one
step, so that listings, gets, existence checks and uploads of several clients
interleave. `Upload` and `UploadError` may replace a manifest; the history
variable `overwrote` records it. A crash is possible anywhere, and a handle
that comes back starts again from nothing. The database state in a manifest is
opaque: the protocol only looks at the two epochs.

### WritePath and DurableKV

`WritePath` is one process over its object store. A table maps a key to the
number of the write it holds (0: none), so that a deletion is a write like any
other. `kvt` is the list of `KVTable`s because a frozen memtable shares its
table with the `Memtable` it was made from, and a put that is under way at the
freeze still reaches it. `w` and `m` hold, per goroutine, where it is in
`FlushWAL` or in the memtable flusher. `WalCallers` and `MemCallers` are the
application goroutines that call `FlushWAL` and `FlushMemtableToL0`. `Events`
selects which of crash, failed uploads, failed reads of a WAL in the replay
(`readfail`), manifest polls, compaction and Close happen in a run. The history
variables are `log` (writes that are not lost), `acked`, `notified`, `mark`
(writes issued before Close), `flushFailed` (a memtable flush has failed) and
`overlapped` (two calls of `FlushWAL` have had the same WAL at hand). Once set,
`overlapped` stays set, also over a crash: the WAL that was lost stays lost.

Steps that are merged, because no other goroutine can tell: the read of the
oldest WAL or memtable goes with the step before it; taking the memtable goes
with `PopImmWAL`; the puts of one WAL into the memtable are one step; a refresh
of the manifest is one step (its two calls are in `ManifestStore`). `Compact` is
the compactor's effect on the manifest in one step; `Compaction` has the
details. A failed SST upload leaves no SST that anything refers to. A manifest in
the object store is a `ManifestV1` (`EncodeManifest`, `DecodeManifest` of
`CoreDBState`), which holds the last WAL id seen instead of the next one.

`DurableKV` is what the write path promises: the writes form a log, a prefix of
it is durable, a crash loses exactly the rest, and only durable writes are
acknowledged. `ImplementsDurableKV` maps `durable` to the length of the prefix
that an Open would recover.

### Compaction

The flusher of the writer and the orchestrator with its workers, over one
manifest. Data is a set of batches: batch n is the memtable that ends with WAL
n. A put of a manifest is an existence check and, in a later step, an upload, on
both sides. A crash, a failed call, a failed job and Close are events. A failed
load or update in the orchestrator is a failed assertion, which ends the process.

### FencedWriters

Any number of processes open one database. A step is one call to the object
store, or what a process does between two of them. Open loads the manifest, bumps
the epoch, lists the WALs and replays them; then the WAL task and the memtable
task run. Nothing stops a writer that has been replaced: its tasks go on until
they refresh the manifest and find a larger epoch, and the WAL task never does.
If `NewCompactor` fails, Open returns an error and leaves both tasks running (pc
"orphan"). Uploads of manifests and WALs may fail although the object is there,
and a manifest is put by an existence check and a later upload.

Data is abstracted further than in `WritePath`: a write is a number, a WAL holds
one write, a table is a set of writes, and the levels are one set of writes.
Which memtable is large enough to be frozen is left open, and a memtable may be
flushed at any time after that, with or without a message. `late` records that a
replaced writer has uploaded a WAL, `overwrote` that a manifest was replaced.

### SSTFormat and CompactionJob

`SSTFormat` has the row codec (a key without the prefix it shares with the first
key of its block), the block and table builders with their sizes in bytes, the
block iterator and the binary search of the block index. Keys are sequences of
bytes; a value is a number. Of the byte layout only the sizes remain. Left out
are checksums and compression, and the fields that no writer sets.

`CompactionJob` flushes memtables to such SSTs. Get looks keys up through the
filter, the block index and the iterators. A job merges the SSTs with a heap and
splits its output by size. The heap is a set with a least item, and `sort.Search`
is the smallest index that satisfies its predicate. The filter answers yes to the
keys of the SST and, with `anyKey`, to all others. A block read may fail, which
ends the iterator with a warning; an upload may fail, which ends the job. The
sources are L0 SSTs: the scheduler never submits others.

## Runs

| Run | Instance | What it shows |
|---|---|---|
| `MCManifestStore` | 2 writers, 1 compactor, 4 ids | ids without gaps always; while nothing was overwritten: epochs never decrease, are not shared, and `checkEpoch` does not panic |
| `MCWritePath` | 1 key, 3 writes, 2 opens | no acknowledged write is lost; committed reads are durable and never go back; uncommitted reads see every write but in one gap; the WALs that a replay skips are in the levels, which name only SSTs that are there; a frozen memtable always has a flush on the way; Open finds its channel full only when more WALs than it holds are not in the levels; WAL SSTs never change |
| `MCWritePathRefines` | 2 keys, 3 writes, 3 opens | a crash leaves a prefix of the writes; refinement of `DurableKV` |
| `MCWritePathCallers` | 2 keys, 2 writes, two application goroutines that flush | WAL SSTs never change, also with concurrent flushes and up to the panics they can run into; until two `FlushWAL`s overlap, every WAL is queued or stored, whatever uploads fail |
| `MCWritePathProgress` | 1 key, 2 writes, 2 opens, fair, no crash | Puts are acknowledged through a full channel; Close returns unless its context expires, although the compactor takes manifest ids from the flusher; once the WAL task has ended with no WAL left, what was written before Close is durable |
| `MCCompaction` | threshold 2, 3 batches, 2 opens | nothing flushed is lost, newer data is found first, jobs have the oldest SSTs, one job at a time |
| `MCCompactionProgress` | threshold 2, 4 batches, fair | a full L0 is compacted unless a job failed, shutdown completes, sorted runs in order |
| `MCCompactionJob` | 2 memtables over 4 keys with common prefixes, blocks of 56 bytes | flush and compaction preserve reads; output sorted, no empty SST |
| `MCFencedWriters` | 2 processes, 2 writes, 2 opens, fair | while no manifest was overwritten: levels only grow, an acknowledged write is lost only after a WAL upload of a replaced writer, and a replaced writer notices |

Bounds. Four ids let two clients open, race for an id, and update afterwards.
Three writes with an L0 size of 1 put data into the WAL, the memtable, L0 and a
sorted run at the same time; two opens allow a crash and a recovery, three a
crash during recovery. An L0 threshold of 2 with three or four batches gives a
job that runs while the flusher adds to L0, and a second job. Four keys,
one of them a prefix of another, in blocks of two or three rows give a first, a
last and an absent key in each block, rows with a full and with a shared prefix,
and an output of several SSTs. Two processes with two opens give a writer that
is replaced at each point of its flushes and of its own Open; the safety
properties also hold with three opens (1,264,845 states), and by proof for any
number. Channels have capacity 1 or 2, where the code has 255: a full channel is
the interesting case. With capacity 1 a replay of two WALs does block for ever, as
one of more than 255 freezes does in the code (`db.go:369`), and the WAL task waits
for the memtable task.

Deadlock is checked in `ManifestStore`. The other runs turn the check off: a
closed database, or one whose bounds are used up, stops.

Fairness. Weak fairness on the steps of goroutines that the Go scheduler runs.
Strong fairness where a `select` chooses among ready cases (Go picks at random):
receiving from the memtable task's channel, the WAL task's shutdown message, the
orchestrator's messages and results, the ticker of the memtable task in
`FencedWriters` (it is ready again and again beside other messages). Strong
fairness on `FlushImmWAL`: a retried upload succeeds some time; without it a
store that is always down acknowledges nothing. Nothing is assumed of application
goroutines, crashes, failures or contexts: `WalProgress` and `MemProgress` are the
steps of the two tasks without those in which a call fails, and `CloseInTime` is
the way on in Close once the WAL task has returned, so that a task that is stuck is
not helped by an error or a deadline.

## Where code and comments differ

Each of these runs checks one statement of a comment, assertion or document, and
TLC finds a behaviour that breaks it. `PROJECT.json` quotes the lines.

| Run | Behaviour |
|---|---|
| `MCReplayAssertion` | a manifest names a next WAL id whose WAL was never uploaded; after a crash Open fails its assertion |
| `MCReplayReadFails` | a block read that fails during the replay ends that WAL early, without an error; the memtable is flushed under the WAL's id, and acknowledged writes are gone |
| `MCFencedAcks` | a replaced writer uploads a WAL over one of its successor, or behind its replay, and acknowledges what no Open finds |

Other differences show in the properties' conditions, and under "hazards" in
`PROJECT.json`:

* `overwrote` in `ManifestStore`: two clients find the same manifest id free and
  the second upload replaces the first manifest. Without the condition
  `~overwrote`, TLC finds `NoEpochPanic` violated: an epoch bump is overwritten
  and `checkEpoch` panics.
* `late` in `FencedWriters`: the condition of `DurableUnlessLate` that
  `MCFencedAcks` leaves out.
* `~overlapped` in `QueuedUntilStored`: two goroutines in `FlushWAL` take the same
  oldest WAL, and the second pop removes a WAL that nobody uploaded.
* `JobFailed` in `FullL0Compacted`: a job that failed stays among the jobs
  accepted and blocks its destination, so that nothing is compacted any more.
* `~flushFailed` in `FrozenWillBeFlushed`: a memtable whose flush failed waits
  until another freeze sends a message.
* `AddValue` in `CompactionJob`: an empty value is written as a tombstone. It can
  be read until its table is flushed (`TestPutEmptyValue` does) and is a deleted
  key afterwards. `FlushPreservesReads` compares reads after `AddValue`, and its
  run has empty values, which stand for deletions as well.
* The gap in `UncommittedReads`: a read between `PopImmWAL` and the puts into the
  memtable misses a write.
* `MemCallers`: `LastCompactedIsFlushed`, and with it `Durability`, is about the
  two tasks alone. When an application goroutine calls `FlushMemtableToL0` while
  the WAL task fills the memtable, entries can end up in a table whose WAL id
  already counts as flushed. Two flushers can also pop the same memtable, which
  is one of the panics of `MCWritePathCallers`. That run has no crash: what the
  history variable `log` keeps at a crash is defined by crash consistency, which
  does not hold there.

## Proofs

| Module | Contents |
|---|---|
| `StoreProofs` | `ManifestStore` and `SSTFormat`: lemmas and theorems |
| `FencedWritersProofs` | `FencedWriters` |
| `CoreProofs` | lemmas about `CoreDBState`: merges, encoding, manifests that can be written; stacks of SSTs |
| `CompactionProofs` | the steps of `Compaction`, theorems |
| `WritePathInv` | the inductive invariant of `WritePath`, and what its operators do |
| `WritePathSteps` | every step of `WritePath` keeps `Inv` |
| `WritePathData` | no step changes a WAL SST; every step keeps `SSTInv` |
| `WritePathProofs` | theorems about `WritePath` |

Two facts of the library of theorems, that a set of numbers has a least element
(`LeastElement`) and the sizes of intervals and their subsets (`IntervalSize`,
`SubsetSize`), are hypotheses of the lemmas that need them. They are proved from
the library in the modules with the theorems, which have no hypotheses left.

`StoreProofs` proves the five invariants of `MCManifestStore` for any
sets of writers and compactors, disjoint (`RolesAssumption`), and any bound on
ids (`MaxIdAssumption`).

* `TypeCorrect`: `TypeOK`.
* `IdsAreConsecutive`: `IdsConsecutive`. Alone it is not inductive: a handle
  that held an id not in the bucket could write the next one and leave a gap.
  `IdsInv` adds `Placed`: a handle's id and the id it listed are in the bucket,
  and a pending put goes to the id after the handle's. Uploads only add ids, so
  that no overwrite or crash disturbs it.
* `EpochsNeverDecrease`, `EpochsAreUnique`, `CheckEpochNeverPanics`. `EpochInv`
  adds, while nothing was overwritten, `Faithful`: a handle holds what the
  bucket has under its id, a pending manifest is derived from it, and the local
  epoch is not above the stored one. An upload that replaces nothing then puts
  the greatest id, on top of the manifest it was derived from (`LandLatest`), so
  that epochs grow (`LandMonotone`) and a bumped epoch is above all others
  (`BumpIsFresh`). The condition `~overwrote` is necessary, as the
  section above explains.

`FencedWritersProofs` is about any set of processes and
any bounds on writes and opens (`BoundsAssumption`).

* `LevelsGrow`: `LevelsOnlyGrow`, an action property. It needs to know what the
  manifest a process is about to put contains. `IInv` adds, while nothing was
  overwritten, `Fenced`: what a process has read is the latest manifest or an
  older one, its epoch is not above the manifest's, and a process with the
  manifest's epoch knows everything in the manifest's levels; and `Distinct`: no
  two processes that are open have the same epoch. A put that lands without
  overwriting was prepared from the latest manifest (`WhatLands`), so that its
  writer is the one with the epoch. That the start of the replay never moves back
  needs `Order`, the order of WAL ids in the queues of one process, which holds
  without any condition.
* `TypeCorrect`: `TypeOK`.
* `AckedIsDurable`: `DurableUnlessLate`. `DInv` adds to `IInv`, while nothing was
  overwritten and no WAL was late, `LevelsCover`: the WALs that a replay skips
  are in the levels; `Promised`: what is acknowledged, or will be in the next
  step of a WAL task, is durable; and `Recovery` for the process that holds the
  epoch: every WAL SST up to the last id that its levels or a memtable in its
  queue claim to cover is contained in them, and its replay has the rest of the
  WALs ahead. Only the holder uploads WALs then (`HolderUploads`), which is why
  the condition `~late` is needed.

`CompactionProofs` proves the six invariants of `MCCompaction` and
`MCCompactionProgress`, for any threshold, any bounds and any set of events.

* `Inductive`: `IInv`. A state is `Stacked`: its SSTs, L0 from the newest and then
  the sorted runs, cover adjoining intervals of batches, from
  `lastCompactedWalSSTID` down to 1, and the ids of the runs descend. Each of the
  invariants that the runs check is about one state, and none is inductive: what
  a merge returns depends on how two states differ. `StackInv` therefore relates
  the writer's state, the latest manifest and the orchestrator's (`Linked`): the
  L0 of each is a stretch of the L0 of the one before, and what is missing at
  its bottom has been compacted in the later one. The writer changes one end of
  L0 and the compactor the other, so that either merge, and either side's
  manifest over the other's, keeps this. A pending put holds what its goroutine
  still has (`PutInv`), so that it may land late, or on top of a manifest that
  the other side put in the meantime. `JobInv`: there is one job or one result,
  its sources are those that were submitted, and the SST that it names has
  exactly their batches. `FinishCompaction` takes the sources out of L0 with
  `Kept`, which is a prefix of L0 because the sources are its oldest SSTs
  (`KeptPrefix`).
* `NothingLostAlways`, `NewestWinsAlways`, `SortedRunsStayInIDOrder` follow from
  `Stacked`; `SourcesStayOldest` and `OneJobAtATime` from `JobInv`; `TypeCorrect`
  from `TypeInv`, with `ValidCore`: a WAL id less 1, which the manifest file
  stores, is a WAL id.

`WritePathProofs` is about any keys, any number of application goroutines that
flush, any sizes and bounds, and any set of events.

* `Inductive`: `Inv` and `SSTInv`. `WalInv`: the WALs in the queue, and those that
  a `FlushWAL` has at hand, have ids below the next one, and two WALs with one id,
  or a WAL and a WAL SST with one id, have one table. `QueueInv`, while no two
  `FlushWAL`s have been at the same WAL: at most one of them is between reading
  the oldest WAL and removing it (`InTurn`), the WAL SSTs have no gaps, and
  memtables and manifests reach up to stored WALs. `FrozenInv`: a frozen memtable
  has a message or a flusher on the way, from the replay on.
* `WALsNeverChange`: `WALsImmutable`, from `WalInv`. `WriteSST` overwrites; what it
  writes over a WAL SST is the same table. It holds also after an overlap.
* `WALsQueuedUntilStored`: `QueuedUntilStored`, from `InTurn`. That it holds again
  after a replay needs `NoGaps`, and that manifests name no WAL id that was not
  stored.
* `FrozenAlwaysPending`: `FrozenWillBeFlushed`.
* `LevelsNameStoredSSTs`: `NoDanglingSST`. `SSTInv` adds the manifests that a
  flusher has loaded or is about to put, and the SST it is about to add to L0.
* `OpenHasRoom`: `OpenBlocksOnlyWhenFull`. `RoomInv`: a process starts with an empty
  channel, and its replay has sent no more messages than it has read WALs that are
  not in the levels.
* `TypeCorrect`: `TypeOK`, from `TypeInv` and `RefInv`: no goroutine has a
  memtable without a `KVTable` at hand.

`StoreProofs` also proves of `SSTFormat`, for all entries with keys of less than 2^16
bytes:

* `RowRoundTrip`: a row decodes to the key it was encoded from.
* `BlockRoundTrip`: the rows of a block decode to the entries it was built from.
  `BlockOf` says what a block built from a sequence of entries is; `NewBlockOf`
  and `BlockAddOf` show that the empty block is one and that `BlockAdd` extends
  it, one step of the induction over calls of `Add`. The argument needs that the
  first row carries its full key (`FirstRow`).

TLC checked each inductive invariant before it was proved: `IInv` and `DInv` of
`FencedWriters` with two processes, two writes and three opens, those of
`Compaction` and `WritePath` on the instances of their runs.

Only model-checked:

* `Durability`, `CommittedReads`, `UncommittedReads`, `LastCompactedIsFlushed`,
  `CrashConsistency` and `CloseFlushes` of `WritePath`, and that it implements
  `DurableKV`. They say what the tables contain, and need an invariant about the
  contents of the memtables and of each level, for the two tasks alone.
* `CompactionJob`: what a loop over a heap of iterators produces, and what the
  recursive search of `FirstBlock` and a fold of `BuilderAdd` return, are facts by
  induction over data, which is out of the prover's reach.
* Liveness under fairness, which is out of its reach too.

## Not modelled

* The order of the fields in rows, blocks, indexes and manifests, checksums,
  compression, and the generated FlatBuffers code: byte-level, without state, and
  covered by round-trip tests. Corrupt blocks, for the same reason.
* Keys of 2^16 bytes or more, whose 16-bit lengths wrap in a row.
* Failed block reads in Get, which goes on to older levels. Nothing in the
  repository says what a read returns then.
* Jobs with sorted runs among their sources: `loadIterators` has code for them and
  the scheduler never makes one.
* The filter cache, logging, configuration, the example program: no protocol.

## Plan

1. Proofs for `WritePath` without application goroutines: the contents of
   memtables and levels, with them `Durability` and the reads; then that its steps
   refine `DurableKV`.
2. Sorted-run sources in `CompactionJob`, with `SSTListIterator`.
