# TLA+ models of EchoVault

These modules model the concurrency of EchoVault's standalone server. They cover:

- the keyspace and its per-key locks;
- the sorted-set command handlers, each run by the goroutine of one connection;
- the TTL reaper;
- the reply path of a connection, chunked writes included;
- the append-only file (AOF) engine and what `ShutDown` leaves of it;
- the snapshot gate;
- the start-up restore of the keyspace from the AOF or a snapshot.

TLC checks them under the configurations listed below. `PROJECT.json` lists every component, run, mutant, source mapping, finding and hazard.

## The system

- **Server** (`src/src/server/server.go`)
  - It owns `store`, `keyLocks` (one `sync.RWMutex` per key) and `keyCreationLock`.
  - `StartTCP` runs `handleConnection` in a goroutine per connection.
  - `handleConnection` reads one command at a time, runs its handler and writes the reply. A reply longer than `chunkSize` (1024) bytes is written in a loop of 1024-byte `Write`s that stops at the first short write.
  - `TakeSnapshot` starts the snapshot engine in a goroutine unless `SnapshotInProgress` is set. The engine sets the flag (`StartSnapshot`), records `SetLatestSnapshot` and clears it (`FinishSnapshot`).
  - `ShutDown` does nothing in standalone mode.
  - `Start` restores the keyspace on the main goroutine before `StartTCP`. The AOF is used when `RestoreAOF` is set, else a snapshot when `RestoreSnapshot` is set. The engines call back into closures made in `NewServer`:
    - `SetValue`: `CreateKeyAndLock`, `SetValue`, `KeyUnlock`, returning early on an error;
    - `SetExpiry`: `KeyLock`, `SetExpiry`, `KeyUnlock`;
    - `HandleCommand`: `handleCommand` for each logged command.
  - If an eviction policy is set, `NewServer` starts a reaper goroutine that deletes expired keys. It is already running while `Start` restores the keyspace.
  - `RewriteAOF` starts `RewriteLog` in a goroutine, unless `RewriteAOFInProgress` is set.
- **Sorted-set handlers** (`src/unnamed/part_007`)
  - Every handler follows the same discipline: `KeyExists`, then `KeyLock`/`KeyRLock`, or `CreateKeyAndLock` for an absent key, then `GetValue`, compute, `SetValue`.
  - Unlocks are Go `defer`s.
  - Multi-key commands track their read locks in a `locks` map and release them in a deferred loop.
- **AOF engine** (`src/unnamed/part_004`)
  - `QueueCommand` sends a command on `logChan` (capacity 4096).
  - A writer goroutine appends each command to the log.
  - `RewriteLog` takes `engine.mut`, writes a preamble from the current state and truncates the log.
  - `Restore` replays the preamble, then the log.

The snapshot engine is not among the repository's source files either. The bodies of `KeyExists`, `KeyLock`, `CreateKeyAndLock`, `SetValue` and `DeleteKey` are not among the repository's source files, nor are the `SortedSet` methods or the command dispatcher. Those parts are modelled from `spec.md` (sections 3, 4.1, 4.4, 4.5 and 5) and marked `spec_modelled` in the map.

## Modules

| Module | Models | State and actions |
|---|---|---|
| `SortedSet` | the sorted-set value (spec 4.4) | A set is a function member -> score. `AddOrUpdate`, `Union`, `Intersect`, `Subtract` and `Popped`/`PopRest` are operators. |
| `ZCommands` | commands and their atomic effect | A command is a record. `AtomicEffect(cmd, st)` gives the store and reply of a command run alone. Replies are `IntReply(n)`, `ArrayReply(z)`, `Nil` or an error. |
| `KeyspaceAtomic` | what the commands promise | Variables `store`, `pending` and `resp`. `Invoke`, then `Apply`, which applies `AtomicEffect` in one step; `Expire` deletes a key. |
| `Keyspace` | the store and its locks | Variables `store`, `writer`, `readers` (counts per connection) and `creator` (the creation mutex). A blocking call is an action guarded by what it waits for. Locks are not owned, as in Go. |
| `SortedSetCommands` | the handlers, the reaper, connections | `pc[c]` is the next keyspace call of connection `c`'s handler. Local data (`acc`, `idx`, `locksMap`, `baseKey`) is what the handler has read and which read locks its defers will release. One disjunct per keyspace call of each handler. The reply step runs the defers. `crashed` records a KeyUnlock of an unheld lock. |
| `Aof` | the AOF engine | `Execute`: the handler applies the command. `QueueCommand`: the channel send, which blocks while the channel is full. `Receive` and `AppendWrite`: the writer goroutine. `RewriteAOF`, `LockRewrite`, `CreatePreamble` and `Truncate`: the rewrite. `Replay`: Restore, as a `FoldLeft` of `ApplyCmd`. `Shutdown`: the process exits after `ShutDown`; `down` stops every other step (`Step`, `Running`). |
| `Connection` | `handleConnection`'s loop | `pc` is the loop position (`"read"`, `"chunk"`, `"closed"`), `res` and `startIndex` the chunk loop's locals. `wire` is what the client has received, `expected` every reply produced. A byte is `<<m, i>>`, byte `i` of reply `m`, or `<<m, "err", i>>`, byte `i` of the `-Error` line written for message `m`; that line embeds the error text, so its length is taken from `ErrorLens`. Actions: `ReadFails`, `CommandEOF`, `CommandError`, `CommandReply` and `ChunkStep`. Every `Write` may fail part-way (`WriteResults`), after which the connection writes nothing more (`broken`). |
| `Snapshot` | the snapshot gate | `inProgress` is `SnapshotInProgress`, `latest` is `LatestSnapshotMilliseconds`. `TakeSnapshot(t)` is the server's check and `go`. `StartSnapshot`, `SetLatestSnapshot` and `FinishSnapshot` are the engine goroutine's calls, in the order of spec 4.7. |
| `Startup` | `Server.Start`'s restore, with the TTL reaper | Extends `Keyspace`. `conf` is the `RestoreAOF`/`RestoreSnapshot` setting, chosen in `Init` from `Configs`. `phase` is `"preamble"`, `"log"`, `"snapshot"` or `"tcp"`, `i` the entry or logged command being restored, `step` the next call of the closure, `ttl` the keys in `keysWithExpiry`. `RestoreEntry(p)` is the `SetValue` (`SetEntryValue`) and `SetExpiry` closures for one entry; `AofRestore` and `SnapshotRestore` apply them to the preamble or the snapshot. `ReplayCommand` is the `HandleCommand` closure running `handleZADD` on a logged ZADD: `KeyExists`, then `KeyLock` (which fails if the key has gone) and `UpdateExisting` (`AddOrUpdate`, or the WRONGTYPE error), or `CreateKeyAndLock` and `SetValue` of a new set; the deferred `KeyUnlock` runs on every path. `Reaper(k)` is the reaper goroutine deleting a key that has a deadline, only when the policy is not noeviction. `SetValue` may fail only when `NoEviction` holds (spec 4.2). After a closure error, `EntryFailed` lets the file's reader stop or go on; its code is not in the repository. `Expected(conf)` is the contract of spec 8: the entries, then the log with each command's `AtomicEffect`, with any key that has a deadline deleted at any point ("modulo expired keys"). |
| `MCSortedSetCommands`, `MCAof`, `MCStartup` | model values and command sets for TLC | |

Refinement: `SortedSetCommands` maps a `Placeholder` entry to `Absent`, and a connection that is inside a handler to a pending command. `Linearizable` is `KeyspaceAtomic!Spec` under that mapping. The linearisation point of every command is its reply step.

## Runs

Every passing run also has a mutant in `PROJECT.json`: a plausible bug in one mapped definition, which TLC must catch.

| Run | Expect | Checks | Shows |
|---|---|---|---|
| `atomic` | pass | `TypeOK`, `NoLeakedLocks`, `Linearizable`, `WritesUnderLock` | Over existing keys, ZUNIONSTORE, ZRANGESTORE and ZCARD racing ZADD, ZREM and ZPOPMAX are atomic, write only under lock, and release their locks. |
| `locks` | pass | `NoLeakedLocks`, `WritesUnderLock`, `CommandsComplete` | ZADD creating keys, ZMPOP and ZSCORE, with the reaper on: locks are released, and every command returns under fairness. |
| `stores` | pass | `Linearizable` | ZINTERSTORE and ZDIFFSTORE racing ZADD on their sources, ZDIFFSTORE leaking read holds: each stores what its sources held at one instant, while no key holds an empty set. |
| `creation_deadlock` | violation | `CommandsComplete` | A store holding read locks waits for the creation mutex, held by a ZADD that waits for one of those read locks. |
| `aof_shutdown_loss` | violation | `Durable` | `Durable` asks only about a shutdown at which every executed command has been queued, and so acknowledged (spec 4.5: execute, queue, reply). After `ShutDown` the process exits with such a command still in `logChan`, and Restore misses it. |
| `connection` | pass | `TypeOK`, `RepliesDelivered`, `WritesChunked` | Replies of 0 to 5 bytes with `chunkSize` 2, any `Write` may fail part-way: on a healthy connection every reply reaches the client whole and in order before the next read, and no `Write` of the chunk loop exceeds `chunkSize`. The `-Error` line (`-Error` lengths 1 and 3) is one `Write` of any length: spec 6 speaks of large responses, and `WritesChunked` is stated of the chunk loop only. |
| `snapshot_overlap` | violation | `NoOverlap` | Two `TakeSnapshot` calls both pass the `SnapshotInProgress` check before either goroutine sets it; two snapshots run at once. |
| `aof_rewrite` | pass | `EventuallyLogged` | With a one-slot `logChan` and two racing rewrites, every command a handler executed is eventually appended: the blocking send never drops one. |
| `restore_hang` | violation | `StartupCompletes` | AOF restore under noeviction: a failed `SetValue` in the preamble closure returns before `KeyUnlock`, and the logged ZADD of that key then waits in `KeyLock` for ever, so `Start` never reaches `StartTCP`. |
| `restore` | pass | `RestoreFaithful`, `LocksReleased`, `StartupCompletes` | Under an evicting policy and for every `RestoreAOF`/`RestoreSnapshot` setting, with the reaper deleting keys while the closures run: `Start` reaches `StartTCP`, holds no lock then, and the keyspace is the preamble (or snapshot) plus the log, modulo expired keys. A reaper deletion between a replayed ZADD's `KeyExists` and `KeyLock` drops the command, and the result is still one the contract allows. |
| `interstore_empty` | violation | `WritesUnderLock` | ZINTERSTORE over two disjoint one-member sets: the intersection is empty, so the handler takes no lock on the destination, yet `SetValue` writes it (code at `part_007:629`). |
| `aof_rewrite_loss` | violation | `Recoverable` | The writer goroutine does not take `engine.mut`, so a rewrite can double-apply or lose a command. |

Other hazards have no run of their own; `PROJECT.json` lists them with the properties that would catch them going wrong:

- the reaper deleting a key between `KeyExists` and `KeyLock` in a client's handler;
- ZADD XX on an absent key, which the create path ignores (`AtomicEffect` creates the set whatever the policy);
- two ZADDs creating the same absent key: the second's create path overwrites the first's new set (`Linearizable`, `part_007:168`). `MCSortedSetCommands_create_race.cfg` still reproduces it, but it is not one of the twelve runs;
- ZINTERSTORE or ZRANGESTORE with an absent source, which returns at once with no write (in the handlers and in `AtomicEffect`); no run deletes a store's sources. The empty intersection has its own run, `interstore_empty`; the `stores` run cuts states with an empty set (`NoEmptySet`) so that a ZDIFFSTORE result does not lead into that known case;
- ZDIFFSTORE's non-base read locks, which are never released (`NoLeakedLocks`, `part_007:426`);
- two stores whose sources and destinations cross, which deadlock (`CommandsComplete`, `part_007:1525`);
- a source named twice in ZUNIONSTORE;
- two connections writing one key through the AOF: the log may then order them differently from the handlers, but spec 5 promises per-client order only.

`MCSortedSetCommands_interstore.cfg` (ZINTERSTORE against ZADD) and `MCSortedSetCommands_diffstore.cfg` (ZDIFFSTORE against ZADD and ZREM) are the two configurations `stores` replaces, and `MCAof_pipeline.cfg` (two clients on their own keys, no rewrite) asks `Recoverable` of a pipeline in which nothing can break it. None of them is among the runs.

## Bounds

- **Keys, connections and values.**
  - Three keys are the fewest for a store command with two distinct sources and a separate destination. The `locks` run uses two.
  - Two connections are enough for every race found: a race needs two actors.
  - Members and scores are one member with score 1 in the store runs, two members with score 1 in `interstore_empty` (two disjoint sources need two members), and two members with scores {1, 2} where ZADD must change something.
  - `ScoreBound` cuts states whose scores pass 2, since ZUNIONSTORE sums scores without bound.
- **Command sets.** `ClientOps` gives each connection its own command set. This keeps each run under five minutes while still pairing every multi-key command with a writer of its sources.
- **Read holds.** `ReadHoldBound` (`MaxReadHolds` = 1) cuts the `stores` run once a connection holds a key's read lock twice. ZDIFFSTORE's leaks would otherwise grow the counts without end.
- **AOF.**
  - Each client sends `MaxWrites` = 2 commands. This is enough for an increment in flight during a rewrite.
  - `ChanCap` is 1 or 2, so the blocking send really blocks. The code's capacity is 4096.
  - Values are taken modulo 2. `incr` makes a double apply visible.
- **Connection.** `ChunkSize` = 2 stands for 1024. Replies of 0 to 5 bytes, and `-Error` lines of 1 and 3 bytes (shorter and longer than a chunk), cover the cases of the code: empty, at most one chunk, exactly one chunk, one byte over (`chunkSize+1`), exactly two chunks, and two chunks plus one. The loop's arithmetic only compares lengths with `chunkSize` and its multiples, so these are the boundary cases for any chunk size. `MaxMsgs` = 3 puts a reply after a chunked one.
- **Startup.** Three entries: k1 a sorted set with a TTL, k2 a sorted set without, k3 a string. Four logged ZADDs: a new member of k1 and of k2, one on the string k3 (the WRONGTYPE path), and a rescore of k1. Every path of `handleZADD` is then replayed: update, error, and, after the reaper deletes k1, both the failing `KeyLock` and the create path. The non-TTL update of k2 is what the contract cannot excuse as expiry. In `restore_hang` (noeviction, AOF only) no reaper runs, and a failure at k1 meets the entry's `SetExpiry`. `restore` takes all four configurations.
- **Snapshot.** Two callers show the overlap, and `MaxTime` = 1 lets them read different times.
- **Symmetry.** `KeySymmetry` is used in the `atomic` and `stores` runs. No key is named by any constant there, and none of these runs has a liveness property.

## Deadlock checking

Deadlock checking is on for `atomic` and `locks`. It is off in these runs:

- `stores`: the leaked read locks really do stop the server (the hazard at `part_007:426`).
- The AOF runs: every client stops after `MaxWrites` commands, and after `Shutdown` nothing moves.
- `connection`: the goroutine returns after `conn.Close()`.
- `restore` and `restore_hang`: `Start` ends at `StartTCP`, which is not modelled. In `restore_hang` the hang is reported by the liveness property `StartupCompletes`.
- The violation runs, whose property is the subject of the run.

## Fairness

- `SortedSetCommands!FairSpec` has strong fairness per connection. Go's `RWMutex` blocks new readers once a writer waits, and `sync.Mutex` hands the lock FIFO to a waiter starved for more than 1 ms. So a lock that keeps becoming free is eventually granted. The reaper has no fairness: it need not run.
- `Startup!Spec` has weak fairness on the main goroutine's restore steps (`Restore`): it runs until it blocks. The reaper gets none, since a key's deadline need never pass.
- `Aof!FairSpec` describes a server that is not shut down (`Running` only). It has weak fairness on the writer goroutine (an endless loop), on the blocked channel send, and on the steps of a rewrite that has started (a goroutine that runs to its end).

## Not modelled

- The snapshot engine's file format, manifest and `Restore`: the package is not among the repository files. Only its calls to the server's gate are modelled, from spec 4.7.
- `Start`'s TLS check, cluster start, and `StartTCP`'s listener and certificate set-up: configuration and I/O, with no shared state.
- `InitialiseCaches` and the LFU/LRU caches: eviction bookkeeping that no property reads.
- `GetLatestSnapshot`: only the engine reads it, to put in the snapshot file.
- `handleConnection`'s TLS and ACL registration, and the wording of the `-Error` reply (only its length is kept).
- The remaining sorted-set commands: ZINCRBY, ZREMRANGEBY*, and the read-only range and rank commands.
- The legacy PubSub in `part_002`.
- A crash in the middle of a file write: the append and preamble stores are not in the repository files.
- Raft and memberlist, which are not in the repository files.
- The admin plugin, which has no shared state.

## Plan

1. ZINCRBY and ZREMRANGEBY* as handlers.
2. ZRANGE/ZRANK ordering as operators, checked against a reference sort.
3. PubSub channel goroutines.
