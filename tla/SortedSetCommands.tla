-------------------------- MODULE SortedSetCommands --------------------------
(***************************************************************************)
(* The sorted-set command handlers of src/unnamed/part_007 (package       *)
(* sorted_set), each run by the goroutine of one connection against the  *)
(* shared keyspace of module Keyspace.  A handler is the sequence of its  *)
(* keyspace calls; pc[c] names the call client c makes next.  Reading a   *)
(* value, computing with it and replying are local and happen in the     *)
(* step of the keyspace call before them.  Releasing locks is done by    *)
(* Go defers, which run in the step that returns.                         *)
(*                                                                         *)
(* Argument parsing, weights (all 1), AGGREGATE (always sum) and reply    *)
(* encoding are abstracted: a command is a record from ZCommands and a    *)
(* reply is the value it carries.                                         *)
(***************************************************************************)
EXTENDS Keyspace

CONSTANTS
    Idle,        \* cmd[c] / pending command when c runs no handler
    NoKey,       \* baseKey[c] when no deferred KeyRUnlock is registered
    InitValues,  \* the values a key may hold initially (Absent included)
    ReaperOn,    \* TRUE: keys carry a TTL and the reaper may delete them
    ClientOps    \* client -> the commands (by name) that connection sends

VARIABLES
    pc,          \* client -> next step of its handler, or "Idle"
    cmd,         \* client -> the command it runs, or Idle
    idx,         \* client -> 1-based position of the key loop
    acc,         \* client -> the sorted sets read so far, in order
    locksMap,    \* client -> keys in the handler's `locks` map
    baseKey,     \* client -> key of a deferred KeyRUnlock(key), or NoKey
    ret,         \* client -> step CreateKeyAndLock returns to
    resp,        \* client -> last reply
    crashed      \* a fatal runtime error stopped the server

locals == <<idx, acc, locksMap, baseKey, ret>>
vars == <<ksVars, pc, cmd, locals, resp, crashed>>

Init ==
    /\ KeyspaceInit(InitValues)
    /\ pc = [c \in Clients |-> "Idle"]
    /\ cmd = [c \in Clients |-> Idle]
    /\ idx = [c \in Clients |-> 1]
    /\ acc = [c \in Clients |-> <<>>]
    /\ locksMap = [c \in Clients |-> {}]
    /\ baseKey = [c \in Clients |-> NoKey]
    /\ ret = [c \in Clients |-> "Idle"]
    /\ resp = [c \in Clients |-> Nil]
    /\ crashed = FALSE

(***************************************************************************)
(* Helpers shared by the handlers.                                        *)
(***************************************************************************)
At(c, p) == ~crashed /\ pc[c] = p

Goto(c, p) == pc' = [pc EXCEPT ![c] = p]

\* Faulty variant of DeferredReads: the deferred KeyRUnlock(source) of a
\* handler is forgotten and only the locks map is released.
DeferredReadsMapOnly(c) == locksMap[c]

\* The read locks the handler's defers release: its locks map and the key
\* of a deferred KeyRUnlock.
DeferredReads(c) == locksMap[c] \cup ({baseKey[c]} \cap Keys)

\* Faulty variant of FinishR: every deferred KeyRUnlock runs twice.
FinishRTwice(c, r, rd, held) ==
    /\ resp' = [resp EXCEPT ![c] = r]
    /\ readers' = RUnlocked(RUnlocked(rd, c, held), c, held)
    /\ pc' = [pc EXCEPT ![c] = "Idle"]
    /\ cmd' = [cmd EXCEPT ![c] = Idle]
    /\ idx' = [idx EXCEPT ![c] = 1]
    /\ acc' = [acc EXCEPT ![c] = <<>>]
    /\ locksMap' = [locksMap EXCEPT ![c] = {}]
    /\ baseKey' = [baseKey EXCEPT ![c] = NoKey]
    /\ ret' = [ret EXCEPT ![c] = "Idle"]

\* Return reply r; the deferred KeyRUnlock calls release the keys held
\* from read-lock state rd.  Write locks are released by the caller's step.
FinishR(c, r, rd, held) ==
    /\ resp' = [resp EXCEPT ![c] = r]
    /\ readers' = RUnlocked(rd, c, held)
    /\ pc' = [pc EXCEPT ![c] = "Idle"]
    /\ cmd' = [cmd EXCEPT ![c] = Idle]
    /\ idx' = [idx EXCEPT ![c] = 1]
    /\ acc' = [acc EXCEPT ![c] = <<>>]
    /\ locksMap' = [locksMap EXCEPT ![c] = {}]
    /\ baseKey' = [baseKey EXCEPT ![c] = NoKey]
    /\ ret' = [ret EXCEPT ![c] = "Idle"]

Finish(c, r) == FinishR(c, r, readers, DeferredReads(c))

\* A step that only moves on to step p.
Move(c, p) ==
    /\ Goto(c, p)
    /\ UNCHANGED <<ksVars, cmd, locals, resp, crashed>>

\* A failed lock call: the key vanished between KeyExists and the lock.
LockFails(c, k) ==
    /\ ~KeyExists(k)
    /\ Finish(c, ErrNotFound)
    /\ UNCHANGED <<store, writer, creator, crashed>>

Begin(c, x) ==
    /\ At(c, "Idle")
    /\ x.op \in ClientOps[c]
    /\ cmd' = [cmd EXCEPT ![c] = x]
    /\ Goto(c, x.op)
    /\ UNCHANGED <<ksVars, locals, resp, crashed>>

Dest(x) == IF x.op = "zadd" THEN x.key ELSE x.dest

\* server.CreateKeyAndLock(ctx, Dest): two steps of Keyspace, then step p.
CallCreate(c, p) ==
    /\ ret' = [ret EXCEPT ![c] = p]
    /\ Goto(c, "ck_acquire")
    /\ UNCHANGED <<ksVars, cmd, idx, acc, locksMap, baseKey, resp, crashed>>

CreateKeyAndLock(c) ==
    \/ /\ At(c, "ck_acquire")
       /\ AcquireCreationLock(c)
       /\ Goto(c, "ck_lock")
       /\ UNCHANGED <<cmd, locals, resp, crashed>>
    \/ /\ At(c, "ck_lock")
       /\ CreateOrLock(c, Dest(cmd[c]))
       /\ Goto(c, ret[c])
       /\ ret' = [ret EXCEPT ![c] = "Idle"]
       /\ UNCHANGED <<cmd, idx, acc, locksMap, baseKey, resp, crashed>>

\* Faulty variant of DestStep: the destination is written without
\* taking its lock.
DestStepNoLock(c, lockPc, setPc) == Move(c, setPc)

\* `if server.KeyExists(ctx, Dest) { KeyLock } else { CreateKeyAndLock }`
DestStep(c, lockPc, setPc) ==
    IF KeyExists(Dest(cmd[c])) THEN Move(c, lockPc) ELSE CallCreate(c, setPc)

\* Faulty variant of LockStep: the KeyLock result is not waited for.
LockStepNoWait(c, k, p) ==
    /\ KeyExists(k)
    /\ Goto(c, p)
    /\ UNCHANGED <<ksVars, cmd, locals, resp, crashed>>

\* KeyLock(k) succeeding, the handler then at step p.
LockStep(c, k, p) ==
    /\ KeyLock(c, k)
    /\ Goto(c, p)
    /\ UNCHANGED <<store, readers, creator, cmd, locals, resp, crashed>>

\* Faulty variant of UpdateUnderLock: the type-check error returns
\* before the KeyUnlock(k) is deferred.
UpdateUnderLockLeaky(c, k, upd) ==
    /\ IF IsSortedSetValue(store[k])
       THEN /\ writer' = Unlocked(writer, k)
            /\ store' = [store EXCEPT ![k] = upd.value]
            /\ Finish(c, upd.reply)
       ELSE /\ Finish(c, ErrWrongType)
            /\ UNCHANGED <<store, writer>>
    /\ UNCHANGED <<creator, crashed>>

\* Under c's write lock on k: GetValue(k).(*SortedSet), then upd of the
\* set, then the deferred KeyUnlock(k) and the reply.  upd is a record
\* [value, reply].
UpdateUnderLock(c, k, upd) ==
    /\ writer' = Unlocked(writer, k)
    /\ IF IsSortedSetValue(store[k])
       THEN /\ store' = [store EXCEPT ![k] = upd.value]
            /\ Finish(c, upd.reply)
       ELSE /\ Finish(c, ErrWrongType)
            /\ UNCHANGED store
    /\ UNCHANGED <<creator, crashed>>

\* KeyRLock(k), GetValue, the read rd of the set, KeyRUnlock(k), reply.
ReadUnderRLock(c, k, rd) ==
    /\ KeyExists(k)
    /\ writer[k] = NoClient
    /\ Finish(c, IF IsSortedSetValue(store[k]) THEN rd ELSE ErrWrongType)
    /\ UNCHANGED <<store, writer, creator, crashed>>

(***************************************************************************)
(* Single-key handlers.                                                   *)
(***************************************************************************)
\* The member updates the single-key writers apply to an existing set.
ZAddExisting(x, v) ==
    LET r == AddOrUpdate(v, x.member :> x.score, x.policy, "none", FALSE, FALSE)
    IN [value |-> r.set, reply |-> IntReply(r.count)]

ZRemMember(x, v) ==
    [value |-> [m \in DOMAIN v \ {x.member} |-> v[m]],
     reply |-> IntReply(IF x.member \in DOMAIN v THEN 1 ELSE 0)]

PopPolicy(x) == IF x.op = "zpopmax" THEN "max" ELSE "min"

ZPopOne(x, v) ==
    [value |-> PopRest(v, 1, PopPolicy(x)),
     reply |-> ArrayReply([m \in Popped(v, 1, PopPolicy(x)) |-> v[m]])]

\* handleZADD: the existing-key path locks, updates and unlocks; the
\* absent-key path creates the key and stores NewSortedSet(members).
HandleZADD(c) ==
    LET x == cmd[c]  k == x.key IN
    \/ /\ At(c, "zadd")
       /\ IF KeyExists(k) THEN Move(c, "zadd_lock") ELSE CallCreate(c, "zadd_new")
    \/ /\ At(c, "zadd_lock")
       /\ \/ LockFails(c, k)
          \/ LockStep(c, k, "zadd_update")
    \/ /\ At(c, "zadd_update")
       /\ UpdateUnderLock(c, k, ZAddExisting(x, store[k]))
    \/ /\ At(c, "zadd_new")
       /\ store' = [store EXCEPT ![k] = NewSortedSet(x.member :> x.score)]
       /\ writer' = Unlocked(writer, k)
       /\ Finish(c, IntReply(ZCard(NewSortedSet(x.member :> x.score))))
       /\ UNCHANGED <<creator, crashed>>

\* handleZREM and handleZPOP: absent key -> 0 / empty, else lock, update.
HandleZREM(c) ==
    LET k == cmd[c].key IN
    \/ /\ At(c, "zrem")
       /\ IF KeyExists(k) THEN Move(c, "zrem_lock")
          ELSE Finish(c, IntReply(0)) /\ UNCHANGED <<store, writer, creator, crashed>>
    \/ /\ At(c, "zrem_lock")
       /\ \/ LockFails(c, k)
          \/ LockStep(c, k, "zrem_update")
    \/ /\ At(c, "zrem_update")
       /\ UpdateUnderLock(c, k, ZRemMember(cmd[c], store[k]))

HandleZPOP(c) ==
    LET k == cmd[c].key IN
    \/ /\ \E p \in {"zpopmin", "zpopmax"} : At(c, p)
       /\ IF KeyExists(k) THEN Move(c, "zpop_lock")
          ELSE Finish(c, ArrayReply(EmptyZSet)) /\ UNCHANGED <<store, writer, creator, crashed>>
    \/ /\ At(c, "zpop_lock")
       /\ \/ LockFails(c, k)
          \/ LockStep(c, k, "zpop_update")
    \/ /\ At(c, "zpop_update")
       /\ UpdateUnderLock(c, k, ZPopOne(cmd[c], store[k]))

\* handleZSCORE and handleZCARD: absent key -> nil / 0, else read-locked read.
HandleZSCORE(c) ==
    LET x == cmd[c]  k == x.key IN
    \/ /\ At(c, "zscore")
       /\ IF KeyExists(k) THEN Move(c, "zscore_rlock")
          ELSE Finish(c, Nil) /\ UNCHANGED <<store, writer, creator, crashed>>
    \/ /\ At(c, "zscore_rlock")
       /\ \/ LockFails(c, k)
          \/ ReadUnderRLock(c, k, IF x.member \in DOMAIN store[k]
                                  THEN IntReply(store[k][x.member]) ELSE Nil)

HandleZCARD(c) ==
    LET k == cmd[c].key IN
    \/ /\ At(c, "zcard")
       /\ IF KeyExists(k) THEN Move(c, "zcard_rlock")
          ELSE Finish(c, IntReply(0)) /\ UNCHANGED <<store, writer, creator, crashed>>
    \/ /\ At(c, "zcard_rlock")
       /\ \/ LockFails(c, k)
          \/ ReadUnderRLock(c, k, IntReply(ZCard(store[k])))

(***************************************************************************)
(* Multi-key handlers.                                                    *)
(***************************************************************************)
\* slices.DeleteFunc(cmd, s == destination): the sources without dest.
StoreSrcs(x) == SelectSeq(x.srcs, LAMBDA s : s # x.dest)

\* Faulty variant of SourceRLock: the source is read without KeyRLock.
SourceRLockMissing(c, k, loopPc) ==
    /\ KeyExists(k)
    /\ IF IsSortedSetValue(store[k])
       THEN /\ acc' = [acc EXCEPT ![c] = Append(@, store[k])]
            /\ idx' = [idx EXCEPT ![c] = @ + 1]
            /\ Goto(c, loopPc)
            /\ UNCHANGED <<readers, locksMap, cmd, baseKey, ret, resp>>
       ELSE Finish(c, ErrWrongType)
    /\ UNCHANGED <<store, writer, creator, crashed>>

\* KeyRLock(k); locks[k] = true; GetValue(k).(*SortedSet); append -- the
\* body of the source loop of ZUNIONSTORE and ZINTERSTORE.
SourceRLock(c, k, loopPc) ==
    LET rd  == [readers EXCEPT ![k][c] = @ + 1]
        lm  == locksMap[c] \cup {k}
    IN
    /\ KeyExists(k)
    /\ writer[k] = NoClient
    /\ IF IsSortedSetValue(store[k])
       THEN /\ readers' = rd
            /\ locksMap' = [locksMap EXCEPT ![c] = lm]
            /\ acc' = [acc EXCEPT ![c] = Append(@, store[k])]
            /\ idx' = [idx EXCEPT ![c] = @ + 1]
            /\ Goto(c, loopPc)
            /\ UNCHANGED <<cmd, baseKey, ret, resp>>
       ELSE FinishR(c, ErrWrongType, rd, lm)
    /\ UNCHANGED <<store, writer, creator, crashed>>

\* SetValue(dest, z), the deferred KeyUnlock(dest) and the reply.
StoreResult(c, z) ==
    /\ store' = [store EXCEPT ![Dest(cmd[c])] = z]
    /\ writer' = Unlocked(writer, Dest(cmd[c]))
    /\ Finish(c, IntReply(ZCard(z)))
    /\ UNCHANGED <<creator, crashed>>

\* A step of the handler's key loop: skip a key that KeyExists says is
\* absent, else go to the loop body.
NextKey(c, k, bodyPc) ==
    IF KeyExists(k) THEN Move(c, bodyPc)
    ELSE /\ idx' = [idx EXCEPT ![c] = @ + 1]
         /\ UNCHANGED <<ksVars, pc, cmd, acc, locksMap, baseKey, ret, resp, crashed>>

HandleZUNIONSTORE(c) ==
    LET x == cmd[c]  srcs == StoreSrcs(x) IN
    \/ /\ At(c, "zunionstore")
       /\ IF idx[c] <= Len(srcs) THEN NextKey(c, srcs[idx[c]], "zus_rlock")
          ELSE DestStep(c, "zus_lock", "zus_set")
    \/ /\ At(c, "zus_rlock")
       /\ \/ LockFails(c, srcs[idx[c]])
          \/ SourceRLock(c, srcs[idx[c]], "zunionstore")
    \/ /\ At(c, "zus_lock")
       /\ \/ LockFails(c, x.dest)
          \/ LockStep(c, x.dest, "zus_set")
    \/ /\ At(c, "zus_set")
       /\ StoreResult(c, Union("sum", acc[c]))

\* handleZINTERSTORE: an absent source returns 0 at once; the destination
\* is locked only when the intersection is non-empty, but SetValue and the
\* deferred KeyUnlock(destination) run in every case.
HandleZINTERSTORE(c) ==
    LET x == cmd[c]  srcs == StoreSrcs(x)  z == Intersect("sum", acc[c]) IN
    \/ /\ At(c, "zinterstore")
       /\ idx[c] <= Len(srcs)
       /\ IF KeyExists(srcs[idx[c]]) THEN Move(c, "zis_rlock")
          ELSE Finish(c, IntReply(0)) /\ UNCHANGED <<store, writer, creator, crashed>>
    \/ /\ At(c, "zinterstore")
       /\ idx[c] > Len(srcs)
       /\ CASE ZCard(z) > 0 /\ KeyExists(x.dest) -> Move(c, "zis_lock")
            [] ZCard(z) > 0 -> CallCreate(c, "zis_set")
            [] OTHER -> Move(c, "zis_set")
    \/ /\ At(c, "zis_rlock")
       /\ \/ LockFails(c, srcs[idx[c]])
          \/ SourceRLock(c, srcs[idx[c]], "zinterstore")
    \/ /\ At(c, "zis_lock")
       /\ \/ LockFails(c, x.dest)
          \/ LockStep(c, x.dest, "zis_set")
    \/ /\ At(c, "zis_set")
       /\ store' = [store EXCEPT ![x.dest] = z]
       \* KeyUnlock(dest): releases whoever holds it; a fatal error when
       \* the key's lock exists and nobody holds it.
       /\ writer' = Unlocked(writer, x.dest)
       /\ crashed' = (writer[x.dest] = NoClient /\ KeyExists(x.dest))
       /\ Finish(c, IntReply(ZCard(z)))
       /\ UNCHANGED creator

\* Faulty variant of TrackedRLock: the value is read without waiting for
\* a writer to release the key.
TrackedRLockNoWait(c, k, base, p) ==
    /\ KeyExists(k)
    /\ IF IsSortedSetValue(store[k])
       THEN /\ baseKey' = [baseKey EXCEPT ![c] = IF base THEN k ELSE @]
            /\ acc' = [acc EXCEPT ![c] = Append(@, store[k])]
            /\ idx' = [idx EXCEPT ![c] = @ + 1]
            /\ Goto(c, p)
            /\ UNCHANGED <<readers, cmd, locksMap, ret, resp>>
       ELSE Finish(c, ErrWrongType)
    /\ UNCHANGED <<store, writer, creator, crashed>>

\* KeyRLock(k) and GetValue(k).(*SortedSet) with the read lock held, then
\* step p; base registers the deferred KeyRUnlock(k), else the lock is
\* recorded nowhere.  A value of another type returns an error at once.
TrackedRLock(c, k, base, p) ==
    LET rd == [readers EXCEPT ![k][c] = @ + 1]
        bk == IF base THEN k ELSE baseKey[c]
    IN
    /\ KeyExists(k)
    /\ writer[k] = NoClient
    /\ IF IsSortedSetValue(store[k])
       THEN /\ readers' = rd
            /\ baseKey' = [baseKey EXCEPT ![c] = bk]
            /\ acc' = [acc EXCEPT ![c] = Append(@, store[k])]
            /\ idx' = [idx EXCEPT ![c] = @ + 1]
            /\ Goto(c, p)
            /\ UNCHANGED <<cmd, locksMap, ret, resp>>
       ELSE FinishR(c, ErrWrongType, rd, locksMap[c] \cup ({bk} \cap Keys))
    /\ UNCHANGED <<store, writer, creator, crashed>>

\* handleZDIFFSTORE: the base set's read lock is deferred; the read locks
\* of the other sources are taken but never recorded in `locks`.
HandleZDIFFSTORE(c) ==
    LET x == cmd[c]  srcs == x.srcs IN
    \/ /\ At(c, "zdiffstore")
       /\ IF KeyExists(srcs[1]) THEN Move(c, "zds_base")
          ELSE Finish(c, IntReply(0)) /\ UNCHANGED <<store, writer, creator, crashed>>
    \/ /\ At(c, "zds_base")
       /\ \/ LockFails(c, srcs[1])
          \/ TrackedRLock(c, srcs[1], TRUE, "zds_scan")
    \/ /\ At(c, "zds_scan")
       /\ IF idx[c] <= Len(srcs) THEN NextKey(c, srcs[idx[c]], "zds_rlock")
          ELSE DestStep(c, "zds_lock", "zds_set")
    \/ /\ At(c, "zds_rlock")
       /\ \/ LockFails(c, srcs[idx[c]])
          \/ TrackedRLock(c, srcs[idx[c]], FALSE, "zds_scan")
    \/ /\ At(c, "zds_lock")
       /\ \/ LockFails(c, x.dest)
          \/ LockStep(c, x.dest, "zds_set")
    \/ /\ At(c, "zds_set")
       /\ StoreResult(c, Subtract(Head(acc[c]), Tail(acc[c])))

\* handleZRANGESTORE over the whole score range (-inf +inf): an absent
\* source returns an empty array ("*0") without touching the destination.
HandleZRANGESTORE(c) ==
    LET x == cmd[c] IN
    \/ /\ At(c, "zrangestore")
       /\ IF KeyExists(x.src) THEN Move(c, "zrs_rlock")
          ELSE Finish(c, ArrayReply(EmptyZSet)) /\ UNCHANGED <<store, writer, creator, crashed>>
    \/ /\ At(c, "zrs_rlock")
       /\ \/ LockFails(c, x.src)
          \/ TrackedRLock(c, x.src, TRUE, "zrs_dest")
    \/ /\ At(c, "zrs_dest")
       /\ DestStep(c, "zrs_lock", "zrs_set")
    \/ /\ At(c, "zrs_lock")
       /\ \/ LockFails(c, x.dest)
          \/ LockStep(c, x.dest, "zrs_set")
    \/ /\ At(c, "zrs_set")
       /\ StoreResult(c, NewSortedSet(Head(acc[c])))

\* `continue` of handleZMPOP's key loop.
ZMPopSkip(c) ==
    /\ idx' = [idx EXCEPT ![c] = @ + 1]
    /\ Goto(c, "zmpop")

\* Faulty variant of ZMPopLocked: a skipped key is not unlocked.
ZMPopLockedNoUnlock(c, k) ==
    /\ IF IsSortedSetValue(store[k]) /\ ZCard(store[k]) > 0
       THEN /\ writer' = Unlocked(writer, k)
            /\ store' = [store EXCEPT ![k] = PopRest(store[k], 1, "min")]
            /\ Finish(c, ArrayReply([m \in Popped(store[k], 1, "min") |-> store[k][m]]))
       ELSE /\ ZMPopSkip(c)
            /\ UNCHANGED <<store, writer, readers, cmd, acc, locksMap, baseKey, ret, resp>>
    /\ UNCHANGED <<creator, crashed>>

\* handleZMPOP with the write lock on k: pop from a non-empty sorted set
\* and return, else KeyUnlock(k) and continue with the next key.
ZMPopLocked(c, k) ==
    /\ writer' = Unlocked(writer, k)
    /\ IF IsSortedSetValue(store[k]) /\ ZCard(store[k]) > 0
       THEN /\ store' = [store EXCEPT ![k] = PopRest(store[k], 1, "min")]
            /\ Finish(c, ArrayReply([m \in Popped(store[k], 1, "min") |-> store[k][m]]))
       ELSE /\ ZMPopSkip(c)
            /\ UNCHANGED <<store, readers, cmd, acc, locksMap, baseKey, ret, resp>>
    /\ UNCHANGED <<creator, crashed>>

\* handleZMPOP (COUNT 1, MIN): the first existing, lockable, non-empty
\* sorted set is popped; a failed KeyLock or another value is skipped.
HandleZMPOP(c) ==
    LET ks == cmd[c].keys  k == ks[idx[c]] IN
    \/ /\ At(c, "zmpop")
       /\ IF idx[c] > Len(ks)
          THEN Finish(c, ArrayReply(EmptyZSet)) /\ UNCHANGED <<store, writer, creator, crashed>>
          ELSE NextKey(c, k, "zmp_lock")
    \/ /\ At(c, "zmp_lock")
       /\ \/ /\ ~KeyExists(k)
             /\ ZMPopSkip(c)
             /\ UNCHANGED <<ksVars, cmd, acc, locksMap, baseKey, ret, resp, crashed>>
          \/ LockStep(c, k, "zmp_pop")
    \/ /\ At(c, "zmp_pop")
       /\ ZMPopLocked(c, k)

\* The TTL reaper goroutine of NewServer deleting an expired key.
Reaper(k) ==
    /\ ReaperOn
    /\ ~crashed
    /\ DeleteKey(k)
    /\ UNCHANGED <<pc, cmd, locals, resp, crashed>>

ClientStep(c) ==
    \/ HandleZADD(c)        \/ HandleZREM(c)        \/ HandleZPOP(c)
    \/ HandleZSCORE(c)      \/ HandleZCARD(c)       \/ HandleZUNIONSTORE(c)
    \/ HandleZINTERSTORE(c) \/ HandleZDIFFSTORE(c)  \/ HandleZRANGESTORE(c)
    \/ HandleZMPOP(c)       \/ CreateKeyAndLock(c)

Next ==
    \/ \E c \in Clients, x \in Commands : Begin(c, x)
    \/ \E c \in Clients : ClientStep(c)
    \/ \E k \in Keys : Reaper(k)

Spec == Init /\ [][Next]_vars

\* Strong fairness per connection: Go's RWMutex blocks new readers once a
\* writer waits, and sync.Mutex turns FIFO for a waiter starved over 1ms,
\* so a lock that keeps becoming free is eventually granted.
FairSpec == Spec /\ \A c \in Clients : SF_vars(ClientStep(c))

(***************************************************************************)
(* Properties.                                                            *)
(***************************************************************************)
TypeOK ==
    /\ \A k \in Keys : store[k] \in {Absent, StringValue, Placeholder}
                        \/ IsZSetOver(store[k], Int)
    /\ writer \in [Keys -> Clients \cup {NoClient}]
    /\ readers \in [Keys -> [Clients -> Nat]]
    /\ creator \in Clients \cup {NoClient}
    /\ pc \in [Clients -> STRING]
    /\ cmd \in [Clients -> Commands \cup {Idle}]
    /\ idx \in [Clients -> 1 .. MaxSrcs + 1]
    /\ \A c \in Clients : \A i \in DOMAIN acc[c] : IsZSetOver(acc[c][i], Int)
    /\ locksMap \in [Clients -> SUBSET Keys]
    /\ baseKey \in [Clients -> Keys \cup {NoKey}]
    /\ crashed \in BOOLEAN

\* Every handler's defers release every lock it took: a connection waiting
\* for its next command holds no key lock, read lock or creation lock
\* (the `locks` maps and deferred KeyRUnlock/KeyUnlock calls of part_007).
NoLeakedLocks == \A c \in Clients : pc[c] = "Idle" => ~HoldsLocks(c)

\* Spec 3: an entry is mutated only while its write lock is held.  Every
\* handler step that changes a key's value is taken by the client holding
\* the key's write lock before or after the step (SetValue, Placeholder
\* creation); the reaper's DeleteKey takes the lock itself.
WritesUnderLock ==
    [][\A c \in Clients :
         ClientStep(c) =>
            \A k \in Keys : store'[k] # store[k] => writer[k] = c \/ writer'[k] = c
      ]_vars

\* Every command a connection starts is answered: no handler blocks for
\* ever on a key lock or the creation lock.
CommandsComplete == \A c \in Clients : pc[c] # "Idle" ~> pc[c] = "Idle"

(***************************************************************************)
(* Refinement: the handlers implement KeyspaceAtomic.  A Placeholder     *)
(* entry is not yet a value; a command is pending from Begin until its    *)
(* reply, and takes effect in the step that replies.                      *)
(***************************************************************************)
AbsStore == [k \in Keys |-> IF store[k] = Placeholder THEN Absent ELSE store[k]]

AbsPending == [c \in Clients |-> IF pc[c] = "Idle" THEN Idle ELSE cmd[c]]

Atomic == INSTANCE KeyspaceAtomic WITH store <- AbsStore, pending <- AbsPending

\* Spec 3 and 4.4: every command behaves as if it ran alone at one
\* instant between its invocation and its reply, with the reply and the
\* store change AtomicEffect gives it.
Linearizable == Atomic!Spec
=============================================================================
