------------------------------- MODULE Startup -------------------------------
(***************************************************************************)
(* Server.Start in standalone mode (src/src/server/server.go): restore the *)
(* keyspace on the main goroutine, then StartTCP.  With RestoreAOF the AOF *)
(* engine's Restore replays the preamble and then the append log; else,    *)
(* with RestoreSnapshot, the snapshot engine restores its file.  Both call *)
(* back into the closures NewServer gives them:                           *)
(*   SetValue:  CreateKeyAndLock(key); SetValue(key, v); KeyUnlock(key),   *)
(*              returning early on an error;                              *)
(*   SetExpiry: KeyLock(key); SetExpiry(...); KeyUnlock(key), one step   *)
(*              once the lock is free (the key was just made and has no   *)
(*              deadline yet, so no other goroutine deletes it);          *)
(*   HandleCommand: handleCommand(command) -- a logged ZADD, run by       *)
(*              handleZADD, whose deferred KeyUnlock runs on every path.  *)
(* The preamble and snapshot readers are not among the repository files:  *)
(* on a closure error they may stop (the error reaches Restore, which     *)
(* logs it and goes on) or go on with the next entry; both are allowed.   *)
(* SetValue may fail only under the noeviction policy (spec 4.2: the      *)
(* engine refuses writes that would exceed memory).  Under any other      *)
(* policy NewServer has already started the TTL reaper, which runs while   *)
(* the restore does and may delete a key once its deadline has passed.    *)
(***************************************************************************)
EXTENDS Keyspace, SequencesExt

CONSTANTS
    Main,        \* the goroutine running Start (a member of Clients)
    Configs,     \* the [aof, snapshot] settings (RestoreAOF, RestoreSnapshot)
    Entries,     \* preamble / snapshot: a sequence of [key, value, expires]
    Log,         \* the append log: a sequence of ZADD commands
    NoEviction   \* EvictionPolicy is noeviction: SetValue may fail, no reaper

ASSUME /\ Configs \subseteq [aof : BOOLEAN, snapshot : BOOLEAN]
       /\ Len(Entries) > 0 /\ Len(Log) > 0
       /\ \A j \in DOMAIN Log : Log[j].op = "zadd" /\ Log[j].policy = "none"

VARIABLES
    conf,    \* server.Config's RestoreAOF and RestoreSnapshot
    phase,   \* "preamble" | "log" | "snapshot" | "tcp" (StartTCP reached)
    i,       \* position in Entries or Log
    step,    \* the call of the current closure made next
    ttl      \* keys with a deadline in keysWithExpiry

vars == <<ksVars, conf, phase, i, step, ttl>>

\* The phase after the preamble, the log and the snapshot.
After(p) == IF p = "preamble" THEN "log" ELSE "tcp"

Items(p) == IF p = "log" THEN Len(Log) ELSE Len(Entries)

\* Start: InitialiseCaches on the empty store NewServer made; AOF restore
\* first, snapshot restore only when AOF restore is off.
Init ==
    /\ KeyspaceInit({Absent})
    /\ conf \in Configs
    /\ phase = IF conf.aof THEN "preamble"
               ELSE IF conf.snapshot THEN "snapshot" ELSE "tcp"
    /\ i = 1
    /\ step = "create"
    /\ ttl = {}

\* Go on with item n + 1 of the phase, or with the next phase.
NextItem(n) ==
    IF n < Items(phase)
    THEN /\ i' = n + 1
         /\ step' = IF phase = "log" THEN "exists" ELSE "create"
         /\ UNCHANGED phase
    ELSE /\ phase' = After(phase)
         /\ i' = 1
         /\ step' = "exists"

\* A reader of the preamble or snapshot file after a closure error: stop
\* (the file's Restore returns the error) or go on with the next entry.
EntryFailed ==
    \/ NextItem(Items(phase))
    \/ NextItem(i)

(***************************************************************************)
(* Mutants of SetEntryValue and UpdateExisting: the key lock kept after a *)
(* successful SetValue; the logged ZADD replacing the set instead of      *)
(* adding to it; the WRONGTYPE return taken before the deferred unlock.   *)
(***************************************************************************)
SetEntryValueNoUnlock(e) ==
    /\ \/ /\ store' = [store EXCEPT ![e.key] = e.value]
          /\ UNCHANGED writer
          /\ IF e.expires THEN step' = "expire" /\ UNCHANGED <<phase, i>>
                          ELSE NextItem(i)
       \/ /\ NoEviction
          /\ EntryFailed
          /\ UNCHANGED <<store, writer>>
    /\ UNCHANGED <<readers, creator, ttl>>

UpdateExistingOverwrite(c) ==
    /\ store' = [store EXCEPT ![c.key] =
           IF IsSortedSetValue(@) THEN NewSortedSet(c.member :> c.score) ELSE @]
    /\ writer' = Unlocked(writer, c.key)
    /\ NextItem(i)
    /\ UNCHANGED <<readers, creator>>

UpdateExistingErrorLeak(c) ==
    /\ store' = [store EXCEPT ![c.key] =
           IF IsSortedSetValue(@)
           THEN AddOrUpdate(@, c.member :> c.score, "none", "none", FALSE, FALSE).set
           ELSE @]
    /\ writer' = IF IsSortedSetValue(store[c.key]) THEN Unlocked(writer, c.key)
                 ELSE writer
    /\ NextItem(i)
    /\ UNCHANGED <<readers, creator>>

\* The SetValue closure after CreateKeyAndLock: SetValue(key, value), then
\* KeyUnlock; on SetValue's error it returns at once, the lock still held.
SetEntryValue(e) ==
    /\ \/ /\ store' = [store EXCEPT ![e.key] = e.value]
          /\ writer' = Unlocked(writer, e.key)
          /\ IF e.expires THEN step' = "expire" /\ UNCHANGED <<phase, i>>
                          ELSE NextItem(i)
       \/ /\ NoEviction
          /\ EntryFailed
          /\ UNCHANGED <<store, writer>>
    /\ UNCHANGED <<readers, creator, ttl>>

\* handleZADD on an existing key, once KeyLock returned: GetValue must be a
\* sorted set (else the WRONGTYPE error), AddOrUpdate the member; the
\* deferred KeyUnlock runs on both paths.
UpdateExisting(c) ==
    /\ store' = [store EXCEPT ![c.key] =
           IF IsSortedSetValue(@)
           THEN AddOrUpdate(@, c.member :> c.score, "none", "none", FALSE, FALSE).set
           ELSE @]
    /\ writer' = Unlocked(writer, c.key)
    /\ NextItem(i)
    /\ UNCHANGED <<readers, creator>>

(***************************************************************************)
(* The SetValue and SetExpiry closures, for one preamble/snapshot entry.  *)
(***************************************************************************)
RestoreEntry(p) ==
    LET e == Entries[i] IN
    /\ phase = p
    /\ \/ /\ step = "create"
          /\ AcquireCreationLock(Main)
          /\ step' = "create_lock" /\ UNCHANGED <<phase, i, ttl>>
       \/ /\ step = "create_lock"
          /\ CreateOrLock(Main, e.key)
          /\ step' = "set" /\ UNCHANGED <<phase, i, ttl>>
       \/ /\ step = "set"
          /\ SetEntryValue(e)
       \/ /\ step = "expire"
          /\ KeyExists(e.key) /\ WriteFree(e.key)
          /\ ttl' = ttl \cup {e.key}
          /\ NextItem(i)
          /\ UNCHANGED ksVars
    /\ UNCHANGED conf

(***************************************************************************)
(* The HandleCommand closure replaying one logged ZADD through handleZADD: *)
(* KeyExists, then KeyLock and AddOrUpdate (KeyLock fails when the key    *)
(* has gone since; a value that is not a sorted set is an error), or      *)
(* CreateKeyAndLock and SetValue of a new set.  handleCommand's error is  *)
(* logged by the closure and the replay goes on.                          *)
(***************************************************************************)
ReplayCommand ==
    LET c == Log[i]
        k == c.key IN
    /\ phase = "log"
    /\ \/ /\ step = "exists"
          /\ step' = IF KeyExists(k) THEN "lock" ELSE "create"
          /\ UNCHANGED <<ksVars, phase, i>>
       \/ /\ step = "lock"
          /\ KeyLock(Main, k)
          /\ step' = "update" /\ UNCHANGED <<store, readers, creator, phase, i>>
       \/ /\ step = "lock"
          /\ ~KeyExists(k)
          /\ NextItem(i)
          /\ UNCHANGED ksVars
       \/ /\ step = "update"
          /\ UpdateExisting(c)
       \/ /\ step = "create"
          /\ AcquireCreationLock(Main)
          /\ step' = "create_lock" /\ UNCHANGED <<phase, i>>
       \/ /\ step = "create_lock"
          /\ CreateOrLock(Main, k)
          /\ step' = "set" /\ UNCHANGED <<phase, i>>
       \/ /\ step = "set"
          /\ \/ store' = [store EXCEPT ![k] = NewSortedSet(c.member :> c.score)]
             \/ NoEviction /\ UNCHANGED store
          /\ writer' = Unlocked(writer, k)
          /\ NextItem(i)
          /\ UNCHANGED <<readers, creator>>
    /\ UNCHANGED <<conf, ttl>>

\* preambleStore.Restore, called first by the AOF engine's Restore.
AofRestore == RestoreEntry("preamble")

\* SnapshotEngine.Restore: the same two closures over the snapshot file.
SnapshotRestore == RestoreEntry("snapshot")

\* The TTL reaper goroutine NewServer starts unless the policy is
\* noeviction: DeleteKey of a key whose deadline has passed, which also
\* takes the key out of keysWithExpiry.
Reaper(k) ==
    /\ ~NoEviction
    /\ k \in ttl
    /\ DeleteKey(k)
    /\ ttl' = ttl \ {k}
    /\ UNCHANGED <<conf, phase, i, step>>

Restore == AofRestore \/ ReplayCommand \/ SnapshotRestore

Next == Restore \/ \E k \in Keys : Reaper(k)

\* The main goroutine runs until it blocks; the reaper may or may not
\* find a key expired, so it gets no fairness.
Spec == Init /\ [][Next]_vars /\ WF_vars(Restore)

(***************************************************************************)
(* Properties.                                                            *)
(***************************************************************************)
\* The log a configuration replays: none without RestoreAOF.
LogOf(cf) == IF cf.aof THEN Log ELSE <<>>

\* The keyspace the preamble or snapshot entries describe.
FromEntries == [k \in Keys |->
    IF \E j \in DOMAIN Entries : Entries[j].key = k
    THEN Entries[CHOOSE j \in DOMAIN Entries : Entries[j].key = k].value
    ELSE Absent]

\* The keys the entries give a deadline.
Expiring == {Entries[j].key : j \in {j \in DOMAIN Entries : Entries[j].expires}}

\* The store after logged commands j+1.. of log, each with its atomic
\* meaning (ZCommands), where key k is deleted just before command
\* del[k] + 1 (del[k] > Len(log): never).
RECURSIVE ReplayFrom(_, _, _, _)
ReplayFrom(log, st, j, del) ==
    LET s == [k \in Keys |-> IF k \in DOMAIN del /\ del[k] = j THEN Absent
                             ELSE st[k]]
    IN IF j >= Len(log) THEN s
       ELSE ReplayFrom(log, AtomicEffect(log[j + 1], s).store, j + 1, del)

\* Spec 8: AOF replay from preamble and log (and a snapshot restore)
\* yields the saved keyspace modulo expired keys: a key with a deadline
\* may be gone from any point of the replay on.
Expected(cf) ==
    IF ~cf.aof /\ ~cf.snapshot THEN {[k \in Keys |-> Absent]}
    ELSE {ReplayFrom(LogOf(cf), FromEntries, 0, del) :
            del \in [Expiring -> 0 .. Len(LogOf(cf)) + 1]}

\* Spec 8 ("AOF replay from preamble+log yields a keyspace equal to the
\* pre-shutdown state modulo expired keys") and "snapshot then restore is
\* identity over non-expired state": when Start reaches StartTCP the store
\* is the one the entries and the logged commands describe, whatever the
\* TTL reaper deleted while the SetValue, SetExpiry and HandleCommand
\* closures ran (a key may vanish between handleZADD's KeyExists and its
\* KeyLock, and the replayed command is then dropped).
RestoreFaithful == phase = "tcp" => store \in Expected(conf)

\* Every exit path of the restore closures and of handleZADD unlocks what
\* it locked: when StartTCP starts serving connections no key lock and
\* not the creation lock is still held by the main goroutine, so no
\* client command blocks for ever on a key the restore touched.
LocksReleased ==
    phase = "tcp" => creator = NoClient /\ \A k \in Keys : WriteFree(k)

\* Start returns to StartTCP: the restore never blocks for ever, and the
\* server goes on to accept connections.
StartupCompletes == <>(phase = "tcp")
=============================================================================
