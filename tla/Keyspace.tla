------------------------------ MODULE Keyspace ------------------------------
(***************************************************************************)
(* The keyspace of the server: the store map, one reader/writer lock per  *)
(* key and the key-creation mutex (src/src/server/server.go, the store,   *)
(* keyLocks and keyCreationLock fields of Server), and the keyspace calls *)
(* the command handlers make.  The bodies of KeyExists, KeyLock,          *)
(* KeyRLock, CreateKeyAndLock, SetValue and DeleteKey are not among the   *)
(* repository files given here: they follow spec sections 4.1 and 5.      *)
(*                                                                         *)
(* A call that blocks is an action whose guard is the condition it waits  *)
(* for.  A lock is not owned: Go lets any goroutine unlock a mutex, and   *)
(* unlocking an RWMutex nobody holds is a fatal runtime error.            *)
(***************************************************************************)
EXTENDS ZCommands

CONSTANTS
    Clients,      \* connections, each served by its own goroutine
    NoClient,     \* no holder
    Placeholder   \* the nil value of an entry CreateKeyAndLock just made

VARIABLES
    store,        \* Server.store: key -> value, Absent or Placeholder
    writer,       \* keyLocks[k] held for writing: key -> client or NoClient
    readers,      \* keyLocks[k] read holds: key -> client -> count
    creator       \* keyCreationLock holder, or NoClient

ksVars == <<store, writer, readers, creator>>

KeyspaceInit(initValues) ==
    /\ store \in [Keys -> initValues]
    /\ writer = [k \in Keys |-> NoClient]
    /\ readers = [k \in Keys |-> [c \in Clients |-> 0]]
    /\ creator = NoClient

\* KeyExists: the entry is there (a Placeholder entry counts).
KeyExists(k) == store[k] # Absent

\* GetValue(...).(*SortedSet) succeeds: a nil or string value fails it.
IsSortedSetValue(v) == v \notin {Absent, StringValue, Placeholder}

WriteFree(k) ==
    /\ writer[k] = NoClient
    /\ \A c \in Clients : readers[k][c] = 0

\* KeyLock(k) once it can return: the key is there and no one holds it.
KeyLock(c, k) ==
    /\ KeyExists(k)
    /\ WriteFree(k)
    /\ writer' = [writer EXCEPT ![k] = c]

\* KeyRLock(k) once it can return: the key is there and no writer holds it.
KeyRLock(c, k) ==
    /\ KeyExists(k)
    /\ writer[k] = NoClient
    /\ readers' = [readers EXCEPT ![k][c] = @ + 1]

\* The read locks of c after one KeyRUnlock of every key in ks.
RUnlocked(r, c, ks) ==
    [k \in Keys |-> IF k \in ks THEN [r[k] EXCEPT ![c] = @ - 1] ELSE r[k]]

\* The write locks after KeyUnlock(k).
Unlocked(w, k) == [w EXCEPT ![k] = NoClient]

(***************************************************************************)
(* CreateKeyAndLock(k), spec 4.1: take the creation lock; if k exists,    *)
(* wait for its write lock, else make a nil entry locked by the caller;   *)
(* then release the creation lock.  Two steps: the creation lock is held  *)
(* while the caller waits for the key's lock.                             *)
(***************************************************************************)
AcquireCreationLock(c) ==
    /\ creator = NoClient
    /\ creator' = c
    /\ UNCHANGED <<store, writer, readers>>

CreateOrLock(c, k) ==
    /\ creator = c
    /\ \/ /\ ~KeyExists(k)
          /\ store' = [store EXCEPT ![k] = Placeholder]
          /\ writer' = [writer EXCEPT ![k] = c]
       \/ /\ KeyExists(k)
          /\ WriteFree(k)
          /\ writer' = [writer EXCEPT ![k] = c]
          /\ UNCHANGED store
    /\ creator' = NoClient
    /\ UNCHANGED readers

\* DeleteKey(k) as the TTL reaper calls it: take the write lock, remove the
\* entry, release the lock.
DeleteKey(k) ==
    /\ store[k] \notin {Absent, Placeholder}
    /\ WriteFree(k)
    /\ store' = [store EXCEPT ![k] = Absent]
    /\ UNCHANGED <<writer, readers, creator>>

HoldsLocks(c) ==
    \/ creator = c
    \/ \E k \in Keys : writer[k] = c \/ readers[k][c] > 0
=============================================================================
