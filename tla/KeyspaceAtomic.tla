--------------------------- MODULE KeyspaceAtomic ---------------------------
(***************************************************************************)
(* What the keyspace promises its clients (spec sections 3, 4.1 and 5):   *)
(* every command takes effect at one instant between its invocation and   *)
(* its reply, as AtomicEffect says, and the TTL reaper may remove any key *)
(* at any instant.  The handlers of SortedSetCommands are checked to      *)
(* implement this specification.                                          *)
(***************************************************************************)
EXTENDS ZCommands

CONSTANTS
    Clients,     \* connections issuing commands
    Idle,        \* pending[c] = Idle: c has no command in flight
    InitValues,  \* the values a key may hold initially
    ReaperOn     \* TRUE: keys with a TTL may expire

VARIABLES
    store,       \* key -> value or Absent
    pending,     \* client -> the command it has invoked, or Idle
    resp         \* client -> the last reply it was given

vars == <<store, pending, resp>>

Init ==
    /\ store \in [Keys -> InitValues]
    /\ pending = [c \in Clients |-> Idle]
    /\ resp = [c \in Clients |-> Nil]

Invoke(c, cmd) ==
    /\ pending[c] = Idle
    /\ pending' = [pending EXCEPT ![c] = cmd]
    /\ UNCHANGED <<store, resp>>

Apply(c) ==
    /\ pending[c] # Idle
    /\ LET r == AtomicEffect(pending[c], store)
       IN /\ store' = r.store
          /\ resp' = [resp EXCEPT ![c] = r.resp]
    /\ pending' = [pending EXCEPT ![c] = Idle]

Expire(k) ==
    /\ ReaperOn
    /\ store[k] # Absent
    /\ store' = [store EXCEPT ![k] = Absent]
    /\ UNCHANGED <<pending, resp>>

Next ==
    \/ \E c \in Clients, cmd \in Commands : Invoke(c, cmd)
    \/ \E c \in Clients : Apply(c)
    \/ \E k \in Keys : Expire(k)

Spec == Init /\ [][Next]_vars
=============================================================================
