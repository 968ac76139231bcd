----------------------------- MODULE ZCommands -----------------------------
(***************************************************************************)
(* The sorted-set commands a client may send, and what each one does when *)
(* it runs atomically: the contract of spec section 4.4, with the         *)
(* keyspace reduced to a function from keys to values.  This is the       *)
(* meaning the concurrent handlers of SortedSetCommands must implement.   *)
(***************************************************************************)
EXTENDS SortedSet, TLC

CONSTANTS
    Keys,             \* key names (model values)
    Absent,           \* store[k] = Absent: no entry for k
    StringValue,      \* a value of another type (for the WRONGTYPE paths)
    Nil,              \* the nil reply
    ErrWrongType,     \* "value at <key> is not a sorted set"
    ErrNotFound,      \* the error of a lock call on a missing key
    Ops,              \* the commands clients may send in this model
    ZAddPolicies,     \* update policies ZADD may carry: "none", "xx", "nx"
    MaxSrcs,          \* most source keys of a multi-key command
    DistinctSources,  \* TRUE: no key is listed twice as a source
    DestMayBeSource   \* TRUE: the destination may also be a source

\* An integer reply (":n" in RESP), kept apart from array replies.
IntReply(n) == [integer |-> n]

\* An array reply of members with their scores ("*n" in RESP).
ArrayReply(z) == [array |-> z]

IsZSet(v) == v \notin {Absent, StringValue}

Injective(s) == \A i, j \in DOMAIN s : s[i] = s[j] => i = j
SeqRange(s)  == {s[i] : i \in DOMAIN s}

\* The key lists of multi-key commands.
SrcSeqs ==
    {s \in UNION {[1..n -> Keys] : n \in 1..MaxSrcs} :
        DistinctSources => Injective(s)}

SingleKeyCmds ==
         [op : {"zadd"}, key : Keys, member : Members, score : Scores,
          policy : ZAddPolicies]
    \cup [op : {"zrem", "zscore"}, key : Keys, member : Members]
    \cup [op : {"zpopmin", "zpopmax", "zcard"}, key : Keys]

MultiKeyCmds ==
         {c \in [op : {"zunionstore", "zinterstore", "zdiffstore"},
                 dest : Keys, srcs : SrcSeqs] :
             DestMayBeSource \/ c.dest \notin SeqRange(c.srcs)}
    \cup {c \in [op : {"zrangestore"}, dest : Keys, src : Keys] :
             DestMayBeSource \/ c.dest # c.src}
    \cup [op : {"zmpop"}, keys : SrcSeqs]

Commands == {c \in SingleKeyCmds \cup MultiKeyCmds : c.op \in Ops}

(***************************************************************************)
(* Atomic meaning of each command: the new store and the reply.           *)
(***************************************************************************)
Result(st, r) == [store |-> st, resp |-> r]

\* Values of the existing source keys, in the order listed.
Existing(st, srcs) ==
    LET present == SelectSeq(srcs, LAMBDA k : st[k] # Absent)
    IN [i \in DOMAIN present |-> st[present[i]]]

WrongTypeAmong(st, ks) == \E i \in DOMAIN ks : st[ks[i]] = StringValue

\* The index of the first source that is absent or not a sorted set, or 0.
FirstUnusable(st, ks) ==
    LET bad == {i \in DOMAIN ks : st[ks[i]] \in {Absent, StringValue}}
    IN IF bad = {} THEN 0 ELSE CHOOSE i \in bad : \A j \in bad : i <= j

\* A *store command: replace dest by z and reply its cardinality.
Stored(st, dest, z) == Result([st EXCEPT ![dest] = z], IntReply(ZCard(z)))

AtomicEffect(cmd, st) ==
  CASE cmd.op = "zadd" ->
         LET v == st[cmd.key] IN
         CASE v = Absent ->
                \* the create path builds the set whatever the policy
                Result([st EXCEPT ![cmd.key] = cmd.member :> cmd.score],
                       IntReply(1))
           [] v = StringValue -> Result(st, ErrWrongType)
           [] OTHER ->
                LET r == AddOrUpdate(v, cmd.member :> cmd.score, cmd.policy,
                                     "none", FALSE, FALSE)
                IN Result([st EXCEPT ![cmd.key] = r.set], IntReply(r.count))
    [] cmd.op = "zrem" ->
         LET v == st[cmd.key] IN
         CASE v = Absent -> Result(st, IntReply(0))
           [] v = StringValue -> Result(st, ErrWrongType)
           [] OTHER -> Result([st EXCEPT ![cmd.key] =
                                [m \in DOMAIN v \ {cmd.member} |-> v[m]]],
                              IntReply(IF cmd.member \in DOMAIN v THEN 1 ELSE 0))
    [] cmd.op \in {"zpopmin", "zpopmax"} ->
         LET v   == st[cmd.key]
             pol == IF cmd.op = "zpopmin" THEN "min" ELSE "max"
         IN CASE v = Absent -> Result(st, ArrayReply(EmptyZSet))
              [] v = StringValue -> Result(st, ErrWrongType)
              [] OTHER -> Result([st EXCEPT ![cmd.key] = PopRest(v, 1, pol)],
                                 ArrayReply([m \in Popped(v, 1, pol) |-> v[m]]))
    [] cmd.op = "zscore" ->
         LET v == st[cmd.key] IN
         CASE v = Absent -> Result(st, Nil)
           [] v = StringValue -> Result(st, ErrWrongType)
           [] OTHER -> Result(st, IF cmd.member \in DOMAIN v
                                  THEN IntReply(v[cmd.member]) ELSE Nil)
    [] cmd.op = "zcard" ->
         LET v == st[cmd.key] IN
         CASE v = Absent -> Result(st, IntReply(0))
           [] v = StringValue -> Result(st, ErrWrongType)
           [] OTHER -> Result(st, IntReply(ZCard(v)))
    [] cmd.op = "zinterstore" /\ FirstUnusable(st, cmd.srcs) # 0
           /\ st[cmd.srcs[FirstUnusable(st, cmd.srcs)]] = Absent ->
         \* the source loop returns ":0" at the first absent source
         Result(st, IntReply(0))
    [] cmd.op \in {"zunionstore", "zinterstore", "zdiffstore"} ->
         IF WrongTypeAmong(st, cmd.srcs) THEN Result(st, ErrWrongType)
         ELSE LET ins  == [i \in DOMAIN cmd.srcs |->
                             IF st[cmd.srcs[i]] = Absent THEN EmptyZSet
                             ELSE st[cmd.srcs[i]]]
                  z == CASE cmd.op = "zunionstore" -> Union("sum", ins)
                         [] cmd.op = "zinterstore" -> Intersect("sum", ins)
                         [] OTHER -> Subtract(Head(ins), Tail(ins))
              IN Stored(st, cmd.dest, z)
    [] cmd.op = "zrangestore" ->
         LET v == st[cmd.src] IN
         CASE v = StringValue -> Result(st, ErrWrongType)
           [] v = Absent -> Result(st, ArrayReply(EmptyZSet))
           [] OTHER -> Stored(st, cmd.dest, v)
    [] cmd.op = "zmpop" ->
         LET ne == SelectSeq(cmd.keys,
                     LAMBDA k : IsZSet(st[k]) /\ ZCard(st[k]) > 0)
         IN IF ne = <<>> THEN Result(st, ArrayReply(EmptyZSet))
            ELSE LET v == st[Head(ne)] IN
                 Result([st EXCEPT ![Head(ne)] = PopRest(v, 1, "min")],
                        ArrayReply([m \in Popped(v, 1, "min") |-> v[m]]))
=============================================================================
