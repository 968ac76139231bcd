------------------------ MODULE MCSortedSetCommands ------------------------
(***************************************************************************)
(* Model-checking instance of SortedSetCommands: two connections, three   *)
(* keys, two members, scores 1 and 2.                                     *)
(***************************************************************************)
EXTENDS SortedSetCommands, TLC

CONSTANTS c1, c2   \* the connections (model values)

MCMembers  == {"a", "b"}
MCLexOrder == <<"a", "b">>
MCScores   == {1, 2}

\* The linearizability run: one member, score 1 (a union sums it to 2).
OneMember   == {"a"}
OneLexOrder == <<"a">>
OneScore    == {1}

\* Scores grow by ZUNIONSTORE sums; states with a larger score are cut.
MaxScore == 2
ScoreBound ==
    \A k \in Keys : IsSortedSetValue(store[k]) =>
        \A m \in DOMAIN store[k] : store[k][m] <= MaxScore

\* Initial values: an empty set, one- and two-member sets, a string.
PresentValues == {EmptyZSet, "a" :> 1, StringValue}
AnyValues     == PresentValues \cup {Absent}

SingleKeyOps == {"zadd", "zrem", "zpopmin", "zpopmax", "zscore", "zcard"}

\* Linearizability run: c1 runs the store commands, c2 single-key writers.
AtomicOps ==
    (c1 :> {"zunionstore", "zrangestore", "zcard"}) @@
    (c2 :> {"zadd", "zrem", "zpopmax"})

\* Initial values of the linearizability run.
SetOrString == {"a" :> 1, StringValue}

\* Lock run: both connections create keys with ZADD; one pops across
\* keys with ZMPOP, the other reads, while the reaper deletes keys.
LockOps ==
    (c1 :> {"zadd", "zmpop"}) @@
    (c2 :> {"zadd", "zscore"})

\* ZINTERSTORE run: c2 only rescores the one member, so every
\* intersection of the initial one-member sets is non-empty.
InterStoreOps ==
    (c1 :> {"zinterstore"}) @@
    (c2 :> {"zadd"})

\* ZDIFFSTORE run: c2 empties and refills the sources.
DiffStoreOps ==
    (c1 :> {"zdiffstore"}) @@
    (c2 :> {"zadd", "zrem"})

\* ZDIFFSTORE leaks read holds, and each command adds more; states with
\* more than MaxReadHolds holds of one key by one connection are cut.
MaxReadHolds == 1
ReadHoldBound == \A k \in Keys, c \in Clients : readers[k][c] <= MaxReadHolds

\* Keys are interchangeable: no initial value or command set names one.
KeySymmetry == Permutations(Keys)

\* Store run: c1 runs ZINTERSTORE and ZDIFFSTORE while c2 rescores the
\* one member, and ZDIFFSTORE's leaked read holds pile up.
StoreOps ==
    (c1 :> {"zinterstore", "zdiffstore"}) @@
    (c2 :> {"zadd"})

\* A ZDIFFSTORE may store an empty set, and a ZINTERSTORE with that set as
\* a source then writes its destination without the lock (the empty
\* intersection of hazard part_007:629); the store run cuts the states in
\* which a key holds an empty set and asks only about the other cases.
NoEmptySet == \A k \in Keys : IsSortedSetValue(store[k]) => store[k] # EmptyZSet

\* Initial values of the empty-intersection run: two one-member sets with
\* different members, so the two sources are disjoint.
DisjointValues == {"a" :> 1, "b" :> 1}

\* Command sets of the runs that show a disagreement with the spec.
ZAddOnly        == [c \in {c1, c2} |-> {"zadd"}]
StoreAndCreate  == (c1 :> {"zunionstore"}) @@ (c2 :> {"zadd"})
AbsentOnly      == {Absent}
=============================================================================
