----------------------------- MODULE SortedSet -----------------------------
(***************************************************************************)
(* The sorted-set value of EchoVault: unique members, each with a score.   *)
(* A value is a function from its members to their scores, so membership  *)
(* is unique by construction (spec section 3).  The SortedSet methods the *)
(* handlers of the sorted_set package call (NewSortedSet, AddOrUpdate,    *)
(* Union, Intersect, Subtract, Pop) are not among the repository files    *)
(* given here; they are written from the spec's section 4.4.              *)
(*                                                                         *)
(* Scores are integers: the float arithmetic and the +/-inf parsing of    *)
(* the handlers are not what the concurrency properties tell apart.       *)
(***************************************************************************)
EXTENDS Integers, FiniteSets, Sequences, Functions, FiniteSetsExt

CONSTANTS
    Members,    \* member values (model values)
    LexOrder,   \* the members in lexicographic order, a sequence
    Scores      \* the scores a command may carry

ASSUME /\ LexOrder \in Seq(Members)
       /\ {LexOrder[i] : i \in DOMAIN LexOrder} = Members
       /\ Scores \subseteq Int

\* Every sorted set whose scores lie in S.
ZSetsOver(S) == UNION {[D -> S] : D \in SUBSET Members}

\* v is a sorted set with scores in S (S may be infinite).
IsZSetOver(v, S) == \E D \in SUBSET Members : v \in [D -> S]

EmptyZSet == [m \in {} |-> 0]

ZCard(z) == Cardinality(DOMAIN z)

LexRank(m) == CHOOSE i \in DOMAIN LexOrder : LexOrder[i] = m

\* The order of ordered results: by score, ties broken by member value.
Before(z, a, b) ==
    \/ z[a] < z[b]
    \/ z[a] = z[b] /\ LexRank(a) < LexRank(b)

\* 0-based position of m in the ascending (score, value) order of z.
Rank(z, m) == Cardinality({a \in DOMAIN z : Before(z, a, m)})

\* NewSortedSet(members): a set holding exactly the given pairs.
NewSortedSet(params) == params

(***************************************************************************)
(* AddOrUpdate(members, updatePolicy, comparison, changed, incr): the     *)
(* add-or-update rules of spec 4.4.  params is the member/score list as a *)
(* function; policy is "none", "xx" or "nx"; comparison "none", "gt" or   *)
(* "lt".  The result is the new set and the count the method returns.     *)
(***************************************************************************)
AddOrUpdate(z, params, policy, comparison, changed, incr) ==
    LET NewScore(m) == IF incr THEN z[m] + params[m] ELSE params[m]
        Allowed(m)  == CASE comparison = "gt" -> NewScore(m) > z[m]
                         [] comparison = "lt" -> NewScore(m) < z[m]
                         [] OTHER             -> TRUE
        adds == IF policy = "xx" THEN {} ELSE DOMAIN params \ DOMAIN z
        upds == IF policy = "nx" THEN {}
                ELSE {m \in DOMAIN params \cap DOMAIN z :
                        Allowed(m) /\ NewScore(m) # z[m]}
    IN [set   |-> [m \in DOMAIN z \cup adds |->
                     IF m \in upds THEN NewScore(m)
                     ELSE IF m \in adds THEN params[m] ELSE z[m]],
        count |-> Cardinality(adds) + (IF changed THEN Cardinality(upds) ELSE 0)]

\* The weighted scores of m in the inputs of seq that contain it (every
\* weight is the default 1), indexed by input position.
Contributions(m, seq) ==
    [i \in {j \in DOMAIN seq : m \in DOMAIN seq[j]} |-> seq[i][m]]

\* AGGREGATE SUM | MIN | MAX over those scores.
AggScore(agg, m, seq) ==
    LET c == Contributions(m, seq)
    IN CASE agg = "sum" -> SumFunction(c)
         [] agg = "min" -> Min(Range(c))
         [] agg = "max" -> Max(Range(c))

MembersOf(seq) == UNION {DOMAIN seq[i] : i \in DOMAIN seq}

\* Union(aggregate, sets...): every member of some input.
Union(agg, seq) == [m \in MembersOf(seq) |-> AggScore(agg, m, seq)]

\* Intersect(aggregate, sets...): the members of every input.
Intersect(agg, seq) ==
    IF seq = <<>> THEN EmptyZSet
    ELSE [m \in {x \in MembersOf(seq) : \A i \in DOMAIN seq : x \in DOMAIN seq[i]}
            |-> AggScore(agg, m, seq)]

\* base.Subtract(sets): members of base in none of the others.
Subtract(base, seq) ==
    [m \in DOMAIN base \ MembersOf(seq) |-> base[m]]

\* Pop(count, policy): the count lowest ("min") or highest ("max") members.
Popped(z, count, policy) ==
    {m \in DOMAIN z :
        IF policy = "min" THEN Rank(z, m) < count
        ELSE ZCard(z) - 1 - Rank(z, m) < count}

PopRest(z, count, policy) ==
    [m \in DOMAIN z \ Popped(z, count, policy) |-> z[m]]
=============================================================================
