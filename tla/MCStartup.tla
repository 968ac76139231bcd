------------------------------ MODULE MCStartup ------------------------------
(***************************************************************************)
(* Model-checking instance of Startup: three keys, two members.           *)
(***************************************************************************)
EXTENDS Startup

CONSTANTS k1, k2, k3, m1, m2

\* The preamble (or snapshot) holds k1 and k2 as sorted sets, k1 with a
\* deadline, and k3 as a string.  The log adds a member to k1 and to k2,
\* sends a ZADD to the string k3 (a WRONGTYPE error) and rescores k1; a
\* ZADD creates k1 anew when the reaper has deleted it.
MCEntries ==
    << [key |-> k1, value |-> (m1 :> 1), expires |-> TRUE],
       [key |-> k2, value |-> (m1 :> 1), expires |-> FALSE],
       [key |-> k3, value |-> StringValue, expires |-> FALSE] >>

ZAddOf(k, m, s) == [op |-> "zadd", key |-> k, member |-> m, score |-> s,
                    policy |-> "none"]

MCLog == << ZAddOf(k1, m2, 1), ZAddOf(k2, m2, 1), ZAddOf(k3, m1, 1),
           ZAddOf(k1, m1, 2) >>

MCLexOrder == <<m1, m2>>

\* Every combination of RestoreAOF and RestoreSnapshot.
AllConfigs == [aof : BOOLEAN, snapshot : BOOLEAN]

\* RestoreAOF on, RestoreSnapshot off.
AofOnly == {[aof |-> TRUE, snapshot |-> FALSE]}
=============================================================================
