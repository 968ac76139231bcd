--------------------------------- MODULE Aof ---------------------------------
(***************************************************************************)
(* The standalone AOF engine (src/unnamed/part_004, package aof) and the  *)
(* server calls around it (src/src/server/server.go).                     *)
(*                                                                         *)
(* A connection's write command runs its handler against the keyspace    *)
(* and, once it returns, the dispatcher enqueues the raw command with     *)
(* QueueCommand on logChan (spec 4.5 step 3; the dispatcher is not among  *)
(* the repository files).  One writer goroutine moves commands from       *)
(* logChan to the append log.  RewriteLog, started by RewriteAOF, takes   *)
(* engine.mut, writes a preamble from the current state and truncates the *)
(* append log; the writer goroutine does not take engine.mut.  Restore    *)
(* replays the preamble, then the log.                                    *)
(*                                                                         *)
(* A command is a record [client, seq, key, op, val]: "set" stores val,   *)
(* "incr" adds one modulo ValMod (a command that is not idempotent).      *)
(***************************************************************************)
EXTENDS Naturals, Sequences, SequencesExt, FiniteSets

CONSTANTS
    Clients,      \* connections sending write commands
    Keys,         \* keys
    ClientKeys,   \* client -> the keys it writes
    ValMod,       \* values are 0 .. ValMod - 1
    Ops,          \* write kinds sent: subset of {"set", "incr"}
    MaxWrites,    \* commands each client sends (bound)
    ChanCap,      \* capacity of logChan (4096 in NewAOFEngine)
    Rewriters,    \* RewriteAOF calls that may be made (goroutines)
    NoCommand,    \* nothing in hand
    NoRewriter    \* engine.mut is free

Vals == 0 .. ValMod - 1

\* An "incr" carries no value (val is 0).
Commands ==
    {w \in [client : Clients, seq : 1 .. MaxWrites, key : Keys, op : Ops,
            val : Vals] :
        w.key \in ClientKeys[w.client] /\ (w.op = "incr" => w.val = 0)}

VARIABLES
    state,        \* the keyspace: key -> value
    cpc,          \* client -> "idle" | "queue" (handler done, not enqueued)
    cur,          \* client -> the command being executed, or NoCommand
    sent,         \* client -> commands started so far
    logChan,      \* engine.logChan, a FIFO of commands
    inHand,       \* the command the writer goroutine received, or NoCommand
    aofLog,       \* the append log on disk
    preamble,     \* the preamble on disk: key -> value
    rpc,          \* rewriter -> "idle" | "lock" | "preamble" | "truncate" | "done"
    mutHolder,    \* engine.mut holder, or NoRewriter
    rewriting,    \* server.RewriteAOFInProgress
    written,      \* client -> commands the writer has appended (history)
    down          \* the process has exited after ShutDown

vars == <<state, cpc, cur, sent, logChan, inHand, aofLog, preamble, rpc,
          mutHolder, rewriting, written, down>>

\* What executing a logged command does to the keyspace (handleCommand on
\* replay does the same as the original execution).
ApplyCmd(st, w) ==
    [st EXCEPT ![w.key] = IF w.op = "set" THEN w.val ELSE (@ + 1) % ValMod]

\* Restore: replay the preamble into the keyspace, then the append log.
Replay(pre, lg) == FoldLeft(ApplyCmd, pre, lg)

\* After Restore at start-up the files and the keyspace agree.
Init ==
    /\ state \in [Keys -> Vals]
    /\ preamble = state
    /\ aofLog = <<>>
    /\ cpc = [c \in Clients |-> "idle"]
    /\ cur = [c \in Clients |-> NoCommand]
    /\ sent = [c \in Clients |-> 0]
    /\ logChan = <<>>
    /\ inHand = NoCommand
    /\ rpc = [r \in Rewriters |-> "idle"]
    /\ mutHolder = NoRewriter
    /\ rewriting = FALSE
    /\ written = [c \in Clients |-> 0]
    /\ down = FALSE

(***************************************************************************)
(* Connections.                                                           *)
(***************************************************************************)
\* The handler of a write command runs (under its key lock) and returns.
Execute(c, w) ==
    /\ cpc[c] = "idle"
    /\ sent[c] < MaxWrites
    /\ w.client = c /\ w.seq = sent[c] + 1
    /\ state' = ApplyCmd(state, w)
    /\ cur' = [cur EXCEPT ![c] = w]
    /\ sent' = [sent EXCEPT ![c] = @ + 1]
    /\ cpc' = [cpc EXCEPT ![c] = "queue"]
    /\ UNCHANGED <<logChan, inHand, aofLog, preamble, rpc, mutHolder,
                   rewriting, written>>

\* Faulty variant of QueueCommand: a non-blocking send (select with a
\* default) that drops the command when the channel is full.
QueueCommandDropping(c) ==
    /\ cpc[c] = "queue"
    /\ logChan' = IF Len(logChan) < ChanCap THEN Append(logChan, cur[c]) ELSE logChan
    /\ cpc' = [cpc EXCEPT ![c] = "idle"]
    /\ cur' = [cur EXCEPT ![c] = NoCommand]
    /\ UNCHANGED <<state, sent, inHand, aofLog, preamble, rpc, mutHolder,
                   rewriting, written>>

\* QueueCommand: engine.logChan <- command, blocking while the channel is full.
QueueCommand(c) ==
    /\ cpc[c] = "queue"
    /\ Len(logChan) < ChanCap
    /\ logChan' = Append(logChan, cur[c])
    /\ cpc' = [cpc EXCEPT ![c] = "idle"]
    /\ cur' = [cur EXCEPT ![c] = NoCommand]
    /\ UNCHANGED <<state, sent, inHand, aofLog, preamble, rpc, mutHolder,
                   rewriting, written>>

(***************************************************************************)
(* The writer goroutine of NewAOFEngine: c := <-engine.logChan, then       *)
(* engine.appendStore.Write(c).  It does not take engine.mut.              *)
(***************************************************************************)
Receive ==
    /\ inHand = NoCommand
    /\ logChan # <<>>
    /\ inHand' = Head(logChan)
    /\ logChan' = Tail(logChan)
    /\ UNCHANGED <<state, cpc, cur, sent, aofLog, preamble, rpc, mutHolder,
                   rewriting, written>>

AppendWrite ==
    /\ inHand # NoCommand
    /\ aofLog' = Append(aofLog, inHand)
    /\ written' = [written EXCEPT ![inHand.client] = @ + 1]
    /\ inHand' = NoCommand
    /\ UNCHANGED <<state, cpc, cur, sent, logChan, preamble, rpc, mutHolder,
                   rewriting>>

(***************************************************************************)
(* RewriteAOF (server.go) and RewriteLog (part_004).                      *)
(***************************************************************************)
\* RewriteAOF: refused while RewriteAOFInProgress is set, else it starts
\* `go RewriteLog()` and returns at once.
RewriteAOF(r) ==
    /\ rpc[r] = "idle"
    /\ rpc' = [rpc EXCEPT ![r] = IF rewriting THEN "done" ELSE "lock"]
    /\ UNCHANGED <<state, cpc, cur, sent, logChan, inHand, aofLog, preamble,
                   mutHolder, rewriting, written>>

\* The server's callbacks given to the engine as startRewrite and
\* finishRewrite: they store RewriteAOFInProgress.
StartRewriteAOF == rewriting' = TRUE

FinishRewriteAOF == rewriting' = FALSE

\* engine.mut.Lock(); engine.startRewrite().
LockRewrite(r) ==
    /\ rpc[r] = "lock"
    /\ mutHolder = NoRewriter
    /\ mutHolder' = r
    /\ StartRewriteAOF
    /\ rpc' = [rpc EXCEPT ![r] = "preamble"]
    /\ UNCHANGED <<state, cpc, cur, sent, logChan, inHand, aofLog, preamble,
                   written>>

\* preambleStore.CreatePreamble(): the preamble becomes getState().
CreatePreamble(r) ==
    /\ rpc[r] = "preamble"
    /\ preamble' = state
    /\ rpc' = [rpc EXCEPT ![r] = "truncate"]
    /\ UNCHANGED <<state, cpc, cur, sent, logChan, inHand, aofLog, mutHolder,
                   rewriting, written>>

\* appendStore.Truncate(), then the deferred finishRewrite() and Unlock().
Truncate(r) ==
    /\ rpc[r] = "truncate"
    /\ aofLog' = <<>>
    /\ FinishRewriteAOF
    /\ mutHolder' = NoRewriter
    /\ rpc' = [rpc EXCEPT ![r] = "done"]
    /\ UNCHANGED <<state, cpc, cur, sent, logChan, inHand, preamble, written>>

Rewrite(r) == RewriteAOF(r) \/ LockRewrite(r) \/ CreatePreamble(r) \/ Truncate(r)

\* ShutDown (standalone): nothing is done for the AOF engine; neither
\* logChan nor the writer goroutine is drained, and the process exits.
\* What is left on disk is preamble and aofLog.
Shutdown ==
    /\ ~down
    /\ down' = TRUE
    /\ UNCHANGED <<state, cpc, cur, sent, logChan, inHand, aofLog, preamble,
                   rpc, mutHolder, rewriting, written>>

\* A step A of the running process.
Step(A) == ~down /\ A /\ UNCHANGED down

Running ==
    Step(\/ \E c \in Clients : \/ \E w \in Commands : Execute(c, w)
                            \/ QueueCommand(c)
         \/ Receive
         \/ AppendWrite
         \/ \E r \in Rewriters : Rewrite(r))

Next == Running \/ Shutdown

Spec == Init /\ [][Next]_vars

\* A server that is not shut down: the writer goroutine loops for ever;
\* a blocked channel send proceeds once the channel has room; a started
\* rewrite runs to its end.
FairSpec ==
    /\ Init /\ [][Running]_vars
    /\ WF_vars(Step(Receive)) /\ WF_vars(Step(AppendWrite))
    /\ \A c \in Clients : WF_vars(Step(QueueCommand(c)))
    /\ \A r \in Rewriters :
        WF_vars(Step(LockRewrite(r) \/ CreatePreamble(r) \/ Truncate(r)))

(***************************************************************************)
(* Properties.                                                            *)
(***************************************************************************)
\* Nothing is on its way to the files: no handler result waits to be
\* queued, the channel and the writer are empty, no rewrite is running.
Quiescent ==
    /\ \A c \in Clients : cpc[c] = "idle"
    /\ logChan = <<>>
    /\ inHand = NoCommand
    /\ \A r \in Rewriters : rpc[r] \in {"idle", "done"}

\* Spec 8: AOF replay from preamble+log yields a keyspace equal to the
\* state before shutdown.  Checked whenever the engine is quiescent, the
\* moment a shutdown keeps everything (Restore replays Replay(...)).
Recoverable == Quiescent => Replay(preamble, aofLog) = state

\* Spec 8: AOF replay from preamble+log yields a keyspace equal to the
\* pre-shutdown state.  A command is acknowledged to its client only once
\* the dispatcher has queued it (spec 4.5: execute, queue, then reply), so
\* this is asked of a shutdown at which every executed command has been
\* queued: Restore must then rebuild the keyspace the handlers left,
\* whatever is still in logChan or in the writer goroutine's hand.
Durable ==
    (down /\ \A c \in Clients : cpc[c] = "idle") => Replay(preamble, aofLog) = state

\* Every command a handler executed is eventually appended to the log by
\* the writer goroutine (QueueCommand blocks rather than drops).
EventuallyLogged ==
    \A c \in Clients : \A n \in 1 .. MaxWrites :
        (sent[c] >= n) ~> (written[c] >= n)
=============================================================================
