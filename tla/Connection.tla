------------------------------ MODULE Connection ------------------------------
(***************************************************************************)
(* handleConnection of src/src/server/server.go: the goroutine that serves *)
(* one client.  It reads a message, runs handleCommand, and writes the     *)
(* reply: nothing for an empty reply, one Write for a reply of at most     *)
(* chunkSize bytes, and otherwise a loop of chunkSize-byte Writes that     *)
(* stops at the first short write.                                        *)
(*                                                                         *)
(* A byte is the pair <<m, i>>, byte i of the reply to message m, or the  *)
(* triple <<m, "err", i>>, byte i of the "-Error <err>\r\n" line written  *)
(* for it; the wire shows which reply every byte belongs to.  The error   *)
(* line embeds the error text (a key name, say), so it has any length.   *)
(* A net.Conn Write returns n < len only with an error; such an error     *)
(* breaks the connection, and a broken connection writes nothing more.    *)
(***************************************************************************)
EXTENDS Naturals, Sequences, SequencesExt

CONSTANTS
    ChunkSize,   \* chunkSize (1024 in the code)
    ReplyLens,   \* lengths of the replies handleCommand may return
    ErrorLens,   \* lengths of the "-Error ..." lines it may cause
    MaxMsgs      \* messages the client sends (bound)

ASSUME /\ ChunkSize \in Nat \ {0} /\ MaxMsgs \in Nat
       /\ ReplyLens \subseteq Nat /\ ErrorLens \subseteq Nat \ {0}

VARIABLES
    pc,          \* "read", "chunk" (inside the chunk loop) or "closed"
    res,         \* the reply being written
    startIndex,  \* startIndex of the chunk loop, 0-based as in the code
    msgs,        \* messages read so far
    expected,    \* every reply handleCommand produced, concatenated
    wire,        \* the bytes the client has received
    broken       \* a Write has failed

vars == <<pc, res, startIndex, msgs, expected, wire, broken>>

Reply(m, len) == [i \in 1 .. len |-> <<m, i>>]

ErrorReply(m, len) == [i \in 1 .. len |-> <<m, "err", i>>]

\* The n a Write of buf may return: all of it on a healthy connection, or
\* a shorter prefix when the connection fails during the call.
WriteResults(buf) ==
    IF broken THEN {0} ELSE 0 .. Len(buf)

\* One w.Write(buf) that returned n.
Written(buf, n) ==
    /\ wire' = wire \o SubSeq(buf, 1, n)
    /\ broken' = (broken \/ n < Len(buf))

Init ==
    /\ pc = "read"
    /\ res = <<>>
    /\ startIndex = 0
    /\ msgs = 0
    /\ expected = <<>>
    /\ wire = <<>>
    /\ broken = FALSE

\* utils.ReadMessage fails (io.EOF or another error): break, conn.Close().
ReadFails ==
    /\ pc = "read"
    /\ pc' = "closed"
    /\ UNCHANGED <<res, startIndex, msgs, expected, wire, broken>>

\* handleCommand returns io.EOF: break, conn.Close().
CommandEOF ==
    /\ pc = "read"
    /\ msgs < MaxMsgs
    /\ msgs' = msgs + 1
    /\ pc' = "closed"
    /\ UNCHANGED <<res, startIndex, expected, wire, broken>>

\* handleCommand returns another error: write "-Error ...", continue.
CommandError ==
    /\ pc = "read"
    /\ msgs < MaxMsgs
    /\ msgs' = msgs + 1
    /\ \E len \in ErrorLens :
        LET e == ErrorReply(msgs + 1, len) IN
        /\ expected' = expected \o e
        /\ \E n \in WriteResults(e) : Written(e, n)
    /\ UNCHANGED <<pc, res, startIndex>>

\* handleCommand returns a reply: none is written when it is empty, one
\* Write sends a reply of at most chunkSize bytes, else the chunk loop.
CommandReply ==
    /\ pc = "read"
    /\ msgs < MaxMsgs
    /\ \E len \in ReplyLens :
        LET r == Reply(msgs + 1, len) IN
        /\ msgs' = msgs + 1
        /\ expected' = expected \o r
        /\ IF len = 0
           THEN UNCHANGED <<pc, res, startIndex, wire, broken>>
           ELSE IF len <= ChunkSize
           THEN /\ \E n \in WriteResults(r) : Written(r, n)
                /\ UNCHANGED <<pc, res, startIndex>>
           ELSE /\ pc' = "chunk"
                /\ res' = r
                /\ startIndex' = 0
                /\ UNCHANGED <<wire, broken>>

\* Mutants of ChunkStep: the short-write test "n <= chunkSize", the last
\* chunk taken when "len(res)-1-startIndex <= chunkSize", and an advance
\* one past the chunk.
ChunkStepStopsOnFull ==
    /\ pc = "chunk"
    /\ IF Len(res) - 1 - startIndex < ChunkSize
       THEN LET rest == SubSeq(res, startIndex + 1, Len(res)) IN
            /\ \E n \in WriteResults(rest) : Written(rest, n)
            /\ pc' = "read" /\ UNCHANGED startIndex
       ELSE LET chunk == SubSeq(res, startIndex + 1, startIndex + ChunkSize) IN
            \E n \in WriteResults(chunk) :
            /\ Written(chunk, n)
            /\ IF n <= ChunkSize
               THEN pc' = "read" /\ UNCHANGED startIndex
               ELSE startIndex' = startIndex + ChunkSize /\ UNCHANGED pc
    /\ UNCHANGED <<res, msgs, expected>>

ChunkStepLongRest ==
    /\ pc = "chunk"
    /\ IF Len(res) - 1 - startIndex <= ChunkSize
       THEN LET rest == SubSeq(res, startIndex + 1, Len(res)) IN
            /\ \E n \in WriteResults(rest) : Written(rest, n)
            /\ pc' = "read" /\ UNCHANGED startIndex
       ELSE LET chunk == SubSeq(res, startIndex + 1, startIndex + ChunkSize) IN
            \E n \in WriteResults(chunk) :
            /\ Written(chunk, n)
            /\ IF n < ChunkSize
               THEN pc' = "read" /\ UNCHANGED startIndex
               ELSE startIndex' = startIndex + ChunkSize /\ UNCHANGED pc
    /\ UNCHANGED <<res, msgs, expected>>

ChunkStepOverrun ==
    /\ pc = "chunk"
    /\ IF Len(res) - 1 - startIndex < ChunkSize
       THEN LET rest == SubSeq(res, startIndex + 1, Len(res)) IN
            /\ \E n \in WriteResults(rest) : Written(rest, n)
            /\ pc' = "read" /\ UNCHANGED startIndex
       ELSE LET chunk == SubSeq(res, startIndex + 1, startIndex + ChunkSize) IN
            \E n \in WriteResults(chunk) :
            /\ Written(chunk, n)
            /\ IF n < ChunkSize
               THEN pc' = "read" /\ UNCHANGED startIndex
               ELSE startIndex' = startIndex + ChunkSize + 1 /\ UNCHANGED pc
    /\ UNCHANGED <<res, msgs, expected>>

\* One pass of the chunk loop.  Fewer than chunkSize bytes left after
\* startIndex (len(res)-1-startIndex < chunkSize): write the rest and
\* stop.  Else write chunkSize bytes; stop on a short write, else advance.
ChunkStep ==
    /\ pc = "chunk"
    /\ IF Len(res) - 1 - startIndex < ChunkSize
       THEN LET rest == SubSeq(res, startIndex + 1, Len(res)) IN
            /\ \E n \in WriteResults(rest) : Written(rest, n)
            /\ pc' = "read"
            /\ UNCHANGED startIndex
       ELSE LET chunk == SubSeq(res, startIndex + 1, startIndex + ChunkSize) IN
            \E n \in WriteResults(chunk) :
            /\ Written(chunk, n)
            /\ IF n < ChunkSize
               THEN pc' = "read" /\ UNCHANGED startIndex
               ELSE startIndex' = startIndex + ChunkSize /\ UNCHANGED pc
    /\ UNCHANGED <<res, msgs, expected>>

Next ==
    \/ ReadFails
    \/ CommandEOF
    \/ CommandError
    \/ CommandReply
    \/ ChunkStep

Spec == Init /\ [][Next]_vars

(***************************************************************************)
(* Properties.                                                            *)
(***************************************************************************)
MaxReplyLen == IF ReplyLens = {} THEN 0 ELSE CHOOSE l \in ReplyLens : \A o \in ReplyLens : o <= l

TypeOK ==
    /\ pc \in {"read", "chunk", "closed"}
    /\ msgs \in 0 .. MaxMsgs
    /\ startIndex \in 0 .. MaxReplyLen
    /\ pc = "chunk" => startIndex < Len(res)
    /\ broken \in BOOLEAN
    /\ IsPrefix(wire, expected)

\* Spec 6 (wire protocol): replies are framed RESP values and large
\* ones are chunked into chunkSize writes.  Whenever handleConnection goes
\* back to ReadMessage on a healthy connection, the client has received
\* every earlier reply whole and in order: the chunk loop neither drops,
\* repeats nor reorders bytes.
RepliesDelivered == pc = "read" /\ ~broken => wire = expected

\* Spec 6: large responses are chunked into chunkSize-byte writes.  No
\* Write of the chunk loop puts more than chunkSize bytes on the wire:
\* the loop's test len(res)-1-startIndex < chunkSize sends the last
\* chunk only when at most chunkSize bytes remain.  (The "-Error" line is
\* written unchunked, whatever its length.)
WritesChunked == [][pc = "chunk" => Len(wire') - Len(wire) <= ChunkSize]_vars
=============================================================================
