------------------------------- MODULE Snapshot -------------------------------
(***************************************************************************)
(* The standalone snapshot gate.  TakeSnapshot (src/src/server/server.go) *)
(* refuses while SnapshotInProgress is set, else starts a goroutine that   *)
(* runs SnapshotEngine.TakeSnapshot and returns nil.  The engine (spec    *)
(* 4.7; its source is not among the repository files) calls the server's  *)
(* StartSnapshot, reads the clock, exports the state, calls               *)
(* SetLatestSnapshot(msec) and, deferred, FinishSnapshot.                 *)
(***************************************************************************)
EXTENDS Naturals, FiniteSets

CONSTANTS
    Callers,   \* TakeSnapshot calls (the SAVE command, the periodic ticker)
    MaxTime    \* clock bound, in milliseconds

VARIABLES
    inProgress,  \* server.SnapshotInProgress
    latest,      \* server.LatestSnapshotMilliseconds
    now,         \* the clock
    tpc,         \* caller -> "idle" | "go" | "export" | "finish" | "done" | "refused"
    msec         \* caller -> the time its engine run read

vars == <<inProgress, latest, now, tpc, msec>>

Init ==
    /\ inProgress = FALSE
    /\ latest = 0
    /\ now = 0
    /\ tpc = [t \in Callers |-> "idle"]
    /\ msec = [t \in Callers |-> 0]

\* TakeSnapshot: if SnapshotInProgress.Load() return the error, else
\* `go SnapshotEngine.TakeSnapshot()` and return nil.
TakeSnapshot(t) ==
    /\ tpc[t] = "idle"
    /\ tpc' = [tpc EXCEPT ![t] = IF inProgress THEN "refused" ELSE "go"]
    /\ UNCHANGED <<inProgress, latest, now, msec>>

\* The engine goroutine starts: StartSnapshot() stores true; the clock is read.
StartSnapshot(t) ==
    /\ tpc[t] = "go"
    /\ inProgress' = TRUE
    /\ msec' = [msec EXCEPT ![t] = now]
    /\ tpc' = [tpc EXCEPT ![t] = "export"]
    /\ UNCHANGED <<latest, now>>

\* The state is written to the snapshot file; SetLatestSnapshot(msec).
SetLatestSnapshot(t) ==
    /\ tpc[t] = "export"
    /\ latest' = msec[t]
    /\ tpc' = [tpc EXCEPT ![t] = "finish"]
    /\ UNCHANGED <<inProgress, now, msec>>

\* The deferred FinishSnapshot() stores false.
FinishSnapshot(t) ==
    /\ tpc[t] = "finish"
    /\ inProgress' = FALSE
    /\ tpc' = [tpc EXCEPT ![t] = "done"]
    /\ UNCHANGED <<latest, now, msec>>

Tick ==
    /\ now < MaxTime
    /\ now' = now + 1
    /\ UNCHANGED <<inProgress, latest, tpc, msec>>

Next ==
    \/ Tick
    \/ \E t \in Callers :
        TakeSnapshot(t) \/ StartSnapshot(t) \/ SetLatestSnapshot(t) \/ FinishSnapshot(t)

Spec == Init /\ [][Next]_vars

TypeOK ==
    /\ inProgress \in BOOLEAN
    /\ latest \in 0 .. MaxTime /\ now \in 0 .. MaxTime
    /\ tpc \in [Callers -> {"idle", "go", "export", "finish", "done", "refused"}]
    /\ msec \in [Callers -> 0 .. MaxTime]

\* Spec 4.7 and 5: the atomic gate snapshot_in_progress prevents
\* overlapping snapshots.  At most one engine run is between its
\* StartSnapshot and its FinishSnapshot.
NoOverlap == Cardinality({t \in Callers : tpc[t] \in {"export", "finish"}}) <= 1
=============================================================================
