------------------------------ MODULE Session ------------------------------
(***************************************************************************)
(* How a download ends: the read loops hand the last pieces to the disk    *)
(* manager and start Complete, which stops the writer and closes doneChan; *)
(* the monitor goroutine of InitiateDownloadSequence then calls Complete   *)
(* again; a user may call Cancel; and main returns when WaitForCompletion  *)
(* sees every piece verified, which ends the process.                      *)
(*                                                                         *)
(* Download has the rest of the read loops.  Here a reader verifies any    *)
(* piece that is not verified yet, one at a time and each piece once.      *)
(***************************************************************************)
EXTENDS DiskManager

CONSTANTS
  Readers,     \* the goroutines running PeerReadLoop
  MayCancel,   \* Cancel may be called
  OthersRun    \* another torrent keeps WaitForCompletion, and main, waiting

ASSUME SessionAssumption ==
  /\ MayCancel \in BOOLEAN
  /\ OthersRun \in BOOLEAN
  /\ IsFiniteSet(Readers)
  /\ {"monitor", "user"} \cap Readers = {}

VARIABLES
  verified,      \* the verified pieces of the PieceManager
  reader,        \* per reader, its place and its piece
  completer,     \* the goroutines that run Complete or Cancel
  cancelled,     \* ctx is done
  doneSignaled,  \* doneChan is closed
  doneErr,       \* it was closed by Cancel
  process        \* the process runs, has returned from main, or has panicked

sessionVars == <<verified, reader, completer, cancelled, doneSignaled, doneErr, process>>
vars == <<diskVars, sessionVars>>

-----------------------------------------------------------------------------
ReaderState == [pc : {"read", "add", "send", "check", "dead"}, piece : Piece]
ReaderAt(loc, i) == [pc |-> loc, piece |-> i]

(* A reader starts at most one Complete; the monitor runs one, and the     *)
(* user's is a Cancel, which takes the same steps.                         *)
Completers == Readers \cup {"monitor", "user"}

CompleterPlace == {"none", "cancel", "test", "close", "wait", "signal", "done"}

IsComplete == verified = Piece

Init ==
  /\ DiskInit
  /\ verified = {}
  /\ reader = [r \in Readers |-> ReaderAt("read", 0)]
  /\ completer = [c \in Completers |-> "none"]
  /\ cancelled = FALSE
  /\ doneSignaled = FALSE
  /\ doneErr = FALSE
  /\ process = "runs"

-----------------------------------------------------------------------------
(* PeerReadLoop from the successful VerifyPiece on.                        *)

ReaderStep(r, from, to) ==
  /\ reader[r].pc = from
  /\ reader' = [reader EXCEPT ![r] = to]
  /\ UNCHANGED <<cancelled, doneSignaled, doneErr, process>>

VerifyPiece(r, i) ==
  /\ i \notin verified
  /\ ReaderStep(r, "read", ReaderAt("add", i))
  /\ verified' = verified \cup {i}
  /\ UNCHANGED <<diskVars, completer>>

AddWrite(r) ==
  /\ ReaderStep(r, "add", ReaderAt("send", reader[r].piece))
  /\ CountWrite
  /\ UNCHANGED <<writeQueue, writeWorkerDone, workerRunning, worker, written, failed>>
  /\ UNCHANGED <<verified, completer>>

QueueWrite(r) ==
  /\ ReaderStep(r, "send", ReaderAt("check", reader[r].piece))
  /\ SendWrite(reader[r].piece)
  /\ UNCHANGED <<writeWorkerDone, wg, workerRunning, worker, written, failed>>
  /\ UNCHANGED <<verified, completer>>

CheckLast(r) ==
  /\ ReaderStep(r, "check", ReaderAt("read", 0))
  /\ completer' = IF IsComplete THEN [completer EXCEPT ![r] = "cancel"] ELSE completer
  /\ UNCHANGED <<diskVars, verified>>

(* A read fails; a reader looks at ctx only then.                          *)
ReadFails(r) ==
  /\ ReaderStep(r, "read", ReaderAt("dead", 0))
  /\ UNCHANGED <<diskVars, verified, completer>>

-----------------------------------------------------------------------------
(* Complete and Cancel.                                                    *)

CompleterStep(c, from, to) ==
  /\ completer[c] = from
  /\ completer' = [completer EXCEPT ![c] = to]
  /\ UNCHANGED <<verified, reader>>

StopPeerLoops(c) ==
  /\ CompleterStep(c, "cancel", "test")
  /\ cancelled' = TRUE
  /\ UNCHANGED <<diskVars, doneSignaled, doneErr, process>>

(* StopWriteWorker looks at workerRunning under workerMu and releases it.  *)
TestRunning(c) ==
  /\ CompleterStep(c, "test", IF workerRunning THEN "close" ELSE "signal")
  /\ UNCHANGED <<diskVars, cancelled, doneSignaled, doneErr, process>>

(* close(dm.writeWorkerDone), which panics on a closed channel.            *)
CloseDone(c) ==
  /\ CompleterStep(c, "close", "wait")
  /\ process' = IF writeWorkerDone THEN "panicked" ELSE process
  /\ writeWorkerDone' = TRUE
  /\ UNCHANGED <<writeQueue, wg, workerRunning, worker, written, failed>>
  /\ UNCHANGED <<cancelled, doneSignaled, doneErr>>

(* Faulty variant: wg.Wait() is missing.                                   *)
SkipWait(c) ==
  /\ CompleterStep(c, "wait", "signal")
  /\ UNCHANGED <<diskVars, cancelled, doneSignaled, doneErr, process>>

WaitForWrites(c) ==
  /\ AllSettled
  /\ CompleterStep(c, "wait", "signal")
  /\ UNCHANGED <<diskVars, cancelled, doneSignaled, doneErr, process>>

signalDone(c) ==
  /\ CompleterStep(c, "signal", "done")
  /\ doneErr' = IF doneSignaled THEN doneErr ELSE c = "user"
  /\ doneSignaled' = TRUE
  /\ UNCHANGED <<diskVars, cancelled, process>>

(* The monitor goroutine, once doneChan is closed: a cancelled session is  *)
(* left alone, any other one is completed again.                           *)
Monitor ==
  /\ doneSignaled
  /\ CompleterStep("monitor", "none", IF doneErr THEN "done" ELSE "cancel")
  /\ UNCHANGED <<diskVars, cancelled, doneSignaled, doneErr, process>>

Cancel ==
  /\ MayCancel
  /\ CompleterStep("user", "none", "cancel")
  /\ UNCHANGED <<diskVars, cancelled, doneSignaled, doneErr, process>>

(* WaitForCompletion returns, and main after it: the process ends.         *)
WaitForCompletion ==
  /\ IsComplete
  /\ ~OthersRun
  /\ process' = "returned"
  /\ UNCHANGED <<diskVars, verified, reader, completer, cancelled, doneSignaled, doneErr>>

-----------------------------------------------------------------------------
ReaderActs(r) ==
  \/ AddWrite(r) \/ QueueWrite(r) \/ CheckLast(r) \/ \E i \in Piece : VerifyPiece(r, i)

CompleterActs(c) ==
  \/ StopPeerLoops(c) \/ TestRunning(c) \/ CloseDone(c) \/ WaitForWrites(c) \/ signalDone(c)

WorkerActs == writeWorker /\ UNCHANGED sessionVars

(* Everything stopped: the readers are dead, no Complete is under way and  *)
(* the worker is gone.                                                     *)
AtRest ==
  /\ \A r \in Readers : reader[r].pc = "dead"
  /\ \A c \in Completers : completer[c] \in {"none", "done"}
  /\ worker.pc \in {"select", "off"}
  /\ UNCHANGED vars

Next ==
  \/ /\ process = "runs"
     /\ \/ \E r \in Readers : ReaderActs(r) \/ ReadFails(r)
        \/ \E c \in Completers : CompleterActs(c)
        \/ WorkerActs
        \/ Monitor
        \/ Cancel
        \/ WaitForCompletion
        \/ AtRest
  \/ /\ process # "runs"
     /\ UNCHANGED vars

Spec == Init /\ [][Next]_vars

Running(A) == process = "runs" /\ A

(* Goroutines keep running, and the peers keep sending what is missing.    *)
Fairness ==
  /\ \A r \in Readers : WF_vars(Running(ReaderActs(r)))
  /\ \A c \in Completers : WF_vars(Running(CompleterActs(c)))
  /\ WF_vars(Running(WorkerActs))
  /\ WF_vars(Running(Monitor))

(* No connection fails: reads end only once the session was stopped.       *)
HealthySpec ==
  Init /\ [][Next /\ \A r \in Readers : reader'[r].pc = "dead" => cancelled]_vars /\ Fairness


-----------------------------------------------------------------------------
(* Type correctness: in particular the channel never holds more than       *)
(* DiskWriteQueueSize pieces, and wg, which panics below zero, never is.   *)
TypeOK ==
  /\ DiskTypeOK
  /\ verified \subseteq Piece
  /\ reader \in [Readers -> ReaderState]
  /\ completer \in [Completers -> CompleterPlace]
  /\ cancelled \in BOOLEAN
  /\ doneSignaled \in BOOLEAN
  /\ doneErr \in BOOLEAN
  /\ process \in {"runs", "returned", "panicked"}

Sending == {r \in Readers : reader[r].pc = "send"}

(* The WaitGroup counts exactly the pieces on their way: those of readers  *)
(* that have not sent yet, those in the queue, and the one being written.  *)
(* So wg.Wait() of StopWriteWorker returns only when none of these is left *)
(* (disk.go:165, 176, 183, 349).                                           *)
WgCounts == wg = Cardinality(Sending) + Len(writeQueue) + Cardinality(InHand)

(* The bytes of a verified piece, which its reader drops from memory, are  *)
(* always somewhere: with the reader, in the queue, in the worker's hands, *)
(* or written, unless the write failed.  Stopping the writer, at whatever  *)
(* moment, takes nothing out of the queue unwritten (disk.go:156-176).     *)
NothingDropped ==
  \A i \in verified :
    \/ \E r \in Readers : reader[r].pc \in {"add", "send"} /\ reader[r].piece = i
    \/ \E k \in 1..Len(writeQueue) : writeQueue[k] = i
    \/ i \in InHand \cup Settled

(* With one reader: what Storage promises.  A piece is handed over when    *)
(* wg.Add has counted it; completion is signalled, by Complete, only when  *)
(* no write is left (disk.go:349, manager.go:797-802).                     *)
Handed == {i \in verified : \A r \in Readers : reader[r] # ReaderAt("add", i)}

Abstract == INSTANCE Storage WITH Items <- Piece, handed <- Handed,
                                  settled <- Settled, signalled <- doneSignaled

ImplementsStorage == Abstract!Spec

(* With one healthy peer: every piece is written, or its error logged, and *)
(* the session is signalled as done, although the writer is told to stop   *)
(* while it works and its queue may be full (disk.go:156-176, 182-188).    *)
EndsWritten == <>[](Settled = Piece /\ doneSignaled)

-----------------------------------------------------------------------------
(* What the comments of the code say, and the code refutes.                *)

(* disk.go:342: a second StopWriteWorker finds the worker "Already         *)
(* stopped" and returns.                                                   *)
StopsOnce == process # "panicked"

(* disk.go:336: "StopWriteWorker stops the background write worker and     *)
(* waits for pending writes".                                              *)
DoneIsWritten == doneSignaled => Settled = Piece

(* manager.go:137: a session "will acquire missing pieces, write them to   *)
(* disk"; main returns, and ends the process, when it has.                 *)
ReturnsWritten == process = "returned" => Settled = Piece

=============================================================================
