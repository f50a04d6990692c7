---------------------------- MODULE DiskManager ----------------------------
(***************************************************************************)
(* The asynchronous writer of internal/daemon/disk.go: a bounded channel   *)
(* of write requests, the worker goroutine that drains it, the WaitGroup   *)
(* that counts what is not yet written, and the channel that stops the     *)
(* worker.                                                                 *)
(*                                                                         *)
(* The module has the steps of the worker, and the parts of QueueWrite,    *)
(* StartWriteWorker and StopWriteWorker that are atomic; Session says      *)
(* which goroutines take them.  What a write puts where is in Layout.      *)
(***************************************************************************)
EXTENDS Integers, Sequences, FiniteSets

CONSTANTS
  TotalPieces,         \* number of pieces of the torrent
  DiskWriteQueueSize,  \* capacity of writeQueue
  DiskMayFail          \* WritePiece may return an error

ASSUME DiskManagerAssumption ==
  /\ TotalPieces \in Nat \ {0}
  /\ DiskWriteQueueSize \in Nat \ {0}
  /\ DiskMayFail \in BOOLEAN

VARIABLES
  writeQueue,       \* the pieces in the channel, oldest first
  writeWorkerDone,  \* the stop channel is closed
  wg,               \* the counter of the WaitGroup
  workerRunning,    \* the flag that workerMu guards
  worker,           \* the place of the worker, and the piece it writes
  written,          \* pieces whose WritePiece succeeded
  failed            \* pieces whose WritePiece failed, which is only logged

diskVars == <<writeQueue, writeWorkerDone, wg, workerRunning, worker, written, failed>>

-----------------------------------------------------------------------------
Piece == 0..TotalPieces - 1

(* "select" is the outer select, "drain" the inner one after the stop      *)
(* signal; "write" and "flush" write the piece received there.  "exit" is  *)
(* the deferred function, "off" the end of the goroutine.                  *)
WorkerState == [pc : {"select", "write", "drain", "flush", "exit", "off"}, piece : Piece]

WorkerAt(loc, i) == [pc |-> loc, piece |-> i]

(* After StartWriteWorker, which InitiateDownloadSequence calls first.     *)
DiskInit ==
  /\ writeQueue = <<>>
  /\ writeWorkerDone = FALSE
  /\ wg = 0
  /\ workerRunning = TRUE
  /\ worker = WorkerAt("select", 0)
  /\ written = {}
  /\ failed = {}

-----------------------------------------------------------------------------
(* Faulty variant: the piece received while draining is not written.       *)
ReceiveAndDrop(from, to) ==
  /\ worker.pc = from
  /\ writeQueue # <<>>
  /\ worker' = WorkerAt(IF from = "drain" THEN "drain" ELSE to,
                        IF from = "drain" THEN 0 ELSE Head(writeQueue))
  /\ writeQueue' = Tail(writeQueue)
  /\ wg' = IF from = "drain" THEN wg - 1 ELSE wg
  /\ UNCHANGED <<writeWorkerDone, workerRunning, written, failed>>

(* A receive from writeQueue, in either select.                            *)
Receive(from, to) ==
  /\ worker.pc = from
  /\ writeQueue # <<>>
  /\ worker' = WorkerAt(to, Head(writeQueue))
  /\ writeQueue' = Tail(writeQueue)
  /\ UNCHANGED <<writeWorkerDone, wg, workerRunning, written, failed>>

(* Faulty variant: wg.Done() only after a write that succeeded.            *)
WriteUncounted(from, to) ==
  /\ worker.pc = from
  /\ \/ written' = written \cup {worker.piece} /\ wg' = wg - 1 /\ UNCHANGED failed
     \/ DiskMayFail /\ failed' = failed \cup {worker.piece} /\ UNCHANGED <<written, wg>>
  /\ worker' = WorkerAt(to, 0)
  /\ UNCHANGED <<writeQueue, writeWorkerDone, workerRunning>>

(* WritePiece, whatever it returns, and wg.Done().                         *)
Write(from, to) ==
  /\ worker.pc = from
  /\ \/ written' = written \cup {worker.piece} /\ UNCHANGED failed
     \/ DiskMayFail /\ failed' = failed \cup {worker.piece} /\ UNCHANGED written
  /\ wg' = wg - 1
  /\ worker' = WorkerAt(to, 0)
  /\ UNCHANGED <<writeQueue, writeWorkerDone, workerRunning>>

(* The outer select takes the stop signal; when a piece is queued as well, *)
(* Go picks either case.                                                   *)
SeeStop ==
  /\ worker.pc = "select"
  /\ writeWorkerDone
  /\ worker' = WorkerAt("drain", 0)
  /\ UNCHANGED <<writeQueue, writeWorkerDone, wg, workerRunning, written, failed>>

(* Faulty variant: the worker stops at the signal and leaves the queue.    *)
StopAtOnce ==
  /\ worker.pc = "drain"
  /\ worker' = WorkerAt("exit", 0)
  /\ UNCHANGED <<writeQueue, writeWorkerDone, wg, workerRunning, written, failed>>

(* The inner select finds the queue empty.                                 *)
StopWhenEmpty ==
  /\ worker.pc = "drain"
  /\ writeQueue = <<>>
  /\ worker' = WorkerAt("exit", 0)
  /\ UNCHANGED <<writeQueue, writeWorkerDone, wg, workerRunning, written, failed>>

ExitWorker ==
  /\ worker.pc = "exit"
  /\ workerRunning' = FALSE
  /\ worker' = WorkerAt("off", 0)
  /\ UNCHANGED <<writeQueue, writeWorkerDone, wg, written, failed>>

writeWorker ==
  \/ Receive("select", "write") \/ Write("write", "select")
  \/ Receive("drain", "flush") \/ Write("flush", "drain")
  \/ SeeStop \/ StopWhenEmpty \/ ExitWorker

-----------------------------------------------------------------------------
(* QueueWrite: wg.Add(1), then a send that blocks while the queue is full. *)
CountWrite == wg' = wg + 1

(* Faulty variant: the send does not wait for room.                        *)
SendWriteUnbounded(i) == writeQueue' = Append(writeQueue, i)

SendWrite(i) ==
  /\ Len(writeQueue) < DiskWriteQueueSize
  /\ writeQueue' = Append(writeQueue, i)

(* wg.Wait() returns.                                                      *)
AllSettled == wg = 0

-----------------------------------------------------------------------------
(* What the worker is writing.                                             *)
InHand == IF worker.pc \in {"write", "flush"} THEN {worker.piece} ELSE {}

Settled == written \cup failed

DiskTypeOK ==
  /\ writeQueue \in Seq(Piece)
  /\ Len(writeQueue) <= DiskWriteQueueSize
  /\ writeWorkerDone \in BOOLEAN
  /\ wg \in Nat
  /\ workerRunning \in BOOLEAN
  /\ worker \in WorkerState
  /\ written \subseteq Piece
  /\ failed \subseteq Piece

=============================================================================
