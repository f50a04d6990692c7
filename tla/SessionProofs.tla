--------------------------- MODULE SessionProofs ---------------------------
(***************************************************************************)
(* Theorems about Session, for every number of readers and pieces and for  *)
(* every capacity of the write queue.                                      *)
(***************************************************************************)
EXTENDS Session, SequenceTheorems, FiniteSetTheorems, TLAPS

-----------------------------------------------------------------------------
(* Counting.                                                               *)

(* The readers between wg.Add and the send are finitely many.              *)
LEMMA SendingFinite == IsFiniteSet(Sending) /\ Cardinality(Sending) \in Nat
<1>1. IsFiniteSet(Readers) /\ Sending \in SUBSET Readers
  BY SessionAssumption DEF Sending
<1>2. IsFiniteSet(Sending)
  BY <1>1, FS_Subset
<1> QED BY <1>2, FS_CardinalityType

(* The worker holds one piece, or none.                                    *)
LEMMA InHandCount ==
  Cardinality(InHand) = IF worker.pc \in {"write", "flush"} THEN 1 ELSE 0
BY FS_EmptySet, FS_Singleton DEF InHand

(* A step that moves no reader in or out of "send" keeps their number.     *)
LEMMA SendingKept ==
  ASSUME TypeOK, NEW r \in Readers, reader[r].pc # "send",
         NEW to \in ReaderState, to.pc # "send",
         reader' = [reader EXCEPT ![r] = to]
  PROVE  Sending' = Sending
BY DEF TypeOK, Sending

-----------------------------------------------------------------------------
(* The steps that touch neither the WaitGroup nor what it counts.          *)

CountVars == <<wg, writeQueue, worker, reader>>

(* They keep WgCounts.                                                     *)
LEMMA CountKept == WgCounts /\ UNCHANGED CountVars => WgCounts'
BY DEF WgCounts, CountVars, Sending, InHand

(* Piece 0 exists.                                                         *)
LEMMA ZeroIsPiece == 0 \in Piece
BY DiskManagerAssumption DEF Piece

-----------------------------------------------------------------------------
(* Type correctness and the count, which need each other: wg stays a       *)
(* natural number because a piece that is being written was counted.       *)

(* The initial states.                                                     *)
LEMMA InitCounts == Init => TypeOK /\ WgCounts
<1> SUFFICES ASSUME Init PROVE TypeOK /\ WgCounts
  OBVIOUS
<1>1. TypeOK
  <2>1. writeQueue \in Seq(Piece) /\ Len(writeQueue) = 0
    BY EmptySeq DEF Init, DiskInit
  <2>2. DiskTypeOK
    <3>1. writeQueue \in Seq(Piece) /\ Len(writeQueue) <= DiskWriteQueueSize
      BY <2>1, DiskManagerAssumption
    <3>2. worker \in WorkerState
      BY ZeroIsPiece DEF Init, DiskInit, WorkerState, WorkerAt
    <3>3. /\ wg = 0 /\ writeWorkerDone = FALSE /\ workerRunning = TRUE
          /\ written = {} /\ failed = {}
      BY DEF Init, DiskInit
    <3> QED BY <3>1, <3>2, <3>3 DEF DiskTypeOK
  <2>3. reader \in [Readers -> ReaderState]
    BY ZeroIsPiece DEF Init, ReaderState, ReaderAt
  <2>4. completer \in [Completers -> CompleterPlace]
    BY DEF Init, CompleterPlace
  <2> QED BY <2>2, <2>3, <2>4 DEF Init, TypeOK
<1>2. Sending = {} /\ Cardinality(Sending) = 0
  BY FS_EmptySet DEF Init, Sending, ReaderAt
<1>3. Cardinality(InHand) = 0 /\ Len(writeQueue) = 0 /\ wg = 0
  BY InHandCount DEF Init, DiskInit, WorkerAt
<1> QED BY <1>1, <1>2, <1>3 DEF WgCounts

(* The steps of a reader.                                                  *)
LEMMA ReaderCounts ==
  ASSUME TypeOK, WgCounts, NEW r \in Readers, ReaderActs(r) \/ ReadFails(r)
  PROVE  TypeOK' /\ WgCounts'
<1> USE ZeroIsPiece DEF ReaderState, ReaderAt
<1>0. reader[r] \in ReaderState /\ reader[r].piece \in Piece
  BY DEF TypeOK
<1>1. ASSUME NEW i \in Piece, VerifyPiece(r, i) PROVE TypeOK' /\ WgCounts'
  <2>1. Sending' = Sending
    BY <1>1, SendingKept DEF VerifyPiece, ReaderStep
  <2>2. WgCounts'
    BY <1>1, <2>1 DEF WgCounts, VerifyPiece, diskVars, InHand
  <2>3. TypeOK'
    BY <1>1 DEF TypeOK, DiskTypeOK, VerifyPiece, ReaderStep, diskVars
  <2> QED BY <2>2, <2>3
<1>2. ASSUME AddWrite(r) PROVE TypeOK' /\ WgCounts'
  <2>1. Sending' = Sending \cup {r} /\ r \notin Sending
    BY <1>0, <1>2 DEF TypeOK, Sending, AddWrite, ReaderStep
  <2>2. Cardinality(Sending') = Cardinality(Sending) + 1
    BY <2>1, SendingFinite, FS_AddElement
  <2>3. wg' = wg + 1 /\ wg \in Nat /\ Len(writeQueue) \in Nat
    BY <1>2, LenProperties DEF AddWrite, CountWrite, TypeOK, DiskTypeOK
  <2>4. InHand' = InHand /\ Cardinality(InHand) \in Nat
    BY <1>2, InHandCount DEF AddWrite, InHand
  <2>5. WgCounts'
    BY <1>2, <2>2, <2>3, <2>4, SendingFinite DEF WgCounts, AddWrite
  <2>6. TypeOK'
    BY <1>0, <1>2, <2>3 DEF TypeOK, DiskTypeOK, AddWrite, ReaderStep
  <2> QED BY <2>5, <2>6
<1>3. ASSUME QueueWrite(r) PROVE TypeOK' /\ WgCounts'
  <2>1. Sending' = Sending \ {r} /\ r \in Sending
    BY <1>0, <1>3 DEF TypeOK, Sending, QueueWrite, ReaderStep
  <2>2. Cardinality(Sending') = Cardinality(Sending) - 1
    BY <2>1, SendingFinite, FS_RemoveElement
  <2>3. /\ writeQueue' \in Seq(Piece)
        /\ Len(writeQueue') = Len(writeQueue) + 1
        /\ Len(writeQueue') <= DiskWriteQueueSize
    BY <1>0, <1>3, AppendProperties, DiskManagerAssumption
    DEF QueueWrite, SendWrite, TypeOK, DiskTypeOK
  <2>4. wg' = wg /\ wg \in Nat /\ Len(writeQueue) \in Nat
    BY <1>3, LenProperties DEF QueueWrite, TypeOK, DiskTypeOK
  <2>5. InHand' = InHand /\ Cardinality(InHand) \in Nat
    BY <1>3, InHandCount DEF QueueWrite, InHand
  <2>6. WgCounts'
    BY <2>2, <2>3, <2>4, <2>5, SendingFinite DEF WgCounts
  <2>7. TypeOK'
    BY <1>0, <1>3, <2>3 DEF TypeOK, DiskTypeOK, QueueWrite, ReaderStep
  <2> QED BY <2>6, <2>7
<1>4. ASSUME CheckLast(r) PROVE TypeOK' /\ WgCounts'
  <2>1. Sending' = Sending
    BY <1>4, SendingKept DEF CheckLast, ReaderStep
  <2>2. WgCounts'
    BY <1>4, <2>1 DEF WgCounts, CheckLast, diskVars, InHand
  <2>3. completer' \in [Completers -> CompleterPlace]
    BY <1>4 DEF CheckLast, TypeOK, CompleterPlace
  <2>4. TypeOK'
    BY <1>4, <2>3 DEF TypeOK, DiskTypeOK, CheckLast, ReaderStep, diskVars
  <2> QED BY <2>2, <2>4
<1>5. ASSUME ReadFails(r) PROVE TypeOK' /\ WgCounts'
  <2>1. Sending' = Sending
    BY <1>5, SendingKept DEF ReadFails, ReaderStep
  <2>2. WgCounts'
    BY <1>5, <2>1 DEF WgCounts, ReadFails, diskVars, InHand
  <2>3. TypeOK'
    BY <1>5 DEF TypeOK, DiskTypeOK, ReadFails, ReaderStep, diskVars
  <2> QED BY <2>2, <2>3
<1> QED BY <1>1, <1>2, <1>3, <1>4, <1>5 DEF ReaderActs

(* The steps of the worker.                                                *)
LEMMA WorkerCounts ==
  ASSUME TypeOK, WgCounts, WorkerActs
  PROVE  TypeOK' /\ WgCounts'
<1> USE ZeroIsPiece DEF WorkerState, WorkerAt
<1>0. /\ Sending' = Sending /\ Cardinality(Sending) \in Nat
      /\ wg \in Nat /\ Len(writeQueue) \in Nat /\ worker.piece \in Piece
  BY SendingFinite, LenProperties DEF WorkerActs, sessionVars, Sending, TypeOK, DiskTypeOK
<1>1. ASSUME NEW from \in {"select", "drain"}, NEW to \in {"write", "flush"},
             Receive(from, to)
      PROVE  TypeOK' /\ WgCounts'
  <2>1. /\ Head(writeQueue) \in Piece
        /\ writeQueue' \in Seq(Piece)
        /\ Len(writeQueue') = Len(writeQueue) - 1
    BY <1>1, HeadTailProperties DEF Receive, TypeOK, DiskTypeOK
  <2>2. Cardinality(InHand) = 0
    BY <1>1, InHandCount DEF Receive
  <2>3. Cardinality(InHand)' = 1
    <3>1. InHand' = {Head(writeQueue)}
      BY <1>1 DEF Receive, InHand
    <3> QED BY <3>1, FS_Singleton
  <2>4. WgCounts'
    BY <1>0, <1>1, <2>1, <2>2, <2>3 DEF WgCounts, Receive
  <2>5. TypeOK'
    BY <1>0, <1>1, <2>1, DiskManagerAssumption
    DEF TypeOK, DiskTypeOK, Receive, WorkerActs, sessionVars
  <2> QED BY <2>4, <2>5
<1>2. ASSUME NEW from \in {"write", "flush"}, NEW to \in {"select", "drain"},
             Write(from, to)
      PROVE  TypeOK' /\ WgCounts'
  <2>1. Cardinality(InHand) = 1
    BY <1>2, InHandCount DEF Write
  <2>2. Cardinality(InHand)' = 0
    <3>1. InHand' = {}
      BY <1>2 DEF Write, InHand
    <3> QED BY <3>1, FS_EmptySet
  <2>3. wg' = wg - 1 /\ wg' \in Nat
    BY <1>0, <1>2, <2>1 DEF WgCounts, Write
  <2>4. WgCounts'
    BY <1>0, <1>2, <2>1, <2>2, <2>3 DEF WgCounts, Write
  <2>5. TypeOK'
    <3>1. DiskTypeOK'
      BY <1>0, <1>2, <2>3 DEF TypeOK, DiskTypeOK, Write
    <3> QED BY <3>1 DEF TypeOK, WorkerActs, sessionVars
  <2> QED BY <2>4, <2>5
<1>3. ASSUME SeeStop \/ StopWhenEmpty \/ ExitWorker PROVE TypeOK' /\ WgCounts'
  <2>1. InHand' = InHand /\ Cardinality(InHand) = 0
    BY <1>3, InHandCount DEF SeeStop, StopWhenEmpty, ExitWorker, InHand
  <2>2. WgCounts'
    BY <1>0, <1>3, <2>1 DEF WgCounts, SeeStop, StopWhenEmpty, ExitWorker
  <2>3. TypeOK'
    <3>1. UNCHANGED <<writeQueue, writeWorkerDone, wg, written, failed>>
      BY <1>3 DEF SeeStop, StopWhenEmpty, ExitWorker
    <3>2. worker' \in WorkerState
      BY <1>3 DEF SeeStop, StopWhenEmpty, ExitWorker
    <3>3. workerRunning' \in BOOLEAN
      BY <1>3 DEF SeeStop, StopWhenEmpty, ExitWorker, TypeOK, DiskTypeOK
    <3>4. DiskTypeOK'
      BY <3>1, <3>2, <3>3 DEF TypeOK, DiskTypeOK
    <3> QED BY <3>4 DEF TypeOK, WorkerActs, sessionVars
  <2> QED BY <2>2, <2>3
<1> QED BY <1>1, <1>2, <1>3 DEF WorkerActs, writeWorker

(* The steps of Complete, Cancel, the monitor and main.                    *)
LEMMA OtherCounts ==
  ASSUME TypeOK, WgCounts,
         \/ \E c \in Completers : CompleterActs(c)
         \/ Monitor \/ Cancel \/ WaitForCompletion \/ UNCHANGED vars
  PROVE  TypeOK' /\ WgCounts'
<1>1. ASSUME NEW c \in Completers, CompleterActs(c) PROVE TypeOK' /\ WgCounts'
  <2>1. UNCHANGED CountVars
    BY <1>1 DEF CountVars, diskVars, CompleterActs, CompleterStep, StopPeerLoops,
                TestRunning, CloseDone, WaitForWrites, signalDone
  <2>2. UNCHANGED <<verified, workerRunning, written, failed>>
    BY <1>1 DEF diskVars, CompleterActs, CompleterStep, StopPeerLoops,
                TestRunning, CloseDone, WaitForWrites, signalDone
  <2>3. completer' \in [Completers -> CompleterPlace]
    BY <1>1 DEF TypeOK, CompleterActs, CompleterStep, CompleterPlace, StopPeerLoops,
                TestRunning, CloseDone, WaitForWrites, signalDone
  <2>4. /\ cancelled' \in BOOLEAN /\ doneSignaled' \in BOOLEAN /\ doneErr' \in BOOLEAN
        /\ writeWorkerDone' \in BOOLEAN
        /\ process' \in {"runs", "returned", "panicked"}
    BY <1>1 DEF TypeOK, DiskTypeOK, diskVars, CompleterActs, StopPeerLoops,
                TestRunning, CloseDone, WaitForWrites, signalDone
  <2>5. TypeOK'
    BY <2>1, <2>2, <2>3, <2>4 DEF TypeOK, DiskTypeOK, CountVars
  <2> QED BY <2>1, <2>5, CountKept
<1>2. ASSUME Monitor \/ Cancel PROVE TypeOK' /\ WgCounts'
  <2>1. completer' \in [Completers -> CompleterPlace]
    BY <1>2 DEF TypeOK, Monitor, Cancel, CompleterStep, CompleterPlace
  <2>2. TypeOK'
    BY <1>2, <2>1 DEF TypeOK, DiskTypeOK, Monitor, Cancel, CompleterStep, diskVars
  <2>3. UNCHANGED CountVars
    BY <1>2 DEF CountVars, Monitor, Cancel, CompleterStep, diskVars
  <2> QED BY <2>2, <2>3, CountKept
<1>3. ASSUME WaitForCompletion PROVE TypeOK' /\ WgCounts'
  <2>1. TypeOK'
    BY <1>3 DEF TypeOK, DiskTypeOK, WaitForCompletion, diskVars
  <2>2. UNCHANGED CountVars
    BY <1>3 DEF CountVars, WaitForCompletion, diskVars
  <2> QED BY <2>1, <2>2, CountKept
<1>4. ASSUME UNCHANGED vars PROVE TypeOK' /\ WgCounts'
  <2>1. TypeOK'
    BY <1>4 DEF TypeOK, DiskTypeOK, vars, diskVars, sessionVars
  <2>2. UNCHANGED CountVars
    BY <1>4 DEF CountVars, vars, diskVars, sessionVars
  <2> QED BY <2>1, <2>2, CountKept
<1> QED BY <1>1, <1>2, <1>3, <1>4

(* Every step is one of these.                                             *)
LEMMA StepCases ==
  ASSUME [Next]_vars
  PROVE  \/ \E r \in Readers : ReaderActs(r) \/ ReadFails(r)
         \/ WorkerActs
         \/ \/ \E c \in Completers : CompleterActs(c)
            \/ Monitor \/ Cancel \/ WaitForCompletion \/ UNCHANGED vars
BY DEF Next, AtRest

(* Type correctness: wg never goes below zero, where WaitGroup would       *)
(* panic, and the channel never holds more than it was made for.           *)
THEOREM TypeCorrect == Spec => []TypeOK
<1>1. TypeOK /\ WgCounts /\ [Next]_vars => TypeOK' /\ WgCounts'
  BY StepCases, ReaderCounts, WorkerCounts, OtherCounts
<1> QED BY <1>1, InitCounts, PTL DEF Spec

(* The WaitGroup counts exactly the pieces on their way to the disk.       *)
THEOREM WaitGroupCounts == Spec => []WgCounts
<1>1. TypeOK /\ WgCounts /\ [Next]_vars => TypeOK' /\ WgCounts'
  BY StepCases, ReaderCounts, WorkerCounts, OtherCounts
<1> QED BY <1>1, InitCounts, PTL DEF Spec

-----------------------------------------------------------------------------
(* What NothingDropped says of one piece.                                  *)
Kept(i) ==
  \/ \E r \in Readers : reader[r].pc \in {"add", "send"} /\ reader[r].piece = i
  \/ \E k \in 1..Len(writeQueue) : writeQueue[k] = i
  \/ i \in InHand \cup Settled

(* An element of the queue is its head, or an element of the rest.         *)
LEMMA TailElements ==
  ASSUME NEW S, NEW s \in Seq(S), s # <<>>, NEW k \in 1..Len(s)
  PROVE  s[k] = Head(s) \/ \E m \in 1..Len(Tail(s)) : Tail(s)[m] = s[k]
<1>1. CASE k = 1
  BY <1>1
<1>2. CASE k # 1
  <2>1. k - 1 \in 1..Len(Tail(s)) /\ Tail(s)[k - 1] = s[k]
    BY <1>2
  <2> QED BY <2>1
<1> QED BY <1>1, <1>2

(* An element of the queue is still there after an Append, and so is what  *)
(* was appended.                                                           *)
LEMMA AppendElements ==
  ASSUME NEW S, NEW s \in Seq(S), NEW e \in S
  PROVE  /\ \A k \in 1..Len(s) : \E m \in 1..Len(Append(s, e)) : Append(s, e)[m] = s[k]
         /\ \E m \in 1..Len(Append(s, e)) : Append(s, e)[m] = e
         /\ \A m \in 1..Len(Append(s, e)) :
              Append(s, e)[m] = e \/ \E k \in 1..Len(s) : s[k] = Append(s, e)[m]
OBVIOUS

(* A reader keeps the piece it has, or gives it to the queue.              *)
LEMMA ReaderKeeps ==
  ASSUME TypeOK, NEW r \in Readers, ReaderActs(r) \/ ReadFails(r),
         NEW i \in Piece, Kept(i)
  PROVE  Kept(i)'
<1> USE DEF ReaderAt
<1>0. reader \in [Readers -> ReaderState] /\ writeQueue \in Seq(Piece)
      /\ reader[r].piece \in Piece
  BY DEF TypeOK, DiskTypeOK, ReaderState
<1>1. (i \in InHand \cup Settled) = (i \in InHand \cup Settled)'
  BY DEF ReaderActs, VerifyPiece, AddWrite, QueueWrite, CheckLast, ReadFails,
         diskVars, InHand, Settled
<1>2. CASE i \in InHand \cup Settled
  BY <1>1, <1>2 DEF Kept
<1>3. CASE \E k \in 1..Len(writeQueue) : writeQueue[k] = i
  <2>1. CASE QueueWrite(r)
    <3>1. writeQueue' = Append(writeQueue, reader[r].piece)
      BY <2>1 DEF QueueWrite, SendWrite
    <3>2. \E m \in 1..Len(Append(writeQueue, reader[r].piece)) :
            Append(writeQueue, reader[r].piece)[m] = i
      BY <1>0, <1>3, AppendElements
    <3> QED BY <3>1, <3>2 DEF Kept
  <2>2. CASE ~QueueWrite(r)
    <3>1. writeQueue' = writeQueue
      BY <2>2 DEF ReaderActs, VerifyPiece, AddWrite, CheckLast, ReadFails, diskVars
    <3> QED BY <1>3, <3>1 DEF Kept
  <2> QED BY <2>1, <2>2
<1>4. ASSUME NEW q \in Readers, reader[q].pc \in {"add", "send"}, reader[q].piece = i
      PROVE  Kept(i)'
  <2>1. CASE q # r
    <3>1. reader'[q] = reader[q]
      BY <1>0, <2>1 DEF ReaderActs, VerifyPiece, AddWrite, QueueWrite, CheckLast,
                        ReadFails, ReaderStep
    <3> QED BY <1>4, <3>1 DEF Kept
  <2>2. CASE q = r /\ AddWrite(r)
    <3>1. reader'[q].pc = "send" /\ reader'[q].piece = i
      BY <1>0, <1>4, <2>2 DEF AddWrite, ReaderStep
    <3> QED BY <3>1 DEF Kept
  <2>3. CASE q = r /\ QueueWrite(r)
    <3>1. writeQueue' = Append(writeQueue, i)
      BY <1>4, <2>3 DEF QueueWrite, SendWrite
    <3>2. \E m \in 1..Len(Append(writeQueue, i)) : Append(writeQueue, i)[m] = i
      BY <1>0, AppendElements
    <3> QED BY <3>1, <3>2 DEF Kept
  <2>4. CASE q = r /\ ~AddWrite(r) /\ ~QueueWrite(r)
    BY <1>4, <2>4 DEF ReaderActs, VerifyPiece, CheckLast, ReadFails, ReaderStep
  <2> QED BY <2>1, <2>2, <2>3, <2>4
<1> QED BY <1>2, <1>3, <1>4 DEF Kept

(* The worker takes a piece in hand, and settles it.                       *)
LEMMA WorkerKeeps ==
  ASSUME TypeOK, WorkerActs, NEW i \in Piece, Kept(i)
  PROVE  Kept(i)'
<1>0. reader' = reader /\ writeQueue \in Seq(Piece)
  BY DEF WorkerActs, sessionVars, TypeOK, DiskTypeOK
<1>1. ASSUME NEW from \in {"select", "drain"}, NEW to \in {"write", "flush"},
             Receive(from, to)
      PROVE  Kept(i)'
  <2>1. InHand = {} /\ InHand' = {Head(writeQueue)} /\ Settled' = Settled
    BY <1>1 DEF Receive, InHand, WorkerAt, Settled
  <2>2. writeQueue # <<>> /\ writeQueue' = Tail(writeQueue)
    BY <1>1 DEF Receive
  <2>3. CASE \E k \in 1..Len(writeQueue) : writeQueue[k] = i
    BY <1>0, <2>1, <2>2, <2>3, TailElements DEF Kept
  <2> QED BY <1>0, <2>1, <2>3 DEF Kept
<1>2. ASSUME NEW from \in {"write", "flush"}, NEW to \in {"select", "drain"},
             Write(from, to)
      PROVE  Kept(i)'
  <2>1. writeQueue' = writeQueue /\ InHand \cup Settled \subseteq Settled'
    BY <1>2 DEF Write, InHand, Settled
  <2> QED BY <1>0, <2>1 DEF Kept
<1>3. ASSUME SeeStop \/ StopWhenEmpty \/ ExitWorker PROVE Kept(i)'
  <2>1. writeQueue' = writeQueue /\ InHand' = InHand /\ Settled' = Settled
    BY <1>3 DEF SeeStop, StopWhenEmpty, ExitWorker, WorkerAt, InHand, Settled
  <2> QED BY <1>0, <2>1 DEF Kept
<1> QED BY <1>1, <1>2, <1>3 DEF WorkerActs, writeWorker

(* The other goroutines touch no piece.                                    *)
LEMMA OthersTouchNothing ==
  ASSUME \/ \E c \in Completers : CompleterActs(c)
         \/ Monitor \/ Cancel \/ WaitForCompletion \/ UNCHANGED vars
  PROVE  UNCHANGED <<writeQueue, worker, wg, written, failed, reader, verified>>
BY DEF CompleterActs, CompleterStep, StopPeerLoops, TestRunning, CloseDone,
       WaitForWrites, signalDone, Monitor, Cancel, WaitForCompletion, vars,
       diskVars, sessionVars

(* Whatever the order in which the readers, Complete, Cancel and the       *)
(* monitor run, a verified piece is with its reader, in the queue, in the  *)
(* worker's hands, or settled.                                             *)
THEOREM VerifiedIsKept == Spec => []NothingDropped
<1>1. Init => NothingDropped
  BY DEF Init, NothingDropped
<1>2. TypeOK /\ NothingDropped /\ [Next]_vars => NothingDropped'
  <2> SUFFICES ASSUME TypeOK, NothingDropped, [Next]_vars,
                      NEW i \in verified'
               PROVE  Kept(i)'
    BY DEF NothingDropped, Kept
  <2>1. \A j \in verified : j \in Piece /\ Kept(j)
    BY DEF NothingDropped, Kept, TypeOK
  <2>2. ASSUME NEW r \in Readers, ReaderActs(r) \/ ReadFails(r) PROVE Kept(i)'
    <3>1. CASE i \in verified
      BY <2>1, <2>2, <3>1, ReaderKeeps
    <3>2. CASE i \notin verified
      <4>1. PICK j \in Piece : VerifyPiece(r, j)
        BY <2>2, <3>2 DEF ReaderActs, AddWrite, QueueWrite, CheckLast, ReadFails
      <4>3. j = i
        BY <3>2, <4>1 DEF VerifyPiece
      <4>2. reader'[r] = ReaderAt("add", i)
        BY <4>1, <4>3 DEF VerifyPiece, ReaderStep, TypeOK
      <4> QED BY <4>2 DEF Kept, ReaderAt
    <3> QED BY <3>1, <3>2
  <2>3. ASSUME WorkerActs PROVE Kept(i)'
    BY <2>1, <2>3, WorkerKeeps DEF WorkerActs, sessionVars
  <2>4. ASSUME \/ \E c \in Completers : CompleterActs(c)
               \/ Monitor \/ Cancel \/ WaitForCompletion \/ UNCHANGED vars
        PROVE  Kept(i)'
    BY <2>1, <2>4, OthersTouchNothing DEF Kept, InHand, Settled
  <2> QED BY <2>2, <2>3, <2>4, StepCases
<1> QED BY <1>1, <1>2, TypeCorrect, PTL DEF Spec

-----------------------------------------------------------------------------
(* One reader: how the end of the session is ordered.                      *)

(* The reader is not on its way from VerifyPiece to the check.             *)
Idle == \A r \in Readers : reader[r].pc \in {"read", "dead"}

(* Someone has begun to end the session.                                   *)
Ending == \/ writeWorkerDone \/ doneSignaled
          \/ \E c \in Completers : completer[c] # "none"

(* A piece on its way was verified and, from wg.Add on, handed over.       *)
OnTheWay ==
  /\ \A r \in Readers : reader[r].pc \in {"add", "send"} => reader[r].piece \in verified
  /\ \A k \in 1..Len(writeQueue) : writeQueue[k] \in Handed
  /\ InHand \subseteq Handed

(* The session ends only when nothing is left to verify or to send; a      *)
(* worker that ends was told to, and leaves an empty queue.                *)
EndsInOrder ==
  /\ completer["user"] = "none"
  /\ Ending => verified = Piece /\ Idle
  /\ worker.pc \in {"drain", "flush", "exit", "off"} => writeWorkerDone
  /\ worker.pc \in {"exit", "off"} => writeQueue = <<>>
  /\ ~workerRunning => worker.pc = "off"
  /\ \A c \in Completers : completer[c] = "signal" => Settled = Piece

SoloInv == TypeOK /\ WgCounts /\ NothingDropped /\ OnTheWay /\ EndsInOrder

(* The initial states.                                                     *)
LEMMA InitSolo == Init => OnTheWay /\ EndsInOrder
<1> SUFFICES ASSUME Init PROVE OnTheWay /\ EndsInOrder
  OBVIOUS
<1>1. OnTheWay
  BY DEF Init, DiskInit, OnTheWay, ReaderAt, InHand, WorkerAt
<1>2. "user" \in Completers /\ \A c \in Completers : completer[c] = "none"
  BY DEF Init, Completers
<1>3. ~Ending
  BY <1>2 DEF Init, DiskInit, Ending
<1>4. EndsInOrder
  BY <1>2, <1>3 DEF Init, DiskInit, EndsInOrder, WorkerAt
<1> QED BY <1>1, <1>4

(* A reader is at "add" with a piece when both of its fields say so.       *)
LEMMA AtAdd ==
  ASSUME NEW q \in ReaderState, NEW i \in Piece
  PROVE  q = ReaderAt("add", i) <=> q.pc = "add" /\ q.piece = i
BY DEF ReaderState, ReaderAt

(* What is handed over changes at AddWrite only.                           *)
LEMMA HandedSteps ==
  ASSUME NEW only, Readers = {only}, TypeOK, TypeOK', OnTheWay,
         ReaderActs(only) \/ ReadFails(only)
  PROVE  IF AddWrite(only)
         THEN reader[only].piece \in verified \ Handed
              /\ Handed' = Handed \cup {reader[only].piece}
         ELSE Handed' = Handed
<1> DEFINE i0 == reader[only].piece
<1>0. /\ reader \in [Readers -> ReaderState] /\ verified \subseteq Piece
      /\ reader'[only] \in ReaderState /\ verified' \subseteq Piece
      /\ reader[only] \in ReaderState
  BY DEF TypeOK
<1>1. Handed = IF reader[only].pc = "add" THEN verified \ {i0} ELSE verified
  BY <1>0, AtAdd DEF Handed
<1>2. Handed' = IF reader'[only].pc = "add" THEN verified' \ {reader'[only].piece}
                                            ELSE verified'
  BY <1>0, AtAdd DEF Handed
<1>3. ASSUME AddWrite(only) PROVE i0 \in verified \ Handed /\ Handed' = Handed \cup {i0}
  <2>1. reader[only].pc = "add" /\ reader'[only].pc = "send" /\ verified' = verified
    BY <1>0, <1>3 DEF AddWrite, ReaderStep, ReaderAt
  <2>2. i0 \in verified
    BY <2>1 DEF OnTheWay
  <2> QED BY <1>1, <1>2, <2>1, <2>2
<1>4. ASSUME NEW i \in Piece, VerifyPiece(only, i) PROVE ~AddWrite(only) /\ Handed' = Handed
  <2>1. /\ reader[only].pc = "read" /\ reader'[only].pc = "add" /\ reader'[only].piece = i
        /\ verified' = verified \cup {i} /\ i \notin verified
    BY <1>0, <1>4 DEF VerifyPiece, ReaderStep, ReaderAt
  <2> QED BY <1>1, <1>2, <2>1 DEF AddWrite, ReaderStep
<1>5. ASSUME QueueWrite(only) \/ CheckLast(only) \/ ReadFails(only)
      PROVE  ~AddWrite(only) /\ Handed' = Handed
  <2>1. /\ reader[only].pc \in {"send", "check", "read"} /\ reader'[only].pc # "add"
        /\ verified' = verified
    BY <1>0, <1>5 DEF QueueWrite, CheckLast, ReadFails, ReaderStep, ReaderAt
  <2> QED BY <1>1, <1>2, <2>1 DEF AddWrite, ReaderStep
<1> QED BY <1>3, <1>4, <1>5 DEF ReaderActs

(* The steps of the reader keep OnTheWay.                                  *)
LEMMA ReaderOnTheWay ==
  ASSUME NEW only, Readers = {only}, TypeOK, TypeOK', OnTheWay,
         ReaderActs(only) \/ ReadFails(only)
  PROVE  OnTheWay'
<1>0. /\ reader \in [Readers -> ReaderState] /\ reader[only].piece \in Piece
      /\ writeQueue \in Seq(Piece)
  BY DEF TypeOK, DiskTypeOK, ReaderState
<1>1. Handed \subseteq Handed'
  BY HandedSteps
<1>2. InHand' \subseteq Handed'
  <2>1. InHand' = InHand
    BY DEF ReaderActs, VerifyPiece, AddWrite, QueueWrite, CheckLast, ReadFails,
           diskVars, InHand
  <2> QED BY <1>1, <2>1 DEF OnTheWay
<1>3. reader'[only].pc \in {"add", "send"} => reader'[only].piece \in verified'
  BY <1>0 DEF ReaderActs, VerifyPiece, AddWrite, QueueWrite, CheckLast, ReadFails,
              ReaderStep, ReaderAt, OnTheWay
<1>4. \A k \in 1..Len(writeQueue') : writeQueue'[k] \in Handed'
  <2>1. CASE QueueWrite(only)
    <3>1. writeQueue' = Append(writeQueue, reader[only].piece)
      BY <2>1 DEF QueueWrite, SendWrite
    <3>2. reader[only].piece \in Handed
      BY <1>0, <2>1, AtAdd DEF QueueWrite, ReaderStep, OnTheWay, Handed, TypeOK, ReaderAt
    <3>3. \A m \in 1..Len(Append(writeQueue, reader[only].piece)) :
            \/ Append(writeQueue, reader[only].piece)[m] = reader[only].piece
            \/ \E k \in 1..Len(writeQueue) :
                 writeQueue[k] = Append(writeQueue, reader[only].piece)[m]
      BY <1>0, AppendElements
    <3>4. \A k \in 1..Len(writeQueue) : writeQueue[k] \in Handed'
      BY <1>1 DEF OnTheWay
    <3>5. reader[only].piece \in Handed'
      BY <1>1, <3>2
    <3> QED BY <3>1, <3>3, <3>4, <3>5
  <2>2. CASE ~QueueWrite(only)
    <3>1. writeQueue' = writeQueue
      BY <2>2 DEF ReaderActs, VerifyPiece, AddWrite, CheckLast, ReadFails, diskVars
    <3> QED BY <1>1, <3>1 DEF OnTheWay
  <2> QED BY <2>1, <2>2
<1> QED BY <1>2, <1>3, <1>4 DEF OnTheWay

(* The steps of the worker keep OnTheWay.                                  *)
LEMMA WorkerOnTheWay ==
  ASSUME TypeOK, OnTheWay, WorkerActs
  PROVE  OnTheWay'
<1>0. /\ reader' = reader /\ verified' = verified /\ Handed' = Handed
      /\ writeQueue \in Seq(Piece)
  BY DEF WorkerActs, sessionVars, Handed, TypeOK, DiskTypeOK
<1>1. ASSUME NEW from \in {"select", "drain"}, NEW to \in {"write", "flush"},
             Receive(from, to)
      PROVE  OnTheWay'
  <2>1. /\ InHand' = {Head(writeQueue)} /\ writeQueue # <<>>
        /\ writeQueue' = Tail(writeQueue)
    BY <1>1 DEF Receive, InHand, WorkerAt
  <2>2. Head(writeQueue) \in Handed
    BY <1>0, <2>1 DEF OnTheWay
  <2>3. \A m \in 1..Len(Tail(writeQueue)) : Tail(writeQueue)[m] \in Handed
    BY <1>0, <2>1 DEF OnTheWay
  <2> QED BY <1>0, <2>1, <2>2, <2>3 DEF OnTheWay
<1>2. ASSUME NEW from \in {"write", "flush"}, NEW to \in {"select", "drain"},
             Write(from, to)
      PROVE  OnTheWay'
  <2>1. InHand' = {} /\ writeQueue' = writeQueue
    BY <1>2 DEF Write, InHand, WorkerAt
  <2> QED BY <1>0, <2>1 DEF OnTheWay
<1>3. ASSUME SeeStop \/ StopWhenEmpty \/ ExitWorker PROVE OnTheWay'
  <2>1. InHand' = InHand /\ writeQueue' = writeQueue
    BY <1>3 DEF SeeStop, StopWhenEmpty, ExitWorker, WorkerAt, InHand
  <2> QED BY <1>0, <2>1 DEF OnTheWay
<1> QED BY <1>1, <1>2, <1>3 DEF WorkerActs, writeWorker

(* The steps of the reader keep EndsInOrder.                               *)
LEMMA ReaderEnds ==
  ASSUME NEW only, Readers = {only}, TypeOK, EndsInOrder,
         ReaderActs(only) \/ ReadFails(only)
  PROVE  EndsInOrder'
<1>0. /\ reader \in [Readers -> ReaderState] /\ verified \subseteq Piece
      /\ completer \in [Completers -> CompleterPlace]
      /\ only \in Completers /\ "user" \in Completers /\ only # "user"
  BY SessionAssumption DEF TypeOK, Completers
<1>1. /\ UNCHANGED <<worker, workerRunning, writeWorkerDone, doneSignaled>>
      /\ Settled' = Settled
  BY DEF ReaderActs, VerifyPiece, AddWrite, QueueWrite, CheckLast, ReadFails,
         ReaderStep, diskVars, Settled
<1>2. CASE Ending
  <2>1. verified = Piece /\ reader[only].pc \in {"read", "dead"}
    BY <1>2 DEF EndsInOrder, Idle
  <2>2. ReadFails(only)
    BY <2>1 DEF ReaderActs, VerifyPiece, AddWrite, QueueWrite, CheckLast, ReaderStep
  <2>3. reader'[only].pc = "dead"
    BY <1>0, <2>2 DEF ReadFails, ReaderStep, ReaderAt
  <2>4. verified' = Piece /\ Idle' /\ UNCHANGED <<completer, writeQueue>>
    BY <2>1, <2>2, <2>3 DEF ReadFails, Idle, diskVars
  <2> QED BY <1>1, <2>4 DEF EndsInOrder
<1>3. CASE ~Ending
  <2>1. worker.pc \notin {"drain", "flush", "exit", "off"} /\ ~writeWorkerDone
    BY <1>3 DEF EndsInOrder, Ending
  <2>2. \A c \in Completers : completer[c] = "none"
    BY <1>3 DEF Ending
  <2>3. CASE CheckLast(only) /\ IsComplete
    <3>1. completer' = [completer EXCEPT ![only] = "cancel"] /\ verified' = Piece
      BY <2>3 DEF CheckLast, IsComplete
    <3>2. Idle'
      BY <1>0, <2>3 DEF CheckLast, ReaderStep, ReaderAt, Idle
    <3>3. completer'["user"] = "none" /\ \A c \in Completers : completer'[c] # "signal"
      BY <1>0, <2>2, <3>1
    <3> QED BY <1>1, <2>1, <3>1, <3>2, <3>3 DEF EndsInOrder
  <2>4. CASE ~(CheckLast(only) /\ IsComplete)
    <3>1. completer' = completer
      BY <2>4 DEF ReaderActs, VerifyPiece, AddWrite, QueueWrite, CheckLast, ReadFails
    <3>2. ~Ending'
      BY <1>1, <1>3, <3>1 DEF Ending
    <3> QED BY <1>0, <1>1, <2>1, <2>2, <3>1, <3>2 DEF EndsInOrder
  <2> QED BY <2>3, <2>4
<1> QED BY <1>2, <1>3

(* The steps of the worker keep EndsInOrder.                               *)
LEMMA WorkerEnds ==
  ASSUME TypeOK, EndsInOrder, WorkerActs
  PROVE  EndsInOrder'
<1>0. /\ UNCHANGED <<reader, verified, completer, doneSignaled, writeWorkerDone>>
      /\ Settled \subseteq Settled' /\ Settled' \subseteq Settled \cup InHand
      /\ InHand \subseteq Piece /\ Settled \subseteq Piece
  BY DEF WorkerActs, sessionVars, writeWorker, Receive, Write, SeeStop, StopWhenEmpty,
         ExitWorker, Settled, InHand, TypeOK, DiskTypeOK, WorkerState
<1>1. (Ending' <=> Ending) /\ (Idle' <=> Idle)
  BY <1>0 DEF Ending, Idle
<1>2. \A c \in Completers : completer'[c] = "signal" => Settled' = Piece
  BY <1>0 DEF EndsInOrder
<1>3. /\ worker'.pc \in {"drain", "flush", "exit", "off"} => writeWorkerDone'
      /\ worker'.pc \in {"exit", "off"} => writeQueue' = <<>>
      /\ ~workerRunning' => worker'.pc = "off"
  BY DEF WorkerActs, writeWorker, Receive, Write, SeeStop, StopWhenEmpty, ExitWorker,
         WorkerAt, EndsInOrder, TypeOK, DiskTypeOK, WorkerState
<1> QED BY <1>0, <1>1, <1>2, <1>3 DEF EndsInOrder

(* When the session ends and nothing is left in the queue or in hand,      *)
(* every piece is settled.                                                 *)
LEMMA NothingLeft ==
  ASSUME SoloInv, Ending, writeQueue = <<>>, InHand = {}
  PROVE  Settled = Piece
<1>1. verified = Piece /\ Idle
  BY DEF SoloInv, EndsInOrder
<1>2. \A i \in Piece : i \in Settled
  BY <1>1 DEF SoloInv, NothingDropped, Idle
<1> QED BY <1>2 DEF SoloInv, TypeOK, DiskTypeOK, Settled

(* Neither is anything left when the counter of the WaitGroup is zero.     *)
LEMMA ZeroCount ==
  ASSUME SoloInv, wg = 0
  PROVE  writeQueue = <<>> /\ InHand = {}
<1>1. Len(writeQueue) \in Nat /\ writeQueue \in Seq(Piece)
  BY LenProperties DEF SoloInv, TypeOK, DiskTypeOK
<1>2. Cardinality(Sending) + Len(writeQueue) + Cardinality(InHand) = 0
  BY DEF SoloInv, WgCounts
<1>3. Len(writeQueue) = 0 /\ Cardinality(InHand) = 0
  BY <1>1, <1>2, SendingFinite, InHandCount
<1>4. writeQueue = <<>>
  BY <1>1, <1>3, EmptySeq
<1> QED BY <1>3, <1>4, InHandCount DEF InHand

(* The steps of Complete, of the monitor and of main keep EndsInOrder.     *)
LEMMA OthersEnd ==
  ASSUME SoloInv, MayCancel = FALSE,
         \/ \E c \in Completers : CompleterActs(c)
         \/ Monitor \/ Cancel \/ WaitForCompletion \/ UNCHANGED vars
  PROVE  EndsInOrder'
<1> USE DEF SoloInv
<1>0. UNCHANGED <<writeQueue, worker, wg, written, failed, reader, verified>>
  BY OthersTouchNothing
<1>1. Settled' = Settled /\ (Idle' <=> Idle)
  BY <1>0 DEF Settled, Idle
<1>2. completer \in [Completers -> CompleterPlace]
  BY DEF TypeOK
<1>3. ASSUME NEW c \in Completers, CompleterActs(c) PROVE EndsInOrder'
  <2>1. completer[c] # "none" /\ c # "user"
    BY <1>3 DEF CompleterActs, CompleterStep, StopPeerLoops, TestRunning, CloseDone,
                WaitForWrites, signalDone, EndsInOrder
  <2>2. Ending /\ verified = Piece /\ Idle
    BY <2>1 DEF Ending, EndsInOrder
  <2>3. workerRunning' = workerRunning /\ (writeWorkerDone => writeWorkerDone')
    BY <1>3 DEF CompleterActs, StopPeerLoops, TestRunning, CloseDone, WaitForWrites,
                signalDone, diskVars
  <2>4. completer'["user"] = "none"
    <3>1. PICK place : completer' = [completer EXCEPT ![c] = place]
      BY <1>3 DEF CompleterActs, CompleterStep, StopPeerLoops, TestRunning, CloseDone,
                  WaitForWrites, signalDone
    <3>2. completer'["user"] = completer["user"]
      BY <1>2, <2>1, <3>1 DEF Completers
    <3> QED BY <3>2 DEF EndsInOrder
  <2>5. \A d \in Completers : completer'[d] = "signal" => Settled = Piece
    <3>1. ASSUME NEW d \in Completers, d # c, completer'[d] = "signal"
          PROVE  Settled = Piece
      <4>1. completer'[d] = completer[d]
        BY <1>2, <1>3, <3>1 DEF CompleterActs, CompleterStep, StopPeerLoops, TestRunning,
                    CloseDone, WaitForWrites, signalDone
      <4> QED BY <3>1, <4>1 DEF EndsInOrder
    <3>2. CASE TestRunning(c) /\ ~workerRunning
      <4>1. worker.pc = "off" /\ writeQueue = <<>> /\ InHand = {}
        BY <3>2 DEF EndsInOrder, InHand
      <4> QED BY <2>2, <4>1, NothingLeft
    <3>3. CASE WaitForWrites(c)
      BY <2>2, <3>3, NothingLeft, ZeroCount DEF WaitForWrites, AllSettled
    <3>4. CASE ~(TestRunning(c) /\ ~workerRunning) /\ ~WaitForWrites(c)
      <4>1. completer'[c] # "signal"
        BY <1>2, <1>3, <3>4 DEF CompleterActs, CompleterStep, StopPeerLoops, TestRunning,
                    CloseDone, signalDone
      <4> QED BY <3>1, <4>1
    <3> QED BY <3>1, <3>2, <3>3, <3>4
  <2> QED BY <1>0, <1>1, <2>2, <2>3, <2>4, <2>5 DEF EndsInOrder
<1>4. ASSUME Monitor PROVE EndsInOrder'
  <2>1. /\ Ending /\ verified = Piece /\ Idle
        /\ UNCHANGED <<workerRunning, writeWorkerDone>>
    BY <1>4 DEF Monitor, Ending, EndsInOrder, diskVars
  <2>2. completer' = [completer EXCEPT !["monitor"] = IF doneErr THEN "done" ELSE "cancel"]
    BY <1>4 DEF Monitor, CompleterStep
  <2>3. /\ completer'["user"] = "none"
        /\ \A d \in Completers : completer'[d] = "signal" => completer[d] = "signal"
    <3>1. completer'["user"] = completer["user"]
      BY <1>2, <2>2 DEF Completers
    <3>2. ASSUME NEW d \in Completers, completer'[d] = "signal"
          PROVE  completer[d] = "signal"
      BY <1>2, <2>2, <3>2
    <3> QED BY <3>1, <3>2 DEF EndsInOrder
  <2> QED BY <1>0, <1>1, <2>1, <2>3 DEF EndsInOrder
<1>5. ASSUME WaitForCompletion \/ UNCHANGED vars PROVE EndsInOrder'
  <2>1. UNCHANGED <<completer, workerRunning, writeWorkerDone, doneSignaled>>
    BY <1>5 DEF WaitForCompletion, vars, diskVars, sessionVars
  <2>2. Ending' <=> Ending
    BY <2>1 DEF Ending
  <2> QED BY <1>0, <1>1, <2>1, <2>2 DEF EndsInOrder
<1>6. ~Cancel
  BY DEF Cancel
<1> QED BY <1>3, <1>4, <1>5, <1>6

(* Nothing but readers and the worker moves a piece.                       *)
LEMMA OthersOnTheWay ==
  ASSUME OnTheWay, UNCHANGED <<writeQueue, worker, reader, verified>>
  PROVE  OnTheWay'
BY DEF OnTheWay, Handed, InHand

(* Every step keeps the invariant.                                         *)
LEMMA NextSolo ==
  ASSUME NEW only, Readers = {only}, MayCancel = FALSE,
         SoloInv, TypeOK', WgCounts', NothingDropped', [Next]_vars
  PROVE  SoloInv'
<1>1. CASE ReaderActs(only) \/ ReadFails(only)
  BY <1>1, ReaderOnTheWay, ReaderEnds DEF SoloInv
<1>2. CASE WorkerActs
  BY <1>2, WorkerOnTheWay, WorkerEnds DEF SoloInv
<1>3. CASE \/ \E c \in Completers : CompleterActs(c)
           \/ Monitor \/ Cancel \/ WaitForCompletion \/ UNCHANGED vars
  BY <1>3, OthersEnd, OthersTouchNothing, OthersOnTheWay DEF SoloInv
<1> QED BY <1>1, <1>2, <1>3, StepCases

-----------------------------------------------------------------------------
(* The refinement: AddWrite maps to Hand, a write to Settle, the signal to *)
(* Signal, and every other step to a stutter.                              *)

StorageVars == <<Handed, Settled, doneSignaled>>

(* Initial states map to initial states.                                   *)
LEMMA InitStorage == Init => Abstract!Init
BY DEF Init, DiskInit, Abstract!Init, Handed, Settled

(* The steps of the reader.                                                *)
LEMMA ReaderStorage ==
  ASSUME NEW only, Readers = {only}, SoloInv, TypeOK',
         ReaderActs(only) \/ ReadFails(only)
  PROVE  [Abstract!Next]_StorageVars
<1>1. UNCHANGED <<Settled, doneSignaled>>
  BY DEF ReaderActs, VerifyPiece, AddWrite, QueueWrite, CheckLast, ReadFails,
         ReaderStep, diskVars, Settled
<1>2. CASE AddWrite(only)
  <2>1. /\ reader[only].piece \in Piece \ Handed
        /\ Handed' = Handed \cup {reader[only].piece}
    BY <1>2, HandedSteps DEF SoloInv, TypeOK
  <2>2. Abstract!Hand(reader[only].piece)
    BY <1>1, <2>1 DEF Abstract!Hand
  <2> QED BY <2>1, <2>2 DEF Abstract!Next
<1>3. CASE ~AddWrite(only)
  BY <1>1, <1>3, HandedSteps DEF SoloInv, StorageVars
<1> QED BY <1>2, <1>3

(* The steps of the worker.                                                *)
LEMMA WorkerStorage ==
  ASSUME SoloInv, WorkerActs
  PROVE  [Abstract!Next]_StorageVars
<1>1. Handed' = Handed /\ doneSignaled' = doneSignaled
  BY DEF WorkerActs, sessionVars, Handed
<1>2. ASSUME NEW from \in {"write", "flush"}, NEW to \in {"select", "drain"},
             Write(from, to)
      PROVE  [Abstract!Next]_StorageVars
  <2>1. worker.piece \in Handed /\ worker.piece \in Piece
    BY <1>2 DEF Write, SoloInv, OnTheWay, InHand, TypeOK, DiskTypeOK, WorkerState
  <2>2. Settled' = Settled \cup {worker.piece}
    BY <1>2 DEF Write, Settled
  <2>3. CASE worker.piece \in Settled
    BY <1>1, <2>2, <2>3 DEF StorageVars
  <2>4. CASE worker.piece \notin Settled
    <3>1. Abstract!Settle(worker.piece)
      BY <1>1, <2>1, <2>2, <2>4 DEF Abstract!Settle
    <3> QED BY <2>1, <3>1 DEF Abstract!Next
  <2> QED BY <2>3, <2>4
<1>3. CASE \/ SeeStop \/ StopWhenEmpty \/ ExitWorker
           \/ Receive("select", "write") \/ Receive("drain", "flush")
  <2>1. Settled' = Settled
    BY <1>3 DEF SeeStop, StopWhenEmpty, ExitWorker, Receive, Settled
  <2> QED BY <1>1, <2>1 DEF StorageVars
<1> QED BY <1>2, <1>3 DEF WorkerActs, writeWorker

(* The other steps.                                                        *)
LEMMA OtherStorage ==
  ASSUME SoloInv,
         \/ \E c \in Completers : CompleterActs(c)
         \/ Monitor \/ Cancel \/ WaitForCompletion \/ UNCHANGED vars
  PROVE  [Abstract!Next]_StorageVars
<1>1. Handed' = Handed /\ Settled' = Settled
  BY OthersTouchNothing DEF Handed, Settled
<1>2. ASSUME NEW c \in Completers, signalDone(c) PROVE Abstract!Signal
  <2>1. Settled = Piece
    BY <1>2 DEF signalDone, CompleterStep, SoloInv, EndsInOrder
  <2>2. doneSignaled'
    BY <1>2 DEF signalDone
  <2> QED BY <1>1, <1>2, <2>1, <2>2 DEF Abstract!Signal, signalDone
<1>3. CASE \A c \in Completers : ~signalDone(c)
  <2>1. doneSignaled' = doneSignaled
    BY <1>3 DEF CompleterActs, StopPeerLoops, TestRunning, CloseDone, WaitForWrites,
                Monitor, Cancel, WaitForCompletion, vars, sessionVars
  <2> QED BY <1>1, <2>1 DEF StorageVars
<1> QED BY <1>2, <1>3 DEF Abstract!Next

(* With one reader and no Cancel, the session implements Storage: for any  *)
(* number of pieces and any queue, doneChan is closed only when every      *)
(* piece was handed over and written, or its error logged.                 *)
THEOREM SoloRefines ==
  ASSUME NEW only, Readers = {only}, MayCancel = FALSE
  PROVE  Spec => ImplementsStorage
<1>1. Init => SoloInv
  BY InitCounts, InitSolo DEF SoloInv, NothingDropped, Init
<1>2. TypeOK' /\ WgCounts' /\ NothingDropped' /\ SoloInv /\ [Next]_vars => SoloInv'
  BY NextSolo
<1>3. SoloInv /\ TypeOK' /\ [Next]_vars => [Abstract!Next]_StorageVars
  BY StepCases, ReaderStorage, WorkerStorage, OtherStorage
<1>4. Spec => []SoloInv
  BY <1>1, <1>2, TypeCorrect, WaitGroupCounts, VerifiedIsKept, PTL DEF Spec
<1>5. Spec => Abstract!Init /\ [][Abstract!Next]_StorageVars
  BY <1>3, <1>4, InitStorage, TypeCorrect, PTL DEF Spec
<1> QED BY <1>5 DEF ImplementsStorage, Abstract!Spec, StorageVars

=============================================================================
