--------------------------- MODULE RecoveryProofs ---------------------------
(***************************************************************************)
(* Theorems about Recovery, for every number of pieces, every capacity of  *)
(* the write queue, every number of mishaps and, where they say so, every  *)
(* set of readers.                                                         *)
(***************************************************************************)
EXTENDS Recovery, FiniteSetTheorems, TLAPS

-----------------------------------------------------------------------------
(* The strengthening of the three invariants.                              *)

(* A process without a session has nothing in its pipe, and main starts    *)
(* one only then.                                                          *)
NoSessionYet ==
  /\ main \in {"down", "scan", "store"} => ~started
  /\ ~started => /\ \A r \in Readers : saver[r].pc = "read" /\ saver[r].bits = {}
                 /\ Bitfield = {} /\ writeQueue = <<>> /\ worker = {}

(* What the file says, and what that says of the data.                     *)
FileStates ==
  /\ dotfile # "whole" => fileBits = {}
  /\ started => dotfile \in {"partial", "whole"}
  /\ main = "store" => dotfile = "partial" /\ onDisk = {}
  /\ dotfile \in {"no folder", "absent"} => onDisk = {}

WorkerHoldsOne == \E i \in Piece : worker \subseteq {i}

(* The pieces on their way from the file to the data.                      *)
Saving == {r \in Readers : saver[r].pc \in {"truncate", "fill", "queue"}}
InHands == {saver[r].piece : r \in Saving}
Queued == Range(writeQueue)
Accounted == trusted \cup onDisk \cup failed \cup InHands \cup Queued \cup worker

(* A bit that this process has set, or writes, is the bit of a piece that  *)
(* is on disk, failed, or on its way.                                      *)
BitsAreAccounted ==
  started => /\ Bitfield \cup fileBits \subseteq Accounted
             /\ \A r \in Readers : saver[r].bits \subseteq Accounted

LossInv == TypeOK /\ NoSessionYet /\ FileStates /\ WorkerHoldsOne /\ BitsAreAccounted

(* The rest is for one reader r.                                           *)

(* The bits that the file should have: r may be about to add its piece.    *)
Recorded(r) == IF saver[r].pc = "truncate" THEN Bitfield \ {saver[r].piece} ELSE Bitfield

BitOfReader(r) ==
  /\ Bitfield \subseteq verified
  /\ saver[r].pc = "save" => saver[r].piece \in verified \ Bitfield
  /\ saver[r].pc \in {"truncate", "fill"} =>
       saver[r].bits = Bitfield /\ saver[r].piece \in Bitfield
  /\ saver[r].pc = "queue" => saver[r].piece \in Bitfield
  /\ saver[r].pc = "fill" => dotfile = "partial"

FileOfReader(r) ==
  /\ dotfile = "whole" => fileBits = Recorded(r) \ unsaved
  /\ dotfile = "partial" => saver[r].pc = "fill" \/ Bitfield \cap unsaved # {}

(* What was written, or will be with no further save, is recorded.         *)
FlightIsRecorded(r) ==
  /\ onDisk \cup Queued \cup worker \subseteq Recorded(r) \cup unsaved
  /\ saver[r].pc = "queue" => saver[r].piece \in Recorded(r)

WholeFile ==
  /\ fileBits \cap unsaved = {}
  /\ dotfile = "whole" => onDisk \subseteq fileBits \cup unsaved

SoleInv ==
  /\ WholeFile
  /\ started => \A r \in Readers : BitOfReader(r) /\ FileOfReader(r) /\ FlightIsRecorded(r)

IInv == LossInv /\ SoleInv

-----------------------------------------------------------------------------
(* What a queue holds.                                                     *)
LEMMA RangeOfQueue ==
  ASSUME NEW q \in Seq(Piece)
  PROVE  /\ q = <<>> => Range(q) = {}
         /\ Len(q) \in Nat
         /\ \A i \in Piece : /\ Append(q, i) \in Seq(Piece)
                             /\ Len(Append(q, i)) = Len(q) + 1
                             /\ Range(Append(q, i)) = Range(q) \cup {i}
         /\ q # <<>> => /\ Head(q) \in Piece /\ Tail(q) \in Seq(Piece)
                        /\ Range(q) = {Head(q)} \cup Range(Tail(q))
                        /\ Len(Tail(q)) = Len(q) - 1
<1>1. Len(q) \in Nat /\ q \in [1..Len(q) -> Piece] /\ DOMAIN q = 1..Len(q)
  OBVIOUS
<1>2. q = <<>> => Range(q) = {}
  BY DEF Range
<1>3. ASSUME NEW i \in Piece
      PROVE  /\ Append(q, i) \in Seq(Piece)
             /\ Len(Append(q, i)) = Len(q) + 1
             /\ Range(Append(q, i)) = Range(q) \cup {i}
  <2>1. /\ Append(q, i) \in Seq(Piece)
        /\ Len(Append(q, i)) = Len(q) + 1
        /\ DOMAIN Append(q, i) = 1..Len(q) + 1
        /\ \A k \in 1..Len(q) : Append(q, i)[k] = q[k]
        /\ Append(q, i)[Len(q) + 1] = i
    BY <1>1
  <2> QED BY <1>1, <2>1 DEF Range
<1>4. ASSUME q # <<>>
      PROVE  /\ Head(q) \in Piece /\ Tail(q) \in Seq(Piece)
             /\ Range(q) = {Head(q)} \cup Range(Tail(q))
             /\ Len(Tail(q)) = Len(q) - 1
  <2>1. /\ Head(q) \in Piece /\ Tail(q) \in Seq(Piece)
        /\ Len(Tail(q)) = Len(q) - 1 /\ Len(q) >= 1
        /\ Head(q) = q[1]
        /\ DOMAIN Tail(q) = 1..Len(q) - 1
        /\ \A k \in 1..Len(q) - 1 : Tail(q)[k] = q[k + 1]
    BY <1>1, <1>4
  <2>2. \A k \in 1..Len(q) : k = 1 \/ (k - 1 \in 1..Len(q) - 1 /\ (k - 1) + 1 = k)
    BY <1>1
  <2>3. Range(q) \subseteq {Head(q)} \cup Range(Tail(q))
    <3> SUFFICES ASSUME NEW k \in 1..Len(q) PROVE q[k] \in {Head(q)} \cup Range(Tail(q))
      BY <1>1 DEF Range
    <3>1. CASE k = 1
      BY <3>1, <2>1
    <3>2. CASE k # 1
      <4>1. k - 1 \in DOMAIN Tail(q) /\ Tail(q)[k - 1] = q[k]
        BY <3>2, <2>1, <2>2
      <4> QED BY <4>1 DEF Range
    <3> QED BY <3>1, <3>2
  <2>4. {Head(q)} \cup Range(Tail(q)) \subseteq Range(q)
    <3>1. 1 \in DOMAIN q /\ \A k \in 1..Len(q) - 1 : k + 1 \in DOMAIN q
      BY <1>1, <2>1
    <3> QED BY <3>1, <2>1 DEF Range
  <2> QED BY <2>1, <2>3, <2>4
<1> QED BY <1>1, <1>2, <1>3, <1>4

LEMMA ZeroIsPiece == 0 \in Piece /\ IsFiniteSet(Readers)
BY RecoveryAssumption DEF Piece

(* The state of a reader, by its fields.                                   *)
LEMMA SaverFields ==
  /\ \A loc, i, bits : /\ SaverAt(loc, i, bits).pc = loc
                       /\ SaverAt(loc, i, bits).piece = i
                       /\ SaverAt(loc, i, bits).bits = bits
  /\ \A loc \in {"read", "save", "truncate", "fill", "queue"}, i \in Piece, bits \in SUBSET Piece :
       SaverAt(loc, i, bits) \in SaverState
  /\ \A s \in SaverState : /\ s.pc \in {"read", "save", "truncate", "fill", "queue"}
                           /\ s.piece \in Piece /\ s.bits \subseteq Piece
                           /\ s = SaverAt(s.pc, s.piece, s.bits)
                           /\ [s EXCEPT !.pc = "fill"] = SaverAt("fill", s.piece, s.bits)
BY DEF SaverAt, SaverState

(* A step of a reader leaves the others where they are.                    *)
LEMMA OnlyReader ==
  ASSUME TypeOK, NEW r \in Readers, NEW from, NEW to \in SaverState, SaverStep(r, from, to)
  PROVE  /\ saver' \in [Readers -> SaverState]
         /\ saver[r].pc = from /\ saver'[r] = to
         /\ \A s \in Readers : s # r => saver'[s] = saver[s]
         /\ UNCHANGED <<onDisk, failed, main, started, trusted, worker>>
         /\ main # "down"
BY DEF TypeOK, SaverStep, Up, dataVars

(* The same of the steps of a reader, by where they lead.                  *)
LEMMA ReaderSteps ==
  ASSUME TypeOK, NEW r \in Readers, ReaderStep(r) \/ SaveFails(r)
  PROVE  \E from, to \in SaverState : from = saver[r] /\ SaverStep(r, from.pc, to)
<1> DEFINE i == saver[r].piece
<1>0. saver[r] \in SaverState /\ i \in Piece /\ saver[r].bits \subseteq Piece /\ Bitfield \subseteq Piece
  BY SaverFields DEF TypeOK
<1>1. CASE SetBit(r)
  <2>1. SaverAt("truncate", i, Bitfield \cup {i}) \in SaverState
    BY <1>0, SaverFields
  <2>2. saver[r].pc = "save"
    BY <1>1 DEF SetBit, SaverStep
  <2> QED BY <1>0, <1>1, <2>1, <2>2 DEF SetBit
<1>2. CASE Truncate(r)
  <2>1. [saver[r] EXCEPT !.pc = "fill"] \in SaverState
    BY <1>0, SaverFields
  <2>2. saver[r].pc = "truncate"
    BY <1>2 DEF Truncate, SaverStep
  <2> QED BY <1>0, <1>2, <2>1, <2>2 DEF Truncate
<1>3. CASE Fill(r) \/ SaveFails(r)
  <2>1. SaverAt("queue", i, {}) \in SaverState
    BY <1>0, SaverFields
  <2>2. Fill(r) => saver[r].pc = "fill"
    BY DEF Fill, SaverStep
  <2> QED BY <1>0, <1>3, <2>1, <2>2 DEF Fill, SaveFails
<1>4. CASE QueueWrite(r)
  <2>1. SaverAt("read", 0, {}) \in SaverState
    BY ZeroIsPiece, SaverFields
  <2>2. saver[r].pc = "queue"
    BY <1>4 DEF QueueWrite, SaverStep
  <2> QED BY <1>0, <1>4, <2>1, <2>2 DEF QueueWrite
<1>5. ASSUME NEW j \in Piece, VerifyPiece(r, j)
      PROVE  \E from, to \in SaverState : from = saver[r] /\ SaverStep(r, from.pc, to)
  <2>1. SaverAt("save", j, {}) \in SaverState
    BY SaverFields
  <2>2. saver[r].pc = "read"
    BY <1>5 DEF VerifyPiece, SaverStep
  <2> QED BY <1>0, <1>5, <2>1, <2>2 DEF VerifyPiece
<1> QED BY <1>1, <1>2, <1>3, <1>4, <1>5 DEF ReaderStep

Moves(r, to) ==
  /\ saver'[r].pc = to
  /\ \A s \in Readers : s # r => saver'[s] = saver[s]
  /\ UNCHANGED <<onDisk, failed, main, started, trusted, worker>>

(* What each of them does to the reader.                                   *)
LEMMA ReaderMoves ==
  ASSUME TypeOK, NEW r \in Readers
  PROVE  /\ SetBit(r) => /\ saver[r].pc = "save" /\ Moves(r, "truncate")
                         /\ saver'[r].piece = saver[r].piece
                         /\ saver'[r].bits = Bitfield'
                         /\ Bitfield' = Bitfield \cup {saver[r].piece}
         /\ Truncate(r) => /\ saver[r].pc = "truncate" /\ Moves(r, "fill")
                           /\ saver'[r].piece = saver[r].piece
                           /\ saver'[r].bits = saver[r].bits
         /\ Fill(r) => /\ saver[r].pc = "fill" /\ Moves(r, "queue")
                       /\ saver'[r].piece = saver[r].piece /\ saver'[r].bits = {}
         /\ SaveFails(r) => /\ saver[r].pc \in {"truncate", "fill"} /\ Moves(r, "queue")
                            /\ saver'[r].piece = saver[r].piece /\ saver'[r].bits = {}
         /\ QueueWrite(r) => /\ saver[r].pc = "queue" /\ Moves(r, "read")
                             /\ saver'[r].bits = {}
         /\ \A j \in Piece : VerifyPiece(r, j) =>
              /\ saver[r].pc = "read" /\ Moves(r, "save")
              /\ saver'[r].piece = j /\ saver'[r].bits = {}
<1> DEFINE i == saver[r].piece
<1>0. /\ saver[r] \in SaverState /\ saver \in [Readers -> SaverState]
      /\ [saver[r] EXCEPT !.pc = "fill"] = SaverAt("fill", i, saver[r].bits)
  BY SaverFields DEF TypeOK
<1>1. ASSUME NEW from, NEW to, NEW j, NEW bits, SaverStep(r, from, SaverAt(to, j, bits))
      PROVE  /\ saver[r].pc = from /\ Moves(r, to)
             /\ saver'[r].piece = j /\ saver'[r].bits = bits
  <2>1. saver[r].pc = from /\ saver' = [saver EXCEPT ![r] = SaverAt(to, j, bits)]
    BY <1>1 DEF SaverStep
  <2>2. saver'[r] = SaverAt(to, j, bits) /\ \A s \in Readers : s # r => saver'[s] = saver[s]
    BY <1>0, <2>1
  <2>3. UNCHANGED <<onDisk, failed, main, started, trusted, worker>>
    BY <1>1 DEF SaverStep, dataVars
  <2> QED BY <2>1, <2>2, <2>3, SaverFields DEF Moves
<1>2. /\ SetBit(r) => /\ SaverStep(r, "save", SaverAt("truncate", i, Bitfield'))
                      /\ Bitfield' = Bitfield \cup {i}
      /\ Truncate(r) => SaverStep(r, "truncate", SaverAt("fill", i, saver[r].bits))
      /\ Fill(r) => SaverStep(r, "fill", SaverAt("queue", i, {}))
      /\ QueueWrite(r) => SaverStep(r, "queue", SaverAt("read", 0, {}))
  BY <1>0 DEF SetBit, Truncate, Fill, QueueWrite
<1>3. SaveFails(r) => /\ saver[r].pc \in {"truncate", "fill"}
                      /\ SaverStep(r, saver[r].pc, SaverAt("queue", i, {}))
  BY DEF SaveFails
<1>4. \A j \in Piece : VerifyPiece(r, j) => SaverStep(r, "read", SaverAt("save", j, {}))
  BY DEF VerifyPiece
<1> QED BY <1>1, <1>2, <1>3, <1>4

(* The memory of a new process.                                            *)
LEMMA NewProcess ==
  ASSUME NoSession
  PROVE  /\ ~started' /\ trusted' = {} /\ verified' = {} /\ Bitfield' = {}
         /\ saver' \in [Readers -> SaverState]
         /\ \A r \in Readers : saver'[r].pc = "read" /\ saver'[r].bits = {}
         /\ writeQueue' = <<>> /\ worker' = {}
<1>1. SaverAt("read", 0, {}) \in SaverState
  BY ZeroIsPiece, SaverFields
<1>2. \A r \in Readers : saver'[r] = SaverAt("read", 0, {})
  BY DEF NoSession
<1> QED BY <1>1, <1>2, SaverFields DEF NoSession

-----------------------------------------------------------------------------
(* The steps of main.                                                      *)
(* The process ends: only the file that Store completes changes.           *)
Ends ==
  /\ main # "down" /\ main' = "down"
  /\ NoSession
  /\ UNCHANGED <<fileBits, unsaved, onDisk, failed>>
  /\ UNCHANGED dotfile \/ (main = "store" /\ dotfile' = "whole")

(* The process resumes the torrent of the file.                            *)
Resumes ==
  /\ main = "scan" /\ dotfile = "whole"
  /\ StartTorrentSession(fileBits, "argument")
  /\ UNCHANGED <<fileVars, dataVars>>

(* It completes the file of a new torrent, and begins its session.         *)
Begins ==
  /\ main = "store" /\ dotfile' = "whole"
  /\ StartTorrentSession({}, "wait")
  /\ UNCHANGED <<fileBits, unsaved, dataVars>>

(* It creates the file of a new torrent.                                   *)
Creates ==
  /\ main = "argument" /\ dotfile = "absent"
  /\ main' = "store" /\ dotfile' = "partial"
  /\ UNCHANGED <<fileBits, unsaved, dataVars, mishaps, sessionVars, pipeVars>>

(* It only goes on to its next place.                                      *)
Passes ==
  /\ \/ main = "down" /\ main' = "scan"
     \/ main \in {"scan", "argument"} /\ main' \in {"argument", "wait"}
  /\ UNCHANGED <<fileVars, dataVars, mishaps, sessionVars, pipeVars>>

LEMMA MainCases ==
  ASSUME MainStep \/ Launch \/ Crash
  PROVE  Ends \/ Resumes \/ Begins \/ Creates \/ Passes
<1>1. CASE Launch
  BY <1>1 DEF Launch, Passes
<1>2. CASE Crash
  BY <1>2 DEF Crash, Up, Exit, Ends, fileVars, dataVars
<1>3. CASE Scan
  BY <1>3 DEF Scan, StartFails, Exit, Ends, Resumes, Passes, fileVars, dataVars
<1>4. CASE Argument
  BY <1>4 DEF Argument, Creates, Passes, fileVars
<1>5. CASE Store
  BY <1>5 DEF Store, StartFails, Exit, Ends, Begins, dataVars
<1>6. CASE WaitForCompletion
  BY <1>6 DEF WaitForCompletion, Exit, Ends, fileVars, dataVars
<1> QED BY <1>1, <1>2, <1>3, <1>4, <1>5, <1>6 DEF MainStep

(* Every step counts its mishap, if it is one.                             *)
LEMMA MishapsCounted ==
  ASSUME TypeOK, Next
  PROVE  mishaps' \in 0..MaxMishaps
<1>1. mishaps \in 0..MaxMishaps /\ MaxMishaps \in Nat
  BY RecoveryAssumption DEF TypeOK
<1>2. Mishap => mishaps' \in 0..MaxMishaps
  BY <1>1 DEF Mishap
<1>3. UNCHANGED mishaps \/ Mishap
  <2>1. CASE Launch \/ Crash \/ WorkerStep
    BY <2>1 DEF Launch, Crash, WorkerStep, ReceiveWrite, WritePiece
  <2>2. CASE MainStep
    BY <2>2 DEF MainStep, Scan, Argument, Store, WaitForCompletion, StartTorrentSession, StartFails
  <2>3. ASSUME NEW r \in Readers, ReaderStep(r) \/ SaveFails(r)
        PROVE  UNCHANGED mishaps \/ Mishap
    BY <2>3 DEF ReaderStep, SetBit, Truncate, Fill, QueueWrite, VerifyPiece, SaveFails
  <2> QED BY <2>1, <2>2, <2>3 DEF Next
<1> QED BY <1>1, <1>2, <1>3

LEMMA InitType == Init => TypeOK
<1> SUFFICES ASSUME Init PROVE TypeOK
  OBVIOUS
<1>1. saver \in [Readers -> SaverState]
  BY ZeroIsPiece, SaverFields DEF Init
<1>2. <<>> \in Seq(Piece) /\ Len(<<>>) = 0 /\ 0 \in 0..MaxMishaps /\ 0 <= DiskWriteQueueSize
  BY RecoveryAssumption
<1> QED BY <1>1, <1>2 DEF Init, TypeOK

LEMMA MainType ==
  ASSUME TypeOK, MainStep \/ Launch \/ Crash, mishaps' \in 0..MaxMishaps
  PROVE  TypeOK'
<1>1. CASE Ends
  <2>1. /\ ~started' /\ trusted' = {} /\ verified' = {} /\ Bitfield' = {}
        /\ saver' \in [Readers -> SaverState]
        /\ writeQueue' = <<>> /\ worker' = {}
    BY <1>1, NewProcess DEF Ends
  <2>2. started' \in BOOLEAN
    BY <1>1 DEF Ends, NoSession
  <2>3. <<>> \in Seq(Piece) /\ Len(<<>>) = 0 /\ 0 <= DiskWriteQueueSize
    BY RecoveryAssumption
  <2>4. writeQueue' \in Seq(Piece) /\ Len(writeQueue') <= DiskWriteQueueSize
    BY <2>1, <2>3
  <2> QED BY <1>1, <2>1, <2>2, <2>4 DEF TypeOK, Ends
<1>2. CASE Resumes \/ Begins
  BY <1>2 DEF TypeOK, Resumes, Begins, StartTorrentSession, fileVars, dataVars, pipeVars
<1>3. CASE Creates \/ Passes
  BY <1>3 DEF TypeOK, Creates, Passes, fileVars, dataVars, sessionVars, pipeVars
<1> QED BY <1>1, <1>2, <1>3, MainCases

LEMMA ReaderType ==
  ASSUME TypeOK, NEW r \in Readers, ReaderStep(r) \/ SaveFails(r), mishaps' \in 0..MaxMishaps
  PROVE  TypeOK'
<1> DEFINE i == saver[r].piece
<1>0. saver[r] \in SaverState /\ i \in Piece /\ saver[r].bits \subseteq Piece
  BY SaverFields DEF TypeOK
<1>1. PICK from, to \in SaverState : from = saver[r] /\ SaverStep(r, from.pc, to)
  BY ReaderSteps
<1>2. /\ saver' \in [Readers -> SaverState]
      /\ UNCHANGED <<onDisk, failed, main, started, trusted, worker>>
  BY <1>1, OnlyReader
<1>3. /\ dotfile' \in {"no folder", "absent", "partial", "whole"}
      /\ fileBits' \subseteq Piece /\ unsaved' \subseteq Piece
      /\ verified' \subseteq Piece /\ Bitfield' \subseteq Piece
  <2>1. CASE SetBit(r)
    BY <2>1, <1>0 DEF TypeOK, SetBit, fileVars
  <2>2. CASE Truncate(r) \/ Fill(r) \/ SaveFails(r)
    BY <2>2, <1>0 DEF TypeOK, Truncate, Fill, SaveFails
  <2>3. CASE QueueWrite(r)
    BY <2>3 DEF TypeOK, QueueWrite, fileVars
  <2>4. CASE \E j \in Piece : VerifyPiece(r, j)
    BY <2>4 DEF TypeOK, VerifyPiece, fileVars
  <2> QED BY <2>1, <2>2, <2>3, <2>4 DEF ReaderStep
<1>4. writeQueue' \in Seq(Piece) /\ Len(writeQueue') <= DiskWriteQueueSize
  <2>1. CASE QueueWrite(r)
    <3>1. writeQueue \in Seq(Piece)
      BY DEF TypeOK
    <3>2. /\ Append(writeQueue, i) \in Seq(Piece)
          /\ Len(Append(writeQueue, i)) = Len(writeQueue) + 1
          /\ Len(writeQueue) \in Nat
      BY <1>0, <3>1, RangeOfQueue
    <3>3. Len(writeQueue) < DiskWriteQueueSize /\ writeQueue' = Append(writeQueue, i)
      BY <2>1 DEF QueueWrite
    <3>4. DiskWriteQueueSize \in Nat
      BY RecoveryAssumption
    <3> QED BY <3>2, <3>3, <3>4
  <2>2. CASE ~QueueWrite(r)
    <3>1. UNCHANGED writeQueue
      BY <2>2 DEF ReaderStep, SetBit, Truncate, Fill, SaveFails, VerifyPiece
    <3> QED BY <3>1 DEF TypeOK
  <2> QED BY <2>1, <2>2
<1> QED BY <1>2, <1>3, <1>4 DEF TypeOK

LEMMA WorkerType ==
  ASSUME TypeOK, WorkerStep, mishaps' \in 0..MaxMishaps
  PROVE  TypeOK'
<1>1. CASE ReceiveWrite
  <2>0. writeQueue \in Seq(Piece) /\ Len(writeQueue) <= DiskWriteQueueSize
    BY DEF TypeOK
  <2>1. /\ Head(writeQueue) \in Piece /\ Tail(writeQueue) \in Seq(Piece)
        /\ Len(Tail(writeQueue)) = Len(writeQueue) - 1
        /\ Len(writeQueue) \in Nat
    BY <1>1, <2>0, RangeOfQueue DEF ReceiveWrite
  <2>2. DiskWriteQueueSize \in Nat
    BY RecoveryAssumption
  <2>3. Len(Tail(writeQueue)) <= DiskWriteQueueSize
    BY <2>0, <2>1, <2>2
  <2> QED BY <1>1, <2>1, <2>3 DEF TypeOK, ReceiveWrite, fileVars, dataVars, sessionVars
<1>2. CASE WritePiece
  BY <1>2 DEF TypeOK, WritePiece, fileVars, sessionVars
<1> QED BY <1>1, <1>2 DEF WorkerStep

LEMMA NextType == TypeOK /\ [Next]_vars => TypeOK'
<1> SUFFICES ASSUME TypeOK, [Next]_vars PROVE TypeOK'
  OBVIOUS
<1>1. CASE UNCHANGED vars
  BY <1>1 DEF TypeOK, vars, fileVars, dataVars, sessionVars, pipeVars
<1>2. CASE Next
  BY <1>2, MishapsCounted, MainType, ReaderType, WorkerType DEF Next
<1> QED BY <1>1, <1>2

(* Every reachable state is well typed: the write queue keeps its bound,   *)
(* and the process makes no piece that the torrent does not have.          *)
THEOREM TypeCorrect == Spec => []TypeOK
BY InitType, NextType, PTL DEF Spec

-----------------------------------------------------------------------------
(* What a crash can lose.                                                  *)

LEMMA InitLoss == Init => LossInv
<1> SUFFICES ASSUME Init PROVE LossInv
  OBVIOUS
<1>1. \A r \in Readers : saver[r].pc = "read" /\ saver[r].bits = {}
  BY DEF Init, SaverAt
<1>2. NoSessionYet /\ FileStates /\ BitsAreAccounted
  BY <1>1 DEF Init, NoSessionYet, FileStates, BitsAreAccounted
<1>3. WorkerHoldsOne
  BY ZeroIsPiece DEF Init, WorkerHoldsOne
<1> QED BY <1>2, <1>3, InitType DEF LossInv

LEMMA MainLoss ==
  ASSUME LossInv, MainStep \/ Launch \/ Crash, TypeOK'
  PROVE  LossInv'
<1> USE DEF LossInv
<1>1. CASE Ends
  <2>1. /\ ~started' /\ Bitfield' = {} /\ writeQueue' = <<>> /\ worker' = {}
        /\ \A r \in Readers : saver'[r].pc = "read" /\ saver'[r].bits = {}
    BY <1>1, NewProcess DEF Ends
  <2>2. NoSessionYet' /\ BitsAreAccounted' /\ WorkerHoldsOne'
    BY <2>1, ZeroIsPiece DEF NoSessionYet, BitsAreAccounted, WorkerHoldsOne
  <2>3. FileStates'
    BY <1>1, <2>1 DEF Ends, FileStates
  <2> QED BY <2>2, <2>3
<1>2. CASE Resumes \/ Begins
  <2>1. /\ ~started /\ started' /\ main' \in {"argument", "wait"}
        /\ trusted' = Bitfield' /\ fileBits' = Bitfield'
        /\ UNCHANGED <<saver, worker>>
    BY <1>2 DEF NoSessionYet, FileStates, Resumes, Begins, StartTorrentSession, fileVars, pipeVars, TypeOK
  <2>2. NoSessionYet'
    BY <2>1 DEF NoSessionYet
  <2>3. FileStates'
    BY <1>2, <2>1 DEF Resumes, Begins, FileStates, fileVars, dataVars
  <2>4. BitsAreAccounted'
    BY <2>1 DEF NoSessionYet, BitsAreAccounted, Accounted
  <2>5. WorkerHoldsOne'
    BY <2>1 DEF WorkerHoldsOne
  <2> QED BY <2>2, <2>3, <2>4, <2>5
<1>3. CASE Creates \/ Passes
  <2>1. /\ UNCHANGED <<fileBits, onDisk, failed, started, trusted, Bitfield, saver, writeQueue, worker>>
        /\ \/ main \in {"down", "argument"} /\ ~started
           \/ main' \notin {"down", "scan", "store"}
    BY <1>3 DEF Creates, Passes, NoSessionYet, FileStates,
                fileVars, dataVars, sessionVars, pipeVars
  <2>2. NoSessionYet'
    BY <2>1 DEF NoSessionYet
  <2>3. FileStates'
    BY <1>3, <2>1 DEF Creates, Passes, FileStates, fileVars
  <2>4. BitsAreAccounted'
    BY <2>1 DEF BitsAreAccounted, Accounted, InHands, Saving, Queued
  <2>5. WorkerHoldsOne'
    BY <2>1 DEF WorkerHoldsOne
  <2> QED BY <2>2, <2>3, <2>4, <2>5
<1> QED BY <1>1, <1>2, <1>3, MainCases

(* A reader steps only while there is a session.                           *)
LEMMA ReaderIsStarted ==
  ASSUME NoSessionYet, NEW r \in Readers, ReaderStep(r) \/ SaveFails(r)
  PROVE  started
<1>1. CASE saver[r].pc = "read"
  <2>1. \E j \in Piece : VerifyPiece(r, j)
    BY <1>1 DEF ReaderStep, SetBit, Truncate, Fill, QueueWrite, SaveFails, SaverStep
  <2> QED BY <2>1 DEF VerifyPiece
<1>2. CASE saver[r].pc # "read"
  BY <1>2 DEF NoSessionYet
<1> QED BY <1>1, <1>2

(* What a reader does to the bits, to the file, and to the pieces on their *)
(* way.                                                                    *)
LEMMA ReaderBits ==
  ASSUME TypeOK, NEW r \in Readers, ReaderStep(r) \/ SaveFails(r)
  PROVE  /\ \E to : Moves(r, to)
         /\ Bitfield' \subseteq Bitfield \cup InHands'
         /\ fileBits' \subseteq fileBits \cup saver[r].bits
         /\ saver'[r].bits \subseteq saver[r].bits \cup Bitfield'
         /\ dotfile' \in {dotfile, "partial", "whole"}
         /\ dotfile' # "whole" => fileBits' \in {fileBits, {}}
         /\ InHands \subseteq InHands' \cup Queued'
         /\ Queued \subseteq Queued'
<1> DEFINE i == saver[r].piece
<1>0. i \in Piece /\ writeQueue \in Seq(Piece)
  BY SaverFields DEF TypeOK
<1>1. ASSUME NEW to, Moves(r, to)
      PROVE  \A s \in Readers \ {r} :
               saver[s].pc \in {"truncate", "fill", "queue"} => saver[s].piece \in InHands'
  BY <1>1 DEF Moves, InHands, Saving
<1>2. saver'[r].pc \in {"truncate", "fill", "queue"} => saver'[r].piece \in InHands'
  BY DEF InHands, Saving
<1>3. ASSUME NEW to, Moves(r, to), UNCHANGED writeQueue,
             i \in InHands' \/ saver[r].pc \in {"read", "save"}
      PROVE  InHands \subseteq InHands' \cup Queued' /\ Queued \subseteq Queued'
  BY <1>1, <1>3 DEF InHands, Saving, Queued
<1>4. CASE SetBit(r)
  <2>1. /\ Moves(r, "truncate") /\ i \in InHands' /\ saver[r].pc = "save"
        /\ saver'[r].bits = Bitfield' /\ Bitfield' = Bitfield \cup {i}
    BY <1>2, <1>4, ReaderMoves DEF Moves
  <2> QED BY <1>3, <1>4, <2>1 DEF SetBit, fileVars
<1>5. CASE Truncate(r)
  <2>1. Moves(r, "fill") /\ i \in InHands' /\ saver'[r].bits = saver[r].bits
    BY <1>2, <1>5, ReaderMoves DEF Moves
  <2> QED BY <1>3, <1>5, <2>1 DEF Truncate
<1>6. CASE Fill(r) \/ SaveFails(r)
  <2>1. Moves(r, "queue") /\ i \in InHands' /\ saver'[r].bits = {}
    BY <1>2, <1>6, ReaderMoves DEF Moves
  <2> QED BY <1>3, <1>6, <2>1 DEF Fill, SaveFails
<1>7. CASE QueueWrite(r)
  <2>1. Moves(r, "read") /\ saver'[r].bits = {}
    BY <1>7, ReaderMoves
  <2>2. Queued' = Queued \cup {i}
    BY <1>0, <1>7, RangeOfQueue DEF QueueWrite, Queued
  <2>3. InHands \subseteq InHands' \cup Queued'
    BY <1>1, <2>1, <2>2 DEF InHands, Saving
  <2> QED BY <1>7, <2>1, <2>2, <2>3 DEF QueueWrite, fileVars
<1>8. CASE \E j \in Piece : VerifyPiece(r, j)
  <2>1. PICK j \in Piece : VerifyPiece(r, j)
    BY <1>8
  <2>2. Moves(r, "save") /\ saver[r].pc = "read" /\ saver'[r].bits = {}
    BY <2>1, ReaderMoves
  <2> QED BY <1>3, <2>1, <2>2 DEF VerifyPiece, fileVars
<1> QED BY <1>4, <1>5, <1>6, <1>7, <1>8 DEF ReaderStep

LEMMA ReaderLoss ==
  ASSUME LossInv, NEW r \in Readers, ReaderStep(r) \/ SaveFails(r), TypeOK'
  PROVE  LossInv'
<1>1. TypeOK /\ NoSessionYet /\ FileStates /\ WorkerHoldsOne /\ BitsAreAccounted
  BY DEF LossInv
<1>2. started
  BY <1>1, ReaderIsStarted
<1>3. PICK to : Moves(r, to)
  BY <1>1, ReaderBits
<1>4. main \notin {"down", "scan", "store"} /\ started'
  BY <1>1, <1>2, <1>3 DEF NoSessionYet, Moves
<1>5. NoSessionYet' /\ WorkerHoldsOne'
  BY <1>1, <1>3, <1>4 DEF NoSessionYet, WorkerHoldsOne, Moves
<1>6. FileStates'
  <2>1. dotfile \in {"partial", "whole"} /\ (dotfile # "whole" => fileBits = {})
    BY <1>1, <1>2 DEF FileStates
  <2>2. dotfile' \in {"partial", "whole"} /\ (dotfile' # "whole" => fileBits' = {})
    <3>1. CASE dotfile' = "whole"
      BY <3>1
    <3>2. CASE dotfile' # "whole" /\ dotfile # "whole"
      BY <1>1, <2>1, <3>2, ReaderBits
    <3>3. CASE dotfile' # "whole" /\ dotfile = "whole"
      <4>1. Truncate(r)
        BY <3>3 DEF ReaderStep, SetBit, Truncate, Fill, QueueWrite, VerifyPiece, SaveFails, fileVars
      <4> QED BY <4>1 DEF Truncate
    <3> QED BY <3>1, <3>2, <3>3
  <2>3. main' # "store"
    BY <1>3, <1>4 DEF Moves
  <2> QED BY <2>2, <2>3 DEF FileStates
<1>7. BitsAreAccounted'
  <2>1. Bitfield \cup fileBits \subseteq Accounted /\ \A s \in Readers : saver[s].bits \subseteq Accounted
    BY <1>1, <1>2 DEF BitsAreAccounted
  <2>2. Accounted \subseteq Accounted' /\ InHands' \subseteq Accounted'
    BY <1>1, <1>3, ReaderBits DEF Accounted, Moves
  <2>3. /\ Bitfield' \subseteq Accounted'
        /\ fileBits' \subseteq Accounted' /\ saver'[r].bits \subseteq Accounted'
    BY <1>1, <2>1, <2>2, ReaderBits
  <2>4. \A s \in Readers : saver'[s].bits \subseteq Accounted'
    BY <1>3, <2>1, <2>2, <2>3 DEF Moves
  <2> QED BY <2>3, <2>4 DEF BitsAreAccounted
<1> QED BY <1>5, <1>6, <1>7 DEF LossInv

LEMMA WorkerLoss ==
  ASSUME LossInv, WorkerStep, TypeOK'
  PROVE  LossInv'
<1>1. TypeOK /\ NoSessionYet /\ FileStates /\ WorkerHoldsOne /\ BitsAreAccounted
  BY DEF LossInv
<1>2. /\ started /\ main \notin {"down", "scan", "store"}
      /\ UNCHANGED <<dotfile, fileBits, main, started, trusted, Bitfield, saver>>
  BY <1>1 DEF NoSessionYet, WorkerStep, ReceiveWrite, WritePiece, fileVars, sessionVars
<1>3. NoSessionYet' /\ FileStates'
  <2>1. dotfile \in {"partial", "whole"}
    BY <1>1, <1>2 DEF FileStates
  <2> QED BY <1>1, <1>2, <2>1 DEF NoSessionYet, FileStates
<1>4. WorkerHoldsOne' /\ Queued \cup worker \cup onDisk \cup failed
                          \subseteq (Queued \cup worker \cup onDisk \cup failed)'
  <2>1. CASE ReceiveWrite
    <3>1. writeQueue \in Seq(Piece)
      BY <1>1 DEF TypeOK
    <3>2. Head(writeQueue) \in Piece /\ Queued = {Head(writeQueue)} \cup Queued'
      BY <2>1, <3>1, RangeOfQueue DEF ReceiveWrite, Queued
    <3> QED BY <2>1, <3>2 DEF ReceiveWrite, WorkerHoldsOne, dataVars
  <2>2. CASE WritePiece
    <3>1. UNCHANGED Queued /\ worker' = {}
      BY <2>2 DEF WritePiece, Queued
    <3> QED BY <2>2, <3>1, ZeroIsPiece DEF WritePiece, WorkerHoldsOne
  <2> QED BY <2>1, <2>2 DEF WorkerStep
<1>5. Accounted \subseteq Accounted'
  <2>1. UNCHANGED InHands
    BY <1>2 DEF InHands, Saving
  <2> QED BY <1>2, <1>4, <2>1 DEF Accounted
<1>6. BitsAreAccounted'
  BY <1>1, <1>2, <1>5 DEF BitsAreAccounted
<1> QED BY <1>3, <1>4, <1>6 DEF LossInv

LEMMA NextLoss == LossInv /\ [Next]_vars => LossInv'
<1> SUFFICES ASSUME LossInv, [Next]_vars PROVE LossInv'
  OBVIOUS
<1>1. TypeOK'
  BY NextType DEF LossInv
<1>2. CASE UNCHANGED vars
  <2>1. UNCHANGED <<InHands, Queued, Accounted>>
    BY <1>2 DEF InHands, Saving, Queued, Accounted, vars, fileVars, dataVars, sessionVars, pipeVars
  <2> QED BY <1>1, <1>2, <2>1 DEF LossInv, NoSessionYet, FileStates, WorkerHoldsOne, BitsAreAccounted,
                                 vars, fileVars, dataVars, sessionVars, pipeVars
<1>3. CASE Next
  BY <1>1, <1>3, MainLoss, ReaderLoss, WorkerLoss DEF Next
<1> QED BY <1>2, <1>3

(* The range of a function is no larger than its domain.                   *)
LEMMA RangeIsSmall ==
  ASSUME NEW S, NEW T, NEW f \in [S -> T], IsFiniteSet(S)
  PROVE  /\ IsFiniteSet(Range(f)) /\ Cardinality(Range(f)) <= Cardinality(S)
         /\ Cardinality(Range(f)) \in Nat /\ Cardinality(S) \in Nat
<1>1. f \in Surjection(S, Range(f))
  BY DEF Surjection, Range
<1> QED BY <1>1, FS_Surjection, FS_CardinalityType

LEMMA UnionIsSmall ==
  ASSUME NEW S, NEW T, IsFiniteSet(S), IsFiniteSet(T)
  PROVE  /\ IsFiniteSet(S \cup T)
         /\ Cardinality(S \cup T) <= Cardinality(S) + Cardinality(T)
<1>1. IsFiniteSet(S \cap T)
  BY FS_Subset
<1>2. /\ Cardinality(S) \in Nat /\ Cardinality(T) \in Nat /\ Cardinality(S \cap T) \in Nat
      /\ IsFiniteSet(S \cup T)
      /\ Cardinality(S \cup T) = Cardinality(S) + Cardinality(T) - Cardinality(S \cap T)
  BY <1>1, FS_CardinalityType, FS_Union
<1> QED BY <1>2

(* The pieces on their way: one per reader, the queue, and one.            *)
LEMMA FewOnTheWay ==
  ASSUME LossInv
  PROVE  /\ IsFiniteSet(InHands \cup Queued \cup worker)
         /\ Cardinality(InHands \cup Queued \cup worker)
              <= DiskWriteQueueSize + Cardinality(Readers) + 1
<1> DEFINE held == [r \in Saving |-> saver[r].piece]
<1>1. /\ IsFiniteSet(Saving) /\ Cardinality(Saving) <= Cardinality(Readers)
      /\ Cardinality(Saving) \in Nat /\ Cardinality(Readers) \in Nat
  <2>1. Saving \in SUBSET Readers /\ IsFiniteSet(Readers)
    BY ZeroIsPiece DEF Saving
  <2> QED BY <2>1, FS_Subset, FS_CardinalityType
<1>2. IsFiniteSet(InHands) /\ Cardinality(InHands) <= Cardinality(Readers) /\ Cardinality(InHands) \in Nat
  <2>1. InHands = Range(held) /\ held \in [Saving -> InHands]
    BY DEF InHands, Range
  <2>2. /\ IsFiniteSet(InHands) /\ Cardinality(InHands) <= Cardinality(Saving)
        /\ Cardinality(InHands) \in Nat
    <3> HIDE DEF held
    <3> QED BY <1>1, <2>1, RangeIsSmall
  <2> QED BY <1>1, <2>2
<1>3. /\ IsFiniteSet(Queued) /\ Cardinality(Queued) <= DiskWriteQueueSize
      /\ Cardinality(Queued) \in Nat /\ DiskWriteQueueSize \in Nat
  <2>1. /\ writeQueue \in [1..Len(writeQueue) -> Piece] /\ Len(writeQueue) \in Nat
        /\ Len(writeQueue) <= DiskWriteQueueSize
    <3>1. writeQueue \in Seq(Piece) /\ Len(writeQueue) <= DiskWriteQueueSize
      BY DEF LossInv, TypeOK
    <3> QED BY <3>1
  <2>2. IsFiniteSet(1..Len(writeQueue)) /\ Cardinality(1..Len(writeQueue)) = Len(writeQueue)
    <3>1. /\ IsFiniteSet(1..Len(writeQueue))
          /\ Cardinality(1..Len(writeQueue)) = IF 1 > Len(writeQueue) THEN 0 ELSE Len(writeQueue) - 1 + 1
      BY <2>1, FS_Interval
    <3> QED BY <2>1, <3>1
  <2>3. DiskWriteQueueSize \in Nat
    BY RecoveryAssumption
  <2>4. /\ IsFiniteSet(Queued) /\ Cardinality(Queued) <= Cardinality(1..Len(writeQueue))
        /\ Cardinality(Queued) \in Nat
    BY <2>1, <2>2, RangeIsSmall DEF Queued
  <2> QED BY <2>1, <2>2, <2>3, <2>4
<1>4. IsFiniteSet(worker) /\ Cardinality(worker) <= 1 /\ Cardinality(worker) \in Nat
  <2>1. PICK i \in Piece : worker \in SUBSET {i}
    BY DEF LossInv, WorkerHoldsOne
  <2>2. IsFiniteSet({i}) /\ Cardinality({i}) = 1
    BY FS_Singleton
  <2> QED BY <2>1, <2>2, FS_Subset, FS_CardinalityType
<1>5. /\ IsFiniteSet(InHands \cup Queued)
      /\ Cardinality(InHands \cup Queued) <= Cardinality(InHands) + Cardinality(Queued)
      /\ Cardinality(InHands \cup Queued) \in Nat
  BY <1>2, <1>3, UnionIsSmall, FS_CardinalityType
<1>6. /\ IsFiniteSet((InHands \cup Queued) \cup worker)
      /\ Cardinality((InHands \cup Queued) \cup worker) <= Cardinality(InHands \cup Queued) + Cardinality(worker)
      /\ Cardinality((InHands \cup Queued) \cup worker) \in Nat
  BY <1>4, <1>5, UnionIsSmall, FS_CardinalityType
<1> QED BY <1>1, <1>2, <1>3, <1>4, <1>5, <1>6

(* However many readers save their pieces at once, a crash loses no more   *)
(* of the pieces that the file records than the queue holds, plus one in   *)
(* the hands of each reader and of the worker.                             *)
THEOREM LossIsBounded == Spec => []BoundedLoss
<1>1. Init => LossInv
  BY InitLoss
<1>2. LossInv /\ [Next]_vars => LossInv'
  BY NextLoss
<1>3. LossInv => BoundedLoss
  <2> SUFFICES ASSUME LossInv, started
               PROVE  Cardinality(fileBits \ (trusted \cup onDisk \cup failed))
                        <= DiskWriteQueueSize + Cardinality(Readers) + 1
    BY DEF BoundedLoss
  <2> DEFINE Lost == fileBits \ (trusted \cup onDisk \cup failed)
             Way == InHands \cup Queued \cup worker
  <2>1. Lost \in SUBSET Way
    BY DEF LossInv, BitsAreAccounted, Accounted
  <2>2. IsFiniteSet(Way) /\ Cardinality(Way) <= DiskWriteQueueSize + Cardinality(Readers) + 1
    BY FewOnTheWay
  <2>3. DiskWriteQueueSize + Cardinality(Readers) + 1 \in Nat
    BY RecoveryAssumption, FS_CardinalityType
  <2> HIDE DEF Lost, Way
  <2>4. Cardinality(Lost) <= Cardinality(Way) /\ Cardinality(Lost) \in Nat /\ Cardinality(Way) \in Nat
    BY <2>1, <2>2, FS_Subset, FS_CardinalityType
  <2>5. Cardinality(Lost) <= DiskWriteQueueSize + Cardinality(Readers) + 1
    BY <2>2, <2>3, <2>4
  <2> QED BY <2>5 DEF Lost
<1> QED BY <1>1, <1>2, <1>3, PTL DEF Spec

-----------------------------------------------------------------------------
(* One reader.                                                             *)

LEMMA InitSole == Init => SoleInv
BY DEF Init, SoleInv, WholeFile

LEMMA MainSole ==
  ASSUME IInv, MainStep \/ Launch \/ Crash, LossInv'
  PROVE  SoleInv'
<1>1. LossInv /\ WholeFile
  BY DEF IInv, SoleInv
<1>2. CASE Ends
  <2>1. ~started'
    BY <1>2, NewProcess DEF Ends
  <2>2. CASE UNCHANGED dotfile
    BY <1>1, <1>2, <2>1, <2>2 DEF Ends, SoleInv, WholeFile
  <2>3. CASE main = "store" /\ dotfile' = "whole"
    <3>1. onDisk = {} /\ fileBits = {}
      BY <1>1, <2>3 DEF LossInv, FileStates
    <3> QED BY <1>2, <2>1, <3>1 DEF Ends, SoleInv, WholeFile
  <2> QED BY <1>2, <2>2, <2>3 DEF Ends
<1>3. CASE Resumes \/ Begins
  <2>1. /\ ~started /\ dotfile' = "whole"
        /\ verified' = Bitfield' /\ fileBits' = Bitfield' /\ fileBits' = fileBits
        /\ UNCHANGED <<saver, writeQueue, worker, unsaved, onDisk>>
    BY <1>1, <1>3 DEF LossInv, NoSessionYet, FileStates, Resumes, Begins, StartTorrentSession,
                      fileVars, dataVars, pipeVars
  <2>2. WholeFile'
    <3>1. Begins => onDisk = {}
      BY <1>1 DEF LossInv, FileStates, Begins
    <3>2. Resumes => dotfile = "whole"
      BY DEF Resumes
    <3> QED BY <1>1, <1>3, <2>1, <3>1, <3>2 DEF WholeFile
  <2>3. (\A r \in Readers : saver[r].pc = "read") /\ writeQueue = <<>> /\ worker = {}
    BY <1>1, <2>1 DEF LossInv, NoSessionYet
  <2>4. Queued' = {}
    BY <2>1, <2>3 DEF Queued, Range
  <2>5. ASSUME NEW r \in Readers
        PROVE  BitOfReader(r)' /\ FileOfReader(r)' /\ FlightIsRecorded(r)'
    <3>1. saver'[r].pc = "read" /\ Recorded(r)' = Bitfield'
      BY <2>1, <2>3 DEF Recorded
    <3>2. BitOfReader(r)'
      BY <2>1, <3>1 DEF BitOfReader
    <3>3. FileOfReader(r)'
      BY <2>1, <2>2, <3>1 DEF FileOfReader, WholeFile
    <3>4. FlightIsRecorded(r)'
      BY <2>1, <2>2, <2>3, <2>4, <3>1 DEF FlightIsRecorded, WholeFile
    <3> QED BY <3>2, <3>3, <3>4
  <2> QED BY <2>2, <2>5 DEF SoleInv
<1>4. CASE Creates
  <2>1. /\ ~started' /\ dotfile' = "partial"
        /\ UNCHANGED <<fileBits, unsaved>>
    BY <1>1, <1>4 DEF LossInv, FileStates, Creates, sessionVars
  <2> QED BY <1>1, <2>1 DEF SoleInv, WholeFile
<1>5. CASE Passes
  <2>1. UNCHANGED <<dotfile, fileBits, unsaved, onDisk, started, verified, Bitfield, saver, writeQueue, worker>>
    BY <1>5 DEF Passes, fileVars, dataVars, sessionVars, pipeVars
  <2> QED BY <2>1 DEF IInv, SoleInv, WholeFile, BitOfReader, FileOfReader, FlightIsRecorded, Recorded, Queued
<1> QED BY <1>2, <1>3, <1>4, <1>5, MainCases

LEMMA ReaderSole ==
  ASSUME NEW r, Readers = {r}, IInv, ReaderStep(r) \/ SaveFails(r)
  PROVE  SoleInv'
<1> DEFINE i == saver[r].piece
           Rec == Recorded(r)
<1>0. /\ TypeOK /\ NoSessionYet /\ FileStates /\ WholeFile /\ started
      /\ BitOfReader(r) /\ FileOfReader(r) /\ FlightIsRecorded(r)
      /\ i \in Piece /\ writeQueue \in Seq(Piece) /\ r \in Readers
  <2>1. TypeOK /\ NoSessionYet /\ FileStates /\ WholeFile /\ r \in Readers
    BY DEF IInv, LossInv, SoleInv
  <2>2. started
    BY <2>1, ReaderIsStarted
  <2> QED BY <2>1, <2>2, SaverFields DEF IInv, SoleInv, TypeOK
<1>1. SUFFICES WholeFile' /\ BitOfReader(r)' /\ FileOfReader(r)' /\ FlightIsRecorded(r)'
  BY DEF SoleInv
<1>2. CASE SetBit(r)
  <2>1. /\ saver[r].pc = "save" /\ saver'[r].pc = "truncate"
        /\ saver'[r].piece = i /\ saver'[r].bits = Bitfield'
        /\ Bitfield' = Bitfield \cup {i} /\ i \in verified \ Bitfield
        /\ UNCHANGED <<dotfile, fileBits, unsaved, onDisk, verified, writeQueue, worker>>
    BY <1>0, <1>2, ReaderMoves DEF Moves, BitOfReader, SetBit, fileVars
  <2>2. Recorded(r)' = Rec /\ Rec = Bitfield /\ UNCHANGED Queued
    BY <2>1 DEF Recorded, Queued
  <2>3. WholeFile' /\ BitOfReader(r)'
    BY <1>0, <2>1 DEF WholeFile, BitOfReader
  <2>4. FileOfReader(r)'
    BY <1>0, <2>1, <2>2 DEF FileOfReader
  <2>5. FlightIsRecorded(r)'
    BY <1>0, <2>1, <2>2 DEF FlightIsRecorded
  <2> QED BY <2>3, <2>4, <2>5
<1>3. CASE Truncate(r)
  <2>1. /\ saver[r].pc = "truncate" /\ saver'[r].pc = "fill"
        /\ saver'[r].piece = i /\ saver'[r].bits = saver[r].bits
        /\ dotfile' = "partial" /\ fileBits' = {}
        /\ UNCHANGED <<unsaved, onDisk, verified, Bitfield, writeQueue, worker>>
    BY <1>0, <1>3, ReaderMoves DEF Moves, Truncate
  <2>2. Rec \subseteq Recorded(r)' /\ UNCHANGED Queued
    BY <2>1 DEF Recorded, Queued
  <2>3. WholeFile' /\ BitOfReader(r)' /\ FileOfReader(r)'
    BY <1>0, <2>1 DEF WholeFile, BitOfReader, FileOfReader
  <2>4. FlightIsRecorded(r)'
    BY <1>0, <2>1, <2>2 DEF FlightIsRecorded
  <2> QED BY <2>3, <2>4
<1>4. CASE Fill(r)
  <2>1. /\ saver[r].pc = "fill" /\ saver'[r].pc = "queue"
        /\ saver'[r].piece = i /\ i \in Bitfield
        /\ dotfile' = "whole" /\ fileBits' = Bitfield /\ unsaved' = unsaved \ Bitfield
        /\ UNCHANGED <<onDisk, verified, Bitfield, writeQueue, worker>>
    BY <1>0, <1>4, ReaderMoves DEF Moves, BitOfReader, Fill
  <2>2. Recorded(r)' = Bitfield /\ Rec = Bitfield /\ UNCHANGED Queued
    BY <2>1 DEF Recorded, Queued
  <2>3. FlightIsRecorded(r)'
    BY <1>0, <2>1, <2>2 DEF FlightIsRecorded
  <2>4. WholeFile' /\ BitOfReader(r)' /\ FileOfReader(r)'
    BY <1>0, <2>1, <2>2, <2>3 DEF WholeFile, BitOfReader, FileOfReader, FlightIsRecorded
  <2> QED BY <2>3, <2>4
<1>5. CASE SaveFails(r)
  <2>1. /\ saver[r].pc \in {"truncate", "fill"} /\ saver'[r].pc = "queue"
        /\ saver'[r].piece = i /\ i \in Bitfield
        /\ unsaved' = unsaved \cup {i}
        /\ UNCHANGED <<dotfile, fileBits, onDisk, verified, Bitfield, writeQueue, worker>>
    BY <1>0, <1>5, ReaderMoves DEF Moves, BitOfReader, SaveFails
  <2>2. Recorded(r)' = Bitfield /\ Rec \subseteq Bitfield /\ UNCHANGED Queued
    BY <2>1 DEF Recorded, Queued
  <2>3. i \notin fileBits
    <3>1. CASE dotfile = "whole"
      BY <1>0, <2>1, <3>1 DEF BitOfReader, FileOfReader, Recorded
    <3>2. CASE dotfile # "whole"
      BY <1>0, <3>2 DEF FileStates
    <3> QED BY <3>1, <3>2
  <2>4. dotfile = "whole" => fileBits = Bitfield \ unsaved'
    BY <1>0, <2>1, <2>3 DEF BitOfReader, FileOfReader, Recorded
  <2>5. FlightIsRecorded(r)'
    BY <1>0, <2>1, <2>2 DEF FlightIsRecorded
  <2>6. WholeFile' /\ BitOfReader(r)' /\ FileOfReader(r)'
    BY <1>0, <2>1, <2>2, <2>3, <2>4 DEF WholeFile, BitOfReader, FileOfReader
  <2> QED BY <2>5, <2>6
<1>6. CASE QueueWrite(r)
  <2>1. /\ saver[r].pc = "queue" /\ saver'[r].pc = "read"
        /\ UNCHANGED <<dotfile, fileBits, unsaved, onDisk, verified, Bitfield, worker>>
    BY <1>0, <1>6, ReaderMoves DEF Moves, QueueWrite, fileVars
  <2>2. Queued' = Queued \cup {i}
    BY <1>0, <1>6, RangeOfQueue DEF QueueWrite, Queued
  <2>3. Recorded(r)' = Rec /\ Rec = Bitfield
    BY <2>1 DEF Recorded
  <2>4. WholeFile' /\ BitOfReader(r)' /\ FileOfReader(r)'
    BY <1>0, <2>1, <2>3 DEF WholeFile, BitOfReader, FileOfReader
  <2>5. FlightIsRecorded(r)'
    BY <1>0, <2>1, <2>2, <2>3 DEF FlightIsRecorded
  <2> QED BY <2>4, <2>5
<1>7. CASE \E j \in Piece : VerifyPiece(r, j)
  <2>1. PICK j \in Piece : VerifyPiece(r, j)
    BY <1>7
  <2>2. /\ saver[r].pc = "read" /\ saver'[r].pc = "save" /\ saver'[r].piece = j
        /\ j \notin verified /\ verified' = verified \cup {j}
        /\ UNCHANGED <<dotfile, fileBits, unsaved, onDisk, Bitfield, writeQueue, worker>>
    BY <1>0, <2>1, ReaderMoves DEF Moves, VerifyPiece, fileVars
  <2>3. Recorded(r)' = Rec /\ Rec = Bitfield /\ UNCHANGED Queued
    BY <2>2 DEF Recorded, Queued
  <2>4. WholeFile' /\ FileOfReader(r)' /\ FlightIsRecorded(r)'
    BY <1>0, <2>2, <2>3 DEF WholeFile, FileOfReader, FlightIsRecorded
  <2>5. BitOfReader(r)'
    BY <1>0, <2>2 DEF BitOfReader
  <2> QED BY <2>4, <2>5
<1> QED BY <1>2, <1>3, <1>4, <1>5, <1>6, <1>7 DEF ReaderStep

LEMMA WorkerSole ==
  ASSUME NEW only, Readers = {only}, IInv, WorkerStep
  PROVE  SoleInv'
<1>1. UNCHANGED <<dotfile, fileBits, unsaved, started, verified, Bitfield, saver>>
  BY DEF WorkerStep, ReceiveWrite, WritePiece, fileVars, sessionVars
<1>2. started
  BY DEF IInv, LossInv, NoSessionYet, WorkerStep, ReceiveWrite, WritePiece
<1>3. (onDisk \cup Queued \cup worker)' \subseteq onDisk \cup Queued \cup worker
  <2>1. CASE ReceiveWrite
    <3>1. writeQueue \in Seq(Piece)
      BY DEF IInv, LossInv, TypeOK
    <3>2. Queued = {Head(writeQueue)} \cup Queued'
      BY <2>1, <3>1, RangeOfQueue DEF ReceiveWrite, Queued
    <3> QED BY <2>1, <3>2 DEF ReceiveWrite, dataVars
  <2>2. CASE WritePiece
    <3>1. UNCHANGED Queued /\ worker' = {} /\ onDisk' \subseteq onDisk \cup worker
      BY <2>2 DEF WritePiece, Queued
    <3> QED BY <3>1
  <2> QED BY <2>1, <2>2 DEF WorkerStep
<1>4. ASSUME NEW r \in Readers
      PROVE  BitOfReader(r)' /\ FileOfReader(r)' /\ FlightIsRecorded(r)'
  <2>1. BitOfReader(r) /\ FileOfReader(r) /\ FlightIsRecorded(r)
    BY <1>2 DEF IInv, SoleInv
  <2>2. UNCHANGED Recorded(r)
    BY <1>1 DEF Recorded
  <2>3. BitOfReader(r)' /\ FileOfReader(r)'
    BY <1>1, <2>1, <2>2 DEF BitOfReader, FileOfReader
  <2>4. FlightIsRecorded(r)'
    BY <1>1, <1>3, <2>1, <2>2 DEF FlightIsRecorded
  <2> QED BY <2>3, <2>4
<1>5. WholeFile'
  <2>1. fileBits \cap unsaved = {}
    BY DEF IInv, SoleInv, WholeFile
  <2>2. FileOfReader(only)' /\ FlightIsRecorded(only)'
    BY <1>4
  <2> QED BY <1>1, <2>1, <2>2 DEF WholeFile, FileOfReader, FlightIsRecorded
<1> QED BY <1>4, <1>5 DEF SoleInv

LEMMA OneReaderInductive ==
  ASSUME NEW only, Readers = {only}
  PROVE  Spec => []IInv
<1>1. Init => IInv
  BY InitLoss, InitSole DEF IInv
<1>2. IInv /\ [Next]_vars => IInv'
  <2> SUFFICES ASSUME IInv, [Next]_vars PROVE IInv'
    OBVIOUS
  <2>1. LossInv'
    BY NextLoss DEF IInv
  <2>2. CASE UNCHANGED vars
    <3>1. UNCHANGED <<dotfile, fileBits, unsaved, onDisk, started, verified, Bitfield, saver, Queued, worker>>
      BY <2>2 DEF Queued, vars, fileVars, dataVars, sessionVars, pipeVars
    <3>2. SoleInv'
      BY <3>1 DEF IInv, SoleInv, WholeFile, BitOfReader, FileOfReader, FlightIsRecorded, Recorded
    <3> QED BY <2>1, <3>2 DEF IInv
  <2>3. CASE Next
    <3>1. SoleInv'
      BY <2>1, <2>3, MainSole, ReaderSole, WorkerSole DEF Next
    <3> QED BY <2>1, <3>1 DEF IInv
  <2> QED BY <2>2, <2>3
<1> QED BY <1>1, <1>2, PTL DEF Spec

(* With one reader, whatever crashed or failed before, a piece on disk is  *)
(* recorded in the file, or about to be, unless its own save failed.       *)
THEOREM OneReaderSavesFirst ==
  ASSUME NEW only, Readers = {only}
  PROVE  Spec => []WrittenIsSaved
<1>1. IInv => WrittenIsSaved
  <2> SUFFICES ASSUME IInv PROVE WrittenIsSaved
    OBVIOUS
  <2>1. /\ TypeOK /\ FileStates /\ WholeFile
        /\ started => BitOfReader(only) /\ FileOfReader(only) /\ FlightIsRecorded(only)
    BY DEF IInv, LossInv, SoleInv
  <2>2. CASE dotfile = "whole"
    BY <2>1, <2>2 DEF WrittenIsSaved, WholeFile
  <2>3. CASE dotfile = "partial" /\ started /\ unsaved = {}
    <3>1. saver[only].pc = "fill" /\ saver[only].bits = Bitfield /\ Recorded(only) = Bitfield
      BY <2>1, <2>3 DEF FileOfReader, BitOfReader, Recorded
    <3>2. onDisk \subseteq saver[only].bits
      BY <2>1, <2>3, <3>1 DEF FlightIsRecorded
    <3> QED BY <2>3, <3>1, <3>2 DEF WrittenIsSaved
  <2>4. CASE dotfile = "partial" /\ (~started \/ unsaved # {})
    BY <2>4 DEF WrittenIsSaved
  <2>5. CASE dotfile \in {"no folder", "absent"}
    BY <2>1, <2>5 DEF FileStates, WrittenIsSaved
  <2> QED BY <2>1, <2>2, <2>3, <2>4, <2>5 DEF TypeOK
<1> QED BY <1>1, OneReaderInductive, PTL

(* With one reader, which is in no save, the file has the bits that the    *)
(* session has, but those whose save failed.                               *)
THEOREM OneReaderKeepsFile ==
  ASSUME NEW only, Readers = {only}
  PROVE  Spec => []FileFollowsMemory
<1>1. IInv => FileFollowsMemory
  <2> SUFFICES ASSUME IInv, started, saver[only].pc \in {"read", "queue"}
               PROVE  \/ dotfile = "whole" /\ fileBits = Bitfield \ unsaved
                      \/ dotfile = "partial" /\ Bitfield \cap unsaved # {}
    BY DEF FileFollowsMemory
  <2>1. dotfile \in {"partial", "whole"} /\ FileOfReader(only)
    BY DEF IInv, LossInv, FileStates, SoleInv
  <2> QED BY <2>1 DEF FileOfReader, Recorded
<1> QED BY <1>1, OneReaderInductive, PTL

=============================================================================
