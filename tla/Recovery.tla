------------------------------ MODULE Recovery ------------------------------
(***************************************************************************)
(* What survives the process: the file of a torrent in the dotfolder, with *)
(* the bitfield of its pieces, and the torrent's data on disk.  main scans *)
(* the dotfolder and resumes what it finds, a torrent given as argument is *)
(* stored and started, and every verified piece is recorded in the file    *)
(* before its data goes through the write queue.  The process may die      *)
(* between any two steps.                                                  *)
(*                                                                         *)
(* There is one torrent.  Download has how its pieces come to be verified; *)
(* here a reader verifies any piece that is not.                           *)
(***************************************************************************)
EXTENDS Integers, Sequences, FiniteSets

CONSTANTS
  TotalPieces,         \* number of pieces of the torrent
  Readers,             \* the goroutines running PeerReadLoop
  DiskWriteQueueSize,  \* capacity of writeQueue
  Arguments,           \* whether a launch names the torrent: a set of BOOLEAN
  MaxMishaps           \* bound on the number of crashes and of failing calls

ASSUME RecoveryAssumption ==
  /\ TotalPieces \in Nat \ {0}
  /\ IsFiniteSet(Readers)
  /\ DiskWriteQueueSize \in Nat \ {0}
  /\ Arguments \in (SUBSET BOOLEAN) \ {{}}
  /\ MaxMishaps \in Nat

VARIABLES
  dotfile,     \* the torrent's file: no dotfolder, absent, cut short, or whole
  fileBits,    \* the bits set in the bitfield of a whole file
  onDisk,      \* the pieces whose bytes were written
  failed,      \* the pieces whose write failed, which is only logged
  unsaved,     \* history: the pieces whose save failed, and no later save recorded
  mishaps,     \* the number of crashes and of failing calls so far
  main,        \* the place of main
  started,     \* the torrent has a session
  trusted,     \* the pieces the session took from the bitfield
  verified,    \* the verified pieces of its PieceManager, trusted ones included
  Bitfield,    \* the bits set in ts.TorrentFile.Bitfield
  saver,       \* per reader, the state of MarkPieceCompleteAndPersist
  writeQueue,  \* the pieces in the channel of the disk manager
  worker       \* the piece that the worker writes, if any

fileVars == <<dotfile, fileBits, unsaved>>
dataVars == <<onDisk, failed>>
sessionVars == <<started, trusted, verified, Bitfield>>
pipeVars == <<saver, writeQueue, worker>>
vars == <<fileVars, dataVars, mishaps, main, sessionVars, pipeVars>>

-----------------------------------------------------------------------------
Piece == 0..TotalPieces - 1

SaverState == [pc : {"read", "save", "truncate", "fill", "queue"},
               piece : Piece, bits : SUBSET Piece]
SaverAt(loc, i, bits) == [pc |-> loc, piece |-> i, bits |-> bits]

Up == main # "down"

(* The memory of a process without a session.                              *)
NoSession ==
  /\ started' = FALSE
  /\ trusted' = {} /\ verified' = {} /\ Bitfield' = {}
  /\ saver' = [r \in Readers |-> SaverAt("read", 0, {})]
  /\ writeQueue' = <<>>
  /\ worker' = {}

Init ==
  /\ dotfile \in {"no folder", "absent"}
  /\ fileBits = {}
  /\ onDisk = {} /\ failed = {}
  /\ unsaved = {}
  /\ mishaps = 0
  /\ main = "down"
  /\ started = FALSE
  /\ trusted = {} /\ verified = {} /\ Bitfield = {}
  /\ saver = [r \in Readers |-> SaverAt("read", 0, {})]
  /\ writeQueue = <<>>
  /\ worker = {}

(* The environment fails a call, or the process.                           *)
Mishap ==
  /\ mishaps < MaxMishaps
  /\ mishaps' = mishaps + 1

-----------------------------------------------------------------------------
(* main.                                                                   *)

Launch ==
  /\ main = "down"
  /\ main' = "scan"
  /\ UNCHANGED <<fileVars, dataVars, mishaps, sessionVars, pipeVars>>

Exit == main' = "down" /\ NoSession

(* Faulty variant: the bits count as pieces, and a new bitfield is made.   *)
StartFromCopy(bits, next) ==
  /\ started' = TRUE
  /\ trusted' = bits
  /\ verified' = bits
  /\ Bitfield' = {}
  /\ main' = next
  /\ UNCHANGED <<mishaps, pipeVars>>

(* StartTorrentSession: the bits of the file count as pieces on disk.  An  *)
(* error of the tracker or of every peer ends the process.                 *)
StartTorrentSession(bits, next) ==
  /\ started' = TRUE
  /\ trusted' = bits
  /\ verified' = bits
  /\ Bitfield' = bits
  /\ main' = next
  /\ UNCHANGED <<mishaps, pipeVars>>

StartFails(bits) == bits # Piece /\ Mishap /\ Exit

(* Faulty variant: nothing that is stored is started.                      *)
ScanNothing ==
  /\ main = "scan"
  /\ main' = "argument"
  /\ UNCHANGED <<fileVars, dataVars, mishaps, sessionVars, pipeVars>>

(* Without a dotfolder, main ends.  A file that does not parse is skipped. *)
Scan ==
  /\ main = "scan"
  /\ \/ dotfile = "no folder" /\ Exit /\ UNCHANGED mishaps
     \/ /\ dotfile = "whole"
        /\ StartTorrentSession(fileBits, "argument") \/ StartFails(fileBits)
     \/ /\ dotfile \in {"absent", "partial"}
        /\ main' = "argument"
        /\ UNCHANGED <<mishaps, sessionVars, pipeVars>>
  /\ UNCHANGED <<fileVars, dataVars>>

(* A torrent whose file exists, in whatever state, is not started again.   *)
Argument ==
  /\ main = "argument"
  /\ \E given \in Arguments :
       IF given /\ dotfile = "absent"
       THEN main' = "store" /\ dotfile' = "partial"
       ELSE main' = "wait" /\ UNCHANGED dotfile
  /\ UNCHANGED <<fileBits, unsaved, dataVars, mishaps, sessionVars, pipeVars>>

(* The rest of StoreTorrentFileInDotfolder, and the start.                 *)
Store ==
  /\ main = "store"
  /\ \/ /\ dotfile' = "whole"
        /\ StartTorrentSession({}, "wait") \/ StartFails({})
     \/ Mishap /\ Exit /\ UNCHANGED dotfile
  /\ UNCHANGED <<fileBits, unsaved, dataVars>>

(* WaitForCompletion returns at once when there is no session.             *)
WaitForCompletion ==
  /\ main = "wait"
  /\ started => verified = Piece
  /\ Exit
  /\ UNCHANGED <<fileVars, dataVars, mishaps>>

MainStep == Scan \/ Argument \/ Store \/ WaitForCompletion

Crash ==
  /\ Up
  /\ Mishap
  /\ Exit
  /\ UNCHANGED <<fileVars, dataVars>>

-----------------------------------------------------------------------------
(* PeerReadLoop from VerifyPiece to QueueWrite.                            *)

SaverStep(r, from, to) ==
  /\ Up
  /\ saver[r].pc = from
  /\ saver' = [saver EXCEPT ![r] = to]
  /\ UNCHANGED <<dataVars, main, started, trusted, worker>>

VerifyPiece(r, i) ==
  /\ started
  /\ i \notin verified
  /\ SaverStep(r, "read", SaverAt("save", i, {}))
  /\ verified' = verified \cup {i}
  /\ UNCHANGED <<fileVars, mishaps, Bitfield, writeQueue>>

(* Sets the bit and marshals the torrent.  The file exists, so it is       *)
(* StoreTorrentFileInDotfolder that refuses and UpdateTorrentFile...       *)
(* that writes it.                                                         *)
SetBit(r) ==
  LET bits == Bitfield \cup {saver[r].piece} IN
  /\ SaverStep(r, "save", SaverAt("truncate", saver[r].piece, bits))
  /\ Bitfield' = bits
  /\ UNCHANGED <<fileVars, mishaps, verified, writeQueue>>

(* os.WriteFile opens the file with O_TRUNC, and then writes it.           *)
Truncate(r) ==
  /\ SaverStep(r, "truncate", [saver[r] EXCEPT !.pc = "fill"])
  /\ dotfile' = "partial"
  /\ fileBits' = {}
  /\ UNCHANGED <<unsaved, mishaps, verified, Bitfield, writeQueue>>

(* Faulty variant: the file records this piece only.                       *)
FillAfresh(r) ==
  /\ SaverStep(r, "fill", SaverAt("queue", saver[r].piece, {}))
  /\ dotfile' = "whole"
  /\ fileBits' = {saver[r].piece}
  /\ unsaved' = unsaved \ fileBits'
  /\ UNCHANGED <<mishaps, verified, Bitfield, writeQueue>>

Fill(r) ==
  /\ SaverStep(r, "fill", SaverAt("queue", saver[r].piece, {}))
  /\ dotfile' = "whole"
  /\ fileBits' = saver[r].bits
  /\ unsaved' = unsaved \ fileBits'
  /\ UNCHANGED <<mishaps, verified, Bitfield, writeQueue>>

(* An error of os.WriteFile is logged, and the piece is queued all the same*)
SaveFails(r) ==
  /\ Mishap
  /\ saver[r].pc \in {"truncate", "fill"}
  /\ SaverStep(r, saver[r].pc, SaverAt("queue", saver[r].piece, {}))
  /\ unsaved' = unsaved \cup {saver[r].piece}
  /\ UNCHANGED <<dotfile, fileBits, verified, Bitfield, writeQueue>>

(* Faulty variant: the queue has no bound.                                 *)
QueueWriteUnbounded(r) ==
  /\ SaverStep(r, "queue", SaverAt("read", 0, {}))
  /\ writeQueue' = Append(writeQueue, saver[r].piece)
  /\ UNCHANGED <<fileVars, mishaps, verified, Bitfield>>

QueueWrite(r) ==
  /\ Len(writeQueue) < DiskWriteQueueSize
  /\ SaverStep(r, "queue", SaverAt("read", 0, {}))
  /\ writeQueue' = Append(writeQueue, saver[r].piece)
  /\ UNCHANGED <<fileVars, mishaps, verified, Bitfield>>

ReaderStep(r) ==
  \/ SetBit(r) \/ Truncate(r) \/ Fill(r) \/ QueueWrite(r)
  \/ \E i \in Piece : VerifyPiece(r, i)

-----------------------------------------------------------------------------
(* writeWorker.                                                            *)

ReceiveWrite ==
  /\ Up
  /\ worker = {}
  /\ writeQueue # <<>>
  /\ worker' = {Head(writeQueue)}
  /\ writeQueue' = Tail(writeQueue)
  /\ UNCHANGED <<fileVars, dataVars, mishaps, main, sessionVars, saver>>

WritePiece ==
  /\ Up
  /\ worker # {}
  /\ worker' = {}
  /\ \/ onDisk' = onDisk \cup worker /\ UNCHANGED <<failed, mishaps>>
     \/ Mishap /\ failed' = failed \cup worker /\ UNCHANGED onDisk
  /\ UNCHANGED <<fileVars, main, sessionVars, saver, writeQueue>>

WorkerStep == ReceiveWrite \/ WritePiece

-----------------------------------------------------------------------------
Next ==
  \/ Launch \/ MainStep \/ Crash \/ WorkerStep
  \/ \E r \in Readers : ReaderStep(r) \/ SaveFails(r)

Spec == Init /\ [][Next]_vars

(* The user launches the program again after every end, the goroutines     *)
(* run, and the peers send what is missing.  Crashes are not fair.         *)
Fairness ==
  /\ WF_vars(Launch)
  /\ WF_vars(MainStep)
  /\ WF_vars(WorkerStep)
  /\ \A r \in Readers : WF_vars(ReaderStep(r))

FairSpec == Spec /\ Fairness

-----------------------------------------------------------------------------
(* Type correctness.                                                       *)
TypeOK ==
  /\ dotfile \in {"no folder", "absent", "partial", "whole"}
  /\ fileBits \subseteq Piece
  /\ onDisk \subseteq Piece
  /\ failed \subseteq Piece
  /\ unsaved \subseteq Piece
  /\ mishaps \in 0..MaxMishaps
  /\ main \in {"down", "scan", "argument", "store", "wait"}
  /\ started \in BOOLEAN
  /\ trusted \subseteq Piece
  /\ verified \subseteq Piece
  /\ Bitfield \subseteq Piece
  /\ saver \in [Readers -> SaverState]
  /\ writeQueue \in Seq(Piece) /\ Len(writeQueue) <= DiskWriteQueueSize
  /\ worker \subseteq Piece

(* With one reader: a piece whose bytes are on disk is in the file, or in  *)
(* what is about to be written to it, whatever crashed before, so that no  *)
(* restart downloads it again, unless its own save failed; only a file cut *)
(* short forgets it (manager.go:338-346, 180-191, 822-837).                *)
WrittenIsSaved ==
  \/ dotfile # "partial" /\ onDisk \subseteq fileBits \cup unsaved
  \/ /\ dotfile = "partial"
     /\ \/ ~started
        \/ unsaved # {}
        \/ \E r \in Readers : saver[r].pc = "fill" /\ onDisk \subseteq saver[r].bits

(* What a crash can lose: while the process runs, the pieces in the file   *)
(* that it verified itself and that are not on disk are no more than the   *)
(* queue holds, plus one in the hands of each reader and of the worker     *)
(* (manager.go:338-346, disk.go:182-188).                                  *)
BoundedLoss ==
  started => Cardinality(fileBits \ (trusted \cup onDisk \cup failed))
          <= DiskWriteQueueSize + Cardinality(Readers) + 1

(* manager.go:807: MarkPieceCompleteAndPersist "persists the updated       *)
(* TorrentFile to disk": when no reader is in it, the file has the bits    *)
(* that the session has, but those whose save failed.  It holds with one   *)
(* reader, and not with two, which may write their copies of the file in   *)
(* the wrong order.                                                        *)
FileFollowsMemory ==
  started /\ (\A r \in Readers : saver[r].pc \in {"read", "queue"})
    => \/ dotfile = "whole" /\ fileBits = Bitfield \ unsaved
       \/ dotfile = "partial" /\ Bitfield \cap unsaved # {}

(* However often the process dies or fails to start, a torrent whose file  *)
(* is whole whenever it is launched again ends with every piece verified:  *)
(* only a file cut short, or never stored, stops it (main.go:55-81,        *)
(* manager.go:180-191).                                                    *)
Finishes == []<>(dotfile = "whole") => <>(verified = Piece)

-----------------------------------------------------------------------------
(* What the comments of the code say, and the code refutes.                *)

(* manager.go:188: a piece whose bit is set is marked complete because     *)
(* "it's already on disk".                                                 *)
TrustedIsOnDisk == trusted \subseteq onDisk

(* main.go:55: main scans the dotfolder "for all torrent files and starts  *)
(* their sessions".                                                        *)
StoredIsStarted == main = "wait" /\ dotfile \in {"partial", "whole"} => started

(* README.md:20: a torrent file given as argument is loaded on startup: a  *)
(* launch that nothing interrupts does not end before it gets there.       *)
ReachesArgument == [][main = "scan" => main' # "down"]_vars

=============================================================================
