# A TLA+ model of go-bittorrent

This directory models the download side of go-bittorrent: how the client
understands a torrent's file, a tracker and a peer, how a session gets and loses
its peers, the goroutines that fetch, verify, record and write the pieces of a
torrent, how a session and the process end, and what is left after a crash. Paths below are relative to the repository;
`manager.go`, `pieces.go`, `strategy.go` and `disk.go` are in
`internal/daemon/`. `PROJECT.json` maps every definition that stands for code to
its lines.

One remark on the code as it stands: `manager.go:301` calls
`SetBitInBitField(int32)` where `libnet/peer.go:85` has `SetBitInBitfield(int)`, so
the daemon package does not compile. The model takes the call as it is meant.

## The system

| component | state | operations | who calls them |
|---|---|---|---|
| piece bookkeeping (`pieces.go`) | `Pieces`, `PendingBlocks`, under one mutex | AddBlock, InitializePiece, VerifyPiece, RemovePiece, GetPieceData, ClearPieceData, Mark/UnmarkBlockPending, IsComplete | the two loops of every peer |
| selection (`strategy.go`) | none | SelectNextPiece, GetNextBlockToRequest | PeerDownloadLoop |
| peer loops (`manager.go:261-366, 664-761`) | per peer: RequestChan, PeerChoking, Bitfield | PeerReadLoop, PeerDownloadLoop | started by InitiateDownloadSequence |
| recording (`manager.go:807-841`, `persistence.go`) | `TorrentFile.Bitfield` (no lock), one JSON file per torrent | MarkPieceCompleteAndPersist, Store..., Update... | PeerReadLoop, main |
| disk manager (`disk.go`) | writeQueue, writeWorkerDone, wg, workerRunning | QueueWrite, writeWorker, Start/StopWriteWorker | PeerReadLoop, Complete, Cancel |
| layout (`utils.go:137-202`, `disk.go:72-143, 193-286`) | file list | ExtractPieceInfo, extractFileStructure, WritePiece | NewTorrentSession, writeWorker |
| session end (`manager.go:59-101, 441-457, 765-805`) | ctx, doneChan, doneSignaled, doneErr | Complete, Cancel, signalDone, the monitor, WaitForCompletion | PeerReadLoop, main |
| startup (`main.go`, `manager.go:138-223`) | sessions | scan, argument, StartTorrentSession | main |
| connections (`manager.go:368-661, 843-872`) | Connections under a RWMutex | ConnectToPeers, PeerHealthLoop, GetActivePeers, AddConnection, RemoveConnection | InitiateDownloadSequence, the loops |
| torrent manager (`manager.go:18-101`) | Sessions under a RWMutex | AddSession, AllSessionsComplete, WaitForCompletion | main |
| bencoding (`internal/bencoding/`) | none | ParseTorrentFile, ExtractPeers..., the JSON form | main, tracker client, persistence |
| wire protocol (`internal/libnet/message.go`, `pwp.go`, `peer.go`) | the stream, the peer's Bitfield | SendHandshakeToPeer, ReadMessage, SetBitInBitfield, HasPiece | ConnectToPeers, PeerReadLoop |
| tracker client (`internal/libnet/tracker.go`), configuration, logger | none that is shared | HTTP, constants, wording | all of the above |

What is hard here: every peer has two goroutines, and all of them share the
pieces. Each method is atomic under its mutex, but the read loop strings six of
them together, and saves a file in between. Slots of RequestChan are taken by
one loop and given back by both. Completion is decided by whoever looks, acted
on in a goroutine of its own, and acted on again by the monitor. The bitfield is
saved before the data is written. Connections are looked up, dialled and entered
in three steps, by rounds that overlap, and taken out by address. main asks the
sessions one after the other, while they go on. A first message that is not a
bitfield is lost, and one that is late may be half read. `hazards` in `PROJECT.json` lists these places
by line, with the properties that watch them, or why none does.

What makes the components correct:

- bookkeeping and loops: no complete piece is left without a reader, completion
  is not missed, slots are given back once, nothing unverified is recorded or
  written, a session with honest peers ends;
- disk manager and session end: the WaitGroup counts what is unwritten, nothing
  leaves the queue unwritten, completion is signalled after the last write, the
  writer is stopped once;
- layout: every byte goes to its place in its file;
- recording and startup: what is on disk is recorded, what is recorded is on
  disk or under way, a stored torrent is started again;
- connections: an address has one pair of loops at most, a running connection is
  not displaced, a lost one is dialled again, the start of a session returns;
- torrent manager: main returns, and not before the torrents are complete;
- parsing and framing: what was written is understood, wherever the input is cut,
  and nothing is understood that was not written.

## The modules

- `PieceManager` has the methods of `pieces.go` and `strategy.go`, one operator
  each. A Go map is a total function with an `exists` field. A block's bytes are
  `good` or `bad`, according to the hash; a piece whose map was freed has none.
  A peer may name a block index past the end: `MaxBlocksPerPiece` stands for all
  of those, and has the same alias in `PendingBlocks` as in the code.
- `Download` EXTENDS it with the loops. `dl[p].pc` and `rd[p].pc` are the places
  between two atomic steps of the loops of peer `p`; an action is one step. The
  constants `Corrupting`, `Choking`, `Unreliable` and `Wild` say which peers may
  send wrong bytes, choke and drop requests, fail, and send what nobody asked
  for. MarkPieceCompleteAndPersist is two steps, load and store, since no lock is
  held. The write queue is not here: `queued` records what was handed over.
- `Acquisition` is what `Download` promises: verified pieces accumulate, and
  completion is announced when all are there. `Download` refers to it with
  INSTANCE, mapping `acquired` to the verified pieces.
- `DiskManager` has the channel, the worker and the WaitGroup of `disk.go`;
  `Session` EXTENDS it with the readers from VerifyPiece on, with Complete,
  Cancel and the monitor, and with main. A goroutine that runs Complete or Cancel
  goes through the same steps: cancel, test workerRunning, close
  writeWorkerDone, wait, signal. Here a reader verifies each piece once.
- `Storage` is what the end of a session promises: each piece handed over and
  settled, and the signal after the last. `Session` refers to it with INSTANCE.
- `Layout` follows bytes: a byte is its offset in the content. Init has every
  torrent within the bounds; blocks are requested, assembled and written, one
  file per step, and a file may fail.
- `Recovery` has main, the torrent's file (no dotfolder, absent, cut short, whole) and the data on disk, over crashes and launches. `os.WriteFile` is two
  steps, truncate and write.
- `Connections` has ConnectToPeers, the start and the health loop of one session.
  An object is a goroutine of ConnectToPeers and then its PeerConnection;
  `Connections[p]` says which object the map has for an address. A round may name
  any peers, one address twice too. The loops run, fail and stop as in Download,
  of which only their effect on `ts.Connections` is here.
- `Daemon` has main and the TorrentManager. A pass over `Sessions` takes one
  session at a time (`unseen`), in any order, as Go's maps do. Of a session, it
  keeps whether its pieces are all verified, its loops and its channel.
- `Bencode` is the parser, as operators on sequences of bytes, and what
  ParseTorrentFile, the JSON form and ExtractPeersFromTrackerResponse make of its
  objects. `Wire` is one connection, a byte per step: the peer writes, closes or
  falls silent, ReadMessage reads and fails anywhere. `Exchange` EXTENDS both and
  follows the client from the file to its reloaded copy, to the tracker's answer,
  to one of its peers. It has the reference definitions: an encoder, what a value
  means (of two pairs with one key the last counts), and what it is to give peers in
  either form. What calls itself in the code is a recursive function, over `Strings`
  or over the values that nest at most `Depth` deep. A file that is not taken is
  refused, and an answer leaves the client unanswered. The steps of `Exchange` on a
  connection are those of `WireNext`, so that what is proved of `Wire` holds there.
- `MCDownload`, `MCSession`, `MCLayout`, `MCRecovery`, `MCConnections`, `MCDaemon`
  and `MCExchange` give the constants for TLC.
- `DownloadProofs`, `SessionProofs`, `ConnectionsProofs`, `DaemonProofs`,
  `RecoveryProofs`, `LayoutProofs`, `WireProofs` and `ExchangeProofs` (with Bencode)
  have the theorems about the modules they are named for.

An operator with the comment "Faulty variant" is used by no action. It is the
definition after it with a plausible mistake; `mutants` in `PROJECT.json` says
which property fails when it takes the definition's place.

## The runs

Passing runs:

| run | instance | what it shows |
|---|---|---|
| `download_races` | 2 honest peers that may fail, 2 pieces of 1 block, symmetric | TypeOK, SlotsCover, CompletionOwned when the last two pieces are finished at once and connections break |
| `download_orphans` | 2 peers that may send wrong bytes, 1 piece of 2 blocks, symmetric | NoOrphanedPiece under every race for a piece, its removal and its reloading |
| `download_single` | 1 peer that does everything wrong, 2 pieces of 2 and 1 blocks | VerifiedIsSaved, SavedIsQueued, and that Download implements Acquisition |
| `download_completes` | 1 honest seeder, 1 peer that has nothing and may fail, fair | Completes: the download ends, and every loop |
| `session_stop` | 2 readers, 3 pieces, queue of 1, Cancel, failing writes | TypeOK, WgCounts, NothingDropped |
| `session_storage` | 1 healthy reader, 4 pieces, queue of 2, failing writes, fair, another torrent keeps main waiting | Session implements Storage, and EndsWritten |
| `layout` | every torrent of 3 files of 0 to 3 bytes, pieces of 1 to 4, blocks of 1 to 3, at most 4 pieces, failing writes | TypeOK, AssembledWhole, BytesInPlace, WrittenIsOnDisk |
| `recovery` | 1 reader, 4 pieces, queue of 1, 3 crashes or failing calls, with or without a dotfolder, fair launches | TypeOK, WrittenIsSaved, BoundedLoss, FileFollowsMemory, Finishes |
| `connections` | 2 addresses, 2 objects each, rounds that overlap, fair | TypeOK, OnePairPerPeer, RunningIsListed, StartReturns, LostIsRedialled |
| `daemon` | 3 torrents with any files and any argument, one shared by several peers, fair | TypeOK, ReturnsComplete, PollsOnlyAtEnd, Returns |
| `exchange` | 18 files, 5 answers, cut anywhere or followed by more; 8 messages, two of them haves of a wrong size, at most 3 in a stream, fair | TypeOK, FileUnderstood, ReloadedIsSame, PeersExact, MessagesKept, ChokeKnown, PiecesKnown, HangUpNoticed |

One run shows where the code departs from what its comments say, and is expected
to fail; `findings` in `PROJECT.json` has the quote:

| run | instance | the departure |
|---|---|---|
| `two_peers_complete` | 2 honest peers, fair | the session never completes |

The last section of most modules states further claims of the comments that the
code refutes. They are not in the runs above; TLC finds each counterexample within
a minute, with `tlc -config X.cfg M`. The four configurations with several
properties have one of them active and the others commented out:

| configuration | module | refuted | the departure |
|---|---|---|---|
| `add_block_unpends.cfg` | MCDownload | AddBlockUnpends (`pieces.go:56`) | a late block stays pending |
| `cleared_stays.cfg` | MCDownload | ClearedStaysComplete (`pieces.go:201`) | a verified piece is removed |
| `saved_queued.cfg` | MCDownload | SavedIsQueued (`pieces.go:216`) | a bit is saved, the data never queued |
| `bits_kept.cfg` | MCDownload | BitsKept (`manager.go:807`) | two readers lose a bit |
| `pending_requested.cfg` | MCDownload | PendingIsRequested (`pieces.go:35`) | after a choke a block stays pending for ever |
| `tries_next_piece.cfg` | MCDownload | TriesNextPiece (`manager.go:731`) | the same piece is selected again |
| `done_written.cfg` | MCSession | DoneIsWritten (`disk.go:336`) | with two readers doneChan closes before a piece is written |
| `returns_written.cfg` | MCSession | ReturnsWritten (`manager.go:137`) | the process ends with a full queue |
| `recovery_claims.cfg` | MCRecovery | TrustedIsOnDisk (`manager.go:188`) | after a crash resume trusts a piece that is not there |
| | | StoredIsStarted (`main.go:55`) | a stored torrent is never started again |
| | | ReachesArgument (`README.md:20`) | without a dotfolder every launch ends at once |
| `file_follows.cfg` | MCRecovery | FileFollowsMemory (`manager.go:807`) | with two readers an old bitfield is written last |
| `queued_verified.cfg` | MCDownload | QueuedIsVerified (`disk.go:190`) | AddBlock overwrites a verified piece that is not queued yet: wrong bytes are queued |
| `stops_once.cfg` | MCSession | StopsOnce (`disk.go:342`) | the monitor's Complete closes writeWorkerDone again, and the process panics |
| `nested_paths.cfg` | MCLayout | FilesWhole (`disk.go:21`) | two files of one subdirectory overwrite each other |
| `failed_retried.cfg` | MCConnections | FailedIsRetried (`manager.go:548`) | a peer that could not be dialled is never dialled again |
| `mute_peer.cfg` | MCConnections | StartReturns (`manager.go:422`) | a peer that leaves a handshake unanswered keeps the start waiting |
| `connections_claims.cfg` | MCConnections | ActiveIsSetUp (`manager.go:866`) | a failed handshake counts as active |
| | | MaxPeersKept (`README.md:32`) | the rounds of the health loop are not cut |
| | | EnoughAreActive (`manager.go:480`) | failed entries count as peers |
| | | RemovesOwn (`manager.go:849`) | the entry of a newer connection is removed |
| | | NewPeersUsed (`manager.go:546`) | peers of a later round get no loops |
| `daemon_claims.cfg` | MCDaemon | ScanStartsAll (`main.go:55`) | one start that fails ends the process |
| | | AllAreComplete (`manager.go:46`) | a session gives up a piece after it was asked |
| | | NoBusyWaiting (`manager.go:60`) | main waits on a channel that is closed |
| `exchange_claims.cfg` | MCExchange | LoopInStep (`manager.go:633`) | the loop starts in the middle of a message |
| | | FirstHandled (`manager.go:636`) | an unchoke that comes first is dropped |
| | | PiecesAlwaysKnown (`peer.go:34`) | a HAVE without a bitfield is dropped |
| | | HashIsOfData (`types.go:96`) | with two keys info, the hash is of the first and Data has the second |
| | | ReloadKeepsAll (`types.go:59`) | an empty list comes back as nil |

**Bounds.** Two peers suffice for the races, which are between two readers of one
piece or of the last two pieces; two blocks distinguish a full piece from a
started one, and one more index is out of range. `Pipeline` and `MaxOutstanding`
are 1 with two peers and 2 with one, where more than one request is in flight. A
queue of 1 is full as soon as a piece waits. In `recovery` the bound that
BoundedLoss states, 3, is below the 4 pieces there are. Nothing in `Download`,
`Session` or `Layout` counts without end; `Recovery` bounds crashes and failing
calls together by `MaxMishaps`, and `Layout` pieces by `MaxPieces`. In `connections`
`MaxDials` bounds the objects of one address that are in use at a time: two can
race for an entry, one with loops and one that dials. In `daemon` three torrents
let one be complete, one be waited for and one be starting. In `exchange` the
handshake has 2 bytes instead of 68, of which only the number matters, and three
messages are a first one, one that is read whole and one that is cut; files and
answers are short, so that strconv's limits are not met, and nest less than `Depth`,
4, which bounds the encoder and the reloading, not the parser.

**Deadlock** is checked except where goroutines really wait for ever: a peer that
goes silent leaves its loops waiting (`Download`), and a piece counted after the
writer left makes wg.Wait() wait (`Session` with Cancel or two readers). Where a
process has ended, or a peer that stays connected says nothing more, the modules
say so with a step of their own (Finished, Exited, Stopped).

**Fairness.** Goroutines and the worker are weakly fair: the Go scheduler is
preemptive. In `download_completes` the peer answers what it was asked and unchokes
(an honest peer), and a read ends after cancellation, because of its deadline
PeerReadTimeout. In `session_storage` reads fail only after cancellation, and
another torrent is running, since otherwise main may end the process first
(`returns_written`). In `recovery` the user launches again after every end, and
crashes are not fair. In `connections` a dial ends after five seconds and a first
message after ten; a peer answers a handshake or hangs up, the assumption that
`mute_peer` drops; the tracker names a peer it knows again and again, and a select
that is ready again and again is taken (strong fairness). In `daemon` a session
gets its pieces and a start returns, which is what `download_completes` and
`connections` show; nothing is assumed of the channel that a session closes. In
`exchange` the client keeps reading, and the peer owes nothing.

## The proofs

`DownloadProofs` proves, for any set of peers, any number of pieces and blocks, and
any sets of misbehaving peers, under the assumptions `PieceManagerAssumption` and
`DownloadAssumption`:

- `TypeCorrect`: `Spec => []TypeOK`. TypeOK is inductive; the lemmas before it say
  that each method of the PieceManager keeps its types.
- `NoPieceOrphaned`, `CompletionIsOwned`, `SlotsAreCovered`: each invariant is
  inductive together with TypeOK. `StepCases` sorts the steps into those that
  touch no piece and no reader, InitializePiece, and the steps of a reader, so
  that each proof looks at the latter only.
- With one peer (`Peers = {only}`): `SinglePeerSaves`, `SinglePeerQueues` and
  `SinglePeerRefines`. They rest on `SingleInv`: a verified piece keeps its entry;
  a piece between AddBlock and VerifyPiece is not verified; the blocks of a piece
  stay the verified ones until it is queued; the byte that MarkPieceComplete...
  loaded is still current when it is stored; an announced download is complete.
  The refinement has one lemma per kind of step: a successful VerifyPiece maps to
  Acquire, CheckLast to Announce, every other step to a stutter.

These three are false with two peers, as `saved_queued`, `cleared_stays` and
`bits_kept` show: the hypothesis is needed.

`SessionProofs` proves, for any finite set of readers, any number of pieces and any
capacity of the queue, under `DiskManagerAssumption` and `SessionAssumption`:

- `TypeCorrect` and `WaitGroupCounts`, by one induction: wg stays at or above zero
  because it counts the piece in the worker's hands, and WgCounts counts sets and
  sequences that TypeOK makes finite.
- `VerifiedIsKept`: NothingDropped is inductive over TypeOK, with Cancel and with
  several readers, including the steps that panic the process.
- `SoloRefines`: with one reader and no Cancel, Session implements Storage. It
  rests on `SoloInv`: a piece on its way was verified and handed over; once anyone
  begins to end the session, everything is verified and the reader is idle; a
  worker that ends was told to and left an empty queue; who is about to signal has
  seen every piece settled. `done_written` and a Cancel show that both hypotheses
  are needed.

`ConnectionsProofs` proves, for any finite set of peers, any bound on objects and any
limits, under `ConnectionsAssumption`, `TypeCorrect`, `OnePairOfLoops` and
`RunningKeepsEntry`. None of the three is inductive alone; together they are with
`Strengthening`: until the first round is over nobody has loops, no other round
runs, and whoever connects is waited for; loops belong to objects that
ConnectToPeers is done with; and while both loops of a connection run, no other
goroutine is between its look at `ts.Connections` and its AddConnection for the
same address. The last part is why the missing lock does no harm here: the loops
are started when nobody dials, and whoever looks later finds the entry.

`DaemonProofs` proves, for any finite set of torrents, under `DaemonAssumption`,
`TypeCorrect`, `ReturnsWhenComplete` and `PollsWhenComplete`. The invariant says what
main knows at each place: after the scan, that every torrent that could be loaded is
in the map; in a pass, what it found of the sessions it has seen, which stays true of
those that keep their pieces; always, that a session that misses pieces has a
channel.

`RecoveryProofs` proves, under `RecoveryAssumption`, over any number of launches and
mishaps:

- `TypeCorrect` and `LossIsBounded`, for any finite set of readers. The invariant is
  `LossInv`: a bit that the process set, wrote or is about to write belongs to a
  piece that was trusted, is on disk, failed, or is on its way, in the hands of a
  reader, in the queue or with the worker. No step drops a piece from this set, and
  the pieces on their way are counted by the functions that hold them.
- With one reader (`Readers = {only}`): `OneReaderSavesFirst` and
  `OneReaderKeepsFile`. `SoleInv` says that the reader's copy of the bitfield is the
  session's, that the file has those bits but the one about to be added and those
  whose save failed, and that what is on disk or on its way to it has its bit. Across
  an end of the process only `WholeFile` survives, and the next start rebuilds the
  rest from it. `file_follows` shows that two readers break it.

`LayoutProofs` proves, under `LayoutAssumption`, for any number of files and pieces,
and any lengths of files, pieces and blocks:

- `TypeCorrect`, `PiecesAreAssembled` and `WrittenPiecesAreOnDisk`. The invariant is
  `LayoutInv`: the torrent is one of Init; a block is empty or the bytes at its
  offset; the loop of WritePiece, at file k, has `currentFileOffset` at the beginning
  of k, and has taken from `remaining` what the piece has before it; the bytes of the
  piece in the files before k are on disk. The last part is what makes the early end
  of the loop at `remaining = 0` safe: nothing of the piece is left in later files.
- `BytesAreInPlace` and `FilesAreWhole`, if no two files have one path
  (`PathsDiffer`). `nested_paths` shows that this is needed, as disk.go cuts the paths.

`WireProofs` proves, for any messages that fit the format and any length of the
handshake, under `WireAssumption`, over every way to cut the stream:

- `WireTypes`, with which a message is never held whole: BigEndian and FromBigEndian
  are inverse, and ReadMessage wants another byte exactly as long as what it has is
  the beginning of a message.
- `MessagesAreKept`. The invariant, `InStep`, says that as long as nothing was
  dropped, what is in the buffer and in the stream are the bytes of the messages that
  are not read yet. A step appends a message to the one end, or moves a byte from the
  stream to the buffer; the last byte of a message takes it off.
- `ChokeIsKnown` and `PiecesAreKnown` follow with `ChokeRight` and `PiecesRight`,
  which say the same of the messages that were handled so far, and a lemma about the
  bits of a byte: setting one that is not set changes no other.

`ExchangeProofs` proves, under `ExchangeAssumption` and `WireAssumption`, for any
files and answers that are dictionaries of any depth, in any order of their keys,
whatever comes after them and wherever they are cut. `ExchangeAssumption` says that
an answer gives the peers it means in one of the two forms; their definitions are
the protocol's, not the code's.

- `FileIsUnderstood`, if every file says info once, with a dictionary (`OneInfo`;
  `HashIsOfData` in `exchange_claims.cfg` shows what happens with two). Its core is
  `Understood`: the parser undoes the encoder whatever follows, and fails on every
  text that is a proper beginning of an encoded value. The strong form, with
  something behind and with every cut, is what makes the induction go through the
  items of a list. `InfoOfPairs` says that the bytes taken for the hash are those
  of the value of info and no others: the keys before it are passed over by parsing
  their values whole, which a search for the name would not do.
- `ReloadIsSame`: reloading is the identity on what a value means, by induction on
  its depth, if no list or dictionary of it is empty and its keys are text.
- `PeersAreExact`: `CompactRead` and `ListRead` take the two forms apart; the
  dictionary that is parsed gives for each key what the last of its pairs says
  (`GivesHas`).
- `ExchangeTypes`, and `ExchangeHasWire`, by which `MessagesAreKept`, `ChokeIsKnown`
  and `PiecesAreKnown` hold of an exchange.

The invariant under all of these is `ReadingInv`: the bytes are those of the source,
cut or with something behind, and the result is what the parser makes of them, or,
after a reload, its copy.

Sums over files, assembled blocks, the parser, the encoder and the decimal numbers
are defined by recursion. It is always a function. `Recursion` in
`LayoutProofs`, and `FixedPoint` in `ExchangeProofs`, on a body that looks only at what
ranks lower (a shorter text, a smaller depth), show that it exists and obeys its
definition. Induction is on a set of numbers (the least one for which a claim
fails), as the library's rules with an operator as parameter cannot be used.

What stays with TLC is liveness: Completes, EndsWritten, Finishes, StartReturns,
LostIsRedialled, Returns and HangUpNoticed, as tlapm has no rule for fairness. Every
other property of the passing runs is a theorem, under the hypotheses named above.

## Not modelled, and why

- HTTP and its query string, the listener, logging, configuration: I/O and wording.
  SendTrackerScrapeRequest, FormatQuery, HexEncode, AddrPort, RemoveSession and
  the Print functions are unused or print. Seeding (ReadPiece, IsSeedMature) is not
  implemented in the code.
- Writing to a peer: a Write is one step that works or fails. It has no deadline in
  the code, so that a peer that reads nothing can hold a loop.
- The content of a handshake: the client does not look at it.
- strconv's limits and lengths near the width of an int in the parser.
- Crashes with several torrents: `Recovery` has one, `Daemon` has no crash.
- In `Download`, the save of the file (in `Recovery`) and the writer (in `Session`).
  `Session` leaves out that a late duplicate can make a piece be verified twice.
- Short PIECE payloads and unknown messages, which the read loop skips.
- Piece lengths of 2^31 and more, which `int32` cuts in ExtractPieceInfo.

## Plan

Done: PieceManager, Download, Acquisition; DiskManager, Session, Storage; Layout;
Recovery, Connections and Daemon; Wire; Bencode and Exchange; all of these with
proofs.

1. A composition of Download and DiskManager, with data in the queue, to say what
   is written rather than queued; several torrents in Recovery.
