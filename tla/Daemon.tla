------------------------------- MODULE Daemon -------------------------------
(***************************************************************************)
(* The process: main starts a session for every stored torrent and for the *)
(* one named as its argument, one after the other, and then waits until    *)
(* TorrentManager finds all of them complete (cmd/gotorrent/main.go and    *)
(* the TorrentManager of internal/daemon/manager.go).  Sessions that are   *)
(* started download, complete and signal while main goes on.               *)
(*                                                                         *)
(* How a start comes to its end is in Connections, how a session downloads *)
(* in Download, how it ends in Session, and what the files hold and what a *)
(* crash leaves of them in Recovery.                                       *)
(***************************************************************************)
EXTENDS Naturals, FiniteSets

CONSTANTS
  Torrents,     \* the info hashes
  NoTorrent,    \* none of them
  Shared        \* torrents that several peers share: one of the readers may
                \* give up a piece that another has verified (Download)

ASSUME DaemonAssumption ==
  /\ IsFiniteSet(Torrents)
  /\ NoTorrent \notin Torrents
  /\ Shared \subseteq Torrents

VARIABLES
  main,         \* where main is
  file,         \* per torrent, its file in the dotfolder
  unread,       \* the files that the scan of the dotfolder has not come to
  argument,     \* the torrent named on the command line, or NoTorrent
  starting,     \* the torrent whose peers main is connecting to, or NoTorrent
  Sessions,     \* the torrents in torrentManager.Sessions
  pieces,       \* per torrent, what PieceManager.IsComplete would answer
  loops,        \* per torrent, the loops of its peers
  doneChan,     \* per torrent, its channel
  unseen,       \* the sessions that the present pass over Sessions has not seen
  waitChan      \* the torrent whose channel main waits on, or NoTorrent

disk == <<file, argument>>
downloads == <<pieces, loops>>
pass == <<unseen, waitChan>>
vars == <<main, disk, unread, starting, Sessions, downloads, doneChan, pass>>

-----------------------------------------------------------------------------
Init ==
  /\ main = "scan"
  /\ file \in [Torrents -> {"none", "damaged", "good"}]
  /\ unread = {t \in Torrents : file[t] # "none"}
  /\ argument \in Torrents \cup {NoTorrent}
  /\ starting = NoTorrent
  /\ Sessions = {}
  /\ pieces \in [Torrents -> {"missing", "complete"}]
  /\ \A t \in Torrents : file[t] # "good" => pieces[t] = "missing"
  /\ loops = [t \in Torrents |-> "none"]
  /\ doneChan = [t \in Torrents |-> "nil"]
  /\ unseen = {}
  /\ waitChan = NoTorrent

MainAt(loc) == main = loc /\ starting = NoTorrent

(* A pass over the sessions begins.                                        *)
GoTo(loc, sessions) == main' = loc /\ unseen' = sessions

-----------------------------------------------------------------------------
(* main starts the sessions.                                               *)

(* LoadTorrentFileFromPath fails, and main goes on.                        *)
SkipFile(t) ==
  /\ MainAt("scan")
  /\ t \in unread /\ file[t] = "damaged"
  /\ unread' = unread \ {t}
  /\ UNCHANGED <<main, disk, starting, Sessions, downloads, doneChan, pass>>

(* StartTorrentSession, until InitiateDownloadSequence asks the tracker.   *)
(* A torrent that has all its pieces gets no channel and no loops.         *)
StartTorrentSession(t) ==
  /\ Sessions' = Sessions \cup {t}
  /\ starting' = IF pieces[t] = "missing" THEN t ELSE NoTorrent
  /\ doneChan' = [doneChan EXCEPT ![t] = IF pieces[t] = "missing" THEN "open" ELSE @]

(* Faulty variant: the session is entered into the map once it downloads.  *)
LoadUnlisted(t) ==
  /\ MainAt("scan")
  /\ t \in unread /\ file[t] = "good"
  /\ unread' = unread \ {t}
  /\ starting' = IF pieces[t] = "missing" THEN t ELSE NoTorrent
  /\ doneChan' = [doneChan EXCEPT ![t] = IF pieces[t] = "missing" THEN "open" ELSE @]
  /\ UNCHANGED <<main, disk, Sessions, downloads, pass>>

LoadFile(t) ==
  /\ MainAt("scan")
  /\ t \in unread /\ file[t] = "good"
  /\ unread' = unread \ {t}
  /\ StartTorrentSession(t)
  /\ UNCHANGED <<main, disk, downloads, pass>>

Unstored == {t \in Torrents : file[t] = "none"}

(* A torrent whose file exists, even a damaged one, gets no session here.  *)
TakeArgument ==
  /\ MainAt("scan") /\ unread = {}
  /\ \/ /\ argument \notin Unstored
        /\ UNCHANGED <<file, starting, Sessions, doneChan>>
     \/ /\ argument \in Unstored
        /\ file' = [file EXCEPT ![argument] = "good"]
        /\ StartTorrentSession(argument)
  /\ GoTo("check", Sessions')
  /\ UNCHANGED <<argument, unread, downloads, waitChan>>

(* Faulty variant: the channel is left to whoever first asks for it.       *)
StartedWithoutChannel ==
  /\ starting # NoTorrent
  /\ loops' = [loops EXCEPT ![starting] = "run"]
  /\ doneChan' = [doneChan EXCEPT ![starting] = "nil"]
  /\ starting' = NoTorrent
  /\ UNCHANGED <<main, disk, unread, Sessions, pieces, pass>>

(* InitiateDownloadSequence returns.                                       *)
Started ==
  /\ starting # NoTorrent
  /\ loops' = [loops EXCEPT ![starting] = "run"]
  /\ starting' = NoTorrent
  /\ UNCHANGED <<main, disk, unread, Sessions, pieces, doneChan, pass>>

(* It fails, or StartTorrentSession did before it: main exits, and every   *)
(* session with it.  So it does for an argument that cannot be read.       *)
StartFails ==
  /\ \/ starting # NoTorrent
     \/ \E t \in unread : MainAt("scan") /\ file[t] = "good"
     \/ MainAt("scan") /\ unread = {} /\ argument # NoTorrent
  /\ main' = "failed"
  /\ UNCHANGED <<disk, unread, starting, Sessions, downloads, doneChan, pass>>

-----------------------------------------------------------------------------
(* WaitForCompletion.  Neither pass over Sessions sees all of them at one  *)
(* moment: a session is asked while the others go on.                      *)

(* Faulty variant: the first complete session decides.                     *)
FirstComplete(t) ==
  /\ MainAt("check")
  /\ t \in unseen
  /\ IF pieces[t] = "complete" THEN main' = "done" /\ UNCHANGED unseen ELSE GoTo("pick", Sessions)
  /\ UNCHANGED <<disk, unread, starting, Sessions, downloads, doneChan, waitChan>>

CheckSession(t) ==
  /\ MainAt("check")
  /\ t \in unseen
  /\ \/ /\ pieces[t] = "complete"
        /\ unseen' = unseen \ {t}
        /\ UNCHANGED main
     \/ /\ pieces[t] = "missing"
        /\ GoTo("pick", Sessions)
  /\ UNCHANGED <<disk, unread, starting, Sessions, downloads, doneChan, waitChan>>

AllSessionsComplete ==
  /\ MainAt("check")
  /\ unseen = {}
  /\ main' = "done"
  /\ UNCHANGED <<disk, unread, starting, Sessions, downloads, doneChan, pass>>

(* The first session that has a channel and misses pieces is waited for.   *)
PickSession(t) ==
  /\ main = "pick"
  /\ t \in unseen
  /\ \/ /\ doneChan[t] # "nil" /\ pieces[t] = "missing"
        /\ waitChan' = t
        /\ main' = "wait"
        /\ UNCHANGED unseen
     \/ /\ doneChan[t] = "nil" \/ pieces[t] = "complete"
        /\ unseen' = unseen \ {t}
        /\ UNCHANGED <<main, waitChan>>
  /\ UNCHANGED <<disk, unread, starting, Sessions, downloads, doneChan>>

PickNone ==
  /\ main = "pick"
  /\ unseen = {}
  /\ waitChan' = NoTorrent
  /\ main' = "wait"
  /\ UNCHANGED <<disk, unread, starting, Sessions, downloads, doneChan, unseen>>

WakeUp ==
  /\ main = "wait"
  /\ GoTo("check", Sessions)
  /\ UNCHANGED <<disk, unread, starting, Sessions, downloads, doneChan, waitChan>>

DoneChanClosed ==
  /\ waitChan # NoTorrent
  /\ doneChan[waitChan] = "closed"
  /\ WakeUp

(* Faulty variant: the ticker ends only a wait for a channel.              *)
TickOfChannel ==
  \/ waitChan # NoTorrent /\ WakeUp
  \/ waitChan = NoTorrent /\ main = "wait" /\ UNCHANGED vars

Tick == WakeUp

-----------------------------------------------------------------------------
(* The sessions, as far as main can see them.                              *)

(* A reader verifies the last piece that is missing.                       *)
Acquire(t) ==
  /\ loops[t] = "run" /\ pieces[t] = "missing"
  /\ pieces' = [pieces EXCEPT ![t] = "complete"]
  /\ UNCHANGED <<main, disk, unread, starting, Sessions, loops, doneChan, pass>>

(* A second reader of a piece fails to verify it again, and removes it.    *)
GiveUp(t) ==
  /\ t \in Shared
  /\ loops[t] # "none" /\ pieces[t] = "complete"
  /\ pieces' = [pieces EXCEPT ![t] = "missing"]
  /\ UNCHANGED <<main, disk, unread, starting, Sessions, loops, doneChan, pass>>

(* The reader finds IsComplete; Complete cancels the loops.                *)
Complete(t) ==
  /\ loops[t] = "run" /\ pieces[t] = "complete"
  /\ loops' = [loops EXCEPT ![t] = "cancelled"]
  /\ UNCHANGED <<main, disk, unread, starting, Sessions, pieces, doneChan, pass>>

(* Complete has waited for the writes, which may take for ever (Session).  *)
SignalDone(t) ==
  /\ loops[t] = "cancelled" /\ doneChan[t] = "open"
  /\ doneChan' = [doneChan EXCEPT ![t] = "closed"]
  /\ UNCHANGED <<main, disk, unread, starting, Sessions, downloads, pass>>

Alive == main \notin {"done", "failed"}

(* Main has returned or exited, and the process with it.                   *)
Exited ==
  /\ ~Alive
  /\ UNCHANGED vars

Next ==
  \/ \E t \in Torrents :
       \/ SkipFile(t) \/ LoadFile(t)
       \/ CheckSession(t) \/ PickSession(t)
       \/ Alive /\ Acquire(t)
       \/ Alive /\ GiveUp(t)
       \/ Alive /\ Complete(t)
       \/ Alive /\ SignalDone(t)
  \/ TakeArgument
  \/ Alive /\ Started
  \/ Alive /\ StartFails
  \/ AllSessionsComplete \/ PickNone \/ DoneChanClosed \/ Tick
  \/ Exited

Spec == Init /\ [][Next]_vars

-----------------------------------------------------------------------------
(* main keeps running, the ticker ticks, a start returns (Connections,     *)
(* StartReturns), and a torrent that is downloaded gets its pieces         *)
(* (Download, Completes).  Nothing is assumed of SignalDone.               *)
Fairness ==
  /\ WF_vars(\E t \in Torrents : SkipFile(t) \/ LoadFile(t))
  /\ WF_vars(TakeArgument)
  /\ WF_vars(Alive /\ (Started \/ StartFails))
  /\ WF_vars(\E t \in Torrents : CheckSession(t) \/ PickSession(t))
  /\ WF_vars(AllSessionsComplete \/ PickNone)
  /\ WF_vars(Tick)
  /\ \A t \in Torrents : WF_vars(Alive /\ Acquire(t))

FairSpec == Spec /\ Fairness

-----------------------------------------------------------------------------
(* Types.  Every session has loops or a channel only after it was entered  *)
(* into the map, and the passes see no others.                             *)
TypeOK ==
  /\ main \in {"scan", "check", "pick", "wait", "done", "failed"}
  /\ file \in [Torrents -> {"none", "damaged", "good"}]
  /\ unread \subseteq Torrents
  /\ argument \in Torrents \cup {NoTorrent}
  /\ starting \in Sessions \cup {NoTorrent}
  /\ Sessions \subseteq Torrents
  /\ pieces \in [Torrents -> {"missing", "complete"}]
  /\ loops \in [Torrents -> {"none", "run", "cancelled"}]
  /\ doneChan \in [Torrents -> {"nil", "open", "closed"}]
  /\ unseen \subseteq Sessions
  /\ waitChan \in Sessions \cup {NoTorrent}
  /\ \A t \in Torrents : loops[t] # "none" \/ doneChan[t] # "nil" => t \in Sessions

(* When main returns without an error, every torrent whose file could be   *)
(* loaded, and the argument, is complete, but for those that may give up a *)
(* piece again.  It is what the order of the scan, the map, the two passes *)
(* over it and the wait come to (main.go:62-119, manager.go:47-100).       *)
ReturnsComplete ==
  main = "done" => \A t \in Torrents \ Shared : file[t] = "good" => pieces[t] = "complete"

(* main polls without a channel only when every session is complete that   *)
(* keeps its pieces, so that it does so once at most: a session that       *)
(* misses pieces always has a channel to wait on (manager.go:74-98).       *)
PollsOnlyAtEnd ==
  main = "wait" /\ waitChan = NoTorrent
    => \A t \in Sessions \ Shared : pieces[t] = "complete"

(* main returns, if no piece is given up for good: no order in which       *)
(* sessions complete between its two passes, and no signal that comes late *)
(* or never, leaves it waiting (manager.go:67-98).                         *)
Returns ==
  (\A t \in Shared : <>[](t \in Sessions => pieces[t] = "complete"))
    => <>(main \in {"done", "failed"})

-----------------------------------------------------------------------------
(* What the comments of the code say, and the code refutes.                *)

(* main.go:55: scan the dotfolder "for all torrent files and start their   *)
(* sessions": main goes on to the next file when one fails to start.       *)
ScanStartsAll ==
  main \in {"done", "failed"} => \A t \in Torrents : file[t] = "good" => t \in Sessions

(* manager.go:46: AllSessionsComplete "checks if all torrents have         *)
(* completed downloading".                                                 *)
AllAreComplete == main = "done" => \A t \in Sessions : pieces[t] = "complete"

(* manager.go:60: WaitForCompletion "uses channels to wait efficiently (no *)
(* busy-waiting)": it does not wait on a channel that is closed already.   *)
NoBusyWaiting ==
  [][\A t \in Torrents : doneChan[t] = "closed" /\ waitChan # t => waitChan' # t]_vars

=============================================================================
