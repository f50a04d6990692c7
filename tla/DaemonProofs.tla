---------------------------- MODULE DaemonProofs ----------------------------
(***************************************************************************)
(* Theorems about Daemon, for every set of torrents and whichever of them  *)
(* are shared.                                                             *)
(***************************************************************************)
EXTENDS Daemon, TLAPS

-----------------------------------------------------------------------------
(* The steps, in three groups: main starts sessions, main waits for them,  *)
(* and the sessions themselves.                                            *)

Starts == \/ \E t \in Torrents : SkipFile(t) \/ LoadFile(t)
          \/ TakeArgument \/ Started \/ StartFails

Waits == \/ \E t \in Torrents : CheckSession(t) \/ PickSession(t)
         \/ AllSessionsComplete \/ PickNone \/ DoneChanClosed \/ Tick

Downloads == \E t \in Torrents : Acquire(t) \/ GiveUp(t) \/ Complete(t) \/ SignalDone(t)

LEMMA NextSteps == Next => Starts \/ Waits \/ Downloads \/ UNCHANGED vars
BY DEF Next, Starts, Waits, Downloads, Exited

-----------------------------------------------------------------------------
(* Types.                                                                  *)

LEMMA InitTypes == Init => TypeOK
BY DEF Init, TypeOK

LEMMA StartsTypes == TypeOK /\ Starts => TypeOK'
<1> SUFFICES ASSUME TypeOK, Starts PROVE TypeOK'
  OBVIOUS
<1>1. CASE \E t \in Torrents : SkipFile(t)
  BY <1>1 DEF TypeOK, SkipFile, disk, downloads, pass
<1>2. CASE \E t \in Torrents : LoadFile(t)
  <2> PICK t \in Torrents : LoadFile(t)
    BY <1>2
  <2>1. /\ Sessions' = Sessions \cup {t}
        /\ starting' \in {t, NoTorrent}
        /\ doneChan' \in [Torrents -> {"nil", "open", "closed"}]
        /\ \A s \in Torrents : doneChan'[s] # "nil" => s = t \/ doneChan[s] # "nil"
    BY DEF TypeOK, LoadFile, StartTorrentSession
  <2> QED BY <2>1 DEF TypeOK, LoadFile, disk, downloads, pass
<1>3. CASE TakeArgument
  <2>1. CASE argument \in Unstored /\ StartTorrentSession(argument)
             /\ file' = [file EXCEPT ![argument] = "good"]
    <3>1. argument \in Torrents
      BY <2>1 DEF Unstored
    <3>2. /\ Sessions' = Sessions \cup {argument}
          /\ starting' \in {argument, NoTorrent}
          /\ doneChan' \in [Torrents -> {"nil", "open", "closed"}]
          /\ \A s \in Torrents : doneChan'[s] # "nil" => s = argument \/ doneChan[s] # "nil"
      BY <2>1, <3>1 DEF TypeOK, StartTorrentSession
    <3> QED BY <1>3, <2>1, <3>1, <3>2 DEF TypeOK, TakeArgument, GoTo, downloads
  <2>2. CASE UNCHANGED <<file, starting, Sessions, doneChan>>
    BY <1>3, <2>2 DEF TypeOK, TakeArgument, GoTo, downloads
  <2> QED BY <1>3, <2>1, <2>2 DEF TakeArgument
<1>4. CASE Started
  BY <1>4 DEF TypeOK, Started, disk, pass
<1>5. CASE StartFails
  BY <1>5 DEF TypeOK, StartFails, disk, downloads, pass
<1> QED BY <1>1, <1>2, <1>3, <1>4, <1>5 DEF Starts

LEMMA WaitsTypes == TypeOK /\ Waits => TypeOK'
<1> SUFFICES ASSUME TypeOK, Waits PROVE TypeOK'
  OBVIOUS
<1>1. CASE \E t \in Torrents : CheckSession(t)
  BY <1>1 DEF TypeOK, CheckSession, GoTo, disk, downloads
<1>2. CASE \E t \in Torrents : PickSession(t)
  BY <1>2 DEF TypeOK, PickSession, disk, downloads
<1>3. CASE AllSessionsComplete
  BY <1>3 DEF TypeOK, AllSessionsComplete, disk, downloads, pass
<1>4. CASE PickNone
  BY <1>4 DEF TypeOK, PickNone, disk, downloads
<1>5. CASE WakeUp
  BY <1>5 DEF TypeOK, WakeUp, GoTo, disk, downloads
<1> QED BY <1>1, <1>2, <1>3, <1>4, <1>5 DEF Waits, DoneChanClosed, Tick

LEMMA DownloadsTypes == TypeOK /\ Downloads => TypeOK'
<1> SUFFICES ASSUME TypeOK, Downloads PROVE TypeOK'
  OBVIOUS
<1>1. CASE \E t \in Torrents : Acquire(t) \/ GiveUp(t)
  BY <1>1 DEF TypeOK, Acquire, GiveUp, disk, pass
<1>2. CASE \E t \in Torrents : Complete(t)
  BY <1>2 DEF TypeOK, Complete, disk, pass
<1>3. CASE \E t \in Torrents : SignalDone(t)
  BY <1>3 DEF TypeOK, SignalDone, disk, downloads, pass
<1> QED BY <1>1, <1>2, <1>3 DEF Downloads

LEMMA NextTypes == TypeOK /\ [Next]_vars => TypeOK'
<1>1. TypeOK /\ UNCHANGED vars => TypeOK'
  BY DEF TypeOK, vars, disk, downloads, pass
<1> QED BY <1>1, NextSteps, StartsTypes, WaitsTypes, DownloadsTypes

(* Every reachable state is well typed, and only a session that is in the  *)
(* map has loops, a channel, or a place in a pass of main.                 *)
THEOREM TypeCorrect == Spec => []TypeOK
<1>1. Init => TypeOK
  BY InitTypes
<1>2. TypeOK /\ [Next]_vars => TypeOK'
  BY NextTypes
<1> QED BY <1>1, <1>2, PTL DEF Spec

-----------------------------------------------------------------------------
(* What main knows at each place.  A torrent that is not shared keeps the  *)
(* pieces it has, so what a pass found of one session still holds when the *)
(* pass has come to the last of them.                                      *)

Keeping == Torrents \ Shared

(* Every torrent that could be loaded is in the map once the scan is over. *)
Scanned ==
  main # "failed" =>
    /\ main # "scan" => unread = {}
    /\ \A t \in Torrents : file[t] = "good" => t \in Sessions \cup unread

(* A session that misses pieces has a channel.                             *)
MissingHasChannel ==
  \A t \in Sessions \cap Keeping : pieces[t] = "missing" => doneChan[t] # "nil"

(* The pass of AllSessionsComplete has found these complete.               *)
FoundComplete ==
  main \in {"check", "done"} =>
    \A t \in Sessions \cap Keeping :
      (t \in unseen /\ main = "check") \/ pieces[t] = "complete"

(* The pass that looks for a channel has passed these over.                *)
FoundNoneToWaitFor ==
  /\ main = "pick" =>
       \A t \in Sessions \cap Keeping : t \in unseen \/ pieces[t] = "complete"
  /\ main = "wait" /\ waitChan = NoTorrent =>
       \A t \in Sessions \cap Keeping : pieces[t] = "complete"

Known == Scanned /\ MissingHasChannel /\ FoundComplete /\ FoundNoneToWaitFor

IInv == TypeOK /\ Known

LEMMA InitKnown == Init => Known
BY DEF Init, Known, Scanned, MissingHasChannel, FoundComplete, FoundNoneToWaitFor

(* Entering a torrent into the map gives it a channel if it needs one, and *)
(* takes no other torrent's away.                                          *)
LEMMA EnteredHasChannel ==
  ASSUME TypeOK, MissingHasChannel, NEW t \in Torrents, StartTorrentSession(t),
         UNCHANGED pieces
  PROVE  MissingHasChannel'
BY DEF TypeOK, MissingHasChannel, StartTorrentSession, Keeping

LEMMA StartsKnown == IInv /\ Starts => Known'
<1> SUFFICES ASSUME TypeOK, Known, Starts PROVE Known'
  BY DEF IInv
<1>1. CASE \E t \in Torrents : SkipFile(t)
  BY <1>1 DEF Known, Scanned, MissingHasChannel, FoundComplete, FoundNoneToWaitFor,
              SkipFile, MainAt, disk, downloads, pass
<1>2. CASE \E t \in Torrents : LoadFile(t)
  <2> PICK t \in Torrents : LoadFile(t)
    BY <1>2
  <2>1. /\ main = "scan" /\ main' = "scan"
        /\ Sessions' = Sessions \cup {t} /\ unread' = unread \ {t}
        /\ StartTorrentSession(t) /\ UNCHANGED <<file, pieces>>
    BY DEF LoadFile, MainAt, StartTorrentSession, disk, downloads
  <2>2. Scanned'
    BY <2>1 DEF Known, Scanned
  <2>3. MissingHasChannel'
    BY <2>1, EnteredHasChannel DEF Known
  <2> QED BY <2>1, <2>2, <2>3 DEF Known, FoundComplete, FoundNoneToWaitFor
<1>3. CASE TakeArgument
  <2>1. /\ main = "scan" /\ main' = "check" /\ unread = {} /\ unread' = {}
        /\ unseen' = Sessions' /\ UNCHANGED <<pieces, loops>>
    BY <1>3 DEF TakeArgument, MainAt, GoTo, downloads
  <2>2. \/ UNCHANGED <<file, starting, Sessions, doneChan>>
        \/ /\ argument \in Torrents /\ StartTorrentSession(argument)
           /\ file' = [file EXCEPT ![argument] = "good"]
    BY <1>3 DEF TakeArgument, Unstored
  <2>3. Scanned'
    BY <2>1, <2>2 DEF TypeOK, Known, Scanned, StartTorrentSession
  <2>4. MissingHasChannel'
    <3>1. CASE UNCHANGED <<file, starting, Sessions, doneChan>>
      BY <2>1, <3>1 DEF Known, MissingHasChannel
    <3>2. CASE argument \in Torrents /\ StartTorrentSession(argument)
      BY <2>1, <3>2, EnteredHasChannel DEF Known
    <3> QED BY <2>2, <3>1, <3>2
  <2>5. FoundComplete' /\ FoundNoneToWaitFor'
    BY <2>1 DEF FoundComplete, FoundNoneToWaitFor
  <2> QED BY <2>3, <2>4, <2>5 DEF Known
<1>4. CASE Started
  BY <1>4 DEF Known, Scanned, MissingHasChannel, FoundComplete, FoundNoneToWaitFor,
              Started, disk, pass
<1>5. CASE StartFails
  BY <1>5 DEF Known, Scanned, MissingHasChannel, FoundComplete, FoundNoneToWaitFor,
              StartFails, disk, downloads, pass
<1> QED BY <1>1, <1>2, <1>3, <1>4, <1>5 DEF Starts

LEMMA WaitsKnown == IInv /\ Waits => Known'
<1> SUFFICES ASSUME TypeOK, Known, Waits PROVE Known'
  BY DEF IInv
<1>1. UNCHANGED <<file, unread, Sessions, pieces, doneChan>>
  BY DEF Waits, CheckSession, PickSession, AllSessionsComplete, PickNone, DoneChanClosed,
         Tick, WakeUp, disk, downloads, pass
<1>2. main \notin {"scan", "failed"}
  BY DEF Waits, CheckSession, PickSession, AllSessionsComplete, PickNone, DoneChanClosed,
         Tick, WakeUp, MainAt
<1>3. Scanned' /\ MissingHasChannel'
  BY <1>1, <1>2 DEF Known, Scanned, MissingHasChannel
<1>4. CASE \E t \in Torrents : CheckSession(t)
  BY <1>1, <1>3, <1>4 DEF Known, FoundComplete, FoundNoneToWaitFor, CheckSession, GoTo,
                          MainAt
<1>5. CASE \E t \in Torrents : PickSession(t)
  <2> PICK t \in Torrents : PickSession(t)
    BY <1>5
  <2>1. t \in Sessions \cap Keeping /\ doneChan[t] = "nil" => pieces[t] = "complete"
    BY DEF TypeOK, Known, MissingHasChannel
  <2>2. main = "pick" /\ main' \in {"pick", "wait"}
    BY DEF PickSession
  <2>3. main' = "wait" => waitChan' = t /\ t # NoTorrent
    BY DaemonAssumption DEF PickSession
  <2>4. main' = "pick" => /\ unseen' = unseen \ {t}
                          /\ doneChan[t] = "nil" \/ pieces[t] = "complete"
    BY DEF PickSession
  <2> QED BY <1>1, <1>3, <2>1, <2>2, <2>3, <2>4 DEF Known, FoundComplete, FoundNoneToWaitFor
<1>6. CASE AllSessionsComplete
  BY <1>1, <1>3, <1>6 DEF Known, FoundComplete, FoundNoneToWaitFor, AllSessionsComplete,
                          MainAt
<1>7. CASE PickNone
  BY <1>1, <1>3, <1>7 DEF Known, FoundComplete, FoundNoneToWaitFor, PickNone
<1>8. CASE WakeUp
  BY <1>1, <1>3, <1>8 DEF Known, FoundComplete, FoundNoneToWaitFor, WakeUp, GoTo
<1> QED BY <1>3, <1>4, <1>5, <1>6, <1>7, <1>8 DEF Waits, DoneChanClosed, Tick, Known

(* A session alone makes nothing that main knows untrue: what it keeps, it *)
(* has for ever, and its channel stays.                                    *)
LEMMA DownloadsKnown == IInv /\ Downloads => Known'
<1> SUFFICES ASSUME TypeOK, Known, Downloads PROVE Known'
  BY DEF IInv
<1>1. UNCHANGED <<main, file, unread, Sessions, unseen, waitChan>>
  BY DEF Downloads, Acquire, GiveUp, Complete, SignalDone, disk, downloads, pass
<1>2. \A t \in Keeping : pieces[t] = "complete" => pieces'[t] = "complete"
  BY DEF TypeOK, Keeping, Downloads, Acquire, GiveUp, Complete, SignalDone, downloads
<1>3. \A t \in Torrents : pieces'[t] = "missing" => pieces[t] = "missing" \/ t \in Shared
  BY DEF TypeOK, Downloads, Acquire, GiveUp, Complete, SignalDone, downloads
<1>4. \A t \in Torrents : doneChan[t] # "nil" => doneChan'[t] # "nil"
  BY DEF TypeOK, Downloads, Acquire, GiveUp, Complete, SignalDone
<1>5. Scanned'
  BY <1>1 DEF Known, Scanned
<1>6. MissingHasChannel'
  BY <1>1, <1>3, <1>4 DEF Known, MissingHasChannel, Keeping
<1>7. FoundComplete' /\ FoundNoneToWaitFor'
  BY <1>1, <1>2 DEF Known, FoundComplete, FoundNoneToWaitFor
<1> QED BY <1>5, <1>6, <1>7 DEF Known

LEMMA UnchangedKnown == Known /\ UNCHANGED vars => Known'
BY DEF Known, Scanned, MissingHasChannel, FoundComplete, FoundNoneToWaitFor, vars, disk,
       downloads, pass

LEMMA Inductive == Spec => []IInv
<1>1. Init => IInv
  BY InitTypes, InitKnown DEF IInv
<1>2. IInv /\ [Next]_vars => IInv'
  BY NextTypes, NextSteps, StartsKnown, WaitsKnown, DownloadsKnown, UnchangedKnown DEF IInv
<1> QED BY <1>1, <1>2, PTL DEF Spec

(* When main returns without an error, every torrent that could be loaded  *)
(* is complete, unless it is one of those that may give up a piece again.  *)
THEOREM ReturnsWhenComplete == Spec => []ReturnsComplete
<1>1. IInv => ReturnsComplete
  BY DEF IInv, Known, Scanned, FoundComplete, Keeping, ReturnsComplete
<1> QED BY <1>1, Inductive, PTL

(* main waits without a channel only when every session that keeps its     *)
(* pieces is complete.                                                     *)
THEOREM PollsWhenComplete == Spec => []PollsOnlyAtEnd
<1>1. IInv => PollsOnlyAtEnd
  BY DEF IInv, TypeOK, Known, FoundNoneToWaitFor, Keeping, PollsOnlyAtEnd
<1> QED BY <1>1, Inductive, PTL

=============================================================================
