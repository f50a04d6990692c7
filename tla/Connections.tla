---------------------------- MODULE Connections ----------------------------
(***************************************************************************)
(* How a session gets its peers (internal/daemon/manager.go): the round of *)
(* ConnectToPeers that InitiateDownloadSequence waits for, the loops it    *)
(* starts for the peers of that round, and the rounds PeerHealthLoop adds  *)
(* without waiting.  The loops themselves are in Download; here they run,  *)
(* fail and take their address out of ts.Connections.                      *)
(*                                                                         *)
(* One goroutine connects to one entry of the tracker's list.  An object   *)
(* stands for such a goroutine, and then for the PeerConnection it made.   *)
(* An object that nothing refers to any more is free to stand for another: *)
(* Go collects it, and closes its connection with it.                      *)
(***************************************************************************)
EXTENDS Naturals, FiniteSets

CONSTANTS
  Peers,        \* the addresses the tracker may name
  MaxDials,     \* bound: the objects of one address in use at a time
  MaxPeers,     \* Config.MaxPeersPerTorrent
  EnoughPeers,  \* with this many entries the health loop asks for no more
  Mute          \* peers that may leave a handshake unanswered for ever

ASSUME ConnectionsAssumption ==
  /\ IsFiniteSet(Peers)
  /\ MaxDials \in Nat
  /\ MaxPeers \in Nat
  /\ EnoughPeers \in Nat
  /\ Mute \subseteq Peers

VARIABLES
  start,        \* where InitiateDownloadSequence is
  wg,           \* the goroutines that connectDone waits for
  Connections,  \* per address, the number of its object in ts.Connections, or 0
  object,       \* per object, its PeerConnection and its loops
  health,       \* where PeerHealthLoop is
  session       \* pieces are missing, all are verified, or ctx is done

vars == <<start, wg, Connections, object, health, session>>

-----------------------------------------------------------------------------
Objects == Peers \X (1..MaxDials)

(* The stages of ConnectToPeers, and how it left the object.               *)
Dialling == {"dial", "handshake", "message"}
Settled == {"active", "failed"}

ObjectState ==
  [stage : {"unused", "check"} \cup Dialling \cup Settled,
   open : BOOLEAN,                          \* Connection is not nil
   reader : {"none", "runs", "ended"},      \* its PeerReadLoop
   loader : {"none", "runs", "ended"}]      \* its PeerDownloadLoop

New(stage) == [stage |-> stage, open |-> FALSE, reader |-> "none", loader |-> "none"]

Connecting(o) == object[o].stage \in {"check"} \cup Dialling
Listed(o) == Connections[o[1]] = o[2]
Looping(o) == object[o].reader = "runs" \/ object[o].loader = "runs"
Free == {o \in Objects : ~Connecting(o) /\ ~Listed(o) /\ ~Looping(o)}

Entries == {p \in Peers : Connections[p] # 0}

(* The lists of peers a tracker may send, an object for each of their      *)
(* entries; an address may be there twice.  Free objects are taken in      *)
(* order.                                                                  *)
Lists == {R \in SUBSET Free : \A o \in R, f \in Free : f[1] = o[1] /\ f[2] < o[2] => f \in R}

Init ==
  /\ start = "announce"
  /\ wg = {}
  /\ Connections = [p \in Peers |-> 0]
  /\ object = [o \in Objects |-> New("unused")]
  /\ health = "off"
  /\ session = "downloads"

-----------------------------------------------------------------------------
(* ConnectToPeers.                                                         *)

Spawn(R) == object' = [o \in Objects |-> IF o \in R THEN New("check") ELSE object[o]]

(* Faulty variant: an address that has an entry is dialled again.          *)
CheckNothing(o) ==
  /\ object[o].stage = "check"
  /\ object' = [object EXCEPT ![o] = New("dial")]
  /\ UNCHANGED <<start, wg, Connections, health, session>>

(* An address that has an entry, whatever its state, is skipped.           *)
CheckExists(o) ==
  /\ object[o].stage = "check"
  /\ \/ /\ o[1] \in Entries
        /\ object' = [object EXCEPT ![o] = New("unused")]
        /\ wg' = wg \ {o}
     \/ /\ o[1] \notin Entries
        /\ object' = [object EXCEPT ![o] = New("dial")]
        /\ UNCHANGED wg
  /\ UNCHANGED <<start, Connections, health, session>>

(* EstablishNewConnection and SendHandshakeToPeer succeed.                 *)
Advance(o, from, to) ==
  /\ object[o].stage = from
  /\ object' = [object EXCEPT ![o].stage = to, ![o].open = TRUE]
  /\ UNCHANGED <<start, wg, Connections, health, session>>

DialSucceeds(o) == Advance(o, "dial", "handshake")
HandshakeAnswered(o) == Advance(o, "handshake", "message")

(* AddConnection, which replaces the entry there may be, and wg.Done().    *)
Settle(o, from, to) ==
  /\ object[o].stage = from
  /\ object' = [object EXCEPT ![o].stage = to]
  /\ Connections' = [Connections EXCEPT ![o[1]] = o[2]]
  /\ wg' = wg \ {o}
  /\ UNCHANGED <<start, health, session>>

(* Faulty variant: a failed dial is tried again, and again.                *)
DialAgain(o) ==
  /\ object[o].stage = "dial"
  /\ object' = [object EXCEPT ![o].stage = "check"]
  /\ UNCHANGED <<start, wg, Connections, health, session>>

DialFails(o) == Settle(o, "dial", "failed")
HandshakeFails(o) == Settle(o, "handshake", "failed")

(* Faulty variant: the object is published before its first message.       *)
PublishEarly(o) ==
  /\ object[o].stage = "message"
  /\ o \in wg
  /\ Connections' = [Connections EXCEPT ![o[1]] = o[2]]
  /\ wg' = wg \ {o}
  /\ UNCHANGED <<start, object, health, session>>

(* The first message has ten seconds; a failure leaves the connection.     *)
FirstMessageFails(o) == Settle(o, "message", "failed")
FirstMessageArrives(o) == Settle(o, "message", "active")

Connect(o) ==
  \/ CheckExists(o)
  \/ DialSucceeds(o) \/ DialFails(o)
  \/ HandshakeAnswered(o) \/ HandshakeFails(o)
  \/ FirstMessageArrives(o) \/ FirstMessageFails(o)

-----------------------------------------------------------------------------
(* InitiateDownloadSequence.                                               *)

(* An announce that fails, or a response without peers, ends the start of  *)
(* the session with an error, and main with it.                            *)
AnnounceFails ==
  /\ start = "announce"
  /\ start' = "failed"
  /\ UNCHANGED <<wg, Connections, object, health, session>>

FirstRound(R) ==
  /\ start = "announce"
  /\ Cardinality(R) <= MaxPeers
  /\ Spawn(R)
  /\ wg' = R
  /\ start' = "wait"
  /\ UNCHANGED <<Connections, health, session>>

(* Faulty variants: every entry counts as active; or every connection of   *)
(* the round does, whether ts.Connections has it or not.                   *)
AllEntries == {o \in Objects : Listed(o)}
AllOpen == {o \in Objects : object[o].open}

(* GetActivePeers: the entries whose Connection is not nil.                *)
ActivePeers == {o \in Objects : Listed(o) /\ object[o].open}

(* <-connectDone, and the loops of the active peers are started.           *)
StartLoops ==
  /\ start = "wait"
  /\ wg = {}
  /\ ActivePeers # {}
  /\ object' = [o \in Objects |->
                  IF o \in ActivePeers
                  THEN [object[o] EXCEPT !.reader = "runs", !.loader = "runs"]
                  ELSE object[o]]
  /\ start' = "running"
  /\ health' = "idle"
  /\ UNCHANGED <<wg, Connections, session>>

NoActivePeers ==
  /\ start = "wait"
  /\ wg = {}
  /\ ActivePeers = {}
  /\ start' = "failed"
  /\ UNCHANGED <<wg, Connections, object, health, session>>

-----------------------------------------------------------------------------
(* PeerHealthLoop.                                                         *)

HealthStep(from, to) ==
  /\ health = from
  /\ health' = to
  /\ UNCHANGED <<start, wg, Connections, session>>

(* len(ts.Connections) counts the failed entries with the others.          *)
HealthTick ==
  /\ Cardinality(Entries) < EnoughPeers
  /\ HealthStep("idle", "ask")
  /\ UNCHANGED object

TrackerFails == HealthStep("ask", "idle") /\ UNCHANGED object

(* The round is not waited for, and not cut.                               *)
LaterRound(R) == HealthStep("ask", "idle") /\ Spawn(R)

HealthStops ==
  /\ session = "ended"
  /\ HealthStep("idle", "stopped")
  /\ UNCHANGED object

-----------------------------------------------------------------------------
(* The ends of the two loops, and RemoveConnection(peer.ConnectionAddress) *)
(* whichever object has the entry.                                         *)

(* Faulty variant: the entry of a failed peer is kept.                     *)
RemoveNothing(p) == UNCHANGED Connections

RemoveConnection(p) == Connections' = [Connections EXCEPT ![p] = 0]

ReaderFails(o) ==
  /\ object[o].reader = "runs"
  /\ session # "ended"
  /\ object' = [object EXCEPT ![o].reader = "ended", ![o].stage = "failed"]
  /\ RemoveConnection(o[1])
  /\ UNCHANGED <<start, wg, health, session>>

LoaderFails(o) ==
  /\ object[o].loader = "runs"
  /\ object' = [object EXCEPT ![o].loader = "ended", ![o].stage = "failed"]
  /\ RemoveConnection(o[1])
  /\ UNCHANGED <<start, wg, health, session>>

ReaderStops(o) ==
  /\ object[o].reader = "runs"
  /\ session = "ended"
  /\ object' = [object EXCEPT ![o].reader = "ended"]
  /\ UNCHANGED <<start, wg, Connections, health, session>>

(* The download loop also returns when it finds every piece verified.      *)
LoaderStops(o) ==
  /\ object[o].loader = "runs"
  /\ session # "downloads"
  /\ object' = [object EXCEPT ![o].loader = "ended"]
  /\ UNCHANGED <<start, wg, Connections, health, session>>

(* The last piece is verified; Complete or Cancel cancels the context.     *)
SessionMoves ==
  /\ start = "running"
  /\ \/ session = "downloads" /\ session' \in {"complete", "ended"}
     \/ session = "complete" /\ session' = "ended"
  /\ UNCHANGED <<start, wg, Connections, object, health>>

(* Nothing is left to do: main has exited, or the goroutines have ended.   *)
Finished ==
  /\ \/ start = "failed"
     \/ health = "stopped" /\ \A o \in Objects : ~Connecting(o) /\ ~Looping(o)
  /\ UNCHANGED vars

Loops(o) == ReaderFails(o) \/ LoaderFails(o) \/ ReaderStops(o) \/ LoaderStops(o)

Next ==
  \/ AnnounceFails \/ StartLoops \/ NoActivePeers
  \/ HealthTick \/ TrackerFails \/ HealthStops
  \/ \E R \in Lists : FirstRound(R) \/ LaterRound(R)
  \/ \E o \in Objects : Connect(o) \/ Loops(o)
  \/ SessionMoves
  \/ Finished

Spec == Init /\ [][Next]_vars

-----------------------------------------------------------------------------
(* A dial ends after five seconds, a first message after ten, a request to *)
(* the tracker after TrackerTimeout; a handshake ends if the peer is not   *)
(* mute.  The health loop ticks, and its select finds a finished session.  *)
(* A tracker that knows a peer names it again and again.                   *)
Named(p) == \E R \in Lists : LaterRound(R) /\ \E o \in R : o[1] = p

Fairness ==
  /\ \A o \in Objects :
       /\ WF_vars((object[o].stage = "handshake" => o[1] \notin Mute) /\ Connect(o))
       /\ WF_vars(ReaderStops(o)) /\ WF_vars(LoaderStops(o))
  /\ WF_vars(AnnounceFails \/ \E R \in Lists : FirstRound(R))
  /\ WF_vars(StartLoops) /\ WF_vars(NoActivePeers)
  /\ WF_vars(HealthTick)
  /\ WF_vars(TrackerFails \/ \E R \in Lists : LaterRound(R))
  /\ SF_vars(HealthStops)
  /\ \A p \in Peers : SF_vars(Named(p))

FairSpec == Spec /\ Fairness

-----------------------------------------------------------------------------
(* Types.  Only a goroutine that runs is waited for, and only an object    *)
(* whose goroutine is done with it is in ts.Connections, since AddConnec-  *)
(* tion is the last thing each path of ConnectToPeers does.                *)
TypeOK ==
  /\ start \in {"announce", "wait", "running", "failed"}
  /\ wg \subseteq Objects
  /\ Connections \in [Peers -> 0..MaxDials]
  /\ object \in [Objects -> ObjectState]
  /\ health \in {"off", "idle", "ask", "stopped"}
  /\ session \in {"downloads", "complete", "ended"}
  /\ \A o \in wg : Connecting(o)
  /\ \A o \in Objects : Listed(o) => object[o].stage \in Settled

HasLoops(o) == object[o].reader # "none" \/ object[o].loader # "none"

(* However often a peer is named and dialled, one connection at most gets  *)
(* loops, and it is open: two pairs of loops would share an address in     *)
(* ts.Connections, and a nil Connection would end the process in           *)
(* PeerReadLoop (manager.go:263, 436, 860-871).                            *)
OnePairPerPeer ==
  \A o1, o2 \in Objects :
    HasLoops(o1) => /\ object[o1].open
                    /\ HasLoops(o2) /\ o1[1] = o2[1] => o1 = o2

(* While both loops of a connection run, it is the entry of its address.   *)
(* ConnectToPeers looks for an entry, dials without the lock, and replaces *)
(* whatever is there by then (manager.go:562-614, 843): no round may start *)
(* or finish with an address between these two steps while its loops run.  *)
RunningIsListed ==
  \A o \in Objects : object[o].reader = "runs" /\ object[o].loader = "runs" => Listed(o)

(* The start of a session comes to an end, unless a peer leaves a          *)
(* handshake unanswered (manager.go:420-423).                              *)
StartReturns == <>(start \in {"running", "failed"})

(* A peer whose read loop failed is dialled again, as long as the session  *)
(* lasts and the other entries are few: its own must be gone by then       *)
(* (manager.go:275, 511, 562).                                             *)
Redialled(p) ==
  \E o \in Objects : /\ o[1] = p
                     /\ \/ object[o].stage \in Dialling
                        \/ Listed(o) /\ ~HasLoops(o)

LostIsRedialled ==
  \A p \in Peers :
    (\E o \in Objects : o[1] = p /\ object[o].reader = "ended")
      ~> (Redialled(p) \/ session = "ended" \/ Cardinality(Entries \ {p}) >= EnoughPeers)

-----------------------------------------------------------------------------
(* What the comments of the code say, and the code refutes.                *)

(* manager.go:548: ConnectToPeers "can be called multiple times to         *)
(* reconnect to failed peers": the entry of a failed dial is replaced.     *)
FailedIsRetried ==
  \A o \in Objects :
    (start = "running" /\ Listed(o) /\ ~object[o].open)
      ~> (~Listed(o) \/ session = "ended")

(* manager.go:866: GetActivePeers is to "only include peers that have      *)
(* completed the connection setup".                                        *)
ActiveIsSetUp == start = "wait" /\ wg = {} => \A o \in ActivePeers : object[o].stage = "active"

(* README.md:32: -max-peers is "Max peers per torrent".                    *)
MaxPeersKept == Cardinality(Entries) <= MaxPeers

(* manager.go:546-548: a round may also "connect to new peers from tracker *)
(* updates": a peer that is connected is downloaded from.                  *)
NewPeersUsed ==
  \A o \in Objects :
    (object[o].stage = "active" /\ Listed(o)) ~> (HasLoops(o) \/ ~Listed(o) \/ session = "ended")

(* manager.go:480: the health loop does without more peers when it has ten *)
(* of them: enough of the entries are connections that work.               *)
EnoughAreActive ==
  health = "idle" /\ Cardinality(Entries) >= EnoughPeers
    => \E o \in Objects : Listed(o) /\ object[o].stage = "active"

(* manager.go:849: "RemoveConnection removes a peer connection": a loop    *)
(* that fails takes its own connection out.                                *)
RemovesOwn ==
  [][\A o \in Objects : Looping(o) /\ ~Looping(o)' /\ ~Listed(o)
       => Connections'[o[1]] = Connections[o[1]]]_vars

=============================================================================
