------------------------- MODULE ConnectionsProofs -------------------------
(***************************************************************************)
(* Theorems about Connections, for every set of peers, every number of     *)
(* objects for an address, and every limit.                                *)
(***************************************************************************)
EXTENDS Connections, TLAPS

-----------------------------------------------------------------------------
(* The strengthening of the three invariants.                              *)

(* Until the first round is over nothing has loops, and no round follows.  *)
FirstRoundAlone ==
  start # "running" => health = "off" /\ \A o \in Objects : ~HasLoops(o)

(* All that connects before that is waited for.                            *)
FirstRoundWaits ==
  \A o \in Objects :
    /\ start = "announce" => ~Connecting(o)
    /\ start = "wait" /\ Connecting(o) => o \in wg

(* Loops belong to a connection that ConnectToPeers is done with.          *)
LoopsAreSettled == \A o \in Objects : HasLoops(o) => object[o].stage \in Settled

Running(o) == object[o].reader = "runs" /\ object[o].loader = "runs"

(* While both loops of a connection run, no other goroutine is past its    *)
(* look at ts.Connections with the same address.                           *)
NoDialWhileRunning ==
  \A o1, o2 \in Objects :
    Running(o1) /\ o1[1] = o2[1] => object[o2].stage \notin Dialling

Strengthening == FirstRoundAlone /\ FirstRoundWaits /\ LoopsAreSettled /\ NoDialWhileRunning

IInv == TypeOK /\ OnePairPerPeer /\ RunningIsListed /\ Strengthening


-----------------------------------------------------------------------------
(* An object is its address and its number.                                *)
LEMMA ObjectIs ==
  /\ \A o \in Objects : o[1] \in Peers /\ o[2] \in 1..MaxDials /\ o = <<o[1], o[2]>>
  /\ \A o1, o2 \in Objects : o1[1] = o2[1] /\ o1[2] = o2[2] => o1 = o2
BY DEF Objects

(* Two entries with one address are one.                                   *)
LEMMA ListedIsOne ==
  ASSUME NEW o1 \in Objects, NEW o2 \in Objects, Listed(o1), Listed(o2), o1[1] = o2[1]
  PROVE  o1 = o2
BY ObjectIs DEF Listed

LEMMA NewIsObjectState ==
  ASSUME NEW stage \in {"unused", "check", "dial"}
  PROVE  New(stage) \in ObjectState
BY DEF New, ObjectState, Dialling

LEMMA InitInv == Init => IInv
<1> SUFFICES ASSUME Init PROVE IInv
  OBVIOUS
<1>1. \A o \in Objects : object[o] = New("unused") /\ ~Connecting(o) /\ ~HasLoops(o) /\ ~Listed(o)
  BY ObjectIs DEF Init, New, Connecting, HasLoops, Listed, Dialling
<1>2. TypeOK
  BY <1>1, NewIsObjectState, ConnectionsAssumption DEF Init, TypeOK
<1>3. OnePairPerPeer /\ LoopsAreSettled
  BY <1>1 DEF OnePairPerPeer, LoopsAreSettled
<1>4. RunningIsListed /\ NoDialWhileRunning
  BY <1>1 DEF RunningIsListed, NoDialWhileRunning, Running, HasLoops
<1>5. FirstRoundAlone /\ FirstRoundWaits
  BY <1>1 DEF Init, FirstRoundAlone, FirstRoundWaits
<1> QED BY <1>2, <1>3, <1>4, <1>5 DEF IInv, Strengthening

-----------------------------------------------------------------------------
(* A new round.                                                            *)

(* What Spawn does with each object.                                       *)
LEMMA SpawnedObjects ==
  ASSUME IInv, NEW R \in Lists, Spawn(R)
  PROVE  /\ R \subseteq Free /\ R \subseteq Objects
         /\ object' \in [Objects -> ObjectState]
         /\ \A o \in R : object'[o] = New("check") /\ ~Listed(o) /\ ~Connecting(o)
         /\ \A o \in Objects \ R : object'[o] = object[o]
<1>1. R \subseteq Free /\ R \subseteq Objects
  BY DEF Lists, Free
<1>2. object' \in [Objects -> ObjectState]
  BY NewIsObjectState DEF IInv, TypeOK, Spawn
<1> QED BY <1>1, <1>2 DEF Spawn, Free

LEMMA RoundInv ==
  ASSUME IInv, NEW R \in Lists, FirstRound(R) \/ LaterRound(R)
  PROVE  IInv'
<1>1. Spawn(R)
  BY DEF FirstRound, LaterRound
<1>2. /\ R \subseteq Objects
      /\ \A o \in R : object'[o] = New("check") /\ ~Listed(o) /\ ~Connecting(o)
      /\ \A o \in Objects \ R : object'[o] = object[o]
  BY <1>1, SpawnedObjects
<1>3. object' \in [Objects -> ObjectState]
  BY <1>1, SpawnedObjects
<1>4. UNCHANGED <<Connections, session>>
  BY DEF FirstRound, LaterRound, HealthStep
<1>5. \A o \in R : Connecting(o)' /\ ~HasLoops(o)' /\ object'[o].stage \notin Dialling
  BY <1>2 DEF New, Connecting, HasLoops, Dialling
<1>6. \A o \in Objects \ R :
        /\ object'[o] = object[o]
        /\ Connecting(o)' <=> Connecting(o)
        /\ HasLoops(o)' <=> HasLoops(o)
  BY <1>2 DEF Connecting, HasLoops
<1>7. \A o \in Objects : Listed(o)' <=> Listed(o)
  BY <1>4 DEF Listed
<1>8. OnePairPerPeer' /\ LoopsAreSettled' /\ RunningIsListed' /\ NoDialWhileRunning'
  <2>1. OnePairPerPeer'
    BY <1>5, <1>6 DEF IInv, OnePairPerPeer
  <2>2. LoopsAreSettled'
    BY <1>5, <1>6 DEF IInv, Strengthening, LoopsAreSettled
  <2>3. RunningIsListed'
    BY <1>5, <1>6, <1>7 DEF IInv, RunningIsListed, HasLoops
  <2>4. NoDialWhileRunning'
    BY <1>5, <1>6 DEF IInv, Strengthening, NoDialWhileRunning, Running, HasLoops
  <2> QED BY <2>1, <2>2, <2>3, <2>4
<1>9. CASE FirstRound(R)
  <2>1. start = "announce" /\ start' = "wait" /\ wg' = R /\ health' = health
    BY <1>9 DEF FirstRound
  <2>2. TypeOK'
    BY <1>2, <1>3, <1>4, <1>5, <1>6, <1>7, <2>1 DEF IInv, TypeOK
  <2>3. FirstRoundAlone'
    BY <1>5, <1>6, <2>1 DEF IInv, Strengthening, FirstRoundAlone
  <2>4. FirstRoundWaits'
    BY <1>6, <2>1 DEF IInv, Strengthening, FirstRoundWaits
  <2> QED BY <1>8, <2>2, <2>3, <2>4 DEF IInv, Strengthening
<1>10. CASE LaterRound(R)
  <2>1. health = "ask" /\ health' = "idle" /\ UNCHANGED <<start, wg>>
    BY <1>10 DEF LaterRound, HealthStep
  <2>2. start = "running"
    BY <2>1 DEF IInv, Strengthening, FirstRoundAlone
  <2>3. TypeOK'
    BY <1>2, <1>3, <1>4, <1>5, <1>6, <1>7, <2>1 DEF IInv, TypeOK
  <2>4. FirstRoundAlone' /\ FirstRoundWaits'
    BY <2>1, <2>2 DEF FirstRoundAlone, FirstRoundWaits
  <2> QED BY <1>8, <2>3, <2>4 DEF IInv, Strengthening
<1> QED BY <1>9, <1>10

-----------------------------------------------------------------------------
(* ConnectToPeers: a step moves one object, which has no loops.            *)

(* One object changes, and its loops are as they were.                     *)
Moves(o, stage) ==
  /\ object' \in [Objects -> ObjectState]
  /\ \A x \in Objects \ {o} : object'[x] = object[x]
  /\ object'[o].stage = stage
  /\ object'[o].reader = "none" /\ object'[o].loader = "none"

(* An object that connects has no loops and no entry.                      *)
LEMMA ConnectingIsBare ==
  ASSUME IInv, NEW o \in Objects, Connecting(o)
  PROVE  ~HasLoops(o) /\ ~Listed(o) /\ start # "announce"
BY DEF IInv, TypeOK, Strengthening, LoopsAreSettled, FirstRoundWaits, Connecting, Dialling,
       Settled

LEMMA CheckMoves ==
  ASSUME IInv, NEW o \in Objects, CheckExists(o)
  PROVE  /\ Connecting(o)
         /\ \/ Moves(o, "unused") /\ wg' = wg \ {o}
            \/ Moves(o, "dial") /\ wg' = wg /\ o[1] \notin Entries
         /\ UNCHANGED <<start, Connections, health, session>>
<1>1. New("unused") \in ObjectState /\ New("dial") \in ObjectState
  BY NewIsObjectState
<1>2. ASSUME NEW stage \in {"unused", "dial"}, object' = [object EXCEPT ![o] = New(stage)]
      PROVE  Moves(o, stage)
  BY <1>1, <1>2 DEF IInv, TypeOK, Moves, New
<1>3. Connecting(o)
  BY DEF CheckExists, Connecting
<1> QED BY <1>2, <1>3 DEF CheckExists

LEMMA AdvanceMoves ==
  ASSUME IInv, NEW o \in Objects, NEW from \in Dialling, NEW to \in Dialling,
         Advance(o, from, to)
  PROVE  /\ object[o].stage \in Dialling
         /\ Moves(o, to)
         /\ UNCHANGED <<start, wg, Connections, health, session>>
<1>1. object[o].stage \in Dialling /\ ~HasLoops(o)
  BY ConnectingIsBare DEF Advance, Connecting
<1>2. object[o] \in ObjectState /\ object \in [Objects -> ObjectState]
  BY DEF IInv, TypeOK
<1>3. object' = [object EXCEPT ![o] = [object[o] EXCEPT !.stage = to, !.open = TRUE]]
  BY DEF Advance
<1>4. [object[o] EXCEPT !.stage = to, !.open = TRUE] \in ObjectState
  BY <1>2 DEF ObjectState
<1> QED BY <1>1, <1>2, <1>3, <1>4 DEF Advance, Moves, HasLoops, ObjectState

LEMMA SettleMoves ==
  ASSUME IInv, NEW o \in Objects, NEW from \in Dialling, NEW to \in Settled,
         Settle(o, from, to)
  PROVE  /\ object[o].stage \in Dialling
         /\ Moves(o, to)
         /\ Connections' = [Connections EXCEPT ![o[1]] = o[2]]
         /\ wg' = wg \ {o}
         /\ UNCHANGED <<start, health, session>>
<1>1. object[o].stage \in Dialling /\ ~HasLoops(o)
  BY ConnectingIsBare DEF Settle, Connecting
<1>2. object[o] \in ObjectState /\ object \in [Objects -> ObjectState]
  BY DEF IInv, TypeOK
<1>3. object' = [object EXCEPT ![o] = [object[o] EXCEPT !.stage = to]]
  BY DEF Settle
<1>4. [object[o] EXCEPT !.stage = to] \in ObjectState
  BY <1>2 DEF ObjectState
<1> QED BY <1>1, <1>2, <1>3, <1>4 DEF Settle, Moves, HasLoops, ObjectState

(* What such a step leaves true, whatever it does to ts.Connections.       *)
LEMMA MovesKeep ==
  ASSUME IInv, NEW o \in Objects, NEW stage, Moves(o, stage), Connecting(o),
         UNCHANGED <<start, health, session>>,
         stage \in Dialling => o[1] \notin Entries \/ object[o].stage \in Dialling
  PROVE  /\ OnePairPerPeer' /\ LoopsAreSettled' /\ NoDialWhileRunning' /\ FirstRoundAlone'
         /\ start' # "announce"
         /\ \A x \in Objects : /\ x # o => (Connecting(x)' <=> Connecting(x))
                               /\ HasLoops(x)' <=> HasLoops(x)
                               /\ Running(x)' <=> Running(x)
<1>1. ~HasLoops(o) /\ start # "announce"
  BY ConnectingIsBare
<1>2. ~HasLoops(o)' /\ ~Running(o)' /\ ~Running(o)
  BY <1>1 DEF Moves, HasLoops, Running
<1>3. \A x \in Objects \ {o} :
        /\ object'[x] = object[x]
        /\ Connecting(x)' <=> Connecting(x)
        /\ HasLoops(x)' <=> HasLoops(x)
        /\ Running(x)' <=> Running(x)
  BY DEF Moves, Connecting, HasLoops, Running
<1>4. OnePairPerPeer'
  BY <1>1, <1>2, <1>3 DEF IInv, OnePairPerPeer
<1>5. LoopsAreSettled'
  BY <1>2, <1>3 DEF IInv, Strengthening, LoopsAreSettled
<1>6. NoDialWhileRunning'
  <2> SUFFICES ASSUME NEW o1 \in Objects, NEW o2 \in Objects, Running(o1)', o1[1] = o2[1],
                      object'[o2].stage \in Dialling
               PROVE  FALSE
    BY DEF NoDialWhileRunning
  <2>1. o1 # o /\ Running(o1)
    BY <1>2, <1>3
  <2>2. CASE o2 # o
    BY <1>3, <2>1, <2>2 DEF IInv, Strengthening, NoDialWhileRunning
  <2>3. CASE o2 = o
    <3>1. stage \in Dialling
      BY <2>3 DEF Moves
    <3>2. Listed(o1)
      BY <2>1 DEF IInv, RunningIsListed, Running
    <3>3. o1[1] \in Entries
      BY <3>2, ObjectIs, ConnectionsAssumption DEF Listed, Entries
    <3>4. object[o].stage \in Dialling
      BY <2>3, <3>1, <3>3
    <3> QED BY <2>1, <2>3, <3>4 DEF IInv, Strengthening, NoDialWhileRunning
  <2> QED BY <2>2, <2>3
<1>7. FirstRoundAlone'
  BY <1>2, <1>3 DEF IInv, Strengthening, FirstRoundAlone
<1> QED BY <1>1, <1>2, <1>3, <1>4, <1>5, <1>6, <1>7

LEMMA CheckInv ==
  ASSUME IInv, NEW o \in Objects, CheckExists(o)
  PROVE  IInv'
<1>1. /\ Connecting(o) /\ ~Listed(o) /\ start # "announce"
      /\ UNCHANGED <<start, Connections, health, session>>
  BY CheckMoves, ConnectingIsBare
<1>2. PICK stage \in {"unused", "dial"} :
        /\ Moves(o, stage)
        /\ stage = "unused" => wg' = wg \ {o}
        /\ stage = "dial" => wg' = wg /\ o[1] \notin Entries
  BY CheckMoves
<1>3. /\ OnePairPerPeer' /\ LoopsAreSettled' /\ NoDialWhileRunning' /\ FirstRoundAlone'
      /\ \A x \in Objects : /\ x # o => (Connecting(x)' <=> Connecting(x))
                            /\ HasLoops(x)' <=> HasLoops(x)
                            /\ Running(x)' <=> Running(x)
  BY <1>1, <1>2, MovesKeep DEF Dialling
<1>4. Connecting(o)' = (stage = "dial")
  BY <1>2 DEF Moves, Connecting, Dialling
<1>5. \A x \in Objects : Listed(x)' <=> Listed(x)
  BY <1>1 DEF Listed
<1>6. TypeOK'
  <2>1. wg' \subseteq Objects /\ \A x \in wg' : Connecting(x)'
    BY <1>2, <1>3, <1>4 DEF IInv, TypeOK
  <2>2. \A x \in Objects : Listed(x)' => object'[x].stage \in Settled
    BY <1>1, <1>2, <1>5 DEF IInv, TypeOK, Moves
  <2> QED BY <1>1, <1>2, <2>1, <2>2 DEF IInv, TypeOK, Moves
<1>7. RunningIsListed'
  BY <1>3, <1>5 DEF IInv, RunningIsListed, Running
<1>8. FirstRoundWaits'
  BY <1>1, <1>2, <1>3, <1>4 DEF IInv, Strengthening, FirstRoundWaits
<1> QED BY <1>3, <1>6, <1>7, <1>8 DEF IInv, Strengthening

LEMMA AdvanceInv ==
  ASSUME IInv, NEW o \in Objects, NEW from \in Dialling, NEW to \in Dialling,
         Advance(o, from, to)
  PROVE  IInv'
<1>1. /\ object[o].stage \in Dialling /\ Moves(o, to)
      /\ UNCHANGED <<start, wg, Connections, health, session>>
  BY AdvanceMoves
<1>2. Connecting(o) /\ Connecting(o)' /\ ~Listed(o)
  BY <1>1, ConnectingIsBare DEF Connecting, Moves
<1>3. /\ OnePairPerPeer' /\ LoopsAreSettled' /\ NoDialWhileRunning' /\ FirstRoundAlone'
      /\ \A x \in Objects : /\ x # o => (Connecting(x)' <=> Connecting(x))
                            /\ HasLoops(x)' <=> HasLoops(x)
                            /\ Running(x)' <=> Running(x)
  BY <1>1, <1>2, MovesKeep
<1>4. \A x \in Objects : Listed(x)' <=> Listed(x)
  BY <1>1 DEF Listed
<1>5. TypeOK'
  <2>1. \A x \in wg' : Connecting(x)'
    BY <1>1, <1>2, <1>3 DEF IInv, TypeOK
  <2>2. \A x \in Objects : Listed(x)' => object'[x].stage \in Settled
    BY <1>1, <1>2, <1>4 DEF IInv, TypeOK, Moves
  <2> QED BY <1>1, <2>1, <2>2 DEF IInv, TypeOK, Moves
<1>6. RunningIsListed'
  BY <1>3, <1>4 DEF IInv, RunningIsListed, Running
<1>7. FirstRoundWaits'
  BY <1>1, <1>2, <1>3 DEF IInv, Strengthening, FirstRoundWaits
<1> QED BY <1>3, <1>5, <1>6, <1>7 DEF IInv, Strengthening

(* AddConnection replaces the entry of an address, and no connection whose *)
(* loops both run can lose its own to it.                                  *)
LEMMA SettleInv ==
  ASSUME IInv, NEW o \in Objects, NEW from \in Dialling, NEW to \in Settled,
         Settle(o, from, to)
  PROVE  IInv'
<1>1. /\ object[o].stage \in Dialling /\ Moves(o, to)
      /\ Connections' = [Connections EXCEPT ![o[1]] = o[2]]
      /\ wg' = wg \ {o}
      /\ UNCHANGED <<start, health, session>>
  BY SettleMoves
<1>2. Connecting(o) /\ ~Connecting(o)' /\ to \notin Dialling
  BY <1>1 DEF Connecting, Moves, Dialling, Settled
<1>3. /\ OnePairPerPeer' /\ LoopsAreSettled' /\ NoDialWhileRunning' /\ FirstRoundAlone'
      /\ \A x \in Objects : /\ x # o => (Connecting(x)' <=> Connecting(x))
                            /\ HasLoops(x)' <=> HasLoops(x)
                            /\ Running(x)' <=> Running(x)
  BY <1>1, <1>2, MovesKeep
<1>4. /\ Connections' \in [Peers -> 0..MaxDials]
      /\ \A x \in Objects : Listed(x)' => x = o \/ Listed(x)
      /\ \A x \in Objects : x[1] # o[1] => (Listed(x)' <=> Listed(x))
  BY <1>1, ObjectIs DEF IInv, TypeOK, Listed
<1>5. TypeOK'
  <2>1. wg' \subseteq Objects /\ \A x \in wg' : Connecting(x)'
    BY <1>1, <1>3 DEF IInv, TypeOK
  <2>2. \A x \in Objects : Listed(x)' => object'[x].stage \in Settled
    BY <1>1, <1>4 DEF IInv, TypeOK, Moves
  <2> QED BY <1>1, <1>4, <2>1, <2>2 DEF IInv, TypeOK, Moves
<1>6. RunningIsListed'
  <2>1. \A x \in Objects : Running(x) => x[1] # o[1]
    BY <1>1 DEF IInv, Strengthening, NoDialWhileRunning
  <2> QED BY <1>3, <1>4, <2>1 DEF IInv, RunningIsListed, Running
<1>7. FirstRoundWaits'
  BY <1>1, <1>2, <1>3 DEF IInv, Strengthening, FirstRoundWaits
<1> QED BY <1>3, <1>5, <1>6, <1>7 DEF IInv, Strengthening

LEMMA ConnectInv ==
  ASSUME IInv, NEW o \in Objects, Connect(o)
  PROVE  IInv'
<1>1. CASE CheckExists(o)
  BY <1>1, CheckInv
<1>2. CASE DialSucceeds(o) \/ HandshakeAnswered(o)
  BY <1>2, AdvanceInv DEF DialSucceeds, HandshakeAnswered, Dialling
<1>3. CASE \/ DialFails(o) \/ HandshakeFails(o)
           \/ FirstMessageArrives(o) \/ FirstMessageFails(o)
  BY <1>3, SettleInv DEF DialFails, HandshakeFails, FirstMessageArrives, FirstMessageFails,
                         Dialling, Settled
<1> QED BY <1>1, <1>2, <1>3 DEF Connect

-----------------------------------------------------------------------------
(* The loops.                                                              *)

(* The loops are started when nobody connects, and so nobody can replace   *)
(* or follow the entries they are started for.                             *)
LEMMA StartLoopsInv == IInv /\ StartLoops => IInv'
<1> SUFFICES ASSUME IInv, StartLoops PROVE IInv'
  OBVIOUS
<1>1. /\ start = "wait" /\ start' = "running" /\ wg = {} /\ health' = "idle"
      /\ UNCHANGED <<wg, Connections, session>>
  BY DEF StartLoops
<1>2. \A o \in Objects : ~Connecting(o) /\ ~HasLoops(o)
  BY <1>1 DEF IInv, Strengthening, FirstRoundAlone, FirstRoundWaits
<1>3. /\ object' \in [Objects -> ObjectState]
      /\ \A o \in Objects : /\ object'[o].stage = object[o].stage
                            /\ object'[o].open = object[o].open
      /\ \A o \in ActivePeers : object'[o].reader = "runs" /\ object'[o].loader = "runs"
      /\ \A o \in Objects \ ActivePeers : object'[o] = object[o]
  <2>1. \A o \in Objects :
          /\ object[o] \in ObjectState
          /\ [object[o] EXCEPT !.reader = "runs", !.loader = "runs"] \in ObjectState
    BY DEF IInv, TypeOK, ObjectState
  <2>2. ActivePeers \subseteq Objects
    BY DEF ActivePeers
  <2>3. object' \in [Objects -> ObjectState]
    BY <2>1 DEF StartLoops
  <2>4. \A o \in ActivePeers :
          object'[o] = [object[o] EXCEPT !.reader = "runs", !.loader = "runs"]
    BY <2>2 DEF StartLoops
  <2>5. \A o \in Objects \ ActivePeers : object'[o] = object[o]
    BY DEF StartLoops
  <2>6. \A o \in ActivePeers : /\ object'[o].reader = "runs" /\ object'[o].loader = "runs"
                               /\ object'[o].stage = object[o].stage
                               /\ object'[o].open = object[o].open
    <3> SUFFICES ASSUME NEW o \in ActivePeers
                 PROVE  /\ object'[o].reader = "runs" /\ object'[o].loader = "runs"
                        /\ object'[o].stage = object[o].stage
                        /\ object'[o].open = object[o].open
      OBVIOUS
    <3>1. object[o] \in ObjectState
      BY <2>1, <2>2
    <3>2. object'[o] = [object[o] EXCEPT !.reader = "runs", !.loader = "runs"]
      BY <2>4
    <3> QED BY <3>1, <3>2 DEF ObjectState
  <2>7. \A o \in Objects : /\ object'[o].stage = object[o].stage
                           /\ object'[o].open = object[o].open
    BY <2>5, <2>6
  <2> QED BY <2>3, <2>5, <2>6, <2>7
<1>4. \A o \in Objects : /\ HasLoops(o)' => o \in ActivePeers
                         /\ Running(o)' => o \in ActivePeers
                         /\ ~Connecting(o)'
                         /\ Listed(o)' <=> Listed(o)
  BY <1>1, <1>2, <1>3 DEF HasLoops, Running, Connecting, Listed
<1>5. \A o \in ActivePeers :
        o \in Objects /\ Listed(o) /\ object[o].open /\ object[o].stage \in Settled
  BY DEF IInv, TypeOK, ActivePeers
<1>6. TypeOK'
  BY <1>1, <1>3, <1>4 DEF IInv, TypeOK
<1>7. OnePairPerPeer'
  BY <1>3, <1>4, <1>5, ListedIsOne DEF OnePairPerPeer
<1>8. RunningIsListed'
  BY <1>4, <1>5 DEF RunningIsListed, Running
<1>9. LoopsAreSettled'
  BY <1>3, <1>4, <1>5 DEF LoopsAreSettled
<1>10. NoDialWhileRunning'
  BY <1>4 DEF NoDialWhileRunning, Connecting
<1>11. FirstRoundAlone' /\ FirstRoundWaits'
  BY <1>1 DEF FirstRoundAlone, FirstRoundWaits
<1> QED BY <1>6, <1>7, <1>8, <1>9, <1>10, <1>11 DEF IInv, Strengthening

(* One object's loops change; it is settled and stays so.                  *)
LEMMA LoopStops ==
  ASSUME IInv, NEW o \in Objects, HasLoops(o), NEW s \in ObjectState,
         object' = [object EXCEPT ![o] = s],
         s.stage \in Settled, s.open = object[o].open,
         s.reader = "ended" \/ s.loader = "ended",
         UNCHANGED <<start, wg, health, session>>,
         UNCHANGED Connections \/ RemoveConnection(o[1])
  PROVE  IInv'
<1>1. /\ object' \in [Objects -> ObjectState] /\ object'[o] = s
      /\ \A x \in Objects \ {o} : object'[x] = object[x]
  BY DEF IInv, TypeOK
<1>2. /\ \A x \in Objects : HasLoops(x)' => HasLoops(x)
      /\ \A x \in Objects : Running(x)' => Running(x) /\ x # o
      /\ \A x \in Objects : Connecting(x)' <=> Connecting(x)
      /\ \A x \in Objects : object'[x].open = object[x].open
  <2>1. object[o].stage \in Settled
    BY DEF IInv, Strengthening, LoopsAreSettled
  <2>2. \A x \in Objects : Connecting(x)' <=> Connecting(x)
    BY <1>1, <2>1 DEF Connecting, Dialling, Settled
  <2> QED BY <1>1, <2>2 DEF HasLoops, Running
<1>3. /\ Connections' \in [Peers -> 0..MaxDials]
      /\ \A x \in Objects : Listed(x)' => Listed(x)
      /\ \A x \in Objects : x[1] # o[1] => (Listed(x)' <=> Listed(x))
  BY ObjectIs, ConnectionsAssumption DEF IInv, TypeOK, Listed, RemoveConnection
<1>4. TypeOK'
  <2>1. \A x \in wg' : Connecting(x)'
    BY <1>2 DEF IInv, TypeOK
  <2>2. \A x \in Objects : Listed(x)' => object'[x].stage \in Settled
    BY <1>1, <1>3 DEF IInv, TypeOK
  <2> QED BY <1>1, <1>3, <2>1, <2>2 DEF IInv, TypeOK
<1>5. OnePairPerPeer'
  BY <1>2 DEF IInv, OnePairPerPeer
<1>6. RunningIsListed'
  <2> SUFFICES ASSUME NEW x \in Objects, Running(x)'
               PROVE  Listed(x)'
    BY DEF RunningIsListed, Running
  <2>1. Running(x) /\ x # o
    BY <1>2
  <2>2. x[1] # o[1]
    BY <2>1 DEF IInv, OnePairPerPeer, Running, HasLoops
  <2> QED BY <1>3, <2>1, <2>2 DEF IInv, RunningIsListed, Running
<1>7. LoopsAreSettled'
  BY <1>1, <1>2 DEF IInv, Strengthening, LoopsAreSettled
<1>8. NoDialWhileRunning'
  BY <1>1, <1>2 DEF IInv, Strengthening, NoDialWhileRunning, Dialling, Settled
<1>9. FirstRoundAlone' /\ FirstRoundWaits'
  BY <1>2 DEF IInv, Strengthening, FirstRoundAlone, FirstRoundWaits
<1> QED BY <1>4, <1>5, <1>6, <1>7, <1>8, <1>9 DEF IInv, Strengthening

(* A loop that fails takes the entry of its address out, whoever has it:   *)
(* no other connection with that address has both its loops.               *)
LEMMA LoopsInv ==
  ASSUME IInv, NEW o \in Objects, Loops(o)
  PROVE  IInv'
<1>1. HasLoops(o)
  BY DEF Loops, ReaderFails, LoaderFails, ReaderStops, LoaderStops, HasLoops
<1>2. object[o] \in ObjectState /\ object[o].stage \in Settled
  BY <1>1 DEF IInv, TypeOK, Strengthening, LoopsAreSettled
<1>3. CASE ReaderFails(o)
  <2> DEFINE s == [object[o] EXCEPT !.reader = "ended", !.stage = "failed"]
  <2>1. s \in ObjectState /\ s.stage = "failed" /\ s.open = object[o].open /\ s.reader = "ended"
    BY <1>2 DEF ObjectState, Settled
  <2>2. object' = [object EXCEPT ![o] = s]
    BY <1>3 DEF ReaderFails
  <2> QED BY <1>1, <1>3, <2>1, <2>2, LoopStops DEF ReaderFails, Settled
<1>4. CASE LoaderFails(o)
  <2> DEFINE s == [object[o] EXCEPT !.loader = "ended", !.stage = "failed"]
  <2>1. s \in ObjectState /\ s.stage = "failed" /\ s.open = object[o].open /\ s.loader = "ended"
    BY <1>2 DEF ObjectState, Settled
  <2>2. object' = [object EXCEPT ![o] = s]
    BY <1>4 DEF LoaderFails
  <2> QED BY <1>1, <1>4, <2>1, <2>2, LoopStops DEF LoaderFails, Settled
<1>5. CASE ReaderStops(o)
  <2> DEFINE s == [object[o] EXCEPT !.reader = "ended"]
  <2>1. s \in ObjectState /\ s.stage \in Settled /\ s.open = object[o].open /\ s.reader = "ended"
    BY <1>2 DEF ObjectState
  <2>2. object' = [object EXCEPT ![o] = s]
    BY <1>5 DEF ReaderStops
  <2> QED BY <1>1, <1>5, <2>1, <2>2, LoopStops DEF ReaderStops
<1>6. CASE LoaderStops(o)
  <2> DEFINE s == [object[o] EXCEPT !.loader = "ended"]
  <2>1. s \in ObjectState /\ s.stage \in Settled /\ s.open = object[o].open /\ s.loader = "ended"
    BY <1>2 DEF ObjectState
  <2>2. object' = [object EXCEPT ![o] = s]
    BY <1>6 DEF LoaderStops
  <2> QED BY <1>1, <1>6, <2>1, <2>2, LoopStops DEF LoaderStops
<1> QED BY <1>3, <1>4, <1>5, <1>6 DEF Loops

-----------------------------------------------------------------------------
(* The steps that leave the objects alone.                                 *)

LEMMA ObjectsKept ==
  ASSUME IInv, UNCHANGED <<wg, Connections, object>>,
         start' \in {"announce", "wait", "running", "failed"},
         health' \in {"off", "idle", "ask", "stopped"},
         session' \in {"downloads", "complete", "ended"},
         start' # "running" => start # "running" /\ health' = health,
         start' \in {"announce", "wait"} => start' = start
  PROVE  IInv'
<1>1. \A o \in Objects : /\ Connecting(o)' <=> Connecting(o)
                         /\ HasLoops(o)' <=> HasLoops(o)
                         /\ Listed(o)' <=> Listed(o)
                         /\ Running(o)' <=> Running(o)
  BY DEF Connecting, HasLoops, Listed, Running
<1>2. TypeOK'
  BY <1>1 DEF IInv, TypeOK
<1>3. OnePairPerPeer' /\ RunningIsListed'
  BY <1>1 DEF IInv, OnePairPerPeer, RunningIsListed, Running
<1>4. LoopsAreSettled' /\ NoDialWhileRunning'
  BY <1>1 DEF IInv, Strengthening, LoopsAreSettled, NoDialWhileRunning
<1>5. FirstRoundAlone' /\ FirstRoundWaits'
  BY <1>1 DEF IInv, Strengthening, FirstRoundAlone, FirstRoundWaits
<1> QED BY <1>2, <1>3, <1>4, <1>5 DEF IInv, Strengthening

LEMMA OtherInv ==
  ASSUME IInv,
         \/ AnnounceFails \/ NoActivePeers
         \/ HealthTick \/ TrackerFails \/ HealthStops
         \/ SessionMoves \/ Finished \/ UNCHANGED vars
  PROVE  IInv'
<1>1. /\ start \in {"announce", "wait", "running", "failed"}
      /\ health \in {"off", "idle", "ask", "stopped"}
      /\ session \in {"downloads", "complete", "ended"}
      /\ start # "running" => health = "off"
  BY DEF IInv, TypeOK, Strengthening, FirstRoundAlone
<1>2. CASE AnnounceFails \/ NoActivePeers
  BY <1>1, <1>2, ObjectsKept DEF AnnounceFails, NoActivePeers
<1>3. CASE HealthTick \/ TrackerFails \/ HealthStops
  BY <1>1, <1>3, ObjectsKept DEF HealthTick, TrackerFails, HealthStops, HealthStep
<1>4. CASE SessionMoves
  BY <1>1, <1>4, ObjectsKept DEF SessionMoves
<1>5. CASE Finished \/ UNCHANGED vars
  BY <1>1, <1>5, ObjectsKept DEF Finished, vars
<1> QED BY <1>2, <1>3, <1>4, <1>5

-----------------------------------------------------------------------------
LEMMA Inductive == Spec => []IInv
<1>1. Init => IInv
  BY InitInv
<1>2. IInv /\ [Next]_vars => IInv'
  BY RoundInv, ConnectInv, StartLoopsInv, LoopsInv, OtherInv DEF Next
<1> QED BY <1>1, <1>2, PTL DEF Spec

(* Every reachable state is well typed; only a goroutine that still runs   *)
(* is waited for, and every entry is one that ConnectToPeers is done with. *)
THEOREM TypeCorrect == Spec => []TypeOK
<1>1. IInv => TypeOK
  BY DEF IInv
<1> QED BY <1>1, Inductive, PTL

(* However often an address is named, one connection to it at most gets    *)
(* loops, and it is open.                                                  *)
THEOREM OnePairOfLoops == Spec => []OnePairPerPeer
<1>1. IInv => OnePairPerPeer
  BY DEF IInv
<1> QED BY <1>1, Inductive, PTL

(* A connection is the entry of its address while both its loops run: no   *)
(* round replaces it, though none of them keeps the lock while it dials.   *)
THEOREM RunningKeepsEntry == Spec => []RunningIsListed
<1>1. IInv => RunningIsListed
  BY DEF IInv
<1> QED BY <1>1, Inductive, PTL

=============================================================================
