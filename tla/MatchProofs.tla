---------------------------- MODULE MatchProofs -----------------------------
(***************************************************************************)
(* Proofs about GameServer, for any set of connections, any unit ids and   *)
(* any number of messages.  The inductive invariant is IInv: the types,    *)
(* what a handler may rely on between its critical sections (Handling),    *)
(* and the consistency of the two maps of participants (Lobby).            *)
(*                                                                         *)
(* Then proofs about Match: the clients of the program are clients as      *)
(* GameServer assumes them, so that what was proved of the server holds in *)
(* a match of any number of connections, bots, rounds and messages.        *)
(***************************************************************************)
EXTENDS Match, FiniteSetTheorems, SequenceTheorems, TLAPS

USE EndpointAssumption, UnitIdAssumption, MaxSendsAssumption
USE DEF simulation, lobby, flags, net, mainVars, asioVars, clientVars,
        channels, PlayerId, NoId

-----------------------------------------------------------------------------
(* The inductive invariant *)

\* Only the asio thread closes sockets, so while a handler runs the socket of
\* its sender is open and in the list, ...
SenderIsConnected ==
  /\ isOpen \subseteq sockets
  /\ asioPc \notin {"idle", "ended"} => current.from \in isOpen

\* ... and the sender still holds the id that HandleMessage has checked.
ActsAsPlayer ==
  \/ asioPc = "apply"
  \/ asioPc = "dispatch" /\ current.msg.type \in {"RoundReady", "UnitUpgrade"}

SenderIsOwner == ActsAsPlayer => Owns(current.from, current.msg.playerId)

\* The id to be sent to a new player is one.
RespondsWithId == asioPc = "respond" => current.msg.playerId \in PlayerId

Handling == SenderIsConnected /\ SenderIsOwner /\ RespondsWithId

\* An id that is not in use has no endpoint and is not ready.
FreeIdsAreBlank ==
  \A i \in PlayerId \ players : endpointOf[i] = NoEndpoint /\ ~roundReady[i]

Lobby == /\ FreeIdsAreBlank /\ NoGhostPlayer /\ OnePlayerPerEndpoint
         /\ AtMostTwoParticipants

IInv == TypeOK /\ Handling /\ Lobby /\ UniqueUnits

-----------------------------------------------------------------------------
(* Lemmas about the operators *)

\* Sets of player ids are finite and have at most two elements.
LEMMA PlayerSets ==
  ASSUME NEW S, S \subseteq PlayerId
  PROVE  IsFiniteSet(S) /\ Cardinality(S) \in Nat
<1>1. IsFiniteSet(PlayerId)
  <2>1. PlayerId = 0..1
    BY SMT
  <2>2. IsFiniteSet(0..1)
    BY FS_Interval, 0 \in Int, 1 \in Int
  <2> QED BY <2>1, <2>2
<1>2. IsFiniteSet(S)
  BY <1>1, FS_Subset
<1> QED BY <1>2, FS_CardinalityType

\* One more id raises the number of ids by at most one.
LEMMA OneMoreId ==
  ASSUME NEW S, S \subseteq PlayerId, NEW i
  PROVE  Cardinality(S \cup {i}) <= Cardinality(S) + 1
<1>1. IsFiniteSet(S) /\ Cardinality(S) \in Nat
  BY PlayerSets
<1>2. Cardinality(S \cup {i}) = IF i \in S THEN Cardinality(S)
                                          ELSE Cardinality(S) + 1
  BY <1>1, FS_AddElement
<1> QED BY <1>1, <1>2, SMT

\* A new id, the number of participants, is one of PlayerId as long as there
\* is room for a participant.
LEMMA NewIdIsPlayerId ==
  ASSUME players \subseteq PlayerId, bots \subseteq PlayerId,
         ~(NumberOfConnectedPlayers >= 2)
  PROVE  NumberOfConnectedPlayers \in PlayerId
<1>1. Cardinality(players) \in Nat /\ Cardinality(bots) \in Nat
  BY PlayerSets
<1> QED BY <1>1, SMT DEF NumberOfConnectedPlayers

\* addUnit keeps units well typed and their names unique.
LEMMA WithUnitKeepsUnique ==
  ASSUME NEW us, us \subseteq Unit, NEW u \in Unit,
         \A v, w \in us : v.player = w.player /\ v.id = w.id => v = w
  PROVE  /\ WithUnit(us, u) \subseteq Unit
         /\ \A v, w \in WithUnit(us, u) :
               v.player = w.player /\ v.id = w.id => v = w
         /\ WithUnit(us, u) \ us \subseteq {u}
BY DEF WithUnit

\* So does a whole RoundReady message, whose new units are the sender's.
LEMMA AfterRoundReadyKeepsUnique ==
  ASSUME NEW us, us \subseteq Unit, NEW m \in ClientMessage,
         m.playerId \in PlayerId, NEW e \in Endpoint \cup {NoEndpoint},
         \A v, w \in us : v.player = w.player /\ v.id = w.id => v = w
  PROVE  /\ AfterRoundReady(us, m, e) \subseteq Unit
         /\ \A v, w \in AfterRoundReady(us, m, e) :
               v.player = w.player /\ v.id = w.id => v = w
         /\ \A v \in AfterRoundReady(us, m, e) \ us :
               v.player = m.playerId /\ v.by = e
<1> DEFINE free == {n \in m.units : ~ \E v \in us : v.player = m.playerId
                                                   /\ v.id = n}
           new(n) == [player |-> m.playerId, id |-> n, by |-> e]
<1>1. \A n \in free : n \in Nat
  BY DEF ClientMessage
<1>2. \A n \in free : new(n) \in Unit /\ new(n).player = m.playerId
                     /\ new(n).id = n /\ new(n).by = e
  BY <1>1 DEF Unit
<1>3. \A v \in AfterRoundReady(us, m, e) :
         v \in us \/ \E n \in free : v = new(n)
  BY DEF AfterRoundReady
<1>4. AfterRoundReady(us, m, e) \subseteq Unit
  BY <1>2, <1>3
<1>5. ASSUME NEW v \in AfterRoundReady(us, m, e),
             NEW w \in AfterRoundReady(us, m, e),
             v.player = w.player, v.id = w.id
      PROVE  v = w
  <2>1. CASE v \in us /\ w \in us
    BY <1>5, <2>1
  <2>2. CASE v \in us /\ w \notin us
    BY <1>2, <1>3, <1>5, <2>2
  <2>3. CASE v \notin us /\ w \in us
    BY <1>2, <1>3, <1>5, <2>3
  <2>4. CASE v \notin us /\ w \notin us
    BY <1>2, <1>3, <1>5, <2>4
  <2> QED BY <2>1, <2>2, <2>3, <2>4
<1>6. \A v \in AfterRoundReady(us, m, e) \ us : v.player = m.playerId /\ v.by = e
  BY <1>2, <1>3
<1> QED BY <1>4, <1>5, <1>6

\* sendMessageToAll appends a message to some of the queues.
LEMMA SendToAllType ==
  ASSUME NEW m \in ServerMessage, SendToAll(m),
         outbox \in [Endpoint -> Seq(ServerMessage)]
  PROVE  outbox' \in [Endpoint -> Seq(ServerMessage)]
BY DEF SendToAll

-----------------------------------------------------------------------------
(* Types *)

LEMMA InitIInv == Init => IInv
<1> SUFFICES ASSUME Init PROVE IInv
  OBVIOUS
<1>1. TypeOK
  <2>1. Idle \in [from: Endpoint \cup {NoEndpoint}, msg: ClientMessage]
    BY DEF Idle, InitialPing, ClientMessage
  <2>2. << >> \in Seq(ClientMessage) /\ << >> \in Seq(ServerMessage)
    OBVIOUS
  <2>3. /\ inbox \in [Endpoint -> Seq(ClientMessage)]
        /\ outbox \in [Endpoint -> Seq(ServerMessage)]
    BY <2>2 DEF Init
  <2>4. /\ ahead \in [Endpoint -> SUBSET Endpoint]
        /\ link \in [Endpoint -> {"new", "connected", "left"}]
        /\ clientId \in [Endpoint -> PlayerId \cup {NoId}]
    BY DEF Init
  <2>5. /\ endpointOf \in [PlayerId -> Endpoint \cup {NoEndpoint}]
        /\ roundReady \in [PlayerId -> BOOLEAN]
    BY DEF Init
  <2>6. /\ units \subseteq Unit /\ fighters \subseteq Unit
        /\ upgrades \subseteq Upgrade
    BY DEF Init
  <2>7. /\ sockets \subseteq Endpoint /\ isOpen \subseteq Endpoint
        /\ players \subseteq PlayerId /\ bots \subseteq PlayerId
        /\ matchHasStarted \in BOOLEAN /\ round \in Nat
        /\ allPlayersReady \in BOOLEAN /\ simulationStarted \in BOOLEAN
        /\ map \in Nat /\ rolls \in Nat
    BY DEF Init
  <2>8. /\ mainPc \in {"update", "reap", "poll", "ai", "start", "simulate",
                       "unready", "ended"}
        /\ botCopy \subseteq PlayerId /\ cursor \in 0..2 /\ sent \in Nat
        /\ asioPc \in {"idle", "dispatch", "respond", "count", "announce",
                       "apply", "store", "ended"}
    BY DEF Init
  <2>9. current \in [from: Endpoint \cup {NoEndpoint}, msg: ClientMessage]
    BY <2>1 DEF Init
  <2> QED BY <2>3, <2>4, <2>5, <2>6, <2>7, <2>8, <2>9 DEF TypeOK
<1>2. Handling
  BY DEF Init, Handling, SenderIsConnected, SenderIsOwner, RespondsWithId,
         ActsAsPlayer
<1>3. AtMostTwoParticipants
  BY FS_EmptySet DEF Init, AtMostTwoParticipants
<1>4. Lobby
  BY <1>3 DEF Init, Lobby, FreeIdsAreBlank, NoGhostPlayer,
              OnePlayerPerEndpoint
<1>5. UniqueUnits
  BY DEF Init, UniqueUnits
<1> QED BY <1>1, <1>2, <1>4, <1>5 DEF IInv

LEMMA MainTypes ==
  ASSUME TypeOK, UniqueUnits, MainNext
  PROVE  TypeOK'
<1> USE DEF TypeOK
<1>1. CASE UpdateConnection
  BY <1>1 DEF UpdateConnection
<1>2. CASE RemoveClosedPlayers
  <2> DEFINE stay == {i \in players : IsSocketOpenFor(endpointOf[i])}
  <2>1. /\ players' = stay
        /\ endpointOf' = [i \in PlayerId |-> IF i \in stay THEN endpointOf[i]
                                                           ELSE NoEndpoint]
        /\ roundReady' = [i \in PlayerId |-> i \in stay /\ roundReady[i]]
    BY <1>2 DEF RemoveClosedPlayers
  <2>2. /\ players' \subseteq PlayerId
        /\ endpointOf' \in [PlayerId -> Endpoint \cup {NoEndpoint}]
    BY <2>1
  <2>3. roundReady' \in [PlayerId -> BOOLEAN]
    BY <2>1
  <2>4. /\ matchHasStarted' \in BOOLEAN /\ round' \in Nat
        /\ bots' \subseteq PlayerId
        /\ units' \subseteq Unit /\ fighters' \subseteq Unit
        /\ upgrades' \subseteq Upgrade /\ map' \in Nat
    <3>1. CASE stay = {} /\ matchHasStarted
      <4>1. /\ matchHasStarted' = FALSE /\ round' = 1 /\ bots' = {}
            /\ units' = {} /\ upgrades' = {} /\ fighters' = {} /\ map' = 0
        BY <1>2, <3>1 DEF RemoveClosedPlayers, ResetServer
      <4>2. /\ units' \subseteq Unit /\ fighters' \subseteq Unit
            /\ upgrades' \subseteq Upgrade /\ bots' \subseteq PlayerId
        BY <4>1
      <4> QED BY <4>1, <4>2
    <3>2. CASE ~(stay = {} /\ matchHasStarted)
      <4>1. UNCHANGED <<matchHasStarted, round, bots, units, upgrades,
                        fighters, map>>
        BY <1>2, <3>2 DEF RemoveClosedPlayers, ResetServer
      <4> QED BY <4>1
    <3> QED BY <3>1, <3>2
  <2> QED BY <1>2, <2>2, <2>3, <2>4 DEF RemoveClosedPlayers
<1>3. CASE RemoveClosedPlayersThrows
  BY <1>3 DEF RemoveClosedPlayersThrows, ServerEnds
<1>4. CASE PollAllPlayersReady
  BY <1>4 DEF PollAllPlayersReady
<1>5. CASE PerformAI
  <2>1. BotUnit \in Unit
    BY DEF BotUnit, Unit
  <2>2. WithUnit(units, BotUnit) \subseteq Unit
    BY <2>1 DEF WithUnit
  <2> QED BY <1>5, <2>2 DEF PerformAI
<1>6. CASE StartRoundSimulation
  BY <1>6 DEF StartRoundSimulation
<1>7. CASE FinishRoundSimulation
  <2>1. SimulationResult(round, fighters) \in ServerMessage
    BY DEF SimulationResult, ServerMessage
  <2>2. outbox' \in [Endpoint -> Seq(ServerMessage)]
    BY <1>7, <2>1, SendToAllType DEF FinishRoundSimulation
  <2> QED BY <1>7, <2>2 DEF FinishRoundSimulation
<1>8. ASSUME NEW i \in PlayerId, ClearRoundReady(i) PROVE TypeOK'
  BY <1>8 DEF ClearRoundReady
<1>9. CASE EndRound
  BY <1>9 DEF EndRound
<1> QED BY <1>1, <1>2, <1>3, <1>4, <1>5, <1>6, <1>7, <1>8, <1>9 DEF MainNext

LEMMA AsioTypes ==
  ASSUME TypeOK, Handling, UniqueUnits, AsioNext
  PROVE  TypeOK'
<1> USE DEF TypeOK
<1>1. ASSUME NEW e \in Endpoint, HandleAccept(e) PROVE TypeOK'
  BY <1>1 DEF HandleAccept
<1>2. ASSUME NEW e \in Endpoint, CloseSocket(e) PROVE TypeOK'
  BY <1>2 DEF CloseSocket
<1>3. ASSUME NEW e \in Endpoint, HandleMessage(e) PROVE TypeOK'
  <2>1. /\ Head(inbox[e]) \in ClientMessage
        /\ Tail(inbox[e]) \in Seq(ClientMessage)
    BY <1>3 DEF HandleMessage
  <2>2. inbox' \in [Endpoint -> Seq(ClientMessage)]
    BY <1>3, <2>1 DEF HandleMessage
  <2>3. /\ asioPc' \in {"idle", "dispatch"}
        /\ current' \in [from: Endpoint \cup {NoEndpoint}, msg: ClientMessage]
    BY <1>3, <2>1 DEF HandleMessage
  <2> QED BY <1>3, <2>2, <2>3 DEF HandleMessage
<1>4. Idle \in [from: Endpoint \cup {NoEndpoint}, msg: ClientMessage]
  BY DEF Idle, InitialPing, ClientMessage
<1>5. CASE HandleInitialPing
  <2>1. CASE RejectsPing(current.from)
    BY <1>4, <1>5, <2>1 DEF HandleInitialPing, AsioIdle
  <2>2. CASE ~RejectsPing(current.from)
    <3> DEFINE newPlayerId == NumberOfConnectedPlayers
    <3>1. newPlayerId \in PlayerId
      BY <2>2, NewIdIsPlayerId DEF RejectsPing
    <3> HIDE DEF newPlayerId
    <3>2. /\ players' = players \cup {newPlayerId}
          /\ endpointOf' = [endpointOf EXCEPT ![newPlayerId] = current.from]
          /\ current' = [current EXCEPT !.msg.playerId = newPlayerId]
          /\ asioPc' = "respond"
      BY <1>5, <2>2 DEF HandleInitialPing, newPlayerId
    <3>3. current' \in [from: Endpoint \cup {NoEndpoint}, msg: ClientMessage]
      BY <3>1, <3>2 DEF ClientMessage
    <3>4. /\ players' \subseteq PlayerId
          /\ endpointOf' \in [PlayerId -> Endpoint \cup {NoEndpoint}]
      BY <3>1, <3>2
    <3> QED BY <1>5, <3>2, <3>3, <3>4 DEF HandleInitialPing
  <2> QED BY <2>1, <2>2
<1>6. CASE SendPlayerId
  <2>1. PlayerIdResponse(current.msg.playerId) \in ServerMessage
    BY <1>6 DEF PlayerIdResponse, ServerMessage, SendPlayerId, Handling,
                RespondsWithId
  <2>2. outbox' \in [Endpoint -> Seq(ServerMessage)]
    <3>1. \A e \in Endpoint :
             Append(outbox[e], PlayerIdResponse(current.msg.playerId))
               \in Seq(ServerMessage)
      BY <2>1
    <3> QED BY <1>6, <3>1 DEF SendPlayerId
  <2> QED BY <1>6, <2>2 DEF SendPlayerId
<1>7. CASE SendPlayerIdThrows
  BY <1>7 DEF SendPlayerIdThrows, ServerEnds
<1>8. CASE HandleAddBot
  <2>1. CASE RejectsBot
    BY <1>4, <1>8, <2>1 DEF HandleAddBot, AsioIdle
  <2>2. CASE ~RejectsBot
    BY <1>8, <2>2, NewIdIsPlayerId DEF HandleAddBot, RejectsBot
  <2> QED BY <2>1, <2>2
<1>9. CASE CheckForAllPlayersConnected
  BY <1>4, <1>9 DEF CheckForAllPlayersConnected, AsioIdle
<1>10. CASE AnnounceMatch
  <2>1. AllPlayersConnected(map) \in ServerMessage
    BY DEF AllPlayersConnected, ServerMessage
  <2>2. outbox' \in [Endpoint -> Seq(ServerMessage)]
    BY <1>10, <2>1, SendToAllType DEF AnnounceMatch
  <2> QED BY <1>4, <1>10, <2>2 DEF AnnounceMatch, AsioIdle
<1>11. CASE HandleRoundReady
  BY <1>4, <1>11 DEF HandleRoundReady, AsioIdle
<1>12. CASE ApplyRoundReady
  <2>1. current.msg.playerId \in PlayerId
    BY <1>12 DEF ApplyRoundReady, Handling, SenderIsOwner, ActsAsPlayer, Owns
  <2>2. units' \subseteq Unit
    BY <1>12, <2>1, AfterRoundReadyKeepsUnique
       DEF ApplyRoundReady, UniqueUnits
  <2>3. /\ asioPc' \in {"store", "idle"}
        /\ current' \in [from: Endpoint \cup {NoEndpoint}, msg: ClientMessage]
    BY <1>4, <1>12 DEF ApplyRoundReady, AsioIdle
  <2>4. /\ players' \subseteq PlayerId
        /\ roundReady' \in [PlayerId -> BOOLEAN]
    BY <1>12, <2>1 DEF ApplyRoundReady
  <2> QED BY <1>12, <2>2, <2>3, <2>4 DEF ApplyRoundReady
<1>13. CASE StoreAllPlayersReady
  BY <1>4, <1>13 DEF StoreAllPlayersReady, AsioIdle
<1>14. CASE HandleUnitUpgrade
  <2>1. /\ current.from \in Endpoint
        /\ current.msg.playerId \in PlayerId
    BY <1>14 DEF HandleUnitUpgrade, Handling, SenderIsConnected,
                 SenderIsOwner, ActsAsPlayer, Owns
  <2>2. upgrades' \subseteq Upgrade
    BY <1>14, <2>1 DEF HandleUnitUpgrade, Upgrade
  <2> QED BY <1>4, <1>14, <2>2 DEF HandleUnitUpgrade, AsioIdle
<1> QED BY <1>1, <1>2, <1>3, <1>5, <1>6, <1>7, <1>8, <1>9, <1>10, <1>11, <1>12,
           <1>13, <1>14 DEF AsioNext

LEMMA ClientTypes ==
  ASSUME TypeOK, ClientNext
  PROVE  TypeOK'
<1> USE DEF TypeOK
<1>1. ASSUME NEW e \in Endpoint, ClientSend(e) PROVE TypeOK'
  <2>1. \A i \in PlayerId \cup {NoId}, placed, sold \in SUBSET UnitId :
           /\ InitialPing \in ClientMessage /\ AddBot \in ClientMessage
           /\ UnitUpgrade(i) \in ClientMessage
           /\ RoundReady(i, placed, sold) \in ClientMessage
    BY DEF ClientMessage, InitialPing, AddBot, UnitUpgrade, RoundReady
  <2>2. PICK m \in ClientMessage : Send(e, m)
    BY <1>1, <2>1 DEF ClientSend
  <2>3. /\ inbox' \in [Endpoint -> Seq(ClientMessage)]
        /\ sent' \in Nat
    BY <2>2 DEF Send
  <2> QED BY <1>1, <2>3 DEF ClientSend
<1>2. ASSUME NEW e \in Endpoint, ClientReceive(e) PROVE TypeOK'
  <2>1. /\ Head(outbox[e]) \in ServerMessage
        /\ Tail(outbox[e]) \in Seq(ServerMessage)
    BY <1>2 DEF ClientReceive
  <2>2. outbox' \in [Endpoint -> Seq(ServerMessage)]
    BY <1>2, <2>1 DEF ClientReceive
  <2>3. clientId' \in [Endpoint -> PlayerId \cup {NoId}]
    BY <1>2, <2>1 DEF ClientReceive, TakeId, ServerMessage
  <2> QED BY <1>2, <2>2, <2>3 DEF ClientReceive
<1>3. ASSUME NEW e \in Endpoint, ClientLeave(e) PROVE TypeOK'
  BY <1>3 DEF ClientLeave
<1>4. ASSUME NEW e \in Endpoint, ClientReturn(e) PROVE TypeOK'
  BY <1>4 DEF ClientReturn
<1> QED BY <1>1, <1>2, <1>3, <1>4 DEF ClientNext

-----------------------------------------------------------------------------
(* What a handler relies on *)

LEMMA MainHandling ==
  ASSUME TypeOK, Handling, MainNext
  PROVE  Handling'
<1> USE DEF TypeOK, Handling, SenderIsConnected, SenderIsOwner, ActsAsPlayer,
            RespondsWithId, Owns
<1>1. CASE UpdateConnection
  BY <1>1 DEF UpdateConnection
<1>2. CASE RemoveClosedPlayers
  <2> DEFINE stay == {i \in players : IsSocketOpenFor(endpointOf[i])}
  <2>1. /\ players' = stay
        /\ endpointOf' = [i \in PlayerId |-> IF i \in stay THEN endpointOf[i]
                                                           ELSE NoEndpoint]
        /\ UNCHANGED <<sockets, isOpen, asioPc, current>>
    BY <1>2 DEF RemoveClosedPlayers
  \* the owner of the id stays, since its socket is open
  <2>2. ASSUME ActsAsPlayer PROVE Owns(current.from, current.msg.playerId)'
    BY <2>1, <2>2 DEF IsSocketOpenFor
  <2> QED BY <2>1, <2>2
<1>3. CASE RemoveClosedPlayersThrows
  BY <1>3 DEF RemoveClosedPlayersThrows, ServerEnds
<1>4. CASE PollAllPlayersReady \/ PerformAI \/ StartRoundSimulation
           \/ FinishRoundSimulation \/ EndRound
           \/ \E i \in PlayerId : ClearRoundReady(i)
  <2>1. UNCHANGED <<sockets, isOpen, asioPc, current, players, endpointOf>>
    BY <1>4 DEF PollAllPlayersReady, PerformAI, StartRoundSimulation,
                FinishRoundSimulation, EndRound, ClearRoundReady
  <2> QED BY <2>1
<1> QED BY <1>1, <1>2, <1>3, <1>4 DEF MainNext

LEMMA AsioHandling ==
  ASSUME TypeOK, Handling, AsioNext
  PROVE  Handling'
<1> USE DEF TypeOK, Handling, SenderIsConnected, SenderIsOwner, ActsAsPlayer,
            RespondsWithId, Owns
<1>1. ASSUME NEW e \in Endpoint, HandleAccept(e) PROVE Handling'
  BY <1>1 DEF HandleAccept
<1>2. ASSUME NEW e \in Endpoint, CloseSocket(e) PROVE Handling'
  BY <1>2 DEF CloseSocket
<1>3. ASSUME NEW e \in Endpoint, HandleMessage(e) PROVE Handling'
  <2>1. CASE Accepts(e, Head(inbox[e]))
    BY <1>3, <2>1 DEF HandleMessage, Accepts
  <2>2. CASE ~Accepts(e, Head(inbox[e]))
    BY <1>3, <2>2 DEF HandleMessage
  <2> QED BY <2>1, <2>2
<1>4. CASE HandleInitialPing
  <2>1. CASE RejectsPing(current.from)
    BY <1>4, <2>1 DEF HandleInitialPing, AsioIdle
  <2>2. CASE ~RejectsPing(current.from)
    <3> DEFINE newPlayerId == NumberOfConnectedPlayers
    <3>1. newPlayerId \in PlayerId
      BY <2>2, NewIdIsPlayerId DEF RejectsPing
    <3> HIDE DEF newPlayerId
    <3>2. /\ current' = [current EXCEPT !.msg.playerId = newPlayerId]
          /\ asioPc' = "respond"
          /\ UNCHANGED <<sockets, isOpen>>
      BY <1>4, <2>2 DEF HandleInitialPing, newPlayerId
    <3>3. /\ current'.from = current.from
          /\ current'.msg.playerId = newPlayerId
      BY <3>2 DEF ClientMessage
    <3>4. asioPc \notin {"idle", "ended"}
      BY <1>4 DEF HandleInitialPing
    <3> QED BY <3>1, <3>2, <3>3, <3>4
  <2> QED BY <2>1, <2>2
<1>5. CASE SendPlayerId
  BY <1>5 DEF SendPlayerId
<1>6. CASE SendPlayerIdThrows
  BY <1>6 DEF SendPlayerIdThrows, ServerEnds
<1>7. CASE HandleAddBot
  BY <1>7 DEF HandleAddBot, AsioIdle
<1>8. CASE CheckForAllPlayersConnected
  BY <1>8 DEF CheckForAllPlayersConnected, AsioIdle
<1>9. CASE AnnounceMatch
  BY <1>9 DEF AnnounceMatch, AsioIdle
<1>10. CASE HandleRoundReady
  BY <1>10 DEF HandleRoundReady, AsioIdle
<1>11. CASE ApplyRoundReady
  BY <1>11 DEF ApplyRoundReady, AsioIdle
<1>12. CASE StoreAllPlayersReady
  BY <1>12 DEF StoreAllPlayersReady, AsioIdle
<1>13. CASE HandleUnitUpgrade
  BY <1>13 DEF HandleUnitUpgrade, AsioIdle
<1> QED BY <1>1, <1>2, <1>3, <1>4, <1>5, <1>6, <1>7, <1>8, <1>9, <1>10, <1>11,
           <1>12, <1>13 DEF AsioNext

LEMMA ClientHandling ==
  ASSUME Handling, ClientNext
  PROVE  Handling'
<1>1. UNCHANGED <<sockets, isOpen, asioPc, current, players, endpointOf>>
  BY DEF ClientNext, ClientSend, ClientReceive, ClientLeave, ClientReturn
<1> QED BY <1>1 DEF Handling, SenderIsConnected, SenderIsOwner, ActsAsPlayer,
                    RespondsWithId, Owns

-----------------------------------------------------------------------------
(* The participants *)

\* Steps that leave the participants alone.
LEMMA LobbyUntouched ==
  ASSUME Lobby, UNCHANGED <<players, endpointOf, roundReady, bots>>
  PROVE  Lobby'
BY DEF Lobby, FreeIdsAreBlank, NoGhostPlayer, OnePlayerPerEndpoint,
       AtMostTwoParticipants

LEMMA ReapLobby ==
  ASSUME TypeOK, Lobby, RemoveClosedPlayers
  PROVE  Lobby'
<1> USE DEF Lobby, TypeOK
<1> DEFINE stay == {i \in players : IsSocketOpenFor(endpointOf[i])}
<1>1. /\ players' = stay
      /\ endpointOf' = [i \in PlayerId |-> IF i \in stay THEN endpointOf[i]
                                                         ELSE NoEndpoint]
      /\ roundReady' = [i \in PlayerId |-> i \in stay /\ roundReady[i]]
  BY DEF RemoveClosedPlayers
<1>2. \A i \in PlayerId : /\ i \in stay => endpointOf'[i] = endpointOf[i]
                          /\ i \notin stay => endpointOf'[i] = NoEndpoint
                          /\ i \notin stay => ~roundReady'[i]
  BY <1>1
<1>3. FreeIdsAreBlank'
  BY <1>1, <1>2 DEF FreeIdsAreBlank
<1>4. NoGhostPlayer' /\ OnePlayerPerEndpoint'
  BY <1>1, <1>2 DEF NoGhostPlayer, OnePlayerPerEndpoint
<1>5. AtMostTwoParticipants'
  <2>1. bots' \subseteq bots
    BY DEF RemoveClosedPlayers, ResetServer
  <2>2. IsFiniteSet(players) /\ IsFiniteSet(bots)
    BY PlayerSets
  <2>3. Cardinality(players') <= Cardinality(players)
    BY <1>1, <2>2, FS_Subset
  <2>4. Cardinality(bots') <= Cardinality(bots)
    BY <2>1, <2>2, FS_Subset
  <2>5. /\ Cardinality(players) \in Nat /\ Cardinality(bots) \in Nat
        /\ Cardinality(players') \in Nat /\ Cardinality(bots') \in Nat
    BY <1>1, <2>1, PlayerSets
  <2> QED BY <2>3, <2>4, <2>5, SMT DEF AtMostTwoParticipants
<1> QED BY <1>3, <1>4, <1>5

\* A new player takes a slot, be it free or another player's: its endpoint is
\* new, and the participants were fewer than two.
LEMMA PingLobby ==
  ASSUME TypeOK, Handling, Lobby, HandleInitialPing
  PROVE  Lobby'
<1> USE DEF Lobby, TypeOK
<1>1. CASE RejectsPing(current.from)
  BY <1>1, LobbyUntouched DEF HandleInitialPing
<1>2. CASE ~RejectsPing(current.from)
  <2> DEFINE newPlayerId == NumberOfConnectedPlayers
  <2>1. newPlayerId \in PlayerId
    BY <1>2, NewIdIsPlayerId DEF RejectsPing
  <2>2. /\ Cardinality(players) \in Nat /\ Cardinality(bots) \in Nat
        /\ Cardinality(players \cup {newPlayerId}) \in Nat
        /\ Cardinality(players \cup {newPlayerId}) <= Cardinality(players) + 1
    BY <2>1, PlayerSets, OneMoreId
  <2>3. Cardinality(players) + Cardinality(bots) < 2
    BY <1>2, <2>2, SMT DEF RejectsPing, NumberOfConnectedPlayers
  <2> HIDE DEF newPlayerId
  <2>4. /\ players' = players \cup {newPlayerId}
        /\ endpointOf' = [endpointOf EXCEPT ![newPlayerId] = current.from]
        /\ UNCHANGED <<roundReady, bots>>
    BY <1>2 DEF HandleInitialPing, newPlayerId
  <2>5. current.from \in Endpoint
    BY DEF HandleInitialPing, Handling, SenderIsConnected
  <2>6. FreeIdsAreBlank' /\ NoGhostPlayer'
    BY <2>1, <2>4, <2>5 DEF FreeIdsAreBlank, NoGhostPlayer
  <2>7. OnePlayerPerEndpoint'
    BY <1>2, <2>1, <2>4 DEF OnePlayerPerEndpoint, RejectsPing
  <2>8. AtMostTwoParticipants'
    BY <2>2, <2>3, <2>4, SMT DEF AtMostTwoParticipants
  <2> QED BY <2>6, <2>7, <2>8
<1> QED BY <1>1, <1>2

LEMMA BotLobby ==
  ASSUME TypeOK, Lobby, HandleAddBot
  PROVE  Lobby'
<1> USE DEF Lobby, TypeOK
<1>1. CASE RejectsBot
  BY <1>1, LobbyUntouched DEF HandleAddBot
<1>2. CASE ~RejectsBot
  <2> DEFINE newBotId == NumberOfConnectedPlayers
  <2>1. newBotId \in PlayerId
    BY <1>2, NewIdIsPlayerId DEF RejectsBot
  <2>2. /\ Cardinality(players) \in Nat /\ Cardinality(bots) \in Nat
        /\ Cardinality(bots \cup {newBotId}) \in Nat
        /\ Cardinality(bots \cup {newBotId}) <= Cardinality(bots) + 1
    BY <2>1, PlayerSets, OneMoreId
  <2>3. Cardinality(players) + Cardinality(bots) < 2
    BY <1>2, <2>2, SMT DEF RejectsBot, NumberOfConnectedPlayers
  <2> HIDE DEF newBotId
  <2>4. /\ bots' = bots \cup {newBotId}
        /\ UNCHANGED <<players, endpointOf, roundReady>>
    BY <1>2 DEF HandleAddBot, newBotId
  <2>5. AtMostTwoParticipants'
    BY <2>2, <2>3, <2>4, SMT DEF AtMostTwoParticipants
  <2> QED BY <2>4, <2>5
         DEF FreeIdsAreBlank, NoGhostPlayer, OnePlayerPerEndpoint
<1> QED BY <1>1, <1>2

\* The entry that ApplyRoundReady writes to is there: its owner is connected.
LEMMA ReadyLobby ==
  ASSUME TypeOK, Handling, Lobby, ApplyRoundReady
  PROVE  Lobby'
<1> DEFINE i == current.msg.playerId
<1>1. i \in players
  BY DEF ApplyRoundReady, Handling, SenderIsOwner, ActsAsPlayer, Owns
<1>2. /\ players' = players
      /\ roundReady' = [roundReady EXCEPT ![i] = TRUE]
      /\ UNCHANGED <<endpointOf, bots>>
  BY <1>1 DEF ApplyRoundReady
<1> QED BY <1>1, <1>2
       DEF TypeOK, Lobby, FreeIdsAreBlank, NoGhostPlayer, OnePlayerPerEndpoint,
           AtMostTwoParticipants

LEMMA NextLobby ==
  ASSUME TypeOK, Handling, Lobby, Next
  PROVE  Lobby'
<1>1. CASE RemoveClosedPlayers \/ HandleInitialPing \/ HandleAddBot
           \/ ApplyRoundReady
  BY <1>1, ReapLobby, PingLobby, BotLobby, ReadyLobby
<1>2. ASSUME NEW i \in PlayerId, ClearRoundReady(i) PROVE Lobby'
  BY <1>2 DEF ClearRoundReady, TypeOK, Lobby, FreeIdsAreBlank, NoGhostPlayer,
              OnePlayerPerEndpoint, AtMostTwoParticipants
<1>3. CASE UpdateConnection \/ RemoveClosedPlayersThrows
           \/ PollAllPlayersReady \/ PerformAI \/ StartRoundSimulation
           \/ FinishRoundSimulation \/ EndRound
  BY <1>3, LobbyUntouched
     DEF UpdateConnection, RemoveClosedPlayersThrows, ServerEnds,
         PollAllPlayersReady, PerformAI, StartRoundSimulation,
         FinishRoundSimulation, EndRound
<1>4. CASE \/ \E e \in Endpoint :
                HandleAccept(e) \/ CloseSocket(e) \/ HandleMessage(e)
           \/ SendPlayerId \/ SendPlayerIdThrows
           \/ CheckForAllPlayersConnected \/ AnnounceMatch
           \/ HandleRoundReady \/ StoreAllPlayersReady \/ HandleUnitUpgrade
  BY <1>4, LobbyUntouched
     DEF HandleAccept, CloseSocket, HandleMessage, SendPlayerId,
         SendPlayerIdThrows, ServerEnds, CheckForAllPlayersConnected,
         AnnounceMatch, HandleRoundReady, StoreAllPlayersReady,
         HandleUnitUpgrade
<1>5. CASE ClientNext
  BY <1>5, LobbyUntouched
     DEF ClientNext, ClientSend, ClientReceive, ClientLeave, ClientReturn
<1> QED BY <1>1, <1>2, <1>3, <1>4, <1>5 DEF Next, MainNext, AsioNext

-----------------------------------------------------------------------------
(* The units *)

\* What ApplyRoundReady does to the units is the owner's doing.
LEMMA ReadyUnits ==
  ASSUME TypeOK, Handling, UniqueUnits, ApplyRoundReady
  PROVE  /\ UniqueUnits'
         /\ Owns(current.from, current.msg.playerId)
         /\ \A u \in units' \ units :
               u.player = current.msg.playerId /\ u.by = current.from
<1>1. Owns(current.from, current.msg.playerId)
  BY DEF ApplyRoundReady, Handling, SenderIsOwner, ActsAsPlayer
<1>2. /\ current.msg \in ClientMessage
      /\ current.from \in Endpoint \cup {NoEndpoint}
      /\ current.msg.playerId \in PlayerId
      /\ units \subseteq Unit
  BY <1>1 DEF TypeOK, Owns
<1>3. units' = AfterRoundReady(units, current.msg, current.from)
  BY DEF ApplyRoundReady
<1>4. \A v, w \in units : v.player = w.player /\ v.id = w.id => v = w
  BY DEF UniqueUnits
<1>5. /\ \A v, w \in units' : v.player = w.player /\ v.id = w.id => v = w
      /\ \A u \in units' \ units :
            u.player = current.msg.playerId /\ u.by = current.from
  BY <1>2, <1>3, <1>4, AfterRoundReadyKeepsUnique
<1> QED BY <1>1, <1>5 DEF UniqueUnits

\* The bot's unit is new or dropped.
LEMMA BotUnits ==
  ASSUME TypeOK, UniqueUnits, PerformAI
  PROVE  /\ UniqueUnits'
         /\ \A u \in units' \ units : u.by = NoEndpoint
<1>1. BotUnit \in Unit /\ BotUnit.by = NoEndpoint
  BY DEF BotUnit, Unit, TypeOK
<1>2. CASE botCopy = {}
  BY <1>2 DEF PerformAI, UniqueUnits
<1>3. CASE botCopy # {}
  <2>1. units' = WithUnit(units, BotUnit)
    BY <1>3 DEF PerformAI
  <2>2. /\ \A v, w \in units' : v.player = w.player /\ v.id = w.id => v = w
        /\ units' \ units \subseteq {BotUnit}
    BY <1>1, <2>1, WithUnitKeepsUnique DEF TypeOK, UniqueUnits
  <2> QED BY <1>1, <2>2 DEF UniqueUnits
<1> QED BY <1>2, <1>3

\* The other steps add no unit.
LEMMA OtherUnits ==
  ASSUME Next, ~ApplyRoundReady, ~PerformAI
  PROVE  units' \in {units, {}}
<1>1. CASE MainNext
  BY <1>1 DEF MainNext, UpdateConnection, RemoveClosedPlayers, ResetServer,
              RemoveClosedPlayersThrows, ServerEnds, PollAllPlayersReady,
              StartRoundSimulation, FinishRoundSimulation, ClearRoundReady,
              EndRound
<1>2. CASE AsioNext
  BY <1>2 DEF AsioNext, HandleAccept, CloseSocket, HandleMessage,
              HandleInitialPing, SendPlayerId, SendPlayerIdThrows, ServerEnds,
              HandleAddBot, CheckForAllPlayersConnected, AnnounceMatch,
              HandleRoundReady, StoreAllPlayersReady, HandleUnitUpgrade
<1>3. CASE ClientNext
  BY <1>3 DEF ClientNext, ClientSend, ClientReceive, ClientLeave, ClientReturn
<1> QED BY <1>1, <1>2, <1>3 DEF Next

LEMMA NextUnits ==
  ASSUME TypeOK, Handling, UniqueUnits, Next
  PROVE  UniqueUnits'
<1>1. CASE ApplyRoundReady
  BY <1>1, ReadyUnits
<1>2. CASE PerformAI
  BY <1>2, BotUnits
<1>3. CASE ~ApplyRoundReady /\ ~PerformAI
  BY <1>3, OtherUnits DEF UniqueUnits
<1> QED BY <1>1, <1>2, <1>3

\* Only ApplyRoundReady makes a player ready.
LEMMA OthersMakeNobodyReady ==
  ASSUME TypeOK, Next, ~ApplyRoundReady,
         NEW i \in PlayerId, ~roundReady[i]
  PROVE  ~roundReady'[i]
<1>1. CASE MainNext
  <2>1. CASE RemoveClosedPlayers
    BY <2>1 DEF RemoveClosedPlayers
  <2>2. ASSUME NEW j \in PlayerId, ClearRoundReady(j) PROVE ~roundReady'[i]
    BY <2>2 DEF ClearRoundReady, TypeOK
  <2>3. CASE UNCHANGED roundReady
    BY <2>3
  <2> QED BY <1>1, <2>1, <2>2, <2>3
         DEF MainNext, UpdateConnection, RemoveClosedPlayersThrows, ServerEnds,
             PollAllPlayersReady, PerformAI, StartRoundSimulation,
             FinishRoundSimulation, EndRound
<1>2. CASE AsioNext
  BY <1>2 DEF AsioNext, HandleAccept, CloseSocket, HandleMessage,
              HandleInitialPing, SendPlayerId, SendPlayerIdThrows, ServerEnds,
              HandleAddBot, CheckForAllPlayersConnected, AnnounceMatch,
              HandleRoundReady, StoreAllPlayersReady, HandleUnitUpgrade
<1>3. CASE ClientNext
  BY <1>3 DEF ClientNext, ClientSend, ClientReceive, ClientLeave, ClientReturn
<1> QED BY <1>1, <1>2, <1>3 DEF Next

\* Only HandleUnitUpgrade adds an upgrade, its owner's.
LEMMA NewUpgrades ==
  ASSUME TypeOK, Handling, Next, NEW g \in upgrades' \ upgrades
  PROVE  Owns(g.by, g.player)
<1>1. CASE HandleUnitUpgrade
  <2>1. Owns(current.from, current.msg.playerId)
    BY <1>1 DEF HandleUnitUpgrade, Handling, SenderIsOwner, ActsAsPlayer
  <2>2. g = [player |-> current.msg.playerId, by |-> current.from]
    BY <1>1 DEF HandleUnitUpgrade
  <2> QED BY <2>1, <2>2
<1>2. CASE ~HandleUnitUpgrade
  <2>1. upgrades' \in {upgrades, {}}
    <3>1. CASE MainNext
      BY <3>1 DEF MainNext, UpdateConnection, RemoveClosedPlayers, ResetServer,
                  RemoveClosedPlayersThrows, ServerEnds, PollAllPlayersReady,
                  PerformAI, StartRoundSimulation, FinishRoundSimulation,
                  ClearRoundReady, EndRound
    <3>2. CASE AsioNext
      BY <1>2, <3>2
         DEF AsioNext, HandleAccept, CloseSocket, HandleMessage,
             HandleInitialPing, SendPlayerId, SendPlayerIdThrows, ServerEnds,
             HandleAddBot, CheckForAllPlayersConnected, AnnounceMatch,
             HandleRoundReady, ApplyRoundReady, StoreAllPlayersReady
    <3>3. CASE ClientNext
      BY <3>3 DEF ClientNext, ClientSend, ClientReceive, ClientLeave,
                  ClientReturn
    <3> QED BY <3>1, <3>2, <3>3 DEF Next
  <2> QED BY <2>1
<1> QED BY <1>1, <1>2

\* Every step is the owner's in the sense of OwnerActs.
LEMMA NextOwnerActs ==
  ASSUME TypeOK, Handling, UniqueUnits, Next
  PROVE  OwnerActs
<1>1. ASSUME NEW i \in PlayerId, ~roundReady[i], roundReady'[i]
      PROVE  Owns(current.from, i)
  <2>1. ApplyRoundReady
    BY <1>1, OthersMakeNobodyReady
  <2>2. i = current.msg.playerId
    BY <1>1, <2>1 DEF ApplyRoundReady, TypeOK
  <2> QED BY <2>1, <2>2, ReadyUnits
<1>2. ASSUME NEW u \in units' \ units, u.by # NoEndpoint
      PROVE  Owns(u.by, u.player)
  <2>1. ApplyRoundReady
    BY <1>2, BotUnits, OtherUnits
  <2> QED BY <1>2, <2>1, ReadyUnits
<1>3. \A g \in upgrades' \ upgrades : Owns(g.by, g.player)
  BY NewUpgrades
<1> QED BY <1>1, <1>2, <1>3 DEF OwnerActs

-----------------------------------------------------------------------------
(* The theorems *)

LEMMA NextIInv == IInv /\ [Next]_vars => IInv'
<1>1. ASSUME IInv, Next PROVE IInv'
  <2>1. TypeOK'
    BY <1>1, MainTypes, AsioTypes, ClientTypes DEF IInv, Next
  <2>2. Handling'
    BY <1>1, MainHandling, AsioHandling, ClientHandling DEF IInv, Next
  <2>3. Lobby' /\ UniqueUnits'
    BY <1>1, NextLobby, NextUnits DEF IInv
  <2> QED BY <2>1, <2>2, <2>3 DEF IInv
<1>2. ASSUME IInv, UNCHANGED vars PROVE IInv'
  <2> USE <1>2 DEF IInv, vars
  <2>1. TypeOK'
    BY DEF TypeOK
  <2>2. Handling'
    BY DEF Handling, SenderIsConnected, SenderIsOwner, ActsAsPlayer,
           RespondsWithId, Owns
  <2>3. Lobby'
    BY LobbyUntouched
  <2>4. UniqueUnits'
    BY DEF UniqueUnits
  <2> QED BY <2>1, <2>2, <2>3, <2>4
<1> QED BY <1>1, <1>2

\* The invariant holds in every behaviour.
THEOREM Invariance == Spec => []IInv
<1> QED BY InitIInv, NextIInv, PTL DEF Spec

\* Every variable has its type: in particular the handlers index m_playerData
\* with ids of participants only, and never answer with any other id.
THEOREM TypeCorrect == Spec => []TypeOK
<1>1. IInv => TypeOK
  BY DEF IInv
<1> QED BY <1>1, Invariance, PTL

\* There are never more than two participants, whatever the interleaving of
\* pings, bots, leaving players and resets.
THEOREM TwoParticipants == Spec => []AtMostTwoParticipants
<1>1. IInv => AtMostTwoParticipants
  BY DEF IInv, Lobby
<1> QED BY <1>1, Invariance, PTL

\* m_playerData[playerId] never creates an entry after the unlock.
THEOREM GhostFree == Spec => []NoGhostPlayer
<1>1. IInv => NoGhostPlayer
  BY DEF IInv, Lobby
<1> QED BY <1>1, Invariance, PTL

\* A connection never holds two ids.
THEOREM OneIdPerConnection == Spec => []OnePlayerPerEndpoint
<1>1. IInv => OnePlayerPerEndpoint
  BY DEF IInv, Lobby
<1> QED BY <1>1, Invariance, PTL

\* Player and unit id name a unit of the simulation, across all the clients
\* and bots that have held the id.
THEOREM UnitsAreUnique == Spec => []UniqueUnits
<1>1. IInv => UniqueUnits
  BY DEF IInv
<1> QED BY <1>1, Invariance, PTL

\* What happens in a player's name is done by the connection that holds the id
\* when it happens, although the check and the act are two critical sections.
THEOREM OwnersAct == Spec => OnlyTheOwnerActs
<1>1. IInv /\ [Next]_vars => [OwnerActs]_vars
  BY NextOwnerActs DEF IInv
<1> QED BY <1>1, Invariance, PTL DEF Spec, OnlyTheOwnerActs
-----------------------------------------------------------------------------
(* The clients of a match *)

USE BotChoiceAssumption, MayLeaveAssumption, RoundsAssumption, PromptAssumption

-----------------------------------------------------------------------------
(* What a client sends *)

\* The client's data that goes into its messages.
OrdersInv ==
  /\ toSend \in [Endpoint -> Seq({AddBot, InitialPing})]
  /\ clientRound \in [Endpoint -> Nat \ {0}]
  /\ army \in [Endpoint -> SUBSET UnitId]

LEMMA OpeningType ==
  ASSUME NEW choice
  PROVE  Opening(choice) \in Seq({AddBot, InitialPing})
<1>1. /\ << >> \in Seq({AddBot, InitialPing})
      /\ <<AddBot>> \in Seq({AddBot, InitialPing})
      /\ <<InitialPing>> \in Seq({AddBot, InitialPing})
  OBVIOUS
<1>2. \A s, t \in Seq({AddBot, InitialPing}) :
         s \o t \in Seq({AddBot, InitialPing})
  OBVIOUS
<1> QED BY <1>1, <1>2 DEF Opening

LEMMA InitOrders == MatchInit => OrdersInv
<1>1. << >> \in Seq({AddBot, InitialPing})
  OBVIOUS
<1> QED BY <1>1 DEF MatchInit, OrdersInv

\* A RoundReady message places and sells units with ids of UnitId.
LEMMA ReadyRoundOrders ==
  ASSUME OrdersInv, NEW e \in Endpoint, ReadyRound(e)
  PROVE  /\ \E placed, sold \in SUBSET UnitId :
               /\ placed \cap sold = {}
               /\ Send(e, RoundReady(clientId[e], placed, sold))
         /\ army' \in [Endpoint -> SUBSET UnitId]
<1>1. PICK placed \in {{}, {clientRound[e]}} :
           \E sold \in {{}} \cup {{n} : n \in army[e] \ placed} :
             /\ Send(e, RoundReady(clientId[e], placed, sold))
             /\ army' = [army EXCEPT ![e] = (@ \cup placed) \ sold]
  BY DEF ReadyRound
<1>2. PICK sold \in {{}} \cup {{n} : n \in army[e] \ placed} :
        /\ Send(e, RoundReady(clientId[e], placed, sold))
        /\ army' = [army EXCEPT ![e] = (@ \cup placed) \ sold]
  BY <1>1
<1>3. clientRound[e] \in 1..MaxRounds
  BY DEF ReadyRound, OrdersInv
<1>4. /\ placed \in SUBSET UnitId /\ sold \in SUBSET UnitId
      /\ placed \cap sold = {}
  BY <1>3 DEF OrdersInv
<1> QED BY <1>2, <1>4 DEF OrdersInv

LEMMA NextOrders == OrdersInv /\ [MatchNext]_matchVars => OrdersInv'
<1> SUFFICES ASSUME OrdersInv, [MatchNext]_matchVars PROVE OrdersInv'
  OBVIOUS
<1> USE DEF OrdersInv
<1>1. CASE UNCHANGED client
  BY <1>1 DEF client
<1>2. ASSUME NEW e \in Endpoint, Create(e) PROVE OrdersInv'
  BY <1>2, OpeningType DEF Create
<1>3. ASSUME NEW e \in Endpoint, SendOpening(e) PROVE OrdersInv'
  <2>1. Tail(toSend[e]) \in Seq({AddBot, InitialPing})
    BY <1>3 DEF SendOpening
  <2> QED BY <1>3, <2>1 DEF SendOpening
<1>4. ASSUME NEW e \in Endpoint, ReadyRound(e) PROVE OrdersInv'
  BY <1>4, ReadyRoundOrders DEF ReadyRound
<1>5. ASSUME NEW e \in Endpoint, EndPlayback(e) PROVE OrdersInv'
  BY <1>5 DEF EndPlayback
<1>6. ASSUME NEW e \in Endpoint, Leave(e) PROVE OrdersInv'
  <2>1. << >> \in Seq({AddBot, InitialPing})
    OBVIOUS
  <2> QED BY <1>6, <2>1 DEF Leave, Forget
<1>7. ASSUME NEW e \in Endpoint,
             BeginMatch(e) \/ SelectUnits(e) \/ BuyUpgrade(e)
               \/ StartPlayback(e) \/ Receive(e) \/ Return(e)
      PROVE  OrdersInv'
  <2>1. UNCHANGED <<toSend, clientRound, army>>
    BY <1>7 DEF BeginMatch, SelectUnits, BuyUpgrade, StartPlayback, Receive,
                Return, client
  <2> QED BY <2>1
<1> QED BY <1>1, <1>2, <1>3, <1>4, <1>5, <1>6, <1>7
       DEF MatchNext, ClientStep, matchVars

-----------------------------------------------------------------------------
(* The match implements the open server *)

LEMMA ClientStepIsOpen ==
  ASSUME OrdersInv, NEW e \in Endpoint, ClientStep(e)
  PROVE  [Next]_vars
<1>1. CASE Create(e) \/ BeginMatch(e) \/ SelectUnits(e) \/ StartPlayback(e)
           \/ EndPlayback(e)
  BY <1>1 DEF Create, BeginMatch, SelectUnits, StartPlayback, EndPlayback
<1>2. CASE SendOpening(e)
  <2>1. Head(toSend[e]) \in {AddBot, InitialPing}
    BY <1>2 DEF SendOpening, OrdersInv
  <2>2. Send(e, AddBot) \/ Send(e, InitialPing)
    BY <1>2, <2>1 DEF SendOpening
  <2>3. ClientSend(e)
    BY <1>2, <2>2 DEF SendOpening, ClientSend, server
  <2> QED BY <2>3 DEF Next, ClientNext
<1>3. CASE BuyUpgrade(e)
  <2>1. ClientSend(e)
    BY <1>3 DEF BuyUpgrade, ClientSend, server
  <2> QED BY <2>1 DEF Next, ClientNext
<1>4. CASE ReadyRound(e)
  <2>1. UNCHANGED <<simulation, lobby, flags, net, mainVars, asioVars, link,
                    clientId, outbox>>
    BY <1>4 DEF ReadyRound, server
  <2>2. ClientSend(e)
    BY <1>4, <2>1, ReadyRoundOrders DEF ClientSend
  <2> QED BY <2>2 DEF Next, ClientNext
<1>5. CASE Receive(e) \/ Leave(e) \/ Return(e)
  BY <1>5 DEF Receive, Leave, Return, Next, ClientNext
<1> QED BY <1>1, <1>2, <1>3, <1>4, <1>5 DEF ClientStep

\* Every behaviour of a match is one of the server among arbitrary clients.
THEOREM MatchIsOpen == MatchSpec => OpenServerSpec
<1>1. MatchInit => Init
  BY DEF MatchInit
<1>2. OrdersInv /\ [MatchNext]_matchVars => [Next]_vars
  <2> SUFFICES ASSUME OrdersInv, [MatchNext]_matchVars PROVE [Next]_vars
    OBVIOUS
  <2>1. CASE MainNext \/ AsioNext
    BY <2>1 DEF Next
  <2>2. ASSUME NEW e \in Endpoint, ClientStep(e) PROVE [Next]_vars
    BY <2>2, ClientStepIsOpen
  <2>3. CASE UNCHANGED matchVars
    BY <2>3 DEF matchVars
  <2> QED BY <2>1, <2>2, <2>3 DEF MatchNext
<1> QED BY <1>1, <1>2, InitOrders, NextOrders, PTL
       DEF MatchSpec, OpenServerSpec, Spec

\* So a match has the properties of the server, for every number of players,
\* whether or not clients leave and return.
THEOREM MatchIsSafe ==
  MatchSpec => /\ [](AtMostTwoParticipants /\ OnePlayerPerEndpoint)
               /\ [](NoGhostPlayer /\ UniqueUnits)
               /\ OnlyTheOwnerActs
<1>1. IInv => /\ AtMostTwoParticipants /\ OnePlayerPerEndpoint
              /\ NoGhostPlayer /\ UniqueUnits
  BY DEF IInv, Lobby
<1> QED BY <1>1, MatchIsOpen, Invariance, OwnersAct, PTL
       DEF OpenServerSpec

-----------------------------------------------------------------------------
(* The clients' types *)

\* A client counts no more rounds than it has played.
CountedRounds ==
  \A e \in Endpoint :
     state[e] \in {"WaitForSimulationResults", "Playback"} =>
        clientRound[e] <= MaxRounds

ClientInv == ClientTypeOK /\ CountedRounds

LEMMA InitClient == MatchInit => ClientInv
<1>1. NoResults \in Result
  BY DEF NoResults, SimulationResult, Result
<1>2. << >> \in Seq({AddBot, InitialPing})
  OBVIOUS
<1> QED BY <1>1, <1>2 DEF MatchInit, ClientInv, ClientTypeOK, CountedRounds

\* What a client takes from a message of the server has its type.
LEMMA ReceiveTypes ==
  ASSUME TypeOK, ClientTypeOK, NEW e \in Endpoint, Receive(e)
  PROVE  /\ allConnected' \in [Endpoint -> BOOLEAN]
         /\ terrain' \in [Endpoint -> Nat]
         /\ dataReady' \in [Endpoint -> BOOLEAN]
         /\ results' \in [Endpoint -> Result]
<1> DEFINE m == Head(outbox[e])
<1>1. m \in ServerMessage
  BY DEF Receive, ClientReceive, TypeOK
<1>2. m.type = "AllPlayersConnected" => m.map \in Nat
  BY <1>1 DEF ServerMessage
<1>3. m.type = "SimulationResult" => m \in Result
  BY <1>1 DEF ServerMessage, Result
<1>4. allConnected' \in [Endpoint -> BOOLEAN]
  BY DEF Receive, ClientTypeOK
<1>5. terrain' \in [Endpoint -> Nat]
  BY <1>2 DEF Receive, ClientTypeOK
<1>6. dataReady' \in [Endpoint -> BOOLEAN] /\ results' \in [Endpoint -> Result]
  <2>1. CASE state[e] # "Menu" /\ IsResult(m)
    <3>1. /\ results' = [results EXCEPT ![e] = m]
          /\ dataReady' = [dataReady EXCEPT ![e] = TRUE]
      BY <2>1 DEF Receive
    <3>2. m \in Result
      BY <1>3, <2>1 DEF IsResult
    <3> QED BY <3>1, <3>2 DEF ClientTypeOK
  <2>2. CASE ~(state[e] # "Menu" /\ IsResult(m))
    <3>1. UNCHANGED <<results, dataReady>>
      BY <2>2 DEF Receive
    <3> QED BY <3>1 DEF ClientTypeOK
  <2> QED BY <2>1, <2>2
<1> QED BY <1>4, <1>5, <1>6

LEMMA NextClient ==
  ASSUME TypeOK, OrdersInv, OrdersInv', ClientInv, [MatchNext]_matchVars
  PROVE  ClientInv'
<1> USE DEF ClientInv, ClientTypeOK, CountedRounds
<1>1. CASE UNCHANGED client
  BY <1>1 DEF client
<1>2. toSend' \in [Endpoint -> Seq({AddBot, InitialPing})]
      /\ army' \in [Endpoint -> SUBSET UnitId]
  BY DEF OrdersInv
<1>3. ASSUME NEW e \in Endpoint, Create(e) PROVE ClientInv'
  <2>1. /\ state' = [state EXCEPT ![e] = "WaitForAllPlayers"]
        /\ UNCHANGED <<allConnected, terrain, dataReady, results, playing,
                       clientRound, army, upgraded>>
    BY <1>3 DEF Create
  <2> QED BY <1>2, <2>1
<1>4. ASSUME NEW e \in Endpoint, SendOpening(e) PROVE ClientInv'
  BY <1>2, <1>4 DEF SendOpening
<1>5. ASSUME NEW e \in Endpoint, BeginMatch(e) \/ SelectUnits(e)
      PROVE  ClientInv'
  BY <1>5 DEF BeginMatch, SelectUnits
<1>6. ASSUME NEW e \in Endpoint, BuyUpgrade(e) PROVE ClientInv'
  BY <1>6 DEF BuyUpgrade
<1>7. ASSUME NEW e \in Endpoint, ReadyRound(e) PROVE ClientInv'
  BY <1>2, <1>7 DEF ReadyRound
<1>8. NoResults \in Result
  BY DEF NoResults, SimulationResult, Result
<1>9. ASSUME NEW e \in Endpoint, StartPlayback(e) PROVE ClientInv'
  BY <1>8, <1>9 DEF StartPlayback
<1>10. ASSUME NEW e \in Endpoint, EndPlayback(e) PROVE ClientInv'
  BY <1>10, RoundsAssumption DEF EndPlayback
<1>11. ASSUME NEW e \in Endpoint, Receive(e) PROVE ClientInv'
  <2>1. UNCHANGED <<state, toSend, playing, clientRound, army, upgraded>>
    BY <1>11 DEF Receive
  <2> QED BY <1>11, <2>1, ReceiveTypes
<1>12. ASSUME NEW e \in Endpoint, Leave(e) PROVE ClientInv'
  BY <1>2, <1>8, <1>12, RoundsAssumption DEF Leave, Forget
<1>13. ASSUME NEW e \in Endpoint, Return(e) PROVE ClientInv'
  BY <1>1, <1>13 DEF Return
<1> QED BY <1>1, <1>3, <1>4, <1>5, <1>6, <1>7, <1>9, <1>10, <1>11, <1>12,
           <1>13 DEF MatchNext, ClientStep, matchVars

\* The clients' variables keep their types, for any clients, bots and rounds:
\* the round a client counts stays within the rounds it plays.
THEOREM ClientsTyped == MatchSpec => []ClientTypeOK
<1>1. ClientInv => ClientTypeOK
  BY DEF ClientInv
<1>2. IInv => TypeOK
  BY DEF IInv
<1>3. TypeOK /\ OrdersInv /\ OrdersInv' /\ ClientInv /\ [MatchNext]_matchVars
         => ClientInv'
  BY NextClient
<1> QED BY <1>1, <1>2, <1>3, InitOrders, NextOrders, InitClient, MatchIsOpen,
           Invariance, PTL DEF MatchSpec, OpenServerSpec

-----------------------------------------------------------------------------
(* What the proofs about particular matches rest on *)

\* What is known of every match: the server's own invariant and the types.
Base == IInv /\ OrdersInv /\ ClientInv

\* It holds in a match of any number of clients and bots.
LEMMA BaseHolds == MatchSpec => []Base
<1>1. IInv => TypeOK
  BY DEF IInv
<1>2. TypeOK /\ OrdersInv /\ OrdersInv' /\ ClientInv /\ [MatchNext]_matchVars
         => ClientInv'
  BY NextClient
<1>3. IInv /\ OrdersInv /\ ClientInv => Base
  BY DEF Base
<1> QED BY <1>1, <1>2, <1>3, InitOrders, NextOrders, InitClient, MatchIsOpen,
           Invariance, PTL DEF MatchSpec, OpenServerSpec

\* A queue of one message and another one behind it.
LEMMA AppendToOne ==
  ASSUME NEW x, NEW y
  PROVE  Append(<<x>>, y) = <<x, y>>
<1> DEFINE S == {x, y}
<1>1. <<x>> \in Seq(S) /\ y \in S /\ <<x, y>> \in Seq(S)
  OBVIOUS
<1>2. Append(<<x>>, y) \in Seq(S) /\ Len(Append(<<x>>, y)) = 2
  BY <1>1
<1>3. \A i \in 1..2 : Append(<<x>>, y)[i] = <<x, y>>[i]
  BY <1>1
<1> QED BY <1>1, <1>2, <1>3, SeqEqual

\* Short queues are told apart and shortened.
LEMMA ShortQueues ==
  ASSUME NEW x, NEW y
  PROVE  /\ Append(<<>>, x) = <<x>>
         /\ <<x>> # <<>> /\ <<x, y>> # <<>>
         /\ Head(<<x>>) = x /\ Tail(<<x>>) = <<>>
         /\ Head(<<x, y>>) = x /\ Tail(<<x, y>>) = <<y>>
OBVIOUS

\* An order adds and removes the units it names of its player, and touches no
\* unit of the other one.
LEMMA ArmyAfterRoundReady ==
  ASSUME NEW us \in SUBSET Unit, NEW m \in ClientMessage, NEW e,
         NEW j, m.playerId \in PlayerId
  PROVE  UnitIdsOf(j, AfterRoundReady(us, m, e)) =
           IF j = m.playerId THEN (UnitIdsOf(j, us) \cup m.units) \ m.removed
                             ELSE UnitIdsOf(j, us)
<1> DEFINE i       == m.playerId
           free    == {n \in m.units :
                         ~ \E v \in us : v.player = i /\ v.id = n}
           unit(n) == [player |-> i, id |-> n, by |-> e]
           new     == {unit(n) : n \in free}
           after   == AfterRoundReady(us, m, e)
<1>1. after = {u \in us \cup new : ~(u.player = i /\ u.id \in m.removed)}
  BY DEF AfterRoundReady
<1>2. \A n : unit(n).player = i /\ unit(n).id = n
  OBVIOUS
<1>3. \A k, n, S : n \in UnitIdsOf(k, S) <=>
         \E u \in S : u.player = k /\ u.id = n
  BY DEF UnitIdsOf
<1>4. CASE j = i
  <2>1. ASSUME NEW n \in UnitIdsOf(j, after)
        PROVE  n \in (UnitIdsOf(j, us) \cup m.units) \ m.removed
    <3>1. PICK u \in after : u.player = j /\ u.id = n
      BY <1>3
    <3>2. CASE u \in us
      BY <1>1, <1>3, <1>4, <3>1, <3>2
    <3>3. CASE u \in new
      <4>1. PICK k \in free : u = unit(k)
        BY <3>3
      <4> QED BY <1>1, <1>2, <1>4, <3>1, <4>1
    <3> QED BY <1>1, <3>2, <3>3
  <2>2. ASSUME NEW n \in (UnitIdsOf(j, us) \cup m.units) \ m.removed
        PROVE  n \in UnitIdsOf(j, after)
    <3>1. CASE n \in UnitIdsOf(j, us)
      BY <1>1, <1>3, <1>4, <2>2, <3>1
    <3>2. CASE n \notin UnitIdsOf(j, us)
      <4>1. n \in free
        BY <1>3, <1>4, <2>2, <3>2
      <4>2. unit(n) \in after
        BY <1>1, <1>2, <2>2, <4>1
      <4> QED BY <1>2, <1>3, <1>4, <4>2
    <3> QED BY <3>1, <3>2
  <2> QED BY <1>4, <2>1, <2>2
<1>5. CASE j # i
  <2>1. \A n : n \in UnitIdsOf(j, after) <=> n \in UnitIdsOf(j, us)
    BY <1>1, <1>2, <1>3, <1>5
  <2> QED BY <1>5, <2>1
<1> QED BY <1>4, <1>5
=============================================================================
