----------------------------- MODULE GameServer -----------------------------
(***************************************************************************)
(* The game server (src/impl/game_server_lib/game_server.cpp) together     *)
(* with the part of ServerNetworkConnection it relies on.                  *)
(*                                                                         *)
(* Two threads share the state: the main thread runs GameServer::update    *)
(* for ever, the asio thread accepts connections and runs the message      *)
(* handlers one at a time.  A critical section of m_mutex is one action;   *)
(* wherever the code releases the mutex, or touches shared state without   *)
(* it, the action ends and the other thread may run.                       *)
(*                                                                         *)
(* The clients are an open environment here: any client may send any       *)
(* message the client program can send, with the player id it has.         *)
(* Module Match closes the system with the clients' real round protocol.   *)
(***************************************************************************)
EXTENDS Integers, Sequences, FiniteSets

CONSTANTS Endpoint,    \* TCP endpoints of the client connections
          NoEndpoint,  \* the endpoint of a default-constructed PlayerInfo
          UnitId,      \* ids a client gives to the units it places
          MaxSends     \* bound on the messages all clients send

ASSUME EndpointAssumption == NoEndpoint \notin Endpoint
ASSUME UnitIdAssumption   == UnitId \subseteq Nat
ASSUME MaxSendsAssumption == MaxSends \in Nat

PlayerId == {0, 1}     \* newPlayerId is the number of participants, below 2
NoId     == -1         \* Message::playerId and m_playerId before assignment

VARIABLES
  sockets, ahead,   \* m_sockets, and which of them come before each in the list
  isOpen,           \* endpoints whose server-side socket is_open()
  players,          \* the keys of m_playerData
  endpointOf,       \* m_playerData[id].endpoint
  roundReady,       \* m_playerData[id].roundReady
  bots,             \* the keys of m_botData
  matchHasStarted, round, allPlayersReady, simulationStarted,
  units,            \* m_unitInformationForRoundStart of the simulation
  upgrades,         \* m_unitUpgrades of the simulation
  map, rolls,       \* m_world (0: the empty terrain) and maps rolled so far
  fighters,         \* m_simulationObjects: the units of the running round
  mainPc, botCopy, cursor,  \* main thread: next step and its locals
  asioPc, current,          \* asio thread: next step and message in hand
  inbox, outbox,    \* bytes in flight, client to server and back
  link,             \* state of each client's end of the connection
  clientId,         \* ServerConnection::m_playerId of each client
  sent              \* messages the clients have sent

simulation == <<units, upgrades, map, rolls, fighters>>
lobby      == <<players, endpointOf, roundReady, bots>>
flags      == <<matchHasStarted, round, allPlayersReady, simulationStarted>>
net        == <<sockets, ahead, isOpen>>
mainVars   == <<mainPc, botCopy, cursor>>
asioVars   == <<asioPc, current>>
clientVars == <<link, clientId, sent>>
channels   == <<inbox, outbox>>
vars == <<simulation, lobby, flags, net, mainVars, asioVars, clientVars,
          channels>>

-----------------------------------------------------------------------------
(* Messages *)

ClientMessage == [type: {"InitialPing", "AddBot", "RoundReady", "UnitUpgrade"},
                  playerId: PlayerId \cup {NoId},
                  units: SUBSET UnitId, removed: SUBSET UnitId]

InitialPing == [type |-> "InitialPing", playerId |-> NoId,
                units |-> {}, removed |-> {}]
AddBot      == [type |-> "AddBot", playerId |-> NoId,
                units |-> {}, removed |-> {}]
RoundReady(i, placed, sold) ==
  [type |-> "RoundReady", playerId |-> i, units |-> placed, removed |-> sold]
UnitUpgrade(i) ==
  [type |-> "UnitUpgrade", playerId |-> i, units |-> {}, removed |-> {}]

\* A unit of the simulation; by names who placed it (NoEndpoint: the server's
\* bot).  The code identifies a unit by player and id alone.
Unit    == [player: PlayerId, id: Nat, by: Endpoint \cup {NoEndpoint}]
Upgrade == [player: PlayerId, by: Endpoint]

PlayerIdResponse(i)    == [type |-> "PlayerIdResponse", playerId |-> i]
AllPlayersConnected(m) == [type |-> "AllPlayersConnected", map |-> m]
\* The round only names the result in properties: it is not on the wire and no
\* step of a client reads it.
SimulationResult(r, us) ==
  [type |-> "SimulationResult", round |-> r, units |-> us]

ServerMessage == [type: {"PlayerIdResponse"}, playerId: PlayerId]
            \cup [type: {"AllPlayersConnected"}, map: Nat]
            \cup [type: {"SimulationResult"}, round: Nat, units: SUBSET Unit]

Idle == [from |-> NoEndpoint, msg |-> InitialPing]

-----------------------------------------------------------------------------
(* Helpers shared by the two threads *)

\* Mutant: the bots are not counted.
HumansOnly == Cardinality(players)

\* getNumberOfConnectedPlayers
NumberOfConnectedPlayers == Cardinality(players) + Cardinality(bots)

\* The sockets sendMessageToAll reaches: it returns at the first closed one.
Reached == {e \in sockets : ({e} \cup ahead[e]) \subseteq isOpen}

SendToAll(m) ==
  outbox' = [e \in Endpoint |-> IF e \in Reached THEN Append(outbox[e], m)
                                                 ELSE outbox[e]]

\* Mutant: the ids of a new unit are not compared with those in use.
WithUnitUnchecked(us, u) == us \cup {u}

\* addUnit: a unit whose ids are taken is dropped with a warning.
WithUnit(us, u) ==
  IF \E v \in us : v.player = u.player /\ v.id = u.id THEN us ELSE us \cup {u}

\* Mutant: the units the message lists as sold stay.
KeepsSoldUnits(us, m, e) ==
  us \cup {[player |-> m.playerId, id |-> n, by |-> e] :
             n \in {k \in m.units :
                     ~ \E v \in us : v.player = m.playerId /\ v.id = k}}

\* The units after a RoundReady message: every placed unit is added, then
\* every sold unit is removed.
AfterRoundReady(us, m, e) ==
  LET free  == {n \in m.units :
                  ~ \E v \in us : v.player = m.playerId /\ v.id = n}
      added == us \cup {[player |-> m.playerId, id |-> n, by |-> e] :
                          n \in free}
  IN  {u \in added : ~(u.player = m.playerId /\ u.id \in m.removed)}

\* An exception that leaves GameServer::update ends main; one that leaves a
\* handler terminates the process.  Either way both threads are gone.
ServerEnds ==
  /\ mainPc' = "ended"
  /\ asioPc' = "ended"
  /\ UNCHANGED <<simulation, lobby, flags, net, botCopy, cursor, current,
                 clientVars, channels>>

-----------------------------------------------------------------------------
(* Main thread: GameServer::update *)

\* m_connection.update(): closed sockets leave the list.
UpdateConnection ==
  /\ mainPc = "update"
  /\ sockets' = sockets \cap isOpen
  /\ ahead' = [e \in Endpoint |-> IF e \in isOpen THEN ahead[e] \cap isOpen
                                                  ELSE {}]
  /\ mainPc' = "reap"
  /\ UNCHANGED <<simulation, lobby, flags, isOpen, botCopy, cursor, asioVars,
                 clientVars, channels>>

\* isSocketOpenFor and sendMessageToOne walk through the list up to the socket
\* of e and ask each socket for its remote endpoint, which throws for one that
\* was closed since the last UpdateConnection.
WalkThrows(e) == \E c \in sockets \ isOpen : e \notin ahead[c]

\* Mutant: endpoints match when their addresses do, whatever the port.
IsAddressOpenFor(e) == sockets \cap isOpen # {}

IsSocketOpenFor(e) == e \in sockets /\ e \in isOpen

\* resetServer, called when the last player is gone.
ResetServer ==
  IF matchHasStarted
  THEN /\ matchHasStarted' = FALSE
       /\ round' = 1
       /\ bots' = {}
       /\ units' = {} /\ upgrades' = {} /\ fighters' = {} /\ map' = 0
  ELSE UNCHANGED <<matchHasStarted, round, bots, units, upgrades, fighters,
                   map>>

\* removePlayerIfConnectionClosed, under m_mutex.
RemoveClosedPlayers ==
  /\ mainPc = "reap"
  /\ \A i \in players : ~WalkThrows(endpointOf[i])
  /\ LET stay == {i \in players : IsSocketOpenFor(endpointOf[i])}
     IN  /\ players' = stay
         /\ endpointOf' = [i \in PlayerId |-> IF i \in stay THEN endpointOf[i]
                                                            ELSE NoEndpoint]
         /\ roundReady' = [i \in PlayerId |-> i \in stay /\ roundReady[i]]
         /\ IF stay = {}
            THEN ResetServer
            ELSE UNCHANGED <<matchHasStarted, round, bots, units, upgrades,
                             fighters, map>>
  /\ mainPc' = "poll"
  /\ UNCHANGED <<rolls, allPlayersReady, simulationStarted, net, botCopy,
                 cursor, asioVars, clientVars, channels>>

RemoveClosedPlayersThrows ==
  /\ mainPc = "reap"
  /\ \E i \in players : WalkThrows(endpointOf[i])
  /\ ServerEnds

\* The test of the two atomics and, if a round is due, the copy of the bots.
PollAllPlayersReady ==
  /\ mainPc = "poll"
  /\ IF allPlayersReady /\ ~simulationStarted
     THEN mainPc' = "ai" /\ botCopy' = bots
     ELSE mainPc' = "update" /\ UNCHANGED botCopy
  /\ UNCHANGED <<simulation, lobby, flags, net, cursor, asioVars, clientVars,
                 channels>>

\* Mutant: every unit of a bot has the same id.
BotUnitOne == [player |-> IF 0 \in botCopy THEN 0 ELSE 1,
               id |-> 1, by |-> NoEndpoint]

\* The unit performAI makes for the first bot, named after the round.
BotUnit == [player |-> IF 0 \in botCopy THEN 0 ELSE 1,
            id |-> round, by |-> NoEndpoint]

\* performAI: one unit is added if there is a bot.  No mutex.
PerformAI ==
  /\ mainPc = "ai"
  /\ units' = IF botCopy = {} THEN units ELSE WithUnit(units, BotUnit)
  /\ mainPc' = "start"
  /\ UNCHANGED <<upgrades, map, rolls, fighters, lobby, flags, net, botCopy,
                 cursor, asioVars, clientVars, channels>>

\* startRoundSimulation up to the end of prepareSimulationForNewRound.
StartRoundSimulation ==
  /\ mainPc = "start"
  /\ simulationStarted' = TRUE
  /\ fighters' = units
  /\ mainPc' = "simulate"
  /\ UNCHANGED <<units, upgrades, map, rolls, lobby, matchHasStarted, round,
                 allPlayersReady, net, botCopy, cursor, asioVars, clientVars,
                 channels>>

\* performSimulation, its result sent to every socket, and m_round++.
FinishRoundSimulation ==
  /\ mainPc = "simulate"
  /\ SendToAll(SimulationResult(round, fighters))
  /\ round' = round + 1
  /\ cursor' = 0
  /\ mainPc' = "unready"
  /\ UNCHANGED <<simulation, lobby, matchHasStarted, allPlayersReady,
                 simulationStarted, net, botCopy, asioVars, clientVars, inbox>>

\* One turn of the unlocked loop that clears roundReady, in the order of ids.
ClearRoundReady(i) ==
  /\ mainPc = "unready"
  /\ i \in players /\ i >= cursor
  /\ \A j \in players : j >= cursor => i <= j
  /\ roundReady' = [roundReady EXCEPT ![i] = FALSE]
  /\ cursor' = i + 1
  /\ UNCHANGED <<simulation, players, endpointOf, bots, flags, net, mainPc,
                 botCopy, asioVars, clientVars, channels>>

\* Mutant: m_simulationStarted stays set.
EndRoundStaysStarted ==
  /\ mainPc = "unready"
  /\ \A i \in players : i < cursor
  /\ allPlayersReady' = FALSE
  /\ mainPc' = "update"
  /\ UNCHANGED <<simulation, lobby, matchHasStarted, round, simulationStarted,
                 net, botCopy, cursor, asioVars, clientVars, channels>>

\* The loop is over: m_simulationStarted and m_allPlayersReady are cleared.
EndRound ==
  /\ mainPc = "unready"
  /\ \A i \in players : i < cursor
  /\ simulationStarted' = FALSE
  /\ allPlayersReady' = FALSE
  /\ mainPc' = "update"
  /\ UNCHANGED <<simulation, lobby, matchHasStarted, round, net, botCopy,
                 cursor, asioVars, clientVars, channels>>

MainNext ==
  \/ UpdateConnection
  \/ RemoveClosedPlayers
  \/ RemoveClosedPlayersThrows
  \/ PollAllPlayersReady
  \/ PerformAI
  \/ StartRoundSimulation
  \/ FinishRoundSimulation
  \/ \E i \in PlayerId : ClearRoundReady(i)
  \/ EndRound

-----------------------------------------------------------------------------
(* Asio thread: ServerNetworkConnection callbacks and GameServer handlers *)

\* handleAccept: the socket of a new client is appended and listened to. An
\* accept that fails, after which the code logs the error and appends the
\* useless socket all the same (its remote_endpoint() then throws), is left out.
HandleAccept(e) ==
  /\ asioPc = "idle"
  /\ link[e] = "new"
  /\ sockets' = sockets \cup {e}
  /\ ahead' = [ahead EXCEPT ![e] = sockets]
  /\ isOpen' = isOpen \cup {e}
  /\ link' = [link EXCEPT ![e] = "connected"]
  /\ UNCHANGED <<simulation, lobby, flags, mainVars, asioVars, clientId, sent,
                 channels>>

\* Mutant: the io_context is run by several threads, so that a socket can be
\* closed while a message of it is handled.
CloseSocketAnyTime(e) ==
  /\ link[e] = "left" /\ e \in isOpen
  /\ isOpen' = isOpen \ {e}
  /\ inbox' = [inbox EXCEPT ![e] = <<>>]
  /\ UNCHANGED <<simulation, lobby, flags, sockets, ahead, mainVars, asioVars,
                 clientVars, outbox>>

\* A read or a write fails because the client has left: the socket is closed,
\* whatever of its data has not been read yet is lost.
CloseSocket(e) ==
  /\ asioPc = "idle"
  /\ link[e] = "left" /\ e \in isOpen
  /\ isOpen' = isOpen \ {e}
  /\ inbox' = [inbox EXCEPT ![e] = <<>>]
  /\ UNCHANGED <<simulation, lobby, flags, sockets, ahead, mainVars, asioVars,
                 clientVars, outbox>>

\* Mutant: the player's endpoint is not compared with the sender's.
AcceptsAnyPlayer(e, m) ==
  \/ m.type \in {"InitialPing", "AddBot"}
  \/ m.playerId \in players

\* handleMessage up to the unlock: the sender must own the id it names,
\* except in the two messages that are sent before an id is known.
Accepts(e, m) ==
  \/ m.type \in {"InitialPing", "AddBot"}
  \/ m.playerId \in players /\ endpointOf[m.playerId] = e

HandleMessage(e) ==
  /\ asioPc = "idle"
  /\ e \in isOpen /\ inbox[e] # <<>>
  /\ inbox' = [inbox EXCEPT ![e] = Tail(@)]
  /\ IF Accepts(e, Head(inbox[e]))
     THEN /\ current' = [from |-> e, msg |-> Head(inbox[e])]
          /\ asioPc' = "dispatch"
     ELSE UNCHANGED asioVars
  /\ UNCHANGED <<simulation, lobby, flags, net, mainVars, clientVars, outbox>>

AsioIdle == asioPc' = "idle" /\ current' = Idle

\* Mutant: a connection may register twice.
RejectsPingWhenFull(e) == NumberOfConnectedPlayers >= 2

\* handleMessageInitialPing, the critical section.
RejectsPing(e) ==
  \/ \E i \in players : endpointOf[i] = e
  \/ NumberOfConnectedPlayers >= 2

HandleInitialPing ==
  /\ asioPc = "dispatch" /\ current.msg.type = "InitialPing"
  /\ IF RejectsPing(current.from)
     THEN AsioIdle /\ UNCHANGED <<players, endpointOf>>
     ELSE LET newPlayerId == NumberOfConnectedPlayers
          IN  /\ players' = players \cup {newPlayerId}
              /\ endpointOf' = [endpointOf EXCEPT ![newPlayerId] = current.from]
              /\ current' = [current EXCEPT !.msg.playerId = newPlayerId]
              /\ asioPc' = "respond"
  /\ UNCHANGED <<simulation, roundReady, bots, flags, net, mainVars, clientVars,
                 channels>>

\* Mutant: the new id is sent with sendMessageToAll.
SendPlayerIdToAll ==
  /\ asioPc = "respond"
  /\ ~WalkThrows(current.from)
  /\ SendToAll(PlayerIdResponse(current.msg.playerId))
  /\ asioPc' = "count"
  /\ UNCHANGED <<simulation, lobby, flags, net, mainVars, current, clientVars,
                 inbox>>

\* sendMessageToOne.
SendPlayerId ==
  /\ asioPc = "respond"
  /\ ~WalkThrows(current.from)
  /\ outbox' = [outbox EXCEPT ![current.from] =
                  Append(@, PlayerIdResponse(current.msg.playerId))]
  /\ asioPc' = "count"
  /\ UNCHANGED <<simulation, lobby, flags, net, mainVars, current, clientVars,
                 inbox>>

SendPlayerIdThrows ==
  /\ asioPc = "respond"
  /\ WalkThrows(current.from)
  /\ ServerEnds

\* Mutant: off by one.
RejectsBotAboveTwo == NumberOfConnectedPlayers > 2

\* handleMessageAddBot, the critical section.
RejectsBot == NumberOfConnectedPlayers >= 2

HandleAddBot ==
  /\ asioPc = "dispatch" /\ current.msg.type = "AddBot"
  /\ IF RejectsBot
     THEN AsioIdle /\ UNCHANGED bots
     ELSE /\ bots' = bots \cup {NumberOfConnectedPlayers}
          /\ asioPc' = "count"
          /\ UNCHANGED current
  /\ UNCHANGED <<simulation, players, endpointOf, roundReady, flags, net,
                 mainVars, clientVars, channels>>

\* Mutant: every new participant starts the match.
SomePlayerConnected == NumberOfConnectedPlayers >= 1

AllPlayersAreConnected == NumberOfConnectedPlayers = 2

\* checkForAllPlayersConnected, without the mutex: the count and the map, then
\* the announcement and the flag.
CheckForAllPlayersConnected ==
  /\ asioPc = "count"
  /\ IF AllPlayersAreConnected
     THEN /\ rolls' = rolls + 1 /\ map' = rolls + 1
          /\ asioPc' = "announce"
          /\ UNCHANGED current
     ELSE AsioIdle /\ UNCHANGED <<map, rolls>>
  /\ UNCHANGED <<units, upgrades, fighters, lobby, flags, net, mainVars,
                 clientVars, channels>>

AnnounceMatch ==
  /\ asioPc = "announce"
  /\ SendToAll(AllPlayersConnected(map))
  /\ matchHasStarted' = TRUE
  /\ AsioIdle
  /\ UNCHANGED <<simulation, lobby, round, allPlayersReady, simulationStarted,
                 net, mainVars, clientVars, inbox>>

\* handleMessageRoundReady: the unlocked test of m_matchHasStarted ...
HandleRoundReady ==
  /\ asioPc = "dispatch" /\ current.msg.type = "RoundReady"
  /\ IF matchHasStarted THEN asioPc' = "apply" /\ UNCHANGED current ELSE AsioIdle
  /\ UNCHANGED <<simulation, lobby, flags, net, mainVars, clientVars, channels>>

\* Mutant: the first player who is ready starts the round.
AnyReady(ids, ready) == \E j \in ids : ready[j]

AllReady(ids, ready) == \A j \in ids : ready[j]

\* ... the critical section, where m_playerData[playerId] creates the entry
\* anew if the main thread has erased it meanwhile ...
ApplyRoundReady ==
  LET i == current.msg.playerId
  IN  /\ asioPc = "apply"
      /\ players' = players \cup {i}
      /\ roundReady' = [roundReady EXCEPT ![i] = TRUE]
      /\ units' = AfterRoundReady(units, current.msg, current.from)
      /\ IF AllReady(players', roundReady')
         THEN asioPc' = "store" /\ UNCHANGED current
         ELSE AsioIdle
      /\ UNCHANGED <<upgrades, map, rolls, fighters, endpointOf, bots, flags,
                     net, mainVars, clientVars, channels>>

\* ... and the store after the unlock.
StoreAllPlayersReady ==
  /\ asioPc = "store"
  /\ allPlayersReady' = TRUE
  /\ AsioIdle
  /\ UNCHANGED <<simulation, lobby, matchHasStarted, round, simulationStarted,
                 net, mainVars, clientVars, channels>>

\* handleMessageUnitUpgrade: a match that has not started is only logged.
HandleUnitUpgrade ==
  /\ asioPc = "dispatch" /\ current.msg.type = "UnitUpgrade"
  /\ upgrades' = upgrades \cup {[player |-> current.msg.playerId,
                                 by |-> current.from]}
  /\ AsioIdle
  /\ UNCHANGED <<units, map, rolls, fighters, lobby, flags, net, mainVars,
                 clientVars, channels>>

AsioNext ==
  \/ \E e \in Endpoint : HandleAccept(e) \/ CloseSocket(e) \/ HandleMessage(e)
  \/ HandleInitialPing
  \/ SendPlayerId
  \/ SendPlayerIdThrows
  \/ HandleAddBot
  \/ CheckForAllPlayersConnected
  \/ AnnounceMatch
  \/ HandleRoundReady
  \/ ApplyRoundReady
  \/ StoreAllPlayersReady
  \/ HandleUnitUpgrade

-----------------------------------------------------------------------------
(* The clients, as the server knows them *)

Send(e, m) ==
  /\ link[e] = "connected"
  /\ sent < MaxSends
  /\ sent' = sent + 1
  /\ inbox' = [inbox EXCEPT ![e] = Append(@, m)]

\* A purchase that is undone is not sent, so what is sold was placed before.
ClientSend(e) ==
  /\ \/ Send(e, InitialPing)
     \/ Send(e, AddBot)
     \/ Send(e, UnitUpgrade(clientId[e]))
     \/ \E placed, sold \in SUBSET UnitId :
          /\ placed \cap sold = {}
          /\ Send(e, RoundReady(clientId[e], placed, sold))
  /\ UNCHANGED <<simulation, lobby, flags, net, mainVars, asioVars, link,
                 clientId, outbox>>

\* ServerConnection::handleMessagePlayerIdResponse: the first id is kept.
TakeId(e, m) ==
  clientId' = IF m.type = "PlayerIdResponse" /\ clientId[e] = NoId
              THEN [clientId EXCEPT ![e] = m.playerId]
              ELSE clientId

ClientReceive(e) ==
  /\ link[e] = "connected"
  /\ outbox[e] # <<>>
  /\ TakeId(e, Head(outbox[e]))
  /\ outbox' = [outbox EXCEPT ![e] = Tail(@)]
  /\ UNCHANGED <<simulation, lobby, flags, net, mainVars, asioVars, link, sent,
                 inbox>>

\* The player quits, or the client or its network connection fails.
ClientLeave(e) ==
  /\ link[e] = "connected"
  /\ link' = [link EXCEPT ![e] = "left"]
  /\ outbox' = [outbox EXCEPT ![e] = <<>>]
  /\ UNCHANGED <<simulation, lobby, flags, net, mainVars, asioVars, clientId,
                 sent, inbox>>

\* A client connects again, from the same endpoint since it binds its port,
\* once the server has dropped the old socket and if it may still send.
ClientReturn(e) ==
  /\ link[e] = "left" /\ sent < MaxSends
  /\ e \notin sockets
  /\ link' = [link EXCEPT ![e] = "new"]
  /\ clientId' = [clientId EXCEPT ![e] = NoId]
  /\ outbox' = [outbox EXCEPT ![e] = <<>>]
  /\ UNCHANGED <<simulation, lobby, flags, net, mainVars, asioVars, sent, inbox>>

ClientNext ==
  \E e \in Endpoint :
     ClientSend(e) \/ ClientReceive(e) \/ ClientLeave(e) \/ ClientReturn(e)

-----------------------------------------------------------------------------
Init ==
  /\ sockets = {} /\ isOpen = {} /\ ahead = [e \in Endpoint |-> {}]
  /\ players = {} /\ bots = {}
  /\ endpointOf = [i \in PlayerId |-> NoEndpoint]
  /\ roundReady = [i \in PlayerId |-> FALSE]
  /\ matchHasStarted = FALSE /\ round = 1
  /\ allPlayersReady = FALSE /\ simulationStarted = FALSE
  /\ units = {} /\ upgrades = {} /\ fighters = {}
  /\ map = 0 /\ rolls = 0
  /\ mainPc = "update" /\ botCopy = {} /\ cursor = 0
  /\ asioPc = "idle" /\ current = Idle
  /\ inbox = [e \in Endpoint |-> <<>>]
  /\ outbox = [e \in Endpoint |-> <<>>]
  /\ link = [e \in Endpoint |-> "new"]
  /\ clientId = [e \in Endpoint |-> NoId]
  /\ sent = 0

Next == MainNext \/ AsioNext \/ ClientNext

Spec == Init /\ [][Next]_vars

\* Nothing tells the connections apart: the symmetry of the run.
Interchangeable ==
  {[e \in Endpoint |-> p[e]] :
     p \in {q \in [Endpoint -> Endpoint] : {q[e] : e \in Endpoint} = Endpoint}}

-----------------------------------------------------------------------------
(* Properties *)

\* Every variable has its type.  The id a client was given and the id of the
\* message in hand are those of PlayerId wherever the code indexes with them.
TypeOK ==
  /\ sockets \subseteq Endpoint /\ isOpen \subseteq Endpoint
  /\ ahead \in [Endpoint -> SUBSET Endpoint]
  /\ players \subseteq PlayerId /\ bots \subseteq PlayerId
  /\ endpointOf \in [PlayerId -> Endpoint \cup {NoEndpoint}]
  /\ roundReady \in [PlayerId -> BOOLEAN]
  /\ matchHasStarted \in BOOLEAN /\ round \in Nat
  /\ allPlayersReady \in BOOLEAN /\ simulationStarted \in BOOLEAN
  /\ units \subseteq Unit /\ fighters \subseteq Unit
  /\ upgrades \subseteq Upgrade
  /\ map \in Nat /\ rolls \in Nat
  /\ mainPc \in {"update", "reap", "poll", "ai", "start", "simulate",
                 "unready", "ended"}
  /\ botCopy \subseteq PlayerId /\ cursor \in 0..2
  /\ asioPc \in {"idle", "dispatch", "respond", "count", "announce", "apply",
                 "store", "ended"}
  /\ current \in [from: Endpoint \cup {NoEndpoint}, msg: ClientMessage]
  /\ inbox \in [Endpoint -> Seq(ClientMessage)]
  /\ outbox \in [Endpoint -> Seq(ServerMessage)]
  /\ link \in [Endpoint -> {"new", "connected", "left"}]
  /\ clientId \in [Endpoint -> PlayerId \cup {NoId}]
  /\ sent \in Nat

\* The match never has more than two participants, although the count is
\* checked in two critical sections (HandleInitialPing, HandleAddBot) and a
\* third one (ApplyRoundReady) can create an entry without checking it.
AtMostTwoParticipants == Cardinality(players) + Cardinality(bots) <= 2

\* No player is created by m_playerData[playerId] in a handler that runs after
\* the mutex was released: the entry checked in HandleMessage is still there.
NoGhostPlayer == \A i \in players : endpointOf[i] # NoEndpoint

\* No connection holds two player ids, across takeovers of a slot.
OnePlayerPerEndpoint ==
  \A i, j \in players : endpointOf[i] = endpointOf[j] => i = j

\* No two units of the simulation have the same player and unit id, whichever
\* clients and bots have held the id: getUnit and removeUnit find units by it.
UniqueUnits ==
  \A u, v \in units : u.player = v.player /\ u.id = v.id => u = v

Owns(e, i) == i \in players /\ endpointOf[i] = e

\* A player is made ready, and a unit or an upgrade reaches the simulation in
\* a player's name, only by the connection that holds the player's id at that
\* very moment, not merely when the message was checked.
OwnerActs ==
  /\ \A i \in PlayerId :
        ~roundReady[i] /\ roundReady'[i] => Owns(current.from, i)
  /\ \A u \in units' \ units : u.by # NoEndpoint => Owns(u.by, u.player)
  /\ \A g \in upgrades' \ upgrades : Owns(g.by, g.player)

OnlyTheOwnerActs == [][OwnerActs]_vars
=============================================================================
