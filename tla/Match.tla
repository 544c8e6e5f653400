-------------------------------- MODULE Match -------------------------------
(***************************************************************************)
(* A match: the server of module GameServer and its clients, each running  *)
(* ServerConnection (asio thread) and the states of InternalStateManager   *)
(* (main thread) of src/impl/game_client_lib.                              *)
(***************************************************************************)
EXTENDS GameServer

CONSTANTS BotChoice,   \* settings of the two "Add bot" check boxes
          MayLeave,    \* connections whose client may leave or fail
          MaxRounds,   \* bound on the rounds a client plays
          PromptServer \* see ReadyRound

ASSUME BotChoiceAssumption == BotChoice \subseteq {"none", "zero", "one", "both"}
ASSUME MayLeaveAssumption  == MayLeave \subseteq Endpoint
ASSUME RoundsAssumption    == MaxRounds \in Nat /\ 1..MaxRounds \subseteq UnitId
ASSUME PromptAssumption    == PromptServer \in BOOLEAN

VARIABLES
  state,         \* InternalStateManager::m_activeState ("Menu": no StateGame)
  toSend,        \* messages StateGame::onCreate has yet to send
  allConnected,  \* m_allPlayersConnected
  terrain,       \* the map the client has been told to use
  dataReady,     \* m_dataReady
  results,       \* m_simulationResults: the last ones received
  playing,       \* m_simulationResultsForAllFrames: the ones played back
  clientRound,   \* StateGame::m_round
  army,          \* ids of the units the client has placed and not sold
  upgraded       \* whether the client has bought its upgrade

client == <<state, toSend, allConnected, terrain, dataReady, results, playing,
            clientRound, army, upgraded>>
server == <<simulation, lobby, flags, net, mainVars, asioVars>>
matchVars == <<vars, client>>

Result    == [type: {"SimulationResult"}, round: Nat, units: SUBSET Unit]
NoResults == SimulationResult(0, {})

\* StateGame::onCreate: bot messages before and after the ping.
Opening(choice) ==
  (IF choice \in {"zero", "both"} THEN <<AddBot>> ELSE <<>>)
    \o <<InitialPing>>
    \o (IF choice \in {"one", "both"} THEN <<AddBot>> ELSE <<>>)

-----------------------------------------------------------------------------
(* Main thread of a client *)

Create(e) ==
  /\ link[e] = "connected" /\ state[e] = "Menu"
  /\ \E choice \in BotChoice : toSend' = [toSend EXCEPT ![e] = Opening(choice)]
  /\ state' = [state EXCEPT ![e] = "WaitForAllPlayers"]
  /\ UNCHANGED <<vars, allConnected, terrain, dataReady, results, playing,
                 clientRound, army, upgraded>>

SendOpening(e) ==
  /\ toSend[e] # <<>>
  /\ Send(e, Head(toSend[e]))
  /\ toSend' = [toSend EXCEPT ![e] = Tail(@)]
  /\ UNCHANGED <<server, link, clientId, outbox, state, allConnected, terrain,
                 dataReady, results, playing, clientRound, army, upgraded>>

\* WaitForAllPlayers::update.
BeginMatch(e) ==
  /\ state[e] = "WaitForAllPlayers" /\ toSend[e] = <<>> /\ allConnected[e]
  /\ state' = [state EXCEPT ![e] = "SelectStartingUnits"]
  /\ UNCHANGED <<vars, toSend, allConnected, terrain, dataReady, results,
                 playing, clientRound, army, upgraded>>

\* SelectStartingUnits: the player takes one of the offers.
SelectUnits(e) ==
  /\ state[e] = "SelectStartingUnits" /\ link[e] = "connected"
  /\ state' = [state EXCEPT ![e] = "PlaceUnits"]
  /\ UNCHANGED <<vars, toSend, allConnected, terrain, dataReady, results,
                 playing, clientRound, army, upgraded>>

\* Mutant: the message keeps the default id.
BuyUpgradeUnnamed(e) ==
  /\ state[e] = "PlaceUnits" /\ ~upgraded[e]
  /\ Send(e, UnitUpgrade(NoId))
  /\ upgraded' = [upgraded EXCEPT ![e] = TRUE]
  /\ UNCHANGED <<server, link, clientId, outbox, state, toSend, allConnected,
                 terrain, dataReady, results, playing, clientRound, army>>

\* PlaceUnits: the player buys an upgrade (one per match is enough here).
BuyUpgrade(e) ==
  /\ state[e] = "PlaceUnits" /\ ~upgraded[e]
  /\ Send(e, UnitUpgrade(clientId[e]))
  /\ upgraded' = [upgraded EXCEPT ![e] = TRUE]
  /\ UNCHANGED <<server, link, clientId, outbox, state, toSend, allConnected,
                 terrain, dataReady, results, playing, clientRound, army>>

\* The transition from PlaceUnits to WaitForSimulationResults: at most one
\* new unit, named after the round, and at most one of the older ones sold.
\* PromptServer: by the time a player has watched the playback and placed new
\* units, the server has left the loop that clears the ready flags.
ReadyRound(e) ==
  /\ state[e] = "PlaceUnits" /\ clientRound[e] <= MaxRounds
  /\ PromptServer => mainPc # "unready"
  /\ \E placed \in {{}, {clientRound[e]}} :
     \E sold \in {{}} \cup {{n} : n \in army[e] \ placed} :
       /\ Send(e, RoundReady(clientId[e], placed, sold))
       /\ army' = [army EXCEPT ![e] = (@ \cup placed) \ sold]
  /\ state' = [state EXCEPT ![e] = "WaitForSimulationResults"]
  /\ UNCHANGED <<server, link, clientId, outbox, toSend, allConnected, terrain,
                 dataReady, results, playing, clientRound, upgraded>>

\* Mutant: getRoundData leaves m_dataReady set.
StartPlaybackKeepsReady(e) ==
  /\ state[e] = "WaitForSimulationResults" /\ dataReady[e]
  /\ playing' = [playing EXCEPT ![e] = results[e]]
  /\ results' = [results EXCEPT ![e] = NoResults]
  /\ state' = [state EXCEPT ![e] = "Playback"]
  /\ UNCHANGED <<vars, toSend, allConnected, terrain, dataReady, clientRound,
                 army, upgraded>>

\* WaitForSimulationResults::update and startPlayback (getRoundData).
StartPlayback(e) ==
  /\ state[e] = "WaitForSimulationResults" /\ dataReady[e]
  /\ dataReady' = [dataReady EXCEPT ![e] = FALSE]
  /\ playing' = [playing EXCEPT ![e] = results[e]]
  /\ results' = [results EXCEPT ![e] = NoResults]
  /\ state' = [state EXCEPT ![e] = "Playback"]
  /\ UNCHANGED <<vars, toSend, allConnected, terrain, clientRound, army,
                 upgraded>>

\* The transition from Playback to PlaceUnits (resetSimulation).
EndPlayback(e) ==
  /\ state[e] = "Playback"
  /\ clientRound' = [clientRound EXCEPT ![e] = @ + 1]
  /\ state' = [state EXCEPT ![e] = "PlaceUnits"]
  /\ UNCHANGED <<vars, toSend, allConnected, terrain, dataReady, results,
                 playing, army, upgraded>>

-----------------------------------------------------------------------------
(* Asio thread of a client: ServerConnection::handleMessage *)

\* Mutant: the case of AllPlayersConnected falls through to the next one.
IsResultOrAnnouncement(m) ==
  m.type \in {"AllPlayersConnected", "SimulationResult"}

IsResult(m) == m.type = "SimulationResult"

\* Before StateGame::onCreate no callback is set and messages are dropped.
Receive(e) ==
  LET m == Head(outbox[e])
      listening == state[e] # "Menu"
  IN  /\ ClientReceive(e)
      /\ allConnected' = [allConnected EXCEPT ![e] =
                            @ \/ (listening /\ m.type = "AllPlayersConnected")]
      /\ terrain' = IF listening /\ m.type = "AllPlayersConnected"
                    THEN [terrain EXCEPT ![e] = m.map] ELSE terrain
      /\ IF listening /\ IsResult(m)
         THEN /\ results' = [results EXCEPT ![e] = m]
              /\ dataReady' = [dataReady EXCEPT ![e] = TRUE]
         ELSE UNCHANGED <<results, dataReady>>
      /\ UNCHANGED <<state, toSend, playing, clientRound, army, upgraded>>

-----------------------------------------------------------------------------
(* The life of a client *)

Forget(e) ==
  /\ state' = [state EXCEPT ![e] = "Menu"]
  /\ toSend' = [toSend EXCEPT ![e] = <<>>]
  /\ allConnected' = [allConnected EXCEPT ![e] = FALSE]
  /\ terrain' = [terrain EXCEPT ![e] = 0]
  /\ dataReady' = [dataReady EXCEPT ![e] = FALSE]
  /\ results' = [results EXCEPT ![e] = NoResults]
  /\ playing' = [playing EXCEPT ![e] = NoResults]
  /\ clientRound' = [clientRound EXCEPT ![e] = 1]
  /\ army' = [army EXCEPT ![e] = {}]
  /\ upgraded' = [upgraded EXCEPT ![e] = FALSE]

Leave(e)  == e \in MayLeave /\ ClientLeave(e) /\ Forget(e)
Return(e) == ClientReturn(e) /\ UNCHANGED client

ClientStep(e) ==
  \/ Create(e) \/ SendOpening(e) \/ BeginMatch(e) \/ SelectUnits(e)
  \/ BuyUpgrade(e) \/ ReadyRound(e) \/ StartPlayback(e) \/ EndPlayback(e)
  \/ Receive(e) \/ Leave(e) \/ Return(e)

-----------------------------------------------------------------------------
MatchInit ==
  /\ Init
  /\ state = [e \in Endpoint |-> "Menu"]
  /\ toSend = [e \in Endpoint |-> <<>>]
  /\ allConnected = [e \in Endpoint |-> FALSE]
  /\ terrain = [e \in Endpoint |-> 0]
  /\ dataReady = [e \in Endpoint |-> FALSE]
  /\ results = [e \in Endpoint |-> NoResults]
  /\ playing = [e \in Endpoint |-> NoResults]
  /\ clientRound = [e \in Endpoint |-> 1]
  /\ army = [e \in Endpoint |-> {}]
  /\ upgraded = [e \in Endpoint |-> FALSE]

MatchNext ==
  \/ MainNext /\ UNCHANGED client
  \/ AsioNext /\ UNCHANGED client
  \/ \E e \in Endpoint : ClientStep(e)

MatchSpec == MatchInit /\ [][MatchNext]_matchVars

\* Server threads and client threads are scheduled by the operating system and
\* TCP delivers: whatever they can do without a decision of a player is done.
\* No fairness for what a player decides (SelectUnits, BuyUpgrade, ReadyRound,
\* Leave) or for a new client (Create, Return).
MatchFairness ==
  /\ WF_matchVars(MainNext /\ UNCHANGED client)
  /\ WF_matchVars(AsioNext /\ UNCHANGED client)
  /\ \A e \in Endpoint :
       WF_matchVars(SendOpening(e) \/ BeginMatch(e) \/ StartPlayback(e)
                      \/ EndPlayback(e))
  /\ \A e \in Endpoint : WF_matchVars(Receive(e))

FairMatchSpec == MatchSpec /\ MatchFairness

-----------------------------------------------------------------------------
(* Properties *)

\* The clients' variables have their types; the server's are in TypeOK.
ClientTypeOK ==
  /\ state \in [Endpoint -> {"Menu", "WaitForAllPlayers", "SelectStartingUnits",
                 "PlaceUnits", "WaitForSimulationResults", "Playback"}]
  /\ toSend \in [Endpoint -> Seq({AddBot, InitialPing})]
  /\ allConnected \in [Endpoint -> BOOLEAN] /\ terrain \in [Endpoint -> Nat]
  /\ dataReady \in [Endpoint -> BOOLEAN]
  /\ clientRound \in [Endpoint -> 1..(MaxRounds + 1)]
  /\ army \in [Endpoint -> SUBSET UnitId] /\ upgraded \in [Endpoint -> BOOLEAN]
  /\ results \in [Endpoint -> Result] /\ playing \in [Endpoint -> Result]

InMatch(e) == state[e] \notin {"Menu", "WaitForAllPlayers"}

\* The simulation belongs to one thread at a time: the main thread, which runs
\* a round without m_mutex, never overlaps a handler that changes units,
\* upgrades or the map.
MainUsesSimulation == mainPc \in {"ai", "start", "simulate"}
AsioUsesSimulation ==
  \/ asioPc = "apply"
  \/ asioPc = "dispatch" /\ current.msg.type = "UnitUpgrade"
  \/ asioPc = "count" /\ Cardinality(players) + Cardinality(bots) = 2
SimulationExclusive == ~(MainUsesSimulation /\ AsioUsesSimulation)

\* A client that has entered the match plays under the id the server has for
\* its connection, so that its orders are not dropped by handleMessage.
PlaysUnderItsId ==
  \A e \in Endpoint : InMatch(e) =>
     clientId[e] \in players /\ endpointOf[clientId[e]] = e

\* Clients place units on the map the server simulates on.
SameTerrain == \A e \in Endpoint : InMatch(e) => terrain[e] = map

\* The results a client waits with are those of the round it is in: none is
\* missed, repeated or left over from an earlier round.
ResultsOfThisRound ==
  \A e \in Endpoint : dataReady[e] =>
     /\ state[e] = "WaitForSimulationResults"
     /\ results[e].round = clientRound[e]

UnitIdsOf(i, us) == {u.id : u \in {v \in us : v.player = i}}

\* The client's army in the results is the one the client commands: every unit
\* placed has been simulated, every unit sold has not, and none was dropped.
OwnArmyFights ==
  \A e \in Endpoint : dataReady[e] =>
     UnitIdsOf(clientId[e], results[e].units) = army[e]

\* A client enters the match only as one of its players.
EntersAsPlayer == \A e \in Endpoint : InMatch(e) => clientId[e] # NoId

\* A new player never takes the slot of a player who is still there.
NoTakeover ==
  [][\A i \in players \cap players' : endpointOf'[i] = endpointOf[i]]_matchVars

\* A server without a match is as good as new.
ResetIsComplete ==
  ~matchHasStarted => round = 1 /\ units = {} /\ upgrades = {}

\* A bot has fielded exactly one new unit in every round so far.
BotKeepsUp ==
  \A e \in Endpoint : dataReady[e] =>
     \A b \in bots : UnitIdsOf(b, results[e].units) = 1..results[e].round

\* Once all clients have ended their placement for a round, each of them sees
\* its result: the clients never wait for each other or for a lost message.
AllWaitFor(r) ==
  \A e \in Endpoint :
     state[e] = "WaitForSimulationResults" /\ clientRound[e] = r

RoundsAreAnswered ==
  \A r \in 1..MaxRounds, e \in Endpoint : AllWaitFor(r) ~> state[e] = "Playback"

\* The server forgets a player whose client is gone, unless it has ended: the
\* slot does not stay taken.
LeaversAreForgotten ==
  \A e \in Endpoint :
     link[e] = "left" ~> \/ link[e] # "left"
                         \/ \A i \in players : endpointOf[i] # e
                         \/ mainPc = "ended"

\* The clients of the program are clients as GameServer assumes them, so that
\* what holds there holds in a match: every order carries the id they have.
OpenServerSpec == Spec

-----------------------------------------------------------------------------
(* The match of two clients implements the round protocol *)

ServerIdOf(e) == IF \E i \in players : endpointOf[i] = e
                 THEN CHOOSE i \in players : endpointOf[i] = e ELSE NoId

Protocol == INSTANCE RoundProtocol WITH
  Player    <- Endpoint,
  submitted <- [e \in Endpoint |->
                  IF state[e] \in {"WaitForSimulationResults", "Playback"}
                  THEN clientRound[e] ELSE clientRound[e] - 1],
  fought    <- IF mainPc = "simulate" THEN round ELSE round - 1,
  battle    <- [e \in Endpoint |-> UnitIdsOf(ServerIdOf(e), fighters)],
  seen      <- [e \in Endpoint |->
                  IF state[e] = "Playback" THEN clientRound[e]
                  ELSE clientRound[e] - 1],
  view      <- [e \in Endpoint |-> [f \in Endpoint |->
                  UnitIdsOf(ServerIdOf(f), playing[e].units)]]

\* Every behaviour of the match is one of the round protocol: each round is
\* fought once, with the armies all players handed in, and seen by all.
ProtocolSpec == Protocol!Spec
=============================================================================
