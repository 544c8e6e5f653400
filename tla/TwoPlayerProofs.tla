-------------------------- MODULE TwoPlayerProofs --------------------------
(***************************************************************************)
(* The two matches the game is made for, for any number of rounds, units   *)
(* and messages.                                                           *)
(*                                                                         *)
(* Duet: two clients, no bots, nobody leaves. The two threads of the server*)
(* share the simulation without a race, each client plays under the id and *)
(* on the map the server has for it, the results it gets are those of its  *)
(* round and its army, and the match is one of RoundProtocol. DuetInv says *)
(* where each client stands with the server: which of its messages are in  *)
(* flight or in the hands of the asio thread, and what the two sides know  *)
(* of each other meanwhile.                                                *)
(*                                                                         *)
(* Solo: one client against the bot it adds before or after its ping. The  *)
(* bot fields one new unit in every round, the client fights with exactly  *)
(* the army it commands and gets the results of its round, and the threads *)
(* never use the simulation at the same time. SoloInv follows the messages *)
(* that the server has not handled yet, wherever they are: still to be     *)
(* sent, in flight or in the hands of the asio thread.                     *)
(***************************************************************************)
EXTENDS MatchProofs

USE DEF simulation, lobby, flags, net, mainVars, asioVars, clientVars, channels

-----------------------------------------------------------------------------
(* Duet *)

\* The match: what the run match_two has as constants, for any rounds.
Duet ==
  /\ MayLeave = {} /\ BotChoice = {"none"} /\ PromptServer
  /\ \E a, b : Endpoint = {a, b}

-----------------------------------------------------------------------------
(* The inductive invariant: the server *)

\* Nobody has left and there is no bot, so nothing is ever dropped.
Quiet ==
  /\ link \in [Endpoint -> {"new", "connected"}]
  /\ isOpen = {e \in Endpoint : link[e] = "connected"} /\ sockets = isOpen
  /\ \A e \in Endpoint : ahead[e] \subseteq isOpen
  /\ \A i \in players : endpointOf[i] \in isOpen
  /\ mainPc # "ended" /\ asioPc # "ended"
  /\ bots = {} /\ botCopy = {}

\* The asio thread is between the registration of a player and the end of
\* checkForAllPlayersConnected.
Joining == asioPc \in {"respond", "count", "announce"}

\* Both players are there before the match starts, which it does once.
Opened ==
  /\ players \in {{}, {0}, {0, 1}}
  /\ asioPc = "announce" => players = {0, 1}
  /\ matchHasStarted => players = {0, 1} /\ ~Joining
  /\ ~matchHasStarted => units = {} /\ fighters = {} /\ round = 1

EveryoneReady == players = {0, 1} /\ \A i \in players : roundReady[i]

\* m_allPlayersReady hands the simulation to the main thread, and it is set
\* only when both players are ready and the asio thread has nothing to do.
Rounds ==
  /\ simulationStarted <=> mainPc \in {"simulate", "unready"}
  /\ mainPc \in {"ai", "start", "simulate", "unready"} => allPlayersReady
  /\ allPlayersReady /\ mainPc # "unready" => EveryoneReady /\ asioPc = "idle"
  /\ asioPc = "store" => EveryoneReady /\ ~allPlayersReady
  /\ mainPc = "simulate" => fighters = units

-----------------------------------------------------------------------------
(* The inductive invariant: where a client stands *)

NoHand == [pc |-> "idle", msg |-> InitialPing]

\* What the asio thread is doing for a client.
Hand(e) == IF asioPc # "idle" /\ current.from = e
           THEN [pc |-> asioPc, msg |-> current.msg] ELSE NoHand

Dispatches(m) == [pc |-> "dispatch", msg |-> m]

Free(e) == \A i \in players : endpointOf[i] # e

\* No round has begun for the client.
Fresh(e) ==
  /\ ~dataReady[e] /\ clientRound[e] = 1 /\ army[e] = {} /\ ~upgraded[e]
  /\ playing[e] = NoResults

\* The server has no player for the client yet: its ping has still to be sent,
\* or is on its way, or is being handled.
Unseated(e) ==
  /\ Fresh(e) /\ clientId[e] = NoId /\ ~allConnected[e] /\ outbox[e] = <<>>
  /\ \/ /\ state[e] = "Menu" /\ toSend[e] = <<>> /\ inbox[e] = <<>>
        /\ Hand(e) = NoHand
     \/ /\ state[e] = "WaitForAllPlayers" /\ link[e] = "connected"
        /\ \/ toSend[e] = <<InitialPing>> /\ inbox[e] = <<>> /\ Hand(e) = NoHand
           \/ toSend[e] = <<>> /\ inbox[e] = <<InitialPing>> /\ Hand(e) = NoHand
           \/ toSend[e] = <<>> /\ inbox[e] = <<>>
                /\ Hand(e) = Dispatches(InitialPing)

\* The client's id, and then the announcement of the match, are on their way.
Registered(i, e) ==
  /\ Fresh(e) /\ state[e] = "WaitForAllPlayers" /\ ~allConnected[e]
  /\ toSend[e] = <<>> /\ inbox[e] = <<>> /\ ~roundReady[i]
  /\ round = 1 /\ UnitIdsOf(i, units) = {}
  /\ Hand(e).pc \in {"idle", "respond", "count", "announce"}
  /\ \/ /\ Hand(e).pc = "respond" /\ Hand(e).msg.playerId = i
        /\ ~matchHasStarted /\ clientId[e] = NoId /\ outbox[e] = <<>>
     \/ /\ Hand(e).pc # "respond" /\ ~matchHasStarted
        /\ \/ clientId[e] = NoId /\ outbox[e] = <<PlayerIdResponse(i)>>
           \/ clientId[e] = i /\ outbox[e] = <<>>
     \/ /\ Hand(e).pc # "respond" /\ matchHasStarted
        /\ \/ /\ clientId[e] = NoId
              /\ outbox[e] = <<PlayerIdResponse(i), AllPlayersConnected(map)>>
           \/ clientId[e] = i /\ outbox[e] = <<AllPlayersConnected(map)>>

\* Client and server agree on the id and on the map.
InTouch(i, e) ==
  /\ clientId[e] = i /\ allConnected[e] /\ terrain[e] = map
  /\ matchHasStarted /\ toSend[e] = <<>>

Starting(i, e) ==
  /\ Fresh(e) /\ state[e] \in {"WaitForAllPlayers", "SelectStartingUnits"}
  /\ InTouch(i, e) /\ inbox[e] = <<>> /\ outbox[e] = <<>> /\ Hand(e) = NoHand
  /\ ~roundReady[i] /\ round = 1 /\ UnitIdsOf(i, units) = {}

\* A flag that is still set is about to be cleared by the unlocked loop.
Cleared(i) == roundReady[i] => mainPc = "unready" /\ i >= cursor

\* The client is in the server's round, whose order it has yet to give.
Placing(i, e) ==
  /\ state[e] = "PlaceUnits" /\ InTouch(i, e)
  /\ ~dataReady[e] /\ outbox[e] = <<>> /\ clientRound[e] = round
  /\ Cleared(i) /\ army[e] = UnitIdsOf(i, units)
  /\ \/ inbox[e] = <<>> /\ Hand(e) = NoHand
     \/ inbox[e] = <<UnitUpgrade(i)>> /\ Hand(e) = NoHand /\ upgraded[e]
     \/ inbox[e] = <<>> /\ Hand(e) = Dispatches(UnitUpgrade(i)) /\ upgraded[e]

\* The order of the client is on its way or being handled.
OrderInFlight(i, e, m) ==
  \/ inbox[e] = <<m>> /\ Hand(e) \in {NoHand, Dispatches(UnitUpgrade(i))}
  \/ inbox[e] = <<UnitUpgrade(i), m>> /\ Hand(e) = NoHand
  \/ inbox[e] = <<>> /\ Hand(e) \in {Dispatches(m), [pc |-> "apply", msg |-> m]}

Sent(i, e) ==
  /\ state[e] = "WaitForSimulationResults" /\ InTouch(i, e)
  /\ ~dataReady[e] /\ outbox[e] = <<>> /\ clientRound[e] = round
  /\ ~roundReady[i] /\ mainPc # "unready"
  /\ \E placed, sold \in SUBSET UnitId :
       /\ army[e] = (UnitIdsOf(i, units) \cup placed) \ sold
       /\ OrderInFlight(i, e, RoundReady(i, placed, sold))

\* The order has been carried out.
Waiting(i, e) ==
  /\ state[e] = "WaitForSimulationResults" /\ InTouch(i, e)
  /\ ~dataReady[e] /\ outbox[e] = <<>> /\ clientRound[e] = round
  /\ roundReady[i] /\ mainPc # "unready"
  /\ army[e] = UnitIdsOf(i, units) /\ inbox[e] = <<>>
  /\ Hand(e).pc \in {"idle", "store"}

\* The round has been fought and the server is in the next one: the result is
\* on its way, or there, or played back.
Fought(i, e) ==
  /\ InTouch(i, e) /\ clientRound[e] = round - 1 /\ Cleared(i)
  /\ army[e] = UnitIdsOf(i, units) /\ army[e] = UnitIdsOf(i, fighters)
  /\ inbox[e] = <<>> /\ Hand(e) = NoHand
  /\ \/ /\ state[e] = "WaitForSimulationResults" /\ ~dataReady[e]
        /\ outbox[e] = <<SimulationResult(round - 1, fighters)>>
     \/ /\ state[e] = "WaitForSimulationResults" /\ dataReady[e]
        /\ results[e] = SimulationResult(round - 1, fighters)
        /\ outbox[e] = <<>>
     \/ state[e] = "Playback" /\ ~dataReady[e] /\ outbox[e] = <<>>

Seat(i, e) ==
  \/ Registered(i, e) \/ Starting(i, e) \/ Placing(i, e) \/ Sent(i, e)
  \/ Waiting(i, e) \/ Fought(i, e)

Seats ==
  /\ \A e \in Endpoint : Free(e) => Unseated(e)
  /\ \A i \in players : Seat(i, endpointOf[i])

DuetInv == Quiet /\ Opened /\ Rounds /\ Seats

-----------------------------------------------------------------------------
(* Lemmas about the seats *)

\* The seats are counted.
LEMMA SeatCount ==
  ASSUME bots = {}
  PROVE  /\ players = {} => NumberOfConnectedPlayers = 0
         /\ players = {0} => NumberOfConnectedPlayers = 1
         /\ players = {0, 1} => NumberOfConnectedPlayers = 2
<1>1. Cardinality({}) = 0 /\ Cardinality({0}) = 1
  BY FS_EmptySet, FS_Singleton
<1>2. Cardinality({0, 1}) = 2
  <2>1. IsFiniteSet({0}) /\ {0, 1} = {0} \cup {1}
    BY FS_Singleton
  <2> QED BY <1>1, <2>1, FS_AddElement
<1> QED BY <1>1, <1>2 DEF NumberOfConnectedPlayers

\* With both seats taken every client has one.
LEMMA BothSeated ==
  ASSUME Duet, IInv, players = {0, 1}, NEW e \in Endpoint
  PROVE  ~Free(e)
BY DEF Duet, IInv, TypeOK, Lobby, NoGhostPlayer, OnePlayerPerEndpoint, Free
-----------------------------------------------------------------------------
(* Frames: what a seat depends on *)

\* The client's own state, its queues and its message in hand.
Local(e) == <<state[e], toSend[e], allConnected[e], terrain[e], dataReady[e],
              results[e], playing[e], clientRound[e], army[e], upgraded[e],
              clientId[e], inbox[e], outbox[e], Hand(e)>>

\* The server's state that concerns player i.
Shared(i) == <<roundReady[i], round, map, matchHasStarted, fighters,
               UnitIdsOf(i, units), mainPc = "unready", cursor>>

LEMMA UnseatedFrame ==
  ASSUME NEW e \in Endpoint, Unseated(e), UNCHANGED Local(e), link'[e] = link[e]
  PROVE  Unseated(e)'
BY DEF Unseated, Fresh, Local

LEMMA SeatFrame ==
  ASSUME NEW i, NEW e, Seat(i, e), UNCHANGED Local(e), UNCHANGED Shared(i)
  PROVE  Seat(i, e)'
<1> USE DEF Local, Shared
<1>1. CASE Registered(i, e)
  BY <1>1 DEF Registered, Fresh, Seat
<1>2. CASE Starting(i, e)
  BY <1>2 DEF Starting, Fresh, InTouch, Seat
<1>3. CASE Placing(i, e)
  BY <1>3 DEF Placing, InTouch, Cleared, Seat
<1>4. CASE Sent(i, e)
  BY <1>4 DEF Sent, InTouch, OrderInFlight, Seat
<1>5. CASE Waiting(i, e)
  BY <1>5 DEF Waiting, InTouch, Seat
<1>6. CASE Fought(i, e)
  BY <1>6 DEF Fought, InTouch, Cleared, Seat
<1> QED BY <1>1, <1>2, <1>3, <1>4, <1>5, <1>6 DEF Seat

\* A step for one client leaves the others where they stand.
LEMMA OneClientActs ==
  ASSUME Base, Seats, NEW e \in Endpoint,
         UNCHANGED <<players, endpointOf>>,
         \A f \in Endpoint \ {e} : UNCHANGED Local(f) /\ link'[f] = link[f],
         \A i \in players : endpointOf[i] # e => UNCHANGED Shared(i),
         \/ Free(e) /\ Unseated(e)'
         \/ \E i \in players : endpointOf[i] = e /\ Seat(i, e)'
  PROVE  Seats'
<1>1. ASSUME NEW f \in Endpoint, Free(f)' PROVE Unseated(f)'
  <2>1. Free(f)
    BY <1>1 DEF Free
  <2>2. CASE f = e
    BY <2>1, <2>2 DEF Free
  <2>3. CASE f # e
    BY <2>1, <2>3, UnseatedFrame DEF Seats
  <2> QED BY <2>2, <2>3
<1>2. ASSUME NEW i \in players PROVE Seat(i, endpointOf[i])'
  <2>1. endpointOf[i] \in Endpoint
    BY DEF Base, IInv, TypeOK, Lobby, NoGhostPlayer
  <2>2. CASE endpointOf[i] = e
    <3>1. PICK j \in players : endpointOf[j] = e /\ Seat(j, e)'
      BY <2>2 DEF Free
    <3>2. i = j
      BY <2>2, <3>1 DEF Base, IInv, Lobby, OnePlayerPerEndpoint
    <3> QED BY <2>2, <3>1, <3>2
  <2>3. CASE endpointOf[i] # e
    <3> DEFINE f == endpointOf[i]
    <3>1. Seat(i, f) /\ UNCHANGED Local(f) /\ UNCHANGED Shared(i)
      BY <2>1, <2>3 DEF Seats
    <3>2. Seat(i, f)'
      BY <3>1, SeatFrame
    <3> QED BY <3>2
  <2> QED BY <2>2, <2>3
<1> QED BY <1>1, <1>2 DEF Seats

\* A step of the server for nobody in particular.
LEMMA NobodyActs ==
  ASSUME Base, Seats, UNCHANGED <<players, endpointOf, link>>,
         \A f \in Endpoint : UNCHANGED Local(f),
         \A i \in players : UNCHANGED Shared(i)
  PROVE  Seats'
<1>1. ASSUME NEW f \in Endpoint, Free(f)' PROVE Unseated(f)'
  BY <1>1, UnseatedFrame DEF Free, Seats
<1>2. ASSUME NEW i \in players PROVE Seat(i, endpointOf[i])'
  <2> DEFINE f == endpointOf[i]
  <2>1. f \in Endpoint
    BY DEF Base, IInv, TypeOK, Lobby, NoGhostPlayer
  <2>2. Seat(i, f)'
    BY <2>1, SeatFrame DEF Seats
  <2> QED BY <2>2
<1> QED BY <1>1, <1>2 DEF Seats

\* Whose message is not in hand before or after a step has none all along.
LEMMA OtherHands ==
  ASSUME NEW e, asioPc = "idle" \/ current.from = e,
         asioPc' = "idle" \/ current'.from = e, NEW f, f # e
  PROVE  UNCHANGED Hand(f)
BY DEF Hand

-----------------------------------------------------------------------------
(* The stage of a client, by what is seen of it *)

LEMMA StageOfClient ==
  ASSUME Base, Seats, NEW e \in Endpoint
  PROVE  /\ state[e] = "Menu" => Free(e)
         /\ toSend[e] # <<>> => Free(e)
         /\ Free(e) => Unseated(e)
         /\ ~Free(e) => \E i \in players : endpointOf[i] = e /\ Seat(i, e)
         /\ state[e] \notin {"Menu", "WaitForAllPlayers"} => ~Free(e)
         /\ allConnected[e] => ~Free(e)
<1>1. \A i \in players : endpointOf[i] = e => Seat(i, e)
  BY DEF Seats
<1>2. \A i : Seat(i, e) => state[e] # "Menu" /\ toSend[e] = <<>>
  BY DEF Seat, Registered, Starting, Placing, Sent, Waiting, Fought, InTouch
<1>3. Free(e) => Unseated(e)
  BY DEF Seats
<1>4. Unseated(e) => /\ state[e] \in {"Menu", "WaitForAllPlayers"}
                     /\ ~allConnected[e]
  BY DEF Unseated
<1> QED BY <1>1, <1>2, <1>3, <1>4 DEF Free

-----------------------------------------------------------------------------
(* The steps of the clients *)

\* What a client does without the server leaves the server as it is.
LEMMA ServerUntouched ==
  ASSUME Base, DuetInv, UNCHANGED server, UNCHANGED link,
         NEW e \in Endpoint,
         \A f \in Endpoint \ {e} : UNCHANGED Local(f),
         \/ Free(e) /\ Unseated(e)'
         \/ \E i \in players : endpointOf[i] = e /\ Seat(i, e)'
  PROVE  DuetInv'
<1> USE DEF server
<1>1. Quiet' /\ Opened' /\ Rounds'
  BY DEF DuetInv, Quiet, Opened, Joining, Rounds, EveryoneReady
<1>2. \A i \in players : UNCHANGED Shared(i)
  BY DEF Shared, UnitIdsOf
<1>3. Seats'
  BY <1>2, OneClientActs DEF DuetInv
<1> QED BY <1>1, <1>3 DEF DuetInv

LEMMA CreateDuet ==
  ASSUME Duet, Base, DuetInv, NEW e \in Endpoint, Create(e)
  PROVE  DuetInv'
<1>1. /\ state[e] = "Menu" /\ link[e] = "connected"
      /\ toSend' = [toSend EXCEPT ![e] = Opening("none")]
      /\ state' = [state EXCEPT ![e] = "WaitForAllPlayers"]
      /\ UNCHANGED <<vars, allConnected, terrain, dataReady, results, playing,
                     clientRound, army, upgraded>>
  BY DEF Create, Duet
<1>2. Opening("none") = <<InitialPing>>
  BY DEF Opening
<1>3. UNCHANGED server /\ UNCHANGED <<clientId, inbox, outbox, link>>
  BY <1>1 DEF vars, server
<1>4. Free(e) /\ Unseated(e)
  BY <1>1, StageOfClient DEF DuetInv
<1>5. \A f \in Endpoint : UNCHANGED Hand(f)
  BY <1>3 DEF Hand, server
<1>6. Unseated(e)'
  <2>1. toSend'[e] = <<InitialPing>> /\ state'[e] = "WaitForAllPlayers"
    BY <1>1, <1>2 DEF Base, ClientInv, ClientTypeOK
  <2>2. inbox[e] = <<>> /\ Hand(e) = NoHand
    BY <1>1, <1>4 DEF Unseated
  <2> QED BY <1>1, <1>3, <1>4, <1>5, <2>1, <2>2 DEF Unseated, Fresh
<1>7. \A f \in Endpoint \ {e} : UNCHANGED Local(f)
  BY <1>1, <1>3, <1>5 DEF Local, Base, ClientInv, ClientTypeOK
<1> QED BY <1>3, <1>4, <1>6, <1>7, ServerUntouched

LEMMA SendOpeningDuet ==
  ASSUME Duet, Base, DuetInv, NEW e \in Endpoint, SendOpening(e)
  PROVE  DuetInv'
<1>1. /\ toSend[e] # <<>>
      /\ inbox' = [inbox EXCEPT ![e] = Append(@, Head(toSend[e]))]
      /\ toSend' = [toSend EXCEPT ![e] = Tail(@)]
      /\ UNCHANGED server
      /\ UNCHANGED <<link, clientId, outbox, state, allConnected, terrain,
                     dataReady, results, playing, clientRound, army, upgraded>>
  BY DEF SendOpening, Send
<1>2. Free(e) /\ Unseated(e)
  BY <1>1, StageOfClient DEF DuetInv
<1>3. /\ toSend[e] = <<InitialPing>> /\ inbox[e] = <<>> /\ Hand(e) = NoHand
      /\ state[e] = "WaitForAllPlayers" /\ link[e] = "connected"
  BY <1>1, <1>2 DEF Unseated
<1>4. \A f \in Endpoint : UNCHANGED Hand(f)
  BY <1>1 DEF Hand, server
<1>5. Unseated(e)'
  <2>1. inbox'[e] = <<InitialPing>> /\ toSend'[e] = <<>>
    BY <1>1, <1>3, ShortQueues
       DEF Base, IInv, TypeOK, ClientInv, ClientTypeOK
  <2> QED BY <1>1, <1>2, <1>3, <1>4, <2>1 DEF Unseated, Fresh
<1>6. \A f \in Endpoint \ {e} : UNCHANGED Local(f)
  BY <1>1, <1>4 DEF Local, Base, IInv, TypeOK, ClientInv, ClientTypeOK
<1> QED BY <1>1, <1>2, <1>5, <1>6, ServerUntouched

LEMMA SelectUnitsDuet ==
  ASSUME Duet, Base, DuetInv, NEW e \in Endpoint,
         BeginMatch(e) \/ SelectUnits(e)
  PROVE  DuetInv'
<1>1. /\ UNCHANGED <<vars, toSend, allConnected, terrain, dataReady, results,
                     playing, clientRound, army, upgraded>>
      /\ \/ /\ state[e] = "WaitForAllPlayers" /\ allConnected[e]
            /\ state' = [state EXCEPT ![e] = "SelectStartingUnits"]
         \/ /\ state[e] = "SelectStartingUnits"
            /\ state' = [state EXCEPT ![e] = "PlaceUnits"]
  BY DEF BeginMatch, SelectUnits
<1>2. PICK i \in players : endpointOf[i] = e /\ Seat(i, e)
  BY <1>1, StageOfClient DEF DuetInv
<1>3. Starting(i, e)
  BY <1>1, <1>2 DEF Seat, Registered, Placing, Sent, Waiting, Fought
<1>4. UNCHANGED server /\ UNCHANGED <<clientId, inbox, outbox, link>>
  BY <1>1 DEF vars, server
<1>5. \A f \in Endpoint : UNCHANGED Hand(f)
  BY <1>4 DEF Hand, server
<1>6. state'[e] \in {"SelectStartingUnits", "PlaceUnits"}
  BY <1>1 DEF Base, ClientInv, ClientTypeOK
<1>7. UNCHANGED <<roundReady, round, matchHasStarted, map, mainPc, cursor>>
      /\ UNCHANGED UnitIdsOf(i, units)
  BY <1>4 DEF server, UnitIdsOf
<1>8. Seat(i, e)'
  <2>1. CASE state'[e] = "SelectStartingUnits"
    BY <1>1, <1>3, <1>4, <1>5, <1>7, <2>1 DEF Starting, Fresh, InTouch, Seat
  <2>2. CASE state'[e] = "PlaceUnits"
    BY <1>1, <1>3, <1>4, <1>5, <1>7, <2>2
       DEF Starting, Placing, Fresh, InTouch, Cleared, Seat
  <2> QED BY <1>6, <2>1, <2>2
<1>9. \A f \in Endpoint \ {e} : UNCHANGED Local(f)
  BY <1>1, <1>4, <1>5 DEF Local, Base, ClientInv, ClientTypeOK
<1> QED BY <1>2, <1>4, <1>8, <1>9, ServerUntouched

LEMMA BuyUpgradeDuet ==
  ASSUME Duet, Base, DuetInv, NEW e \in Endpoint, BuyUpgrade(e)
  PROVE  DuetInv'
<1>1. /\ state[e] = "PlaceUnits" /\ ~upgraded[e]
      /\ inbox' = [inbox EXCEPT ![e] = Append(@, UnitUpgrade(clientId[e]))]
      /\ upgraded' = [upgraded EXCEPT ![e] = TRUE]
      /\ UNCHANGED server
      /\ UNCHANGED <<link, clientId, outbox, state, toSend, allConnected,
                     terrain, dataReady, results, playing, clientRound, army>>
  BY DEF BuyUpgrade, Send
<1>2. PICK i \in players : endpointOf[i] = e /\ Seat(i, e)
  BY <1>1, StageOfClient DEF DuetInv
<1>3. Placing(i, e)
  BY <1>1, <1>2 DEF Seat, Registered, Starting, Sent, Waiting, Fought
<1>4. inbox[e] = <<>> /\ Hand(e) = NoHand
  BY <1>1, <1>3 DEF Placing
<1>5. \A f \in Endpoint : UNCHANGED Hand(f)
  BY <1>1 DEF Hand, server
<1>6. inbox'[e] = <<UnitUpgrade(i)>> /\ upgraded'[e]
  BY <1>1, <1>3, <1>4, ShortQueues
     DEF Placing, InTouch, Base, IInv, TypeOK, ClientInv, ClientTypeOK
<1>7. Seat(i, e)'
  BY <1>1, <1>3, <1>4, <1>5, <1>6
     DEF Placing, InTouch, Cleared, UnitIdsOf, server, Seat
<1>8. \A f \in Endpoint \ {e} : UNCHANGED Local(f)
  BY <1>1, <1>5 DEF Local, Base, IInv, TypeOK, ClientInv, ClientTypeOK
<1> QED BY <1>1, <1>2, <1>7, <1>8, ServerUntouched

LEMMA ReadyRoundDuet ==
  ASSUME Duet, Base, DuetInv, NEW e \in Endpoint, ReadyRound(e)
  PROVE  DuetInv'
<1>1. /\ state[e] = "PlaceUnits" /\ clientRound[e] <= MaxRounds
      /\ mainPc # "unready"
      /\ state' = [state EXCEPT ![e] = "WaitForSimulationResults"]
      /\ UNCHANGED server
      /\ UNCHANGED <<link, clientId, outbox, toSend, allConnected, terrain,
                     dataReady, results, playing, clientRound, upgraded>>
  BY DEF ReadyRound, Duet
<1>2. PICK placed \in {{}, {clientRound[e]}} :
        \E sold \in {{}} \cup {{n} : n \in army[e] \ placed} :
          /\ Send(e, RoundReady(clientId[e], placed, sold))
          /\ army' = [army EXCEPT ![e] = (@ \cup placed) \ sold]
  BY DEF ReadyRound
<1>3. PICK sold \in {{}} \cup {{n} : n \in army[e] \ placed} :
        /\ Send(e, RoundReady(clientId[e], placed, sold))
        /\ army' = [army EXCEPT ![e] = (@ \cup placed) \ sold]
  BY <1>2
<1>4. placed \in SUBSET UnitId /\ sold \in SUBSET UnitId
  BY <1>1, RoundsAssumption DEF Base, OrdersInv
<1>5. PICK i \in players : endpointOf[i] = e /\ Seat(i, e)
  BY <1>1, StageOfClient DEF DuetInv
<1>6. Placing(i, e)
  BY <1>1, <1>5 DEF Seat, Registered, Starting, Sent, Waiting, Fought
<1> DEFINE m == RoundReady(i, placed, sold)
<1>7. /\ inbox' = [inbox EXCEPT ![e] = Append(@, m)]
      /\ army' = [army EXCEPT ![e] = (@ \cup placed) \ sold]
  BY <1>3, <1>6 DEF Send, Placing, InTouch
<1>8. \A f \in Endpoint : UNCHANGED Hand(f)
  BY <1>1 DEF Hand, server
<1> HIDE DEF m
<1>9. OrderInFlight(i, e, m)'
  <2>1. inbox'[e] = Append(inbox[e], m)
    BY <1>7 DEF Base, IInv, TypeOK
  <2>2. CASE inbox[e] = <<>>
    <3>1. inbox'[e] = <<m>>
      BY <2>1, <2>2, ShortQueues
    <3>2. Hand(e)' \in {NoHand, Dispatches(UnitUpgrade(i))}
      BY <1>6, <1>8, <2>2, ShortQueues DEF Placing
    <3> QED BY <3>1, <3>2 DEF OrderInFlight
  <2>3. CASE inbox[e] # <<>>
    <3>1. inbox[e] = <<UnitUpgrade(i)>> /\ Hand(e) = NoHand
      BY <1>6, <2>3 DEF Placing
    <3>2. inbox'[e] = <<UnitUpgrade(i), m>>
      BY <2>1, <3>1, AppendToOne
    <3> QED BY <1>8, <3>1, <3>2 DEF OrderInFlight
  <2> QED BY <2>2, <2>3
<1>10. /\ ~roundReady[i] /\ army'[e] = (UnitIdsOf(i, units) \cup placed) \ sold
       /\ state'[e] = "WaitForSimulationResults"
  BY <1>1, <1>6, <1>7
     DEF Placing, Cleared, Base, OrdersInv, ClientInv, ClientTypeOK
<1>11. Sent(i, e)'
  BY <1>1, <1>4, <1>6, <1>9, <1>10
     DEF Sent, Placing, InTouch, UnitIdsOf, server, m
<1>12. \A f \in Endpoint \ {e} : UNCHANGED Local(f)
  BY <1>1, <1>7, <1>8
     DEF Local, Base, IInv, TypeOK, OrdersInv, ClientInv, ClientTypeOK
<1> QED BY <1>1, <1>5, <1>11, <1>12, ServerUntouched DEF Seat

LEMMA PlaybackDuet ==
  ASSUME Duet, Base, DuetInv, NEW e \in Endpoint,
         StartPlayback(e) \/ EndPlayback(e)
  PROVE  DuetInv'
<1>1. /\ UNCHANGED <<vars, toSend, allConnected, terrain, army, upgraded>>
      /\ \/ /\ state[e] = "WaitForSimulationResults" /\ dataReady[e]
            /\ state' = [state EXCEPT ![e] = "Playback"]
            /\ dataReady' = [dataReady EXCEPT ![e] = FALSE]
            /\ playing' = [playing EXCEPT ![e] = results[e]]
            /\ results' = [results EXCEPT ![e] = NoResults]
            /\ UNCHANGED clientRound
         \/ /\ state[e] = "Playback"
            /\ state' = [state EXCEPT ![e] = "PlaceUnits"]
            /\ clientRound' = [clientRound EXCEPT ![e] = @ + 1]
            /\ UNCHANGED <<dataReady, playing, results>>
  BY DEF StartPlayback, EndPlayback
<1>2. PICK i \in players : endpointOf[i] = e /\ Seat(i, e)
  BY <1>1, StageOfClient DEF DuetInv
<1>3. Fought(i, e)
  BY <1>1, <1>2 DEF Seat, Registered, Starting, Placing, Sent, Waiting, Fresh
<1>4. UNCHANGED server /\ UNCHANGED <<clientId, inbox, outbox, link>>
  BY <1>1 DEF vars, server
<1>5. \A f \in Endpoint : UNCHANGED Hand(f)
  BY <1>4 DEF Hand, server
<1>6. UNCHANGED <<roundReady, round, matchHasStarted, map, fighters, mainPc,
                  cursor, units>>
  BY <1>4 DEF server
<1>7. Seat(i, e)'
  <2>1. CASE state[e] = "WaitForSimulationResults"
    <3>1. state'[e] = "Playback" /\ ~dataReady'[e] /\ UNCHANGED clientRound
      BY <1>1, <2>1 DEF Base, ClientInv, ClientTypeOK
    <3>2. outbox[e] = <<>>
      BY <1>1, <1>3, <2>1 DEF Fought
    <3> QED BY <1>1, <1>3, <1>4, <1>5, <1>6, <3>1, <3>2
            DEF Fought, InTouch, Cleared, UnitIdsOf, Seat
  <2>2. CASE state[e] = "Playback"
    <3>1. /\ state'[e] = "PlaceUnits" /\ clientRound'[e] = clientRound[e] + 1
          /\ UNCHANGED dataReady
      BY <1>1, <2>2 DEF Base, ClientInv, ClientTypeOK
    <3>2. ~dataReady[e] /\ outbox[e] = <<>>
      BY <1>3, <2>2 DEF Fought
    <3>3. clientRound'[e] = round
      BY <1>3, <3>1 DEF Fought, Base, IInv, TypeOK
    <3> QED BY <1>1, <1>3, <1>4, <1>5, <1>6, <3>1, <3>2, <3>3
            DEF Fought, Placing, InTouch, Cleared, UnitIdsOf, Seat
  <2> QED BY <1>1, <2>1, <2>2
<1>8. \A f \in Endpoint \ {e} : UNCHANGED Local(f)
  BY <1>1, <1>4, <1>5 DEF Local, Base, ClientInv, ClientTypeOK
<1> QED BY <1>2, <1>4, <1>7, <1>8, ServerUntouched

\* A client takes its id, the announcement and the result in this order.
LEMMA ReceiveDuet ==
  ASSUME Duet, Base, DuetInv, NEW e \in Endpoint, Receive(e)
  PROVE  DuetInv'
<1> DEFINE m == Head(outbox[e])
<1>1. /\ outbox[e] # <<>>
      /\ outbox' = [outbox EXCEPT ![e] = Tail(@)]
      /\ TakeId(e, m)
      /\ UNCHANGED server
      /\ UNCHANGED <<link, inbox, state, toSend, playing, clientRound, army,
                     upgraded>>
  BY DEF Receive, ClientReceive, server
<1>2. ~Free(e) /\ state[e] # "Menu"
  BY <1>1, StageOfClient DEF DuetInv, Unseated
<1>3. /\ allConnected' = [allConnected EXCEPT ![e] =
                            @ \/ m.type = "AllPlayersConnected"]
      /\ terrain' = IF m.type = "AllPlayersConnected"
                    THEN [terrain EXCEPT ![e] = m.map] ELSE terrain
      /\ IF m.type = "SimulationResult"
         THEN /\ results' = [results EXCEPT ![e] = m]
              /\ dataReady' = [dataReady EXCEPT ![e] = TRUE]
         ELSE UNCHANGED <<results, dataReady>>
  BY <1>2 DEF Receive, IsResult
<1>4. PICK i \in players : endpointOf[i] = e /\ Seat(i, e)
  BY <1>2, StageOfClient DEF DuetInv
<1>5. /\ i \in PlayerId /\ i # NoId
      /\ UNCHANGED <<roundReady, round, matchHasStarted, map, fighters, mainPc,
                     cursor, units, asioPc, current>>
  BY <1>1, <1>4 DEF server, Base, IInv, TypeOK, PlayerId, NoId
<1>6. \A f \in Endpoint : UNCHANGED Hand(f)
  BY <1>5 DEF Hand
<1>7. outbox'[e] = Tail(outbox[e])
  BY <1>1 DEF Base, IInv, TypeOK
<1>8. Seat(i, e)'
  <2>1. CASE Registered(i, e) /\ m = PlayerIdResponse(i)
    <3>1. /\ m.type = "PlayerIdResponse" /\ m.playerId = i
          /\ UNCHANGED <<allConnected, terrain, results, dataReady>>
      <4>1. m.type = "PlayerIdResponse" /\ m.playerId = i
        BY <2>1 DEF PlayerIdResponse
      <4> QED BY <1>3, <4>1 DEF Base, ClientInv, ClientTypeOK
    <3>2. clientId[e] = NoId
      <4>1. i # NoId /\ AllPlayersConnected(map) # PlayerIdResponse(i)
        BY <1>5 DEF AllPlayersConnected, PlayerIdResponse
      <4> QED BY <1>1, <2>1, <4>1, ShortQueues DEF Registered
    <3>3. clientId'[e] = i
      BY <1>1, <3>1, <3>2 DEF TakeId, Base, IInv, TypeOK
    <3>4. CASE ~matchHasStarted
      <4>1. outbox[e] = <<PlayerIdResponse(i)>> /\ Hand(e).pc # "respond"
        BY <1>1, <2>1, <3>2, <3>4 DEF Registered
      <4>2. outbox'[e] = <<>>
        BY <1>7, <4>1, ShortQueues
      <4> QED BY <1>1, <1>5, <1>6, <2>1, <3>1, <3>3, <3>4, <4>1, <4>2
              DEF Registered, Fresh, UnitIdsOf, Seat
    <3>5. CASE matchHasStarted
      <4>1. /\ outbox[e] = <<PlayerIdResponse(i), AllPlayersConnected(map)>>
            /\ Hand(e).pc # "respond"
        BY <1>1, <1>5, <2>1, <3>2, <3>5 DEF Registered
      <4>2. outbox'[e] = <<AllPlayersConnected(map)>>
        BY <1>7, <4>1, ShortQueues
      <4> QED BY <1>1, <1>5, <1>6, <2>1, <3>1, <3>3, <3>5, <4>1, <4>2
              DEF Registered, Fresh, UnitIdsOf, Seat
    <3> QED BY <3>4, <3>5
  <2>2. CASE Registered(i, e) /\ m # PlayerIdResponse(i)
    <3>1. /\ matchHasStarted /\ clientId[e] = i
          /\ outbox[e] = <<AllPlayersConnected(map)>>
      BY <1>1, <2>2, ShortQueues DEF Registered
    <3>2. m = AllPlayersConnected(map) /\ outbox'[e] = <<>>
      BY <1>7, <3>1, ShortQueues
    <3>3. m.type = "AllPlayersConnected" /\ m.map = map
      BY <3>2 DEF AllPlayersConnected
    <3>4. /\ allConnected'[e] /\ terrain'[e] = map
          /\ UNCHANGED <<clientId, results, dataReady>>
      BY <1>1, <1>3, <3>3 DEF TakeId, Base, ClientInv, ClientTypeOK
    <3>5. Hand(e) = NoHand
      BY <2>2, <3>1 DEF Registered, Hand, DuetInv, Opened, Joining
    <3>6. Starting(i, e)'
      BY <1>1, <1>5, <1>6, <2>2, <3>1, <3>2, <3>4, <3>5
         DEF Registered, Fresh, Starting, InTouch, UnitIdsOf
    <3> QED BY <3>6 DEF Seat
  <2>3. CASE ~Registered(i, e)
    <3>1. /\ Fought(i, e) /\ state[e] = "WaitForSimulationResults"
          /\ outbox[e] = <<SimulationResult(round - 1, fighters)>>
      BY <1>1, <1>4, <2>3
         DEF Seat, Starting, Placing, Sent, Waiting, Fought
    <3>2. /\ m = SimulationResult(round - 1, fighters)
          /\ outbox'[e] = <<>>
      BY <1>7, <3>1, ShortQueues
    <3>3. m.type = "SimulationResult"
      BY <3>2 DEF SimulationResult
    <3>4. /\ results'[e] = m /\ dataReady'[e]
          /\ allConnected'[e] = allConnected[e]
          /\ UNCHANGED <<clientId, terrain>>
      BY <1>1, <1>3, <3>3 DEF TakeId, Base, ClientInv, ClientTypeOK
    <3> QED BY <1>1, <1>5, <1>6, <3>1, <3>2, <3>4
            DEF Fought, InTouch, Cleared, UnitIdsOf, Seat
  <2> QED BY <2>1, <2>2, <2>3
<1>9. \A f \in Endpoint \ {e} : UNCHANGED Local(f)
  <2>1. clientId' = clientId \/ clientId' = [clientId EXCEPT ![e] = m.playerId]
    BY <1>1 DEF TakeId
  <2>2. \A f \in Endpoint \ {e} : clientId'[f] = clientId[f]
    BY <2>1 DEF Base, IInv, TypeOK
  <2>3. \A f \in Endpoint \ {e} :
           UNCHANGED <<results[f], dataReady[f], allConnected[f], terrain[f]>>
    BY <1>3 DEF Base, ClientInv, ClientTypeOK
  <2>4. \A f \in Endpoint \ {e} : outbox'[f] = outbox[f]
    BY <1>1 DEF Base, IInv, TypeOK
  <2> QED BY <1>1, <1>6, <2>2, <2>3, <2>4 DEF Local
<1> QED BY <1>1, <1>4, <1>8, <1>9, ServerUntouched

LEMMA ClientStepDuet ==
  ASSUME Duet, Base, DuetInv, NEW e \in Endpoint, ClientStep(e)
  PROVE  DuetInv'
<1>1. ~Leave(e)
  BY DEF Leave, Duet
<1>2. ~Return(e)
  BY DEF Return, ClientReturn, DuetInv, Quiet
<1> QED BY <1>1, <1>2, CreateDuet, SendOpeningDuet, SelectUnitsDuet,
           BuyUpgradeDuet, ReadyRoundDuet, PlaybackDuet, ReceiveDuet
       DEF ClientStep

-----------------------------------------------------------------------------
(* The steps of the asio thread *)

\* Nobody's socket is closed: nothing throws and everyone is reached.
LEMMA NothingThrows ==
  ASSUME Quiet
  PROVE  /\ \A e : ~WalkThrows(e)
         /\ Reached = isOpen
BY DEF Quiet, WalkThrows, Reached

\* For whom the asio thread works, and with which message.
LEMMA StageInHand ==
  ASSUME Base, DuetInv, asioPc # "idle"
  PROVE  /\ current.from \in Endpoint
         /\ Hand(current.from) = [pc |-> asioPc, msg |-> current.msg]
         /\ Free(current.from) =>
              asioPc = "dispatch" /\ current.msg = InitialPing
         /\ ~Free(current.from) =>
              \E i \in players : endpointOf[i] = current.from
                                   /\ Seat(i, current.from)
<1> DEFINE e == current.from
<1>1. e \in Endpoint
  BY DEF Base, IInv, Handling, SenderIsConnected, TypeOK, DuetInv, Quiet
<1>2. Hand(e) = [pc |-> asioPc, msg |-> current.msg]
  BY DEF Hand
<1>3. Hand(e) # NoHand
  BY <1>2 DEF NoHand
<1>4. ASSUME Free(e) PROVE asioPc = "dispatch" /\ current.msg = InitialPing
  <2>1. Hand(e) = Dispatches(InitialPing)
    BY <1>1, <1>3, <1>4, StageOfClient DEF DuetInv, Unseated
  <2> QED BY <1>2, <2>1 DEF Dispatches
<1>5. ~Free(e) => \E i \in players : endpointOf[i] = e /\ Seat(i, e)
  BY <1>1, StageOfClient DEF DuetInv
<1> QED BY <1>1, <1>2, <1>4, <1>5

\* A seated player's message in hand, stage by stage.
LEMMA SeatInHand ==
  ASSUME NEW i \in PlayerId, NEW e, Seat(i, e), NEW p, NEW m,
         Hand(e) = [pc |-> p, msg |-> m], p # "idle"
  PROVE  /\ p \in {"respond", "count", "announce"} => Registered(i, e)
         /\ p = "dispatch" => \/ m = UnitUpgrade(i) /\ Placing(i, e)
                              \/ m = UnitUpgrade(i) /\ Sent(i, e)
                              \/ m.type = "RoundReady" /\ Sent(i, e)
         /\ p = "apply" => m.type = "RoundReady" /\ Sent(i, e)
         /\ p = "store" => Waiting(i, e)
<1>1. Hand(e).pc = p /\ Hand(e).msg = m /\ Hand(e) # NoHand
  BY DEF NoHand
<1>2. CASE Registered(i, e)
  BY <1>1, <1>2 DEF Registered
<1>3. CASE Starting(i, e) \/ Fought(i, e)
  BY <1>1, <1>3 DEF Starting, Fought
<1>4. CASE Placing(i, e)
  <2>1. Hand(e) = Dispatches(UnitUpgrade(i))
    BY <1>1, <1>4 DEF Placing
  <2> QED BY <1>1, <1>4, <2>1 DEF Dispatches
<1>5. CASE Sent(i, e)
  <2>1. PICK placed, sold : OrderInFlight(i, e, RoundReady(i, placed, sold))
    BY <1>5 DEF Sent
  <2> DEFINE n == RoundReady(i, placed, sold)
  <2>2. n.type = "RoundReady"
    BY DEF RoundReady
  <2> HIDE DEF n
  <2>3. \/ Hand(e) = Dispatches(UnitUpgrade(i))
        \/ Hand(e) = Dispatches(n)
        \/ Hand(e) = [pc |-> "apply", msg |-> n]
    BY <1>1, <2>1 DEF OrderInFlight, n
  <2> QED BY <1>1, <1>5, <2>2, <2>3 DEF Dispatches
<1>6. CASE Waiting(i, e)
  BY <1>1, <1>6 DEF Waiting
<1> QED BY <1>2, <1>3, <1>4, <1>5, <1>6 DEF Seat

\* Only the server moves in a step of its threads.
LEMMA LocalUntouched ==
  ASSUME UNCHANGED client, NEW f, UNCHANGED <<clientId[f], inbox[f], outbox[f]>>,
         UNCHANGED Hand(f)
  PROVE  UNCHANGED Local(f)
BY DEF client, Local

LEMMA AcceptDuet ==
  ASSUME Duet, Base, DuetInv, NEW e \in Endpoint, HandleAccept(e),
         UNCHANGED client
  PROVE  DuetInv'
<1>1. /\ link[e] = "new"
      /\ sockets' = sockets \cup {e} /\ isOpen' = isOpen \cup {e}
      /\ ahead' = [ahead EXCEPT ![e] = sockets]
      /\ link' = [link EXCEPT ![e] = "connected"]
      /\ UNCHANGED <<simulation, lobby, flags, mainVars, asioVars, clientId,
                     channels>>
  BY DEF HandleAccept
<1>2. /\ e \notin isOpen
      /\ \A f \in Endpoint \ {e} : link'[f] = link[f]
      /\ link'[e] = "connected"
  BY <1>1 DEF DuetInv, Quiet
<1>3. Quiet'
  <2>1. isOpen' = {f \in Endpoint : link'[f] = "connected"}
    BY <1>1, <1>2 DEF DuetInv, Quiet
  <2>2. \A f \in Endpoint : ahead'[f] \subseteq isOpen'
    BY <1>1 DEF DuetInv, Quiet, Base, IInv, TypeOK
  <2> QED BY <1>1, <2>1, <2>2 DEF DuetInv, Quiet
<1>4. Opened' /\ Rounds'
  BY <1>1 DEF DuetInv, Opened, Joining, Rounds, EveryoneReady
<1>5. \A f : UNCHANGED Local(f)
  BY <1>1, LocalUntouched DEF Hand
<1>6. \A i \in players : UNCHANGED Shared(i)
  BY <1>1 DEF Shared, UnitIdsOf
<1>7. Free(e)
  BY <1>2 DEF Free, DuetInv, Quiet
<1>8. Unseated(e)'
  <2>1. Unseated(e)
    BY <1>7, StageOfClient DEF DuetInv
  <2> QED BY <1>1, <1>2, <1>5, <2>1 DEF Unseated, Fresh, Local
<1>9. Seats'
  BY <1>1, <1>2, <1>5, <1>6, <1>7, <1>8, OneClientActs DEF DuetInv
<1> QED BY <1>3, <1>4, <1>9 DEF DuetInv

\* What the asio thread leaves as it is in every step but two.
LEMMA AsioFrame ==
  ASSUME Base, DuetInv, UNCHANGED <<players, endpointOf, bots, link>>,
         UNCHANGED <<net, mainVars>>, asioPc' # "ended"
  PROVE  Quiet'
BY DEF DuetInv, Quiet

\* The message is always that of a player the server knows, or a ping.
LEMMA MessageDuet ==
  ASSUME Duet, Base, DuetInv, NEW e \in Endpoint, HandleMessage(e),
         UNCHANGED client
  PROVE  DuetInv'
<1> DEFINE m == Head(inbox[e])
<1>1. /\ asioPc = "idle" /\ inbox[e] # <<>>
      /\ inbox' = [inbox EXCEPT ![e] = Tail(@)]
      /\ UNCHANGED <<simulation, lobby, flags, net, mainVars, clientVars,
                     outbox>>
  BY DEF HandleMessage
<1>2. \A f : Hand(f) = NoHand
  BY <1>1 DEF Hand
<1>3. inbox'[e] = Tail(inbox[e])
  BY <1>1 DEF Base, IInv, TypeOK
<1>4. /\ Free(e) => Unseated(e)
      /\ ~Free(e) => \E i \in players : endpointOf[i] = e /\ Seat(i, e)
  BY StageOfClient DEF DuetInv
<1>5. ASSUME Free(e)
      PROVE  m = InitialPing /\ Tail(inbox[e]) = <<>>
  BY <1>1, <1>2, <1>4, <1>5, ShortQueues DEF Unseated
<1>6. ASSUME NEW i \in players, endpointOf[i] = e, Seat(i, e)
      PROVE  \/ /\ m = UnitUpgrade(i) /\ upgraded[e] /\ Tail(inbox[e]) = <<>>
                /\ Placing(i, e)
             \/ Sent(i, e)
  BY <1>1, <1>6, ShortQueues
     DEF Seat, Registered, Starting, Placing, Waiting, Fought
<1>7. ASSUME NEW i \in players, endpointOf[i] = e, Sent(i, e)
      PROVE  \E placed, sold \in SUBSET UnitId :
               LET n == RoundReady(i, placed, sold) IN
               /\ army[e] = (UnitIdsOf(i, units) \cup placed) \ sold
               /\ \/ m = n /\ Tail(inbox[e]) = <<>>
                  \/ m = UnitUpgrade(i) /\ Tail(inbox[e]) = <<n>>
  <2>1. PICK placed, sold \in SUBSET UnitId :
               /\ army[e] = (UnitIdsOf(i, units) \cup placed) \ sold
               /\ OrderInFlight(i, e, RoundReady(i, placed, sold))
    BY <1>7 DEF Sent
  <2> DEFINE n == RoundReady(i, placed, sold)
  <2>2. inbox[e] = <<n>> \/ inbox[e] = <<UnitUpgrade(i), n>>
    <3>1. Hand(e) = NoHand
      BY <1>2
    <3>2. NoHand # Dispatches(n) /\ NoHand # [pc |-> "apply", msg |-> n]
      BY DEF NoHand, Dispatches
    <3> HIDE DEF n
    <3> QED BY <1>1, <2>1, <3>1, <3>2 DEF OrderInFlight, n
  <2> HIDE DEF n
  <2>3. \/ m = n /\ Tail(inbox[e]) = <<>>
        \/ m = UnitUpgrade(i) /\ Tail(inbox[e]) = <<n>>
    <3>1. CASE inbox[e] = <<n>>
      BY <3>1, ShortQueues
    <3>2. CASE inbox[e] = <<UnitUpgrade(i), n>>
      BY <3>2, ShortQueues
    <3> QED BY <2>2, <3>1, <3>2
  <2> QED BY <2>1, <2>3 DEF n
<1>8. Accepts(e, m)
  <2>1. CASE Free(e)
    BY <1>5, <2>1 DEF Accepts, InitialPing
  <2>2. CASE ~Free(e)
    <3>1. PICK i \in players : endpointOf[i] = e /\ Seat(i, e)
      BY <1>4, <2>2
    <3>2. m.playerId = i
      <4>1. \A placed, sold : RoundReady(i, placed, sold).playerId = i
        BY DEF RoundReady
      <4>2. UnitUpgrade(i).playerId = i
        BY DEF UnitUpgrade
      <4> QED BY <1>6, <1>7, <3>1, <4>1, <4>2
    <3> QED BY <3>1, <3>2 DEF Accepts
  <2> QED BY <2>1, <2>2
<1>9. current' = [from |-> e, msg |-> m] /\ asioPc' = "dispatch"
  BY <1>8 DEF HandleMessage
<1>10. Hand(e)' = Dispatches(m)
  BY <1>9 DEF Hand, Dispatches
<1>11. Quiet'
  BY <1>1, <1>9, AsioFrame
<1>12. ~(allPlayersReady /\ mainPc # "unready")
  <2>1. ASSUME EveryoneReady, mainPc # "unready" PROVE FALSE
    <3>1. PICK i \in players : endpointOf[i] = e /\ Seat(i, e)
      BY <1>4, <2>1, BothSeated DEF EveryoneReady, Base
    <3>2. roundReady[i]
      BY <2>1 DEF EveryoneReady
    <3> QED BY <1>6, <2>1, <3>1, <3>2 DEF Placing, Cleared, Sent
  <2> QED BY <2>1 DEF DuetInv, Rounds
<1>13. Opened' /\ Rounds'
  BY <1>1, <1>9, <1>12
     DEF DuetInv, Opened, Joining, Rounds, EveryoneReady
<1>14. \A f \in Endpoint \ {e} : UNCHANGED Local(f) /\ link'[f] = link[f]
  <2>1. ASSUME NEW f \in Endpoint \ {e}
        PROVE  UNCHANGED <<clientId[f], inbox[f], outbox[f]>>
    BY <1>1 DEF Base, IInv, TypeOK
  <2>2. ASSUME NEW f \in Endpoint \ {e} PROVE UNCHANGED Hand(f)
    BY <1>1, <1>9 DEF Hand
  <2> QED BY <1>1, <2>1, <2>2, LocalUntouched
<1>15. \A i \in players : UNCHANGED Shared(i)
  BY <1>1 DEF Shared, UnitIdsOf
<1>16. \/ Free(e) /\ Unseated(e)'
       \/ \E i \in players : endpointOf[i] = e /\ Seat(i, e)'
  <2>1. CASE Free(e)
    <3>1. Unseated(e) /\ Hand(e)' = Dispatches(InitialPing) /\ inbox'[e] = <<>>
      BY <1>3, <1>4, <1>5, <1>10, <2>1
    <3>2. state[e] = "WaitForAllPlayers" /\ toSend[e] = <<>>
      BY <1>1, <1>2, <3>1, ShortQueues DEF Unseated
    <3>3. UNCHANGED client /\ UNCHANGED <<outbox, clientId, link>>
      BY <1>1
    <3> QED BY <2>1, <3>1, <3>2, <3>3 DEF client, Unseated, Fresh
  <2>2. CASE ~Free(e)
    <3>1. PICK i \in players : endpointOf[i] = e /\ Seat(i, e)
      BY <1>4, <2>2
    <3>2. UNCHANGED client /\ UNCHANGED <<outbox, clientId, link, roundReady,
            round, units, matchHasStarted, map, mainPc, cursor>>
      BY <1>1
    <3>3. CASE Sent(i, e)
      <4>1. PICK placed, sold \in SUBSET UnitId :
               LET n == RoundReady(i, placed, sold) IN
               /\ army[e] = (UnitIdsOf(i, units) \cup placed) \ sold
               /\ \/ m = n /\ Tail(inbox[e]) = <<>>
                  \/ m = UnitUpgrade(i) /\ Tail(inbox[e]) = <<n>>
        BY <1>7, <3>1, <3>3
      <4> DEFINE n == RoundReady(i, placed, sold)
      <4> HIDE DEF n
      <4>2. OrderInFlight(i, e, n)'
        BY <1>3, <1>10, <4>1 DEF OrderInFlight, n
      <4>3. Sent(i, e)'
        BY <3>2, <3>3, <4>1, <4>2 DEF client, Sent, InTouch, UnitIdsOf, n
      <4> QED BY <3>1, <4>3 DEF Seat
    <3>4. CASE ~Sent(i, e)
      <4>1. /\ m = UnitUpgrade(i) /\ upgraded[e] /\ Tail(inbox[e]) = <<>>
            /\ Placing(i, e)
        BY <1>6, <3>1, <3>4
      <4>2. Placing(i, e)'
        BY <1>3, <1>10, <3>2, <4>1
           DEF client, Placing, InTouch, Cleared, UnitIdsOf
      <4> QED BY <3>1, <4>2 DEF Seat
    <3> QED BY <3>3, <3>4
  <2> QED BY <2>1, <2>2
<1>17. Seats'
  BY <1>1, <1>14, <1>15, <1>16, OneClientActs DEF DuetInv
<1> QED BY <1>11, <1>13, <1>17 DEF DuetInv

\* A ping is accepted: the client that sent it has no seat, so one is free.
LEMMA PingDuet ==
  ASSUME Duet, Base, DuetInv, HandleInitialPing, UNCHANGED client
  PROVE  DuetInv'
<1> PICK e \in Endpoint : e = current.from
  BY StageInHand DEF HandleInitialPing
<1>1. /\ asioPc = "dispatch" /\ current.msg.type = "InitialPing"
      /\ UNCHANGED <<simulation, roundReady, bots, flags, net, mainVars,
                     clientVars, channels>>
  BY DEF HandleInitialPing
<1>2. Free(e)
  <2>1. ASSUME NEW j \in players, Seat(j, e) PROVE FALSE
    <3>1. j \in PlayerId /\ Hand(e) = [pc |-> asioPc, msg |-> current.msg]
      BY <1>1, StageInHand DEF Base, IInv, TypeOK
    <3>2. current.msg = UnitUpgrade(j) \/ current.msg.type = "RoundReady"
      BY <1>1, <2>1, <3>1, SeatInHand
    <3> QED BY <1>1, <3>2 DEF UnitUpgrade
  <2> QED BY <1>1, <2>1, StageInHand
<1>3. Unseated(e)
  BY <1>2, StageOfClient DEF DuetInv
<1>4. players = {} \/ players = {0}
  BY <1>2, BothSeated DEF Base, DuetInv, Opened
<1>5. PICK i \in {0, 1} : /\ i = NumberOfConnectedPlayers /\ i \notin players
                          /\ players \cup {i} \in {{0}, {0, 1}}
  BY <1>4, SeatCount DEF DuetInv, Quiet
<1>6. ~RejectsPing(e)
  BY <1>2, <1>5 DEF RejectsPing, Free
<1>7. /\ players' = players \cup {i}
      /\ endpointOf' = [endpointOf EXCEPT ![i] = e]
      /\ current' = [current EXCEPT !.msg.playerId = i]
      /\ asioPc' = "respond"
  BY <1>5, <1>6 DEF HandleInitialPing
<1>8. /\ endpointOf'[i] = e
      /\ \A j \in players : endpointOf'[j] = endpointOf[j]
      /\ current'.from = e /\ current'.msg.playerId = i
  BY <1>5, <1>7 DEF Base, IInv, TypeOK, PlayerId, ClientMessage
<1>9. ~matchHasStarted /\ units = {} /\ round = 1
  BY <1>4 DEF DuetInv, Opened
<1>10. e \in isOpen
  BY <1>1 DEF Base, IInv, Handling, SenderIsConnected
<1>11. Quiet'
  BY <1>1, <1>7, <1>8, <1>10 DEF DuetInv, Quiet
<1>12. Opened'
  BY <1>1, <1>5, <1>7, <1>9 DEF DuetInv, Opened
<1>13. Rounds'
  <2>1. ~EveryoneReady
    BY <1>4 DEF EveryoneReady
  <2>2. ~(allPlayersReady /\ mainPc # "unready")
    BY <2>1 DEF DuetInv, Rounds
  <2> QED BY <1>1, <1>7, <2>1, <2>2 DEF DuetInv, Rounds
<1>14. \A f : f # e => UNCHANGED Local(f) /\ link'[f] = link[f]
  BY <1>1, <1>8, OtherHands, LocalUntouched
<1>15. \A j : UNCHANGED Shared(j)
  BY <1>1 DEF Shared, UnitIdsOf
<1>16. Registered(i, e)'
  <2>1. toSend[e] = <<>> /\ inbox[e] = <<>> /\ state[e] = "WaitForAllPlayers"
    <3>1. Hand(e) = Dispatches(current.msg)
      BY <1>1, StageInHand DEF Dispatches
    <3>2. Hand(e) # NoHand
      BY <3>1 DEF Dispatches, NoHand
    <3> QED BY <1>3, <3>2 DEF Unseated
  <2>2. Hand(e)'.pc = "respond" /\ Hand(e)'.msg.playerId = i
    BY <1>7, <1>8 DEF Hand
  <2>3. ~roundReady[i]
    BY <1>5 DEF Base, IInv, Lobby, FreeIdsAreBlank, PlayerId
  <2>4. UnitIdsOf(i, units') = {}
    BY <1>1, <1>9 DEF UnitIdsOf
  <2> QED BY <1>1, <1>3, <1>9, <2>1, <2>2, <2>3, <2>4
          DEF client, Registered, Unseated, Fresh
<1>17. Seats'
  <2>1. ASSUME NEW f \in Endpoint, Free(f)' PROVE Unseated(f)'
    <3>1. Free(f) /\ f # e
      BY <1>7, <1>8, <2>1 DEF Free
    <3> QED BY <1>14, <3>1, UnseatedFrame DEF DuetInv, Seats
  <2>2. ASSUME NEW j \in players' PROVE Seat(j, endpointOf[j])'
    <3>1. CASE j = i
      BY <1>8, <1>16, <3>1 DEF Seat
    <3>2. CASE j # i
      <4>1. PICK f : f = endpointOf[j]
        OBVIOUS
      <4>2. j \in players /\ f # e /\ endpointOf'[j] = f
        BY <1>2, <1>7, <1>8, <2>2, <3>2, <4>1 DEF Free
      <4>3. Seat(j, f)
        BY <4>1, <4>2 DEF DuetInv, Seats
      <4>4. Seat(j, f)'
        BY <1>14, <1>15, <4>2, <4>3, SeatFrame
      <4> QED BY <4>2, <4>4
    <3> QED BY <3>1, <3>2
  <2> QED BY <2>1, <2>2 DEF Seats
<1> QED BY <1>11, <1>12, <1>13, <1>17 DEF DuetInv

\* Before the match starts all the seats there are have just been taken.
LEMMA SeatsBefore ==
  ASSUME DuetInv, ~matchHasStarted, NEW i \in players
  PROVE  Registered(i, endpointOf[i])
BY DEF DuetInv, Seats, Seat, Starting, Placing, Sent, Waiting, Fought, InTouch

\* In these stages the asio thread works for a player that has just come.
LEMMA JoiningStage ==
  ASSUME Base, DuetInv, Joining
  PROVE  /\ ~matchHasStarted /\ current.from \in Endpoint
         /\ \E i \in players : endpointOf[i] = current.from
                                 /\ Registered(i, current.from)
         /\ ~EveryoneReady /\ ~(allPlayersReady /\ mainPc # "unready")
<1>1. ~matchHasStarted
  BY DEF DuetInv, Opened
<1>2. current.from \in Endpoint /\ ~Free(current.from)
  BY StageInHand DEF Joining
<1>3. PICK i \in players : endpointOf[i] = current.from
  BY <1>2 DEF Free
<1>4. Registered(i, endpointOf[i])
  BY <1>1, SeatsBefore
<1>5. ~EveryoneReady
  BY <1>4 DEF EveryoneReady, Registered
<1> QED BY <1>1, <1>2, <1>3, <1>4, <1>5 DEF DuetInv, Rounds

LEMMA RespondDuet ==
  ASSUME Duet, Base, DuetInv, SendPlayerId, UNCHANGED client
  PROVE  DuetInv'
<1> PICK e \in Endpoint : e = current.from
  BY StageInHand DEF SendPlayerId
<1>1. /\ asioPc = "respond" /\ asioPc' = "count"
      /\ outbox' = [outbox EXCEPT ![e] =
                      Append(@, PlayerIdResponse(current.msg.playerId))]
      /\ UNCHANGED <<simulation, lobby, flags, net, mainVars, current,
                     clientVars, inbox>>
  BY DEF SendPlayerId
<1>2. PICK i \in players : endpointOf[i] = e /\ Registered(i, e)
  BY <1>1, JoiningStage DEF Joining
<1>3. ~(allPlayersReady /\ mainPc # "unready") /\ ~EveryoneReady
  BY <1>1, JoiningStage DEF Joining
<1>4. Hand(e).pc = "respond" /\ Hand(e).msg = current.msg
  BY <1>1 DEF Hand
<1>5. /\ current.msg.playerId = i /\ ~matchHasStarted
      /\ clientId[e] = NoId /\ outbox[e] = <<>>
  BY <1>2, <1>4 DEF Registered
<1>6. outbox'[e] = <<PlayerIdResponse(i)>>
  BY <1>1, <1>5, ShortQueues DEF Base, IInv, TypeOK
<1>7. Hand(e)'.pc = "count"
  BY <1>1 DEF Hand
<1>8. Quiet' /\ Opened' /\ Rounds'
  BY <1>1, <1>3, AsioFrame
     DEF DuetInv, Opened, Joining, Rounds, EveryoneReady
<1>9. Registered(i, e)'
  BY <1>1, <1>2, <1>5, <1>6, <1>7 DEF client, Registered, Fresh, UnitIdsOf
<1>10. \A f \in Endpoint \ {e} : UNCHANGED Local(f) /\ link'[f] = link[f]
  <2>1. ASSUME NEW f \in Endpoint \ {e} PROVE outbox'[f] = outbox[f]
    BY <1>1 DEF Base, IInv, TypeOK
  <2> QED BY <1>1, <2>1, OtherHands, LocalUntouched
<1>11. \A j \in players : UNCHANGED Shared(j)
  BY <1>1 DEF Shared, UnitIdsOf
<1>12. Seats'
  BY <1>1, <1>2, <1>9, <1>10, <1>11, OneClientActs DEF DuetInv, Seat
<1> QED BY <1>8, <1>12 DEF DuetInv

\* Nobody has been told of the old map when a new one is made.
LEMMA CountDuet ==
  ASSUME Duet, Base, DuetInv, CheckForAllPlayersConnected, UNCHANGED client
  PROVE  DuetInv'
<1>1. /\ asioPc = "count" /\ Joining
      /\ UNCHANGED <<units, fighters, lobby, flags, net, mainVars, clientVars,
                     channels>>
      /\ \/ /\ NumberOfConnectedPlayers = 2
            /\ asioPc' = "announce" /\ current' = current
         \/ asioPc' = "idle"
  BY DEF CheckForAllPlayersConnected, AllPlayersAreConnected, AsioIdle, Joining
<1>2. ~matchHasStarted /\ ~EveryoneReady /\ ~(allPlayersReady /\ mainPc # "unready")
  BY <1>1, JoiningStage
<1>3. asioPc' = "announce" => players = {0, 1}
  BY <1>1, SeatCount DEF DuetInv, Quiet, Opened
<1>4. Quiet' /\ Opened' /\ Rounds'
  BY <1>1, <1>2, <1>3, AsioFrame
     DEF DuetInv, Opened, Joining, Rounds, EveryoneReady
<1>5. \A f : \/ Hand(f)' = Hand(f)
             \/ /\ Hand(f).pc = "count" /\ Hand(f)'.pc \in {"idle", "announce"}
  BY <1>1 DEF Hand, NoHand
<1>6. ASSUME NEW f \in Endpoint, Free(f)' PROVE Unseated(f)'
  <2>1. Unseated(f)
    BY <1>1, <1>6 DEF DuetInv, Seats, Free
  <2>2. Hand(f)' = Hand(f)
    <3>1. Hand(f) = NoHand \/ Hand(f) = Dispatches(InitialPing)
      BY <2>1 DEF Unseated
    <3>2. Hand(f).pc # "count"
      BY <3>1 DEF NoHand, Dispatches
    <3> QED BY <1>5, <3>2
  <2> QED BY <1>1, <2>1, <2>2, UnseatedFrame, LocalUntouched
<1>7. ASSUME NEW i \in players' PROVE Seat(i, endpointOf[i])'
  <2> DEFINE f == endpointOf[i]
  <2>1. Registered(i, f)
    BY <1>1, <1>2, SeatsBefore
  <2>2. Registered(i, f)'
    BY <1>1, <1>2, <1>5, <2>1 DEF client, Registered, Fresh, UnitIdsOf
  <2> QED BY <2>2 DEF Seat
<1>8. Seats'
  BY <1>6, <1>7 DEF Seats
<1> QED BY <1>4, <1>8 DEF DuetInv

\* The announcement goes to both, behind the id of the one who came last.
LEMMA AnnounceDuet ==
  ASSUME Duet, Base, DuetInv, AnnounceMatch, UNCHANGED client
  PROVE  DuetInv'
<1>1. /\ asioPc = "announce" /\ Joining
      /\ SendToAll(AllPlayersConnected(map))
      /\ matchHasStarted' = TRUE /\ asioPc' = "idle"
      /\ UNCHANGED <<simulation, lobby, round, allPlayersReady,
                     simulationStarted, net, mainVars, clientVars, inbox>>
  BY DEF AnnounceMatch, AsioIdle, Joining
<1>2. ~matchHasStarted /\ ~EveryoneReady /\ ~(allPlayersReady /\ mainPc # "unready")
  BY <1>1, JoiningStage
<1>3. players = {0, 1}
  BY <1>1 DEF DuetInv, Opened
<1>4. Quiet' /\ Opened' /\ Rounds'
  BY <1>1, <1>2, <1>3, AsioFrame
     DEF DuetInv, Opened, Joining, Rounds, EveryoneReady
<1>5. ASSUME NEW f \in Endpoint, Free(f)' PROVE FALSE
  BY <1>1, <1>3, <1>5, BothSeated DEF Free, Base
<1>6. ASSUME NEW i \in players' PROVE Seat(i, endpointOf[i])'
  <2> PICK f \in Endpoint : f = endpointOf[i]
    BY <1>1 DEF Base, IInv, Lobby, NoGhostPlayer, TypeOK
  <2>1. Registered(i, f) /\ f \in isOpen
    BY <1>1, <1>2, SeatsBefore DEF DuetInv, Quiet
  <2>2. outbox'[f] = Append(outbox[f], AllPlayersConnected(map))
    BY <1>1, <2>1, NothingThrows DEF SendToAll, DuetInv
  <2>3. Hand(f).pc # "respond" /\ Hand(f)'.pc = "idle"
    BY <1>1 DEF Hand, NoHand
  <2>4. \/ clientId[f] = NoId /\ outbox[f] = <<PlayerIdResponse(i)>>
        \/ clientId[f] = i /\ outbox[f] = <<>>
    BY <1>2, <2>1, <2>3 DEF Registered
  <2>5. \/ /\ clientId[f] = NoId
           /\ outbox'[f] = <<PlayerIdResponse(i), AllPlayersConnected(map)>>
        \/ clientId[f] = i /\ outbox'[f] = <<AllPlayersConnected(map)>>
    <3>1. CASE outbox[f] = <<PlayerIdResponse(i)>>
      BY <1>1, <2>2, <2>4, <3>1, AppendToOne, ShortQueues
    <3>2. CASE outbox[f] = <<>>
      BY <2>2, <2>4, <3>2, ShortQueues
    <3> QED BY <2>4, <3>1, <3>2
  <2>6. Registered(i, f)'
    BY <1>1, <2>1, <2>3, <2>5 DEF client, Registered, Fresh, UnitIdsOf
  <2> QED BY <1>1, <2>6 DEF Seat
<1>7. Seats'
  BY <1>5, <1>6 DEF Seats
<1> QED BY <1>4, <1>7 DEF DuetInv

\* An order in hand has left the queue empty.
LEMMA OrderInHand ==
  ASSUME NEW i, NEW e, Sent(i, e), NEW p, NEW m,
         Hand(e) = [pc |-> p, msg |-> m], p # "idle", m.type = "RoundReady"
  PROVE  /\ inbox[e] = <<>>
         /\ \E placed, sold \in SUBSET UnitId :
              /\ army[e] = (UnitIdsOf(i, units) \cup placed) \ sold
              /\ m = RoundReady(i, placed, sold)
<1>1. PICK placed, sold \in SUBSET UnitId :
              /\ army[e] = (UnitIdsOf(i, units) \cup placed) \ sold
              /\ OrderInFlight(i, e, RoundReady(i, placed, sold))
  BY DEF Sent
<1> DEFINE n == RoundReady(i, placed, sold)
<1> HIDE DEF n
<1>2. Hand(e).pc = p /\ Hand(e).msg = m
  OBVIOUS
<1>3. Hand(e) # NoHand /\ Hand(e) # Dispatches(UnitUpgrade(i))
  BY <1>2 DEF NoHand, Dispatches, UnitUpgrade
<1>4. inbox[e] = <<>> /\ Hand(e).msg = n
  BY <1>1, <1>3 DEF OrderInFlight, Dispatches, n
<1> QED BY <1>1, <1>2, <1>4 DEF n

\* Whose order or purchase the asio thread has in hand, before the round.
LEMMA OrderStage ==
  ASSUME Base, DuetInv, asioPc \in {"dispatch", "apply"},
         current.msg.type \in {"RoundReady", "UnitUpgrade"}
  PROVE  /\ matchHasStarted /\ ~(allPlayersReady /\ mainPc # "unready")
         /\ \E e \in Endpoint : \E i \in players :
              /\ e = current.from /\ endpointOf[i] = e /\ Seat(i, e)
              /\ Hand(e) = [pc |-> asioPc, msg |-> current.msg]
              /\ current.msg.type = "RoundReady" => Sent(i, e)
              /\ current.msg.type = "UnitUpgrade" =>
                   asioPc = "dispatch" /\ (Placing(i, e) \/ Sent(i, e))
<1> PICK e \in Endpoint : e = current.from
  BY StageInHand
<1>1. ~Free(e) /\ Hand(e) = [pc |-> asioPc, msg |-> current.msg]
  BY StageInHand DEF InitialPing
<1>2. PICK i \in players : endpointOf[i] = e /\ Seat(i, e)
  BY <1>1, StageInHand
<1>3. i \in PlayerId
  BY DEF Base, IInv, TypeOK
<1>4. /\ current.msg.type = "RoundReady" => Sent(i, e)
      /\ current.msg.type = "UnitUpgrade" =>
           asioPc = "dispatch" /\ (Placing(i, e) \/ Sent(i, e))
  BY <1>1, <1>2, <1>3, SeatInHand DEF UnitUpgrade
<1>5. matchHasStarted
  BY <1>4 DEF Placing, Sent, InTouch
<1>6. ~(allPlayersReady /\ mainPc # "unready")
  BY DEF DuetInv, Rounds
<1> QED BY <1>1, <1>2, <1>4, <1>5, <1>6

LEMMA DispatchDuet ==
  ASSUME Duet, Base, DuetInv, HandleRoundReady \/ HandleUnitUpgrade,
         UNCHANGED client
  PROVE  DuetInv'
<1>1. /\ asioPc = "dispatch"
      /\ UNCHANGED <<units, map, fighters, lobby, flags, net, mainVars,
                     clientVars, channels>>
      /\ \/ /\ current.msg.type = "RoundReady"
            /\ matchHasStarted => asioPc' = "apply" /\ UNCHANGED current
         \/ current.msg.type = "UnitUpgrade" /\ asioPc' = "idle"
  BY DEF HandleRoundReady, HandleUnitUpgrade, AsioIdle
<1>2. /\ matchHasStarted /\ ~(allPlayersReady /\ mainPc # "unready")
      /\ \E e \in Endpoint : \E i \in players :
              /\ e = current.from /\ endpointOf[i] = e /\ Seat(i, e)
              /\ Hand(e) = [pc |-> asioPc, msg |-> current.msg]
              /\ current.msg.type = "RoundReady" => Sent(i, e)
              /\ current.msg.type = "UnitUpgrade" =>
                   asioPc = "dispatch" /\ (Placing(i, e) \/ Sent(i, e))
  BY <1>1, OrderStage
<1>3. PICK e \in Endpoint, i \in players :
        /\ e = current.from /\ endpointOf[i] = e /\ Seat(i, e)
        /\ Hand(e) = [pc |-> asioPc, msg |-> current.msg]
        /\ current.msg.type = "RoundReady" => Sent(i, e)
        /\ current.msg.type = "UnitUpgrade" => Placing(i, e) \/ Sent(i, e)
  BY <1>2
<1>4. Quiet' /\ Opened' /\ Rounds'
  BY <1>1, <1>2, AsioFrame
     DEF DuetInv, Opened, Joining, Rounds, EveryoneReady
<1>5. Seat(i, e)'
  <2>1. CASE current.msg.type = "RoundReady"
    <3>1. PICK placed, sold \in SUBSET UnitId :
              /\ army[e] = (UnitIdsOf(i, units) \cup placed) \ sold
              /\ current.msg = RoundReady(i, placed, sold)
      BY <1>1, <1>3, <2>1, OrderInHand
    <3>2. inbox[e] = <<>>
      BY <1>1, <1>3, <2>1, OrderInHand
    <3>3. Hand(e)' = [pc |-> "apply", msg |-> RoundReady(i, placed, sold)]
      BY <1>1, <1>2, <1>3, <2>1, <3>1 DEF Hand
    <3>4. OrderInFlight(i, e, RoundReady(i, placed, sold))'
      BY <1>1, <3>2, <3>3 DEF OrderInFlight
    <3>5. Sent(i, e)'
      BY <1>1, <1>3, <2>1, <3>1, <3>4 DEF client, Sent, InTouch, UnitIdsOf
    <3> QED BY <3>5 DEF Seat
  <2>2. CASE current.msg.type = "UnitUpgrade"
    <3>1. Hand(e)' = NoHand /\ asioPc' = "idle"
      BY <1>1, <2>2 DEF Hand
    <3>2. CASE Placing(i, e)
      <4>1. inbox[e] = <<>>
        BY <1>1, <1>3, <3>2, ShortQueues DEF Placing, NoHand
      <4> QED BY <1>1, <3>1, <3>2, <4>1
              DEF client, Placing, InTouch, Cleared, UnitIdsOf, Seat
    <3>3. CASE Sent(i, e)
      <4>1. PICK placed, sold \in SUBSET UnitId :
               /\ army[e] = (UnitIdsOf(i, units) \cup placed) \ sold
               /\ OrderInFlight(i, e, RoundReady(i, placed, sold))
        BY <3>3 DEF Sent
      <4>2. Hand(e).msg.type = "UnitUpgrade" /\ Hand(e).pc = "dispatch"
        BY <1>1, <1>3, <2>2
      <4> DEFINE n == RoundReady(i, placed, sold)
      <4>3. n.type = "RoundReady"
        BY DEF RoundReady
      <4> HIDE DEF n
      <4>4. inbox[e] = <<n>>
        BY <4>1, <4>2, <4>3
           DEF OrderInFlight, NoHand, Dispatches, InitialPing, n
      <4>5. OrderInFlight(i, e, n)'
        BY <1>1, <3>1, <4>4 DEF OrderInFlight
      <4>6. Sent(i, e)'
        BY <1>1, <3>3, <4>1, <4>5 DEF client, Sent, InTouch, UnitIdsOf, n
      <4> QED BY <4>6 DEF Seat
    <3> QED BY <1>3, <2>2, <3>2, <3>3
  <2> QED BY <1>1, <2>1, <2>2
<1>6. \A f \in Endpoint \ {e} : UNCHANGED Local(f) /\ link'[f] = link[f]
  <2>1. asioPc' = "idle" \/ current'.from = e
    BY <1>1, <1>2, <1>3
  <2> QED BY <1>1, <1>3, <2>1, OtherHands, LocalUntouched
<1>7. \A j \in players : UNCHANGED Shared(j)
  BY <1>1 DEF Shared, UnitIdsOf
<1>8. Seats'
  BY <1>1, <1>3, <1>5, <1>6, <1>7, OneClientActs DEF DuetInv
<1> QED BY <1>4, <1>8 DEF DuetInv

\* The order is carried out: the server's units of the player are its army.
LEMMA ApplyDuet ==
  ASSUME Duet, Base, DuetInv, ApplyRoundReady, UNCHANGED client
  PROVE  DuetInv'
<1>1. asioPc = "apply" /\ current.msg.type = "RoundReady"
  <2>1. ~Free(current.from) /\ asioPc # "idle"
    BY StageInHand DEF ApplyRoundReady
  <2>2. PICK i \in players : Seat(i, current.from)
    BY <2>1, StageInHand
  <2> QED BY <2>1, <2>2, StageInHand, SeatInHand
          DEF ApplyRoundReady, Base, IInv, TypeOK
<1>2. /\ matchHasStarted /\ ~(allPlayersReady /\ mainPc # "unready")
      /\ \E e \in Endpoint : \E i \in players :
              /\ e = current.from /\ endpointOf[i] = e /\ Seat(i, e)
              /\ Hand(e) = [pc |-> asioPc, msg |-> current.msg]
              /\ current.msg.type = "RoundReady" => Sent(i, e)
  BY <1>1, OrderStage
<1>3. PICK e \in Endpoint, i \in players :
        /\ e = current.from /\ endpointOf[i] = e /\ Sent(i, e)
        /\ Hand(e) = [pc |-> asioPc, msg |-> current.msg]
  BY <1>1, <1>2
<1>4. PICK placed, sold \in SUBSET UnitId :
         /\ army[e] = (UnitIdsOf(i, units) \cup placed) \ sold
         /\ current.msg = RoundReady(i, placed, sold)
  BY <1>1, <1>3, OrderInHand
<1>5. inbox[e] = <<>>
  BY <1>1, <1>3, OrderInHand
<1>6. /\ current.msg.playerId = i /\ current.msg.units = placed
      /\ current.msg.removed = sold /\ i \in PlayerId
      /\ current.msg \in ClientMessage
  BY <1>4 DEF RoundReady, Base, IInv, TypeOK
<1>7. /\ players' = players
      /\ roundReady' = [roundReady EXCEPT ![i] = TRUE]
      /\ units' = AfterRoundReady(units, current.msg, e)
      /\ \/ asioPc' = "idle"
         \/ /\ asioPc' = "store" /\ current' = current
            /\ \A j \in players : roundReady'[j]
      /\ UNCHANGED <<map, fighters, endpointOf, bots, flags, net, mainVars,
                     clientVars, channels>>
  BY <1>3, <1>6 DEF ApplyRoundReady, AsioIdle, AllReady
<1>8. \A j : UnitIdsOf(j, units)' = IF j = i THEN army[e] ELSE UnitIdsOf(j, units)
  <2>1. units \in SUBSET Unit
    BY DEF Base, IInv, TypeOK
  <2>2. ASSUME NEW j
        PROVE  UnitIdsOf(j, AfterRoundReady(units, current.msg, e)) =
                 IF j = i THEN army[e] ELSE UnitIdsOf(j, units)
    BY <1>4, <1>6, <2>1, ArmyAfterRoundReady
  <2>3. \A j : UnitIdsOf(j, units)' = UnitIdsOf(j, units')
    BY DEF UnitIdsOf
  <2> QED BY <1>7, <2>2, <2>3
<1>9. Quiet'
  BY <1>7, AsioFrame
<1>10. Opened'
  BY <1>1, <1>2, <1>7 DEF DuetInv, Opened, Joining
<1>11. Rounds'
  <2>1. ~allPlayersReady /\ mainPc \notin {"ai", "start", "simulate", "unready"}
    BY <1>2, <1>3 DEF DuetInv, Rounds, Sent
  <2>2. players = {0, 1}
    BY <1>2 DEF DuetInv, Opened
  <2> QED BY <1>7, <2>1, <2>2 DEF DuetInv, Rounds, EveryoneReady
<1>12. Seat(i, e)'
  <2>1. roundReady'[i]
    BY <1>6, <1>7 DEF Base, IInv, TypeOK
  <2>2. Hand(e)'.pc \in {"idle", "store"}
    BY <1>7 DEF Hand, NoHand
  <2>3. army'[e] = UnitIdsOf(i, units)'
    BY <1>8 DEF client
  <2>4. Waiting(i, e)'
    BY <1>3, <1>5, <1>7, <2>1, <2>2, <2>3 DEF client, Sent, Waiting, InTouch
  <2> QED BY <2>4 DEF Seat
<1>13. \A f \in Endpoint \ {e} : UNCHANGED Local(f) /\ link'[f] = link[f]
  BY <1>3, <1>7, OtherHands, LocalUntouched
<1>14. ASSUME NEW j \in players, endpointOf[j] # e
       PROVE  UNCHANGED Shared(j)
  <2>1. j # i
    BY <1>3, <1>14
  <2>2. roundReady'[j] = roundReady[j]
    BY <1>7, <2>1 DEF Base, IInv, TypeOK
  <2>3. UnitIdsOf(j, units)' = UnitIdsOf(j, units)
    BY <1>8, <2>1
  <2> QED BY <1>7, <2>2, <2>3 DEF Shared
<1>15. Seats'
  BY <1>3, <1>7, <1>12, <1>13, <1>14, OneClientActs DEF DuetInv
<1> QED BY <1>9, <1>10, <1>11, <1>15 DEF DuetInv

LEMMA StoreDuet ==
  ASSUME Duet, Base, DuetInv, StoreAllPlayersReady, UNCHANGED client
  PROVE  DuetInv'
<1> PICK e \in Endpoint : e = current.from
  BY StageInHand DEF StoreAllPlayersReady
<1>1. /\ asioPc = "store" /\ asioPc' = "idle" /\ allPlayersReady' = TRUE
      /\ UNCHANGED <<simulation, lobby, matchHasStarted, round,
                     simulationStarted, net, mainVars, clientVars, channels>>
  BY DEF StoreAllPlayersReady, AsioIdle
<1>2. Quiet' /\ Opened' /\ Rounds'
  BY <1>1, AsioFrame DEF DuetInv, Opened, Joining, Rounds, EveryoneReady
<1>3. ~Free(e) /\ Hand(e) = [pc |-> asioPc, msg |-> current.msg]
  BY <1>1, StageInHand
<1>4. PICK i \in players : endpointOf[i] = e /\ Seat(i, e)
  BY <1>1, <1>3, StageInHand
<1>5. Waiting(i, e)
  BY <1>1, <1>3, <1>4, SeatInHand DEF Base, IInv, TypeOK
<1>6. Hand(e)'.pc = "idle"
  BY <1>1 DEF Hand, NoHand
<1>7. Waiting(i, e)'
  BY <1>1, <1>5, <1>6 DEF client, Waiting, InTouch, UnitIdsOf
<1>8. \A f \in Endpoint \ {e} : UNCHANGED Local(f) /\ link'[f] = link[f]
  BY <1>1, OtherHands, LocalUntouched
<1>9. \A j \in players : UNCHANGED Shared(j)
  BY <1>1 DEF Shared, UnitIdsOf
<1>10. Seats'
  BY <1>1, <1>4, <1>7, <1>8, <1>9, OneClientActs DEF DuetInv, Seat
<1> QED BY <1>2, <1>10 DEF DuetInv

LEMMA AsioDuet ==
  ASSUME Duet, Base, DuetInv, AsioNext, UNCHANGED client
  PROVE  DuetInv'
<1>1. ASSUME NEW e \in Endpoint PROVE ~CloseSocket(e)
  BY DEF CloseSocket, DuetInv, Quiet
<1>2. ~SendPlayerIdThrows
  BY NothingThrows DEF SendPlayerIdThrows, DuetInv
<1>3. ~HandleAddBot
  <2>1. ASSUME asioPc = "dispatch", current.msg.type = "AddBot",
               NEW i \in players, Seat(i, current.from)
        PROVE  FALSE
    <3>1. /\ i \in PlayerId
          /\ Hand(current.from) = [pc |-> asioPc, msg |-> current.msg]
      BY <2>1, StageInHand DEF Base, IInv, TypeOK
    <3>2. current.msg = UnitUpgrade(i) \/ current.msg.type = "RoundReady"
      BY <2>1, <3>1, SeatInHand
    <3> QED BY <2>1, <3>2 DEF UnitUpgrade
  <2> QED BY <2>1, StageInHand DEF HandleAddBot, InitialPing
<1> QED BY <1>1, <1>2, <1>3, AcceptDuet, MessageDuet, PingDuet, RespondDuet,
           CountDuet, AnnounceDuet, DispatchDuet, ApplyDuet, StoreDuet
       DEF AsioNext

-----------------------------------------------------------------------------
(* The steps of the main thread *)

\* A step that touches nothing a client can see.
LEMMA IdleDuet ==
  ASSUME Base, DuetInv, UNCHANGED client,
         UNCHANGED <<units, map, fighters, lobby, flags, sockets, isOpen,
                     cursor, asioVars, clientVars, channels>>,
         botCopy' = {}, \A e \in Endpoint : ahead'[e] \subseteq isOpen,
         \/ mainPc' \in {"update", "reap", "poll"} /\ mainPc # "unready"
              /\ ~simulationStarted
         \/ mainPc' \in {"ai", "start"} /\ allPlayersReady /\ ~simulationStarted
              /\ mainPc # "unready"
  PROVE  DuetInv'
<1>1. Quiet'
  BY DEF DuetInv, Quiet
<1>2. Opened' /\ Rounds'
  BY DEF DuetInv, Opened, Joining, Rounds, EveryoneReady
<1>3. \A f : UNCHANGED Local(f)
  BY LocalUntouched DEF Hand
<1>4. \A i : UNCHANGED Shared(i)
  BY DEF Shared, UnitIdsOf
<1>5. Seats'
  BY <1>3, <1>4, NobodyActs DEF DuetInv
<1> QED BY <1>1, <1>2, <1>5 DEF DuetInv

LEMMA BetweenRoundsDuet ==
  ASSUME Duet, Base, DuetInv, UNCHANGED client,
         UpdateConnection \/ PollAllPlayersReady \/ PerformAI
  PROVE  DuetInv'
<1>1. CASE UpdateConnection
  <2>1. \A e \in Endpoint : ahead'[e] \subseteq isOpen
    BY <1>1 DEF UpdateConnection
  <2>2. sockets' = sockets
    BY <1>1 DEF UpdateConnection, DuetInv, Quiet
  <2> QED BY <1>1, <2>1, <2>2, IdleDuet
          DEF UpdateConnection, DuetInv, Quiet, Rounds
<1>2. CASE PollAllPlayersReady
  BY <1>2, IdleDuet DEF PollAllPlayersReady, DuetInv, Quiet, Rounds
<1>3. CASE PerformAI
  BY <1>3, IdleDuet DEF PerformAI, DuetInv, Quiet, Rounds
<1> QED BY <1>1, <1>2, <1>3

\* Nobody is removed, and a server without players is as it was.
LEMMA ReapDuet ==
  ASSUME Duet, Base, DuetInv, UNCHANGED client, RemoveClosedPlayers
  PROVE  DuetInv'
<1>1. {i \in players : IsSocketOpenFor(endpointOf[i])} = players
  BY DEF IsSocketOpenFor, DuetInv, Quiet
<1>2. /\ mainPc = "reap" /\ mainPc' = "poll" /\ players' = players
      /\ endpointOf' = [i \in PlayerId |-> IF i \in players THEN endpointOf[i]
                                                            ELSE NoEndpoint]
      /\ roundReady' = [i \in PlayerId |-> i \in players /\ roundReady[i]]
      /\ UNCHANGED <<rolls, allPlayersReady, simulationStarted, net, botCopy,
                     cursor, asioVars, clientVars, channels>>
  BY <1>1 DEF RemoveClosedPlayers
<1>3. UNCHANGED <<matchHasStarted, round, bots, units, upgrades, fighters, map>>
  BY <1>1 DEF RemoveClosedPlayers, ResetServer, DuetInv, Opened
<1>4. endpointOf' = endpointOf
  BY <1>2 DEF Base, IInv, TypeOK, Lobby, FreeIdsAreBlank
<1>5. roundReady' = roundReady
  BY <1>2 DEF Base, IInv, TypeOK, Lobby, FreeIdsAreBlank
<1> QED BY <1>2, <1>3, <1>4, <1>5, IdleDuet DEF DuetInv, Quiet, Rounds

\* While the main thread has the simulation, both clients wait for it.
LEMMA BothWait ==
  ASSUME Duet, Base, DuetInv, mainPc \in {"ai", "start", "simulate"}
  PROVE  /\ players = {0, 1} /\ asioPc = "idle"
         /\ \A i \in players : Waiting(i, endpointOf[i])
         /\ matchHasStarted /\ \A e \in Endpoint : ~Free(e)
<1>1. EveryoneReady /\ asioPc = "idle" /\ mainPc # "unready"
  BY DEF DuetInv, Rounds
<1>2. ASSUME NEW i \in players PROVE Waiting(i, endpointOf[i])
  BY <1>1 DEF EveryoneReady, DuetInv, Seats, Seat, Registered, Starting,
              Placing, Sent, Fought, Cleared
<1>3. matchHasStarted
  BY <1>1, <1>2 DEF EveryoneReady, Waiting, InTouch
<1> QED BY <1>1, <1>2, <1>3, BothSeated DEF EveryoneReady, Base

LEMMA StartDuet ==
  ASSUME Duet, Base, DuetInv, UNCHANGED client, StartRoundSimulation
  PROVE  DuetInv'
<1>1. /\ mainPc = "start" /\ mainPc' = "simulate" /\ simulationStarted' = TRUE
      /\ fighters' = units
      /\ UNCHANGED <<units, map, lobby, matchHasStarted, round,
                     allPlayersReady, net, botCopy, cursor, asioVars,
                     clientVars, channels>>
  BY DEF StartRoundSimulation
<1>2. /\ matchHasStarted /\ \A e \in Endpoint : ~Free(e)
      /\ \A i \in players : Waiting(i, endpointOf[i])
  BY <1>1, BothWait
<1>3. Quiet' /\ Opened' /\ Rounds'
  BY <1>1, <1>2
     DEF DuetInv, Quiet, Opened, Joining, Rounds, EveryoneReady
<1>4. ASSUME NEW i \in players PROVE Waiting(i, endpointOf[i])'
  BY <1>1, <1>2 DEF client, Waiting, InTouch, UnitIdsOf, Hand
<1>5. Seats'
  BY <1>1, <1>2, <1>4 DEF Seats, Seat, Free
<1> QED BY <1>3, <1>5 DEF DuetInv

\* Both get the result of the round they are in.
LEMMA FinishDuet ==
  ASSUME Duet, Base, DuetInv, UNCHANGED client, FinishRoundSimulation
  PROVE  DuetInv'
<1>1. /\ mainPc = "simulate" /\ mainPc' = "unready"
      /\ SendToAll(SimulationResult(round, fighters))
      /\ round' = round + 1 /\ cursor' = 0
      /\ UNCHANGED <<simulation, lobby, matchHasStarted, allPlayersReady,
                     simulationStarted, net, botCopy, asioVars, clientVars,
                     inbox>>
  BY DEF FinishRoundSimulation
<1>2. /\ players = {0, 1} /\ asioPc = "idle"
      /\ matchHasStarted /\ \A e \in Endpoint : ~Free(e)
      /\ \A i \in players : Waiting(i, endpointOf[i])
  BY <1>1, BothWait
<1>3. fighters = units /\ round \in Nat
  BY <1>1 DEF DuetInv, Rounds, Base, IInv, TypeOK
<1>4. Quiet' /\ Opened' /\ Rounds'
  BY <1>1, <1>2
     DEF DuetInv, Quiet, Opened, Joining, Rounds, EveryoneReady
<1>5. ASSUME NEW i \in players PROVE Fought(i, endpointOf[i])'
  <2> PICK f \in Endpoint : f = endpointOf[i]
    BY DEF Base, IInv, Lobby, NoGhostPlayer, TypeOK
  <2>1. Waiting(i, f) /\ f \in isOpen
    BY <1>2 DEF DuetInv, Quiet
  <2>2. outbox'[f] = <<SimulationResult(round, fighters)>>
    BY <1>1, <2>1, NothingThrows, ShortQueues
       DEF SendToAll, DuetInv, Waiting
  <2>3. Hand(f) = NoHand /\ Hand(f)' = NoHand
    BY <1>1, <1>2 DEF Hand
  <2>4. round' - 1 = round /\ i >= 0
    BY <1>1, <1>2, <1>3
  <2>5. Fought(i, f)'
    BY <1>1, <1>3, <2>1, <2>2, <2>3, <2>4
       DEF client, Waiting, Fought, InTouch, Cleared, UnitIdsOf
  <2> QED BY <1>1, <2>5
<1>6. Seats'
  BY <1>1, <1>2, <1>5 DEF Seats, Seat, Free
<1> QED BY <1>4, <1>6 DEF DuetInv

\* After the round nobody's order is on its way.
LEMMA NobodyOrders ==
  ASSUME DuetInv, mainPc = "unready", NEW i \in players
  PROVE  \E e : /\ e = endpointOf[i]
                /\ \/ Registered(i, e) \/ Starting(i, e) \/ Placing(i, e)
                   \/ Fought(i, e)
                /\ Cleared(i)
BY DEF DuetInv, Seats, Seat, Sent, Waiting, Registered, Starting, Placing,
       Fought, Cleared

LEMMA ClearDuet ==
  ASSUME Duet, Base, DuetInv, UNCHANGED client, NEW j \in PlayerId,
         ClearRoundReady(j)
  PROVE  DuetInv'
<1>1. /\ mainPc = "unready" /\ j \in players /\ j >= cursor
      /\ \A k \in players : k >= cursor => j <= k
      /\ roundReady' = [roundReady EXCEPT ![j] = FALSE] /\ cursor' = j + 1
      /\ UNCHANGED <<simulation, players, endpointOf, bots, flags, net, mainPc,
                     botCopy, asioVars, clientVars, channels>>
  BY DEF ClearRoundReady
<1>2. Quiet' /\ Opened'
  BY <1>1 DEF DuetInv, Quiet, Opened, Joining
<1>3. asioPc # "store"
  BY <1>1 DEF DuetInv, Rounds
<1>4. Rounds'
  BY <1>1, <1>3 DEF DuetInv, Rounds, EveryoneReady
<1>5. \A f : UNCHANGED Local(f)
  BY <1>1, LocalUntouched DEF Hand
<1>6. ASSUME NEW f \in Endpoint, Free(f)' PROVE Unseated(f)'
  BY <1>1, <1>5, <1>6, UnseatedFrame DEF DuetInv, Seats, Free
<1>7. ASSUME NEW i \in players PROVE Seat(i, endpointOf[i])'
  <2>1. PICK f : /\ f = endpointOf[i]
                 /\ \/ Registered(i, f) \/ Starting(i, f) \/ Placing(i, f)
                    \/ Fought(i, f)
                 /\ Cleared(i)
    BY <1>1, NobodyOrders
  <2>2. ~roundReady[i] => ~roundReady'[i]
    BY <1>1 DEF Base, IInv, TypeOK, PlayerId
  <2>3. Cleared(i)'
    <3>1. CASE i = j
      BY <1>1, <3>1 DEF Base, IInv, TypeOK, Cleared
    <3>2. CASE i # j /\ roundReady[i]
      <4>1. i >= cursor /\ i \in {0, 1} /\ j \in {0, 1}
        BY <1>1, <2>1, <3>2 DEF Cleared, Base, IInv, TypeOK, PlayerId
      <4>2. i >= j + 1
        BY <1>1, <3>2, <4>1
      <4> QED BY <1>1, <4>2 DEF Cleared
    <3>3. CASE ~roundReady[i]
      BY <2>2, <3>3 DEF Cleared
    <3> QED BY <3>1, <3>2, <3>3
  <2>4. Hand(f)' = Hand(f)
    BY <1>1 DEF Hand
  <2>5. Seat(i, f)'
    <3>1. CASE Registered(i, f)
      BY <1>1, <2>2, <2>4, <3>1 DEF client, Registered, Fresh, UnitIdsOf, Seat
    <3>2. CASE Starting(i, f)
      BY <1>1, <2>2, <2>4, <3>2
         DEF client, Starting, InTouch, Fresh, UnitIdsOf, Seat
    <3>3. CASE Placing(i, f)
      BY <1>1, <2>3, <2>4, <3>3 DEF client, Placing, InTouch, UnitIdsOf, Seat
    <3>4. CASE Fought(i, f)
      BY <1>1, <2>3, <2>4, <3>4 DEF client, Fought, InTouch, UnitIdsOf, Seat
    <3> QED BY <2>1, <3>1, <3>2, <3>3, <3>4
  <2> QED BY <1>1, <2>1, <2>5
<1>8. Seats'
  BY <1>1, <1>6, <1>7 DEF Seats
<1> QED BY <1>2, <1>4, <1>8 DEF DuetInv

LEMMA EndRoundDuet ==
  ASSUME Duet, Base, DuetInv, UNCHANGED client, EndRound
  PROVE  DuetInv'
<1>1. /\ mainPc = "unready" /\ mainPc' = "update"
      /\ \A i \in players : i < cursor
      /\ simulationStarted' = FALSE /\ allPlayersReady' = FALSE
      /\ UNCHANGED <<simulation, lobby, matchHasStarted, round, net, botCopy,
                     cursor, asioVars, clientVars, channels>>
  BY DEF EndRound
<1>2. asioPc # "store"
  BY <1>1 DEF DuetInv, Rounds
<1>3. Quiet' /\ Opened' /\ Rounds'
  BY <1>1, <1>2 DEF DuetInv, Quiet, Opened, Joining, Rounds, EveryoneReady
<1>4. \A f : UNCHANGED Local(f)
  BY <1>1, LocalUntouched DEF Hand
<1>5. ASSUME NEW f \in Endpoint, Free(f)' PROVE Unseated(f)'
  BY <1>1, <1>4, <1>5, UnseatedFrame DEF DuetInv, Seats, Free
<1>6. ASSUME NEW i \in players PROVE Seat(i, endpointOf[i])'
  <2>1. PICK f : /\ f = endpointOf[i]
                 /\ \/ Registered(i, f) \/ Starting(i, f) \/ Placing(i, f)
                    \/ Fought(i, f)
                 /\ Cleared(i)
    BY <1>1, NobodyOrders
  <2>2. ~roundReady'[i]
    <3>1. i < cursor /\ i \in Int /\ cursor \in Int
      BY <1>1 DEF Base, IInv, TypeOK, PlayerId
    <3> QED BY <1>1, <2>1, <3>1 DEF Cleared
  <2>3. Cleared(i)'
    BY <2>2 DEF Cleared
  <2>4. Hand(f)' = Hand(f)
    BY <1>1 DEF Hand
  <2>5. Seat(i, f)'
    <3>1. CASE Registered(i, f)
      BY <1>1, <2>2, <2>4, <3>1 DEF client, Registered, Fresh, UnitIdsOf, Seat
    <3>2. CASE Starting(i, f)
      BY <1>1, <2>2, <2>4, <3>2
         DEF client, Starting, InTouch, Fresh, UnitIdsOf, Seat
    <3>3. CASE Placing(i, f)
      BY <1>1, <2>3, <2>4, <3>3 DEF client, Placing, InTouch, UnitIdsOf, Seat
    <3>4. CASE Fought(i, f)
      BY <1>1, <2>3, <2>4, <3>4 DEF client, Fought, InTouch, UnitIdsOf, Seat
    <3> QED BY <2>1, <3>1, <3>2, <3>3, <3>4
  <2> QED BY <1>1, <2>1, <2>5
<1>7. Seats'
  BY <1>1, <1>5, <1>6 DEF Seats
<1> QED BY <1>3, <1>7 DEF DuetInv

LEMMA MainDuet ==
  ASSUME Duet, Base, DuetInv, UNCHANGED client, MainNext
  PROVE  DuetInv'
<1>1. ~RemoveClosedPlayersThrows
  BY NothingThrows DEF RemoveClosedPlayersThrows, DuetInv
<1> QED BY <1>1, BetweenRoundsDuet, ReapDuet, StartDuet, FinishDuet, ClearDuet,
           EndRoundDuet DEF MainNext

-----------------------------------------------------------------------------
(* The theorems *)

LEMMA InitDuet == MatchInit => DuetInv
<1> SUFFICES ASSUME MatchInit PROVE DuetInv
  OBVIOUS
<1>1. Init /\ \A f : Hand(f) = NoHand
  BY DEF MatchInit, Init, Hand
<1>2. Quiet /\ Opened /\ Rounds
  BY <1>1 DEF Init, Quiet, Opened, Joining, Rounds
<1>3. Seats
  BY <1>1 DEF MatchInit, Init, Seats, Unseated, Fresh
<1> QED BY <1>2, <1>3 DEF DuetInv

LEMMA NextDuet ==
  ASSUME Duet, Base, DuetInv, [MatchNext]_matchVars
  PROVE  DuetInv'
<1>1. CASE MatchNext
  BY <1>1, MainDuet, AsioDuet, ClientStepDuet DEF MatchNext
<1>2. CASE UNCHANGED matchVars
  <2> USE <1>2 DEF matchVars, vars
  <2>1. Quiet' /\ Opened' /\ Rounds'
    BY DEF DuetInv, Quiet, Opened, Joining, Rounds, EveryoneReady
  <2>2. \A f : UNCHANGED Local(f)
    BY LocalUntouched DEF Hand
  <2>3. \A i : UNCHANGED Shared(i)
    BY DEF Shared, UnitIdsOf
  <2>4. Seats'
    BY <2>2, <2>3, NobodyActs DEF DuetInv
  <2> QED BY <2>1, <2>4 DEF DuetInv
<1> QED BY <1>1, <1>2

\* At every moment each client stands where the server takes it to stand.
THEOREM DuetInvariance == ASSUME Duet PROVE MatchSpec => []DuetInv
<1>1. Base /\ DuetInv /\ [MatchNext]_matchVars => DuetInv'
  BY NextDuet
<1> QED BY <1>1, InitDuet, BaseHolds, PTL DEF MatchSpec

\* A client that has entered the match has a seat, and is in touch.
LEMMA InMatchIsSeated ==
  ASSUME DuetInv, NEW e \in Endpoint, InMatch(e)
  PROVE  \E i \in players :
            endpointOf[i] = e /\ InTouch(i, e) /\ Seat(i, e)
<1>1. ~Free(e)
  BY DEF DuetInv, Seats, Unseated, InMatch
<1>2. PICK i \in players : endpointOf[i] = e
  BY <1>1 DEF Free
<1>3. Seat(i, e)
  BY <1>2 DEF DuetInv, Seats
<1>4. InTouch(i, e)
  BY <1>3 DEF Seat, Registered, Starting, Placing, Sent, Waiting, Fought,
              InMatch
<1> QED BY <1>2, <1>3, <1>4

\* Results that wait to be played back are those of the round just fought.
LEMMA ResultsInHand ==
  ASSUME Base, DuetInv, NEW e \in Endpoint, dataReady[e]
  PROVE  /\ state[e] = "WaitForSimulationResults"
         /\ results[e] = SimulationResult(round - 1, fighters)
         /\ \E i \in players : Fought(i, e) /\ endpointOf[i] = e
<1>1. ~Free(e)
  BY DEF DuetInv, Seats, Unseated, Fresh
<1>2. PICK i \in players : endpointOf[i] = e
  BY <1>1 DEF Free
<1>3. Seat(i, e)
  BY <1>2 DEF DuetInv, Seats
<1>4. Fought(i, e)
  BY <1>3 DEF Seat, Registered, Starting, Placing, Sent, Waiting, Fresh
<1> QED BY <1>2, <1>4 DEF Fought

\* The main thread, which simulates a round without m_mutex, and a handler
\* that changes units, upgrades or the map never overlap: not in one of the
\* rounds of any match of two clients.
THEOREM ThreadsTakeTurns ==
  ASSUME Duet PROVE MatchSpec => []SimulationExclusive
<1>1. Base /\ DuetInv => SimulationExclusive
  BY BothWait DEF SimulationExclusive, MainUsesSimulation, AsioUsesSimulation
<1> QED BY <1>1, BaseHolds, DuetInvariance, PTL

\* A client that has entered the match gives its orders under the id the
\* server has for its connection, so that handleMessage does not drop them.
THEOREM OrdersAreAccepted ==
  ASSUME Duet PROVE MatchSpec => []PlaysUnderItsId
<1>1. DuetInv => PlaysUnderItsId
  BY InMatchIsSeated DEF PlaysUnderItsId, InTouch
<1> QED BY <1>1, DuetInvariance, PTL

\* Clients place their units on the map the server simulates the round on: the
\* map of AllPlayersConnected is not rolled anew afterwards.
THEOREM MapIsShared == ASSUME Duet PROVE MatchSpec => []SameTerrain
<1>1. DuetInv => SameTerrain
  BY InMatchIsSeated DEF SameTerrain, InTouch
<1> QED BY <1>1, DuetInvariance, PTL

\* The results m_dataReady announces are those of the round the client waits
\* in: none is missed, repeated or left over.
THEOREM ResultsAreFresh == ASSUME Duet PROVE MatchSpec => []ResultsOfThisRound
<1>1. Base /\ DuetInv => ResultsOfThisRound
  BY ResultsInHand DEF ResultsOfThisRound, SimulationResult, Fought
<1> QED BY <1>1, BaseHolds, DuetInvariance, PTL

\* The army a client sees fight is the one it commands: no unit it placed was
\* dropped, none it sold was kept, in any round.
THEOREM ArmyIsComplete == ASSUME Duet PROVE MatchSpec => []OwnArmyFights
<1>1. Base /\ DuetInv => OwnArmyFights
  <2> SUFFICES ASSUME Base, DuetInv, NEW e \in Endpoint, dataReady[e]
               PROVE  UnitIdsOf(clientId[e], results[e].units) = army[e]
    BY DEF OwnArmyFights
  <2>1. PICK i \in players : Fought(i, e)
    BY ResultsInHand
  <2>2. results[e].units = fighters
    BY ResultsInHand DEF SimulationResult
  <2> QED BY <2>1, <2>2 DEF Fought, InTouch
<1> QED BY <1>1, BaseHolds, DuetInvariance, PTL

-----------------------------------------------------------------------------
(* The match is one of RoundProtocol *)

\* The abstract names of a seat and of what has not begun.
LEMMA SeatName ==
  ASSUME Base, NEW i \in players
  PROVE  ServerIdOf(endpointOf[i]) = i
BY DEF Base, IInv, Lobby, OnePlayerPerEndpoint, ServerIdOf

\* A step that touches none of this is not seen by the protocol.
LEMMA Unseen ==
  ASSUME UNCHANGED <<state, clientRound, army, playing, players, endpointOf,
                     fighters, round>>,
         mainPc' = "simulate" <=> mainPc = "simulate"
  PROVE  UNCHANGED Protocol!protocolVars
BY DEF Protocol!protocolVars, ServerIdOf, UnitIdsOf

\* Before the match nobody has fought and nobody has seen a fight.
LEMMA NothingFought ==
  ASSUME DuetInv, ~matchHasStarted
  PROVE  fighters = {} /\ \A e \in Endpoint : playing[e] = NoResults
<1>1. ASSUME NEW e \in Endpoint PROVE Fresh(e)
  <2>1. CASE Free(e)
    BY <2>1 DEF DuetInv, Seats, Unseated
  <2>2. CASE ~Free(e)
    BY <2>2 DEF Free, DuetInv, Seats, Seat, Registered, Starting, Placing,
                Sent, Waiting, Fought, InTouch
  <2> QED BY <2>1, <2>2
<1> QED BY <1>1 DEF DuetInv, Opened, Fresh

\* The end of a placement is Submit.
LEMMA ReadyRoundSubmits ==
  ASSUME Base, NEW e \in Endpoint, ReadyRound(e)
  PROVE  Protocol!Submit(e)
<1>1. /\ state[e] = "PlaceUnits" /\ clientRound[e] <= MaxRounds
      /\ state' = [state EXCEPT ![e] = "WaitForSimulationResults"]
      /\ UNCHANGED <<server, link, clientId, outbox, dataReady, results,
                     playing, clientRound, upgraded>>
  BY DEF ReadyRound
<1>2. PICK placed \in {{}, {clientRound[e]}} :
      \E sold \in {{}} \cup {{n} : n \in army[e] \ placed} :
         army' = [army EXCEPT ![e] = (@ \cup placed) \ sold]
  BY DEF ReadyRound
<1>3. PICK sold \in {{}} \cup {{n} : n \in army[e] \ placed} :
         army' = [army EXCEPT ![e] = (@ \cup placed) \ sold]
  BY <1>2
<1>4. /\ clientRound[e] \in 1..MaxRounds /\ MaxRounds \in Nat
      /\ clientRound \in [Endpoint -> Int]
  BY <1>1, RoundsAssumption DEF Base, OrdersInv
<1>5. \E in, out \in SUBSET UnitId :
         army' = [army EXCEPT ![e] = (@ \cup in) \ out]
  <2>1. placed \in SUBSET UnitId
    BY <1>4, RoundsAssumption
  <2>2. sold \in SUBSET UnitId
    <3>1. army[e] \subseteq UnitId
      BY DEF Base, OrdersInv
    <3> QED BY <3>1
  <2> QED BY <1>3, <2>1, <2>2
<1>6. DOMAIN state = Endpoint
  BY DEF Base, ClientInv, ClientTypeOK
<1>7. UNCHANGED <<clientRound, playing, fighters, mainPc, round, players,
                  endpointOf>>
  BY <1>1 DEF server
<1> DEFINE submitted == [f \in Endpoint |->
                  IF state[f] \in {"WaitForSimulationResults", "Playback"}
                  THEN clientRound[f] ELSE clientRound[f] - 1]
           seen == [f \in Endpoint |->
                  IF state[f] = "Playback" THEN clientRound[f]
                  ELSE clientRound[f] - 1]
           battle == [f \in Endpoint |-> UnitIdsOf(ServerIdOf(f), fighters)]
           view == [p \in Endpoint |-> [f \in Endpoint |->
                      UnitIdsOf(ServerIdOf(f), playing[p].units)]]
<1>8. submitted[e] = seen[e] /\ submitted[e] < MaxRounds
  BY <1>1, <1>4
<1>9. submitted' = [submitted EXCEPT ![e] = @ + 1]
  <2>1. submitted[e] + 1 = clientRound[e]
    BY <1>1, <1>4
  <2>2. \A f \in Endpoint :
           submitted'[f] = IF f = e THEN submitted[e] + 1 ELSE submitted[f]
    BY <1>1, <1>6, <1>7, <2>1
  <2> QED BY <2>2
<1>10. seen' = seen
  BY <1>1, <1>6, <1>7
<1>11. battle' = battle /\ view' = view
  BY <1>7 DEF ServerIdOf, UnitIdsOf
<1> QED BY <1>5, <1>7, <1>8, <1>9, <1>10, <1>11 DEF Protocol!Submit

\* The start of the simulation is Fight.
LEMMA StartFights ==
  ASSUME Duet, Base, DuetInv, UNCHANGED client, StartRoundSimulation
  PROVE  Protocol!Fight
<1>1. /\ mainPc = "start" /\ mainPc' = "simulate" /\ fighters' = units
      /\ UNCHANGED <<players, endpointOf, round>>
  BY DEF StartRoundSimulation
<1>2. /\ \A i \in players : Waiting(i, endpointOf[i])
      /\ \A e \in Endpoint : ~Free(e)
  BY <1>1, BothWait
<1>3. ASSUME NEW e \in Endpoint
      PROVE  /\ state[e] = "WaitForSimulationResults" /\ clientRound[e] = round
             /\ army[e] = UnitIdsOf(ServerIdOf(e), units)
  <2>1. PICK i \in players : endpointOf[i] = e
    BY <1>2 DEF Free
  <2>2. Waiting(i, e) /\ ServerIdOf(e) = i
    BY <1>2, <2>1, SeatName
  <2> QED BY <2>2 DEF Waiting
<1>4. army \in [Endpoint -> SUBSET UnitId] /\ round \in Nat
  BY DEF Base, OrdersInv, IInv, TypeOK
<1>5. army = [e \in Endpoint |-> UnitIdsOf(ServerIdOf(e), units)]
  BY <1>3, <1>4
<1>6. \A e : ServerIdOf(e)' = ServerIdOf(e)
  BY <1>1 DEF ServerIdOf
<1>7. [e \in Endpoint |-> UnitIdsOf(ServerIdOf(e), fighters)]' = army
  BY <1>1, <1>5, <1>6 DEF UnitIdsOf
<1> QED BY <1>1, <1>3, <1>4, <1>6, <1>7
        DEF Protocol!Fight, client, UnitIdsOf

\* The start of a playback is See.
LEMMA StartPlaybackSees ==
  ASSUME Duet, Base, DuetInv, NEW e \in Endpoint, StartPlayback(e)
  PROVE  Protocol!See(e)
<1>1. /\ state[e] = "WaitForSimulationResults" /\ dataReady[e]
      /\ playing' = [playing EXCEPT ![e] = results[e]]
      /\ state' = [state EXCEPT ![e] = "Playback"]
      /\ UNCHANGED <<clientRound, army, mainPc, round, fighters, players,
                     endpointOf>>
  BY DEF StartPlayback, vars
<1>2. results[e].units = fighters
  BY <1>1, ResultsInHand DEF SimulationResult
<1>3. clientRound[e] = round - 1 /\ mainPc # "simulate"
  <2>1. PICK i \in players : Fought(i, e) /\ endpointOf[i] = e
    BY <1>1, ResultsInHand
  <2>2. round \in Nat
    BY DEF Base, IInv, TypeOK
  <2>3. ~Waiting(i, e)
    BY <1>1, <2>1 DEF Waiting
  <2> QED BY <2>1, <2>3, BothWait DEF Fought
<1>4. /\ round \in Nat /\ clientRound \in [Endpoint -> Nat \ {0}]
      /\ state \in [Endpoint -> {"Menu", "WaitForAllPlayers",
                 "SelectStartingUnits", "PlaceUnits",
                 "WaitForSimulationResults", "Playback"}]
      /\ playing \in [Endpoint -> Result]
  BY DEF Base, IInv, TypeOK, OrdersInv, ClientInv, ClientTypeOK
<1>5. \A f : ServerIdOf(f)' = ServerIdOf(f)
  BY <1>1 DEF ServerIdOf
<1> DEFINE seen == [f \in Endpoint |->
                  IF state[f] = "Playback" THEN clientRound[f]
                  ELSE clientRound[f] - 1]
           submitted == [f \in Endpoint |->
                  IF state[f] \in {"WaitForSimulationResults", "Playback"}
                  THEN clientRound[f] ELSE clientRound[f] - 1]
           battle == [f \in Endpoint |-> UnitIdsOf(ServerIdOf(f), fighters)]
           view == [p \in Endpoint |-> [f \in Endpoint |->
                      UnitIdsOf(ServerIdOf(f), playing[p].units)]]
<1>6. seen[e] < round - 1 /\ seen' = [seen EXCEPT ![e] = @ + 1]
  <2>1. clientRound \in [Endpoint -> Int]
    BY <1>4
  <2>2. seen[e] + 1 = clientRound[e] /\ seen[e] < round - 1
    BY <1>1, <1>3, <1>4, <2>1
  <2>3. \A f \in Endpoint :
           seen'[f] = IF f = e THEN seen[e] + 1 ELSE seen[f]
    BY <1>1, <1>4, <2>2
  <2> QED BY <2>2, <2>3
<1>7. submitted' = submitted
  BY <1>1, <1>4
<1>8. battle' = battle
  BY <1>1, <1>5 DEF UnitIdsOf
<1>9. view' = [view EXCEPT ![e] = battle]
  BY <1>1, <1>2, <1>4, <1>5 DEF UnitIdsOf
<1> QED BY <1>1, <1>3, <1>6, <1>7, <1>8, <1>9 DEF Protocol!See

\* What the server's threads do besides is not seen: the lobby changes only
\* before the match, when there is nothing to name by it.
LEMMA MainStepSeen ==
  ASSUME Duet, Base, DuetInv, UNCHANGED client, MainNext
  PROVE  Protocol!Fight \/ UNCHANGED Protocol!protocolVars
<1>1. ~RemoveClosedPlayersThrows
  BY NothingThrows DEF RemoveClosedPlayersThrows, DuetInv
<1>2. CASE RemoveClosedPlayers
  <2>1. {i \in players : IsSocketOpenFor(endpointOf[i])} = players
    BY DEF IsSocketOpenFor, DuetInv, Quiet
  <2>2. /\ mainPc = "reap" /\ mainPc' = "poll" /\ players' = players
        /\ endpointOf' = [i \in PlayerId |->
                            IF i \in players THEN endpointOf[i]
                                             ELSE NoEndpoint]
    BY <1>2, <2>1 DEF RemoveClosedPlayers
  <2>3. round' = round /\ fighters' = fighters
    BY <1>2, <2>1 DEF RemoveClosedPlayers, ResetServer, DuetInv, Opened
  <2>4. endpointOf' = endpointOf
    BY <2>2 DEF Base, IInv, TypeOK, Lobby, FreeIdsAreBlank
  <2> QED BY <2>2, <2>3, <2>4, Unseen DEF client
<1>3. CASE UpdateConnection \/ PollAllPlayersReady \/ PerformAI \/ EndRound
  BY <1>3, Unseen DEF UpdateConnection, PollAllPlayersReady, PerformAI,
                      EndRound, client
<1>4. CASE FinishRoundSimulation
  <2>1. /\ mainPc = "simulate" /\ mainPc' = "unready" /\ round' = round + 1
        /\ UNCHANGED <<players, endpointOf, fighters>>
    BY <1>4 DEF FinishRoundSimulation
  <2>2. round' - 1 = round
    BY <2>1 DEF Base, IInv, TypeOK
  <2> QED BY <2>1, <2>2
          DEF Protocol!protocolVars, ServerIdOf, UnitIdsOf, client
<1>5. CASE \E i \in PlayerId : ClearRoundReady(i)
  BY <1>5, Unseen DEF ClearRoundReady, client
<1> QED BY <1>1, <1>2, <1>3, <1>4, <1>5, StartFights DEF MainNext

LEMMA AsioStepUnseen ==
  ASSUME Duet, Base, DuetInv, UNCHANGED client, AsioNext
  PROVE  UNCHANGED Protocol!protocolVars
<1>1. UNCHANGED mainPc
  BY NothingThrows DEF AsioNext, HandleAccept, CloseSocket, HandleMessage,
     HandleInitialPing, SendPlayerId, SendPlayerIdThrows, HandleAddBot,
     CheckForAllPlayersConnected, AnnounceMatch, HandleRoundReady,
     ApplyRoundReady, StoreAllPlayersReady, HandleUnitUpgrade, DuetInv
<1>2. UNCHANGED <<fighters, round>>
  BY DEF AsioNext, HandleAccept, CloseSocket, HandleMessage,
     HandleInitialPing, SendPlayerId, SendPlayerIdThrows, ServerEnds,
     HandleAddBot, CheckForAllPlayersConnected, AnnounceMatch,
     HandleRoundReady, ApplyRoundReady, StoreAllPlayersReady,
     HandleUnitUpgrade
<1>3. CASE HandleInitialPing
  <2>1. CASE UNCHANGED <<players, endpointOf>>
    BY <1>1, <1>2, <2>1, Unseen DEF client
  <2>2. CASE ~UNCHANGED <<players, endpointOf>>
    <3>1. NumberOfConnectedPlayers # 2
      <4>1. ~(NumberOfConnectedPlayers >= 2)
        BY <1>3, <2>2 DEF HandleInitialPing, RejectsPing
      <4> QED BY <4>1
    <3>2. ~matchHasStarted
      BY <3>1, SeatCount DEF DuetInv, Opened, Quiet
    <3>3. fighters = {} /\ \A e \in Endpoint : playing[e] = NoResults
      BY <3>2, NothingFought
    <3>4. \A i : UnitIdsOf(i, {}) = {}
      BY DEF UnitIdsOf
    <3>5. \A e \in Endpoint : playing[e].units = {} /\ playing'[e].units = {}
      BY <3>3 DEF client, NoResults, SimulationResult
    <3> DEFINE battle == [e \in Endpoint |->
                            UnitIdsOf(ServerIdOf(e), fighters)]
               view == [e \in Endpoint |-> [f \in Endpoint |->
                          UnitIdsOf(ServerIdOf(f), playing[e].units)]]
    <3>6. battle' = battle
      BY <1>2, <3>3, <3>4
    <3>7. view' = view
      BY <3>4, <3>5
    <3> QED BY <1>1, <1>2, <3>6, <3>7 DEF Protocol!protocolVars, client
  <2> QED BY <2>1, <2>2
<1>4. CASE ApplyRoundReady
  <2>1. players' = players /\ endpointOf' = endpointOf
    BY <1>4 DEF ApplyRoundReady, Base, IInv, Handling, SenderIsOwner,
                ActsAsPlayer, Owns
  <2> QED BY <1>1, <1>2, <2>1, Unseen DEF client
<1>5. CASE ~HandleInitialPing /\ ~ApplyRoundReady
  <2>1. UNCHANGED <<players, endpointOf>>
    BY <1>5, NothingThrows DEF AsioNext, HandleAccept, CloseSocket,
       HandleMessage, SendPlayerId, SendPlayerIdThrows, ServerEnds,
       HandleAddBot, CheckForAllPlayersConnected, AnnounceMatch,
       HandleRoundReady, StoreAllPlayersReady, HandleUnitUpgrade
  <2> QED BY <1>1, <1>2, <2>1, Unseen DEF client
<1> QED BY <1>3, <1>4, <1>5

LEMMA ClientStepSeen ==
  ASSUME Duet, Base, DuetInv, NEW e \in Endpoint, ClientStep(e)
  PROVE  \/ Protocol!Submit(e) \/ Protocol!See(e)
         \/ UNCHANGED Protocol!protocolVars
<1>1. ~Leave(e) /\ ~Return(e)
  BY DEF Leave, Return, ClientReturn, Duet, DuetInv, Quiet
<1>2. CASE SendOpening(e) \/ BuyUpgrade(e) \/ Receive(e)
  BY <1>2, Unseen DEF SendOpening, BuyUpgrade, Receive, ClientReceive, server
<1> DEFINE submitted == [f \in Endpoint |->
                  IF state[f] \in {"WaitForSimulationResults", "Playback"}
                  THEN clientRound[f] ELSE clientRound[f] - 1]
           seen == [f \in Endpoint |->
                  IF state[f] = "Playback" THEN clientRound[f]
                  ELSE clientRound[f] - 1]
<1>3. DOMAIN state = Endpoint /\ clientRound \in [Endpoint -> Int]
  BY DEF Base, ClientInv, ClientTypeOK, OrdersInv
<1>4. CASE Create(e) \/ BeginMatch(e) \/ SelectUnits(e) \/ EndPlayback(e)
  <2>1. UNCHANGED <<army, playing, players, endpointOf, fighters, round,
                    mainPc>>
    BY <1>4 DEF Create, BeginMatch, SelectUnits, EndPlayback, vars
  <2>2. submitted' = submitted /\ seen' = seen
    <3>1. CASE Create(e) \/ BeginMatch(e) \/ SelectUnits(e)
      BY <1>3, <3>1 DEF Create, BeginMatch, SelectUnits
    <3>2. CASE EndPlayback(e)
      <4>1. /\ state[e] = "Playback" /\ state'[e] = "PlaceUnits"
            /\ clientRound'[e] = clientRound[e] + 1
            /\ \A f \in Endpoint \ {e} : /\ state'[f] = state[f]
                                         /\ clientRound'[f] = clientRound[f]
        BY <1>3, <3>2 DEF EndPlayback
      <4>2. (clientRound[e] + 1) - 1 = clientRound[e]
        BY <1>3
      <4>3. \A f \in Endpoint : /\ submitted'[f] = submitted[f]
                                /\ seen'[f] = seen[f]
        BY <4>1, <4>2
      <4> QED BY <4>3
    <3> QED BY <1>4, <3>1, <3>2
  <2> QED BY <2>1, <2>2 DEF Protocol!protocolVars, ServerIdOf, UnitIdsOf
<1> QED BY <1>1, <1>2, <1>4, ReadyRoundSubmits, StartPlaybackSees
        DEF ClientStep

LEMMA InitProtocol == MatchInit => Protocol!Init
<1> SUFFICES ASSUME MatchInit PROVE Protocol!Init
  OBVIOUS
<1>1. \A i : UnitIdsOf(i, {}) = {}
  BY DEF UnitIdsOf
<1>2. fighters = {} /\ \A e \in Endpoint : playing[e].units = {}
  BY DEF MatchInit, Init, NoResults, SimulationResult
<1>3. [e \in Endpoint |-> UnitIdsOf(ServerIdOf(e), fighters)]
         = [e \in Endpoint |-> {}]
  BY <1>1, <1>2
<1>4. [e \in Endpoint |-> [f \in Endpoint |->
          UnitIdsOf(ServerIdOf(f), playing[e].units)]]
         = [e \in Endpoint |-> [f \in Endpoint |-> {}]]
  BY <1>1, <1>2
<1>5. /\ round = 1 /\ mainPc = "update" /\ army = [e \in Endpoint |-> {}]
      /\ \A e \in Endpoint : state[e] = "Menu" /\ clientRound[e] = 1
  BY DEF MatchInit, Init
<1> QED BY <1>3, <1>4, <1>5 DEF Protocol!Init, Protocol!None

\* Every match of two clients is a run of the round protocol: armies are
\* handed in once per round, a round is fought once and with exactly the
\* armies all players handed in for it, and each player sees every round, and
\* the battle that was fought in it, before it hands in the next army.
THEOREM MatchFollowsProtocol ==
  ASSUME Duet
  PROVE  MatchSpec =>
           Protocol!Init /\ [][Protocol!Next]_(Protocol!protocolVars)
<1>1. Base /\ DuetInv /\ [MatchNext]_matchVars
        => [Protocol!Next]_(Protocol!protocolVars)
  <2> SUFFICES ASSUME Base, DuetInv, [MatchNext]_matchVars
               PROVE  Protocol!Next \/ UNCHANGED Protocol!protocolVars
    OBVIOUS
  <2>1. CASE MainNext /\ UNCHANGED client
    BY <2>1, MainStepSeen DEF Protocol!Next
  <2>2. CASE AsioNext /\ UNCHANGED client
    BY <2>2, AsioStepUnseen
  <2>3. ASSUME NEW e \in Endpoint, ClientStep(e)
        PROVE  Protocol!Next \/ UNCHANGED Protocol!protocolVars
    BY <2>3, ClientStepSeen DEF Protocol!Next
  <2>4. CASE UNCHANGED matchVars
    BY <2>4, Unseen DEF matchVars, vars, client
  <2> QED BY <2>1, <2>2, <2>3, <2>4 DEF MatchNext
<1> QED BY <1>1, InitProtocol, BaseHolds, DuetInvariance, PTL DEF MatchSpec

\* So both players get what the protocol promises: neither is a round ahead of
\* the other, both see the same battle in a round, each with its own army.
THEOREM PlayersAgree == ASSUME Duet PROVE MatchSpec => []Protocol!Promise
<1>1. Protocol!Init /\ [][Protocol!Next]_(Protocol!protocolVars)
        => []Protocol!Promise
  BY Protocol!PromiseKept
<1> QED BY <1>1, MatchFollowsProtocol, PTL

-----------------------------------------------------------------------------
(* Solo *)

\* The match: what the run match_solo has as constants, for any rounds.
Solo ==
  /\ MayLeave = {} /\ BotChoice \subseteq {"zero", "one", "both"}
  /\ PromptServer /\ \E e : Endpoint = {e}

-----------------------------------------------------------------------------
(* The inductive invariant: the server *)

\* Nobody has left, so that nothing is ever dropped.
Calm ==
  /\ link \in [Endpoint -> {"new", "connected"}]
  /\ isOpen = {e \in Endpoint : link[e] = "connected"} /\ sockets = isOpen
  /\ \A e \in Endpoint : ahead[e] \subseteq isOpen
  /\ \A i \in players : endpointOf[i] \in isOpen
  /\ mainPc # "ended" /\ asioPc # "ended"

\* The client has one seat and the bot the other.
Full == \E b \in PlayerId : bots = {b} /\ players = {1 - b}

Gathering ==
  \/ players = {} /\ bots \in {{}, {0}}
  \/ players = {0} /\ bots = {}

\* The match starts when the bot and the client are there, and once.
SoloOpened ==
  /\ Full \/ Gathering
  /\ asioPc = "announce" => Full
  /\ matchHasStarted => Full /\ asioPc \notin {"respond", "count", "announce"}
  /\ ~matchHasStarted => units = {} /\ fighters = {} /\ round = 1

SoloEveryoneReady == Full /\ \A i \in players : roundReady[i]

\* m_allPlayersReady hands the simulation to the main thread, which then uses
\* the bots as they are.
SoloRounds ==
  /\ simulationStarted <=> mainPc \in {"simulate", "unready"}
  /\ mainPc \in {"ai", "start", "simulate", "unready"} => allPlayersReady
  /\ allPlayersReady /\ mainPc # "unready" => SoloEveryoneReady /\ asioPc = "idle"
  /\ asioPc = "store" => SoloEveryoneReady /\ ~allPlayersReady
  /\ mainPc = "ai" => botCopy = bots
  /\ mainPc = "simulate" => fighters = units

\* The bot has a unit for each round, the one of the running round included
\* as soon as performAI has run.
BotArmy ==
  \A b \in bots :
     UnitIdsOf(b, units) = 1..(IF mainPc \in {"start", "simulate"}
                               THEN round ELSE round - 1)

-----------------------------------------------------------------------------
(* The inductive invariant: where the client stands *)

\* The messages of the client the server has yet to handle, first to last.
InHand  == IF asioPc = "dispatch" THEN <<current.msg>> ELSE <<>>
Chain(h, q, t) == (h \o q) \o t
Line(e) == Chain(InHand, inbox[e], toSend[e])

\* No round has begun for the client.
SoloFresh(e) ==
  /\ ~dataReady[e] /\ clientRound[e] = 1 /\ army[e] = {} /\ ~upgraded[e]

\* The server has no player for the client yet.
SoloUnseated(e) ==
  /\ SoloFresh(e) /\ clientId[e] = NoId /\ ~allConnected[e] /\ outbox[e] = <<>>
  /\ \/ /\ state[e] = "Menu" /\ bots = {} /\ asioPc = "idle"
        /\ Line(e) = <<>>
     \/ /\ state[e] = "WaitForAllPlayers" /\ link[e] = "connected"
        /\ \/ /\ bots = {} /\ asioPc \in {"idle", "dispatch"}
              /\ Line(e) \in {<<AddBot, InitialPing>>, <<InitialPing, AddBot>>,
                              <<AddBot, InitialPing, AddBot>>}
           \/ /\ bots = {0} /\ asioPc \in {"idle", "dispatch", "count"}
              /\ Line(e) \in {<<InitialPing>>, <<InitialPing, AddBot>>}

\* What may be left of the opening: a bot to be added, or to be rejected.
BotOrNone == {<<>>, <<AddBot>>}

\* The client's id, and then the announcement of the match, are on their way.
SoloRegistered(i, e) ==
  /\ SoloFresh(e) /\ state[e] = "WaitForAllPlayers" /\ ~allConnected[e]
  /\ ~roundReady[i] /\ round = 1 /\ UnitIdsOf(i, units) = {}
  /\ asioPc \in {"idle", "dispatch", "respond", "count", "announce"}
  /\ Line(e) \in BotOrNone
  /\ \/ /\ asioPc = "respond" /\ current.msg.playerId = i
        /\ clientId[e] = NoId /\ outbox[e] = <<>>
     \/ /\ asioPc # "respond" /\ ~matchHasStarted
        /\ \/ clientId[e] = NoId /\ outbox[e] = <<PlayerIdResponse(i)>>
           \/ clientId[e] = i /\ outbox[e] = <<>>
     \/ /\ matchHasStarted
        /\ \/ /\ clientId[e] = NoId
              /\ outbox[e] = <<PlayerIdResponse(i), AllPlayersConnected(map)>>
           \/ clientId[e] = i /\ outbox[e] = <<AllPlayersConnected(map)>>

\* Client and server agree on the id and on the map.
SoloInTouch(i, e) ==
  /\ clientId[e] = i /\ allConnected[e] /\ terrain[e] = map
  /\ matchHasStarted /\ toSend[e] = <<>>

SoloStarting(i, e) ==
  /\ SoloFresh(e) /\ state[e] \in {"WaitForAllPlayers", "SelectStartingUnits"}
  /\ clientId[e] = i /\ allConnected[e] /\ terrain[e] = map /\ matchHasStarted
  /\ state[e] = "SelectStartingUnits" => toSend[e] = <<>>
  /\ outbox[e] = <<>>
  /\ ~roundReady[i] /\ round = 1 /\ UnitIdsOf(i, units) = {}
  /\ asioPc \in {"idle", "dispatch"} /\ Line(e) \in BotOrNone

\* The client is in the server's round, whose order it has yet to give.
SoloPlacing(i, e) ==
  /\ state[e] = "PlaceUnits" /\ SoloInTouch(i, e)
  /\ ~dataReady[e] /\ outbox[e] = <<>> /\ clientRound[e] = round
  /\ roundReady[i] => mainPc = "unready" /\ i >= cursor
  /\ army[e] = UnitIdsOf(i, units) /\ asioPc \in {"idle", "dispatch"}
  /\ \/ Line(e) \in BotOrNone
     \/ /\ Line(e) \in {<<UnitUpgrade(i)>>, <<AddBot, UnitUpgrade(i)>>}
        /\ upgraded[e]

\* The order of the client is on its way or being handled.
SoloOrderInFlight(i, e, m) ==
  \/ /\ asioPc \in {"idle", "dispatch"}
     /\ Line(e) \in {<<m>>, <<AddBot, m>>, <<UnitUpgrade(i), m>>,
                     <<AddBot, UnitUpgrade(i), m>>}
  \/ asioPc = "apply" /\ current.msg = m /\ Line(e) = <<>>

SoloSent(i, e) ==
  /\ state[e] = "WaitForSimulationResults" /\ SoloInTouch(i, e)
  /\ ~dataReady[e] /\ outbox[e] = <<>> /\ clientRound[e] = round
  /\ ~roundReady[i] /\ mainPc # "unready"
  /\ \E placed, sold \in SUBSET UnitId :
       /\ army[e] = (UnitIdsOf(i, units) \cup placed) \ sold
       /\ SoloOrderInFlight(i, e, RoundReady(i, placed, sold))

\* The order has been carried out.
SoloWaiting(i, e) ==
  /\ state[e] = "WaitForSimulationResults" /\ SoloInTouch(i, e)
  /\ ~dataReady[e] /\ outbox[e] = <<>> /\ clientRound[e] = round
  /\ roundReady[i] /\ mainPc # "unready"
  /\ army[e] = UnitIdsOf(i, units)
  /\ Line(e) = <<>> /\ asioPc \in {"idle", "store"}

\* The round has been fought and the server is in the next one: the result is
\* on its way, or there, or played back.
SoloFought(i, e) ==
  /\ SoloInTouch(i, e) /\ clientRound[e] = round - 1
  /\ roundReady[i] => mainPc = "unready" /\ i >= cursor
  /\ army[e] = UnitIdsOf(i, units) /\ army[e] = UnitIdsOf(i, fighters)
  /\ \A b \in bots : UnitIdsOf(b, fighters) = 1..(round - 1)
  /\ Line(e) = <<>> /\ asioPc = "idle"
  /\ \/ /\ state[e] = "WaitForSimulationResults" /\ ~dataReady[e]
        /\ outbox[e] = <<SimulationResult(round - 1, fighters)>>
     \/ /\ state[e] = "WaitForSimulationResults" /\ dataReady[e]
        /\ results[e] = SimulationResult(round - 1, fighters)
        /\ outbox[e] = <<>>
     \/ state[e] = "Playback" /\ ~dataReady[e] /\ outbox[e] = <<>>

SoloSeat(i, e) ==
  \/ SoloRegistered(i, e) \/ SoloStarting(i, e) \/ SoloPlacing(i, e) \/ SoloSent(i, e)
  \/ SoloWaiting(i, e) \/ SoloFought(i, e)

SoloSeats ==
  \A e \in Endpoint : /\ players = {} => SoloUnseated(e)
                      /\ \A i \in players : SoloSeat(i, e)

SoloInv == Calm /\ SoloOpened /\ SoloRounds /\ BotArmy /\ SoloSeats

-----------------------------------------------------------------------------
(* The line of messages *)

\* The first message to be sent becomes the last one in flight.
LEMMA SendsFirst ==
  ASSUME NEW S, NEW h \in Seq(S), NEW q \in Seq(S), NEW t \in Seq(S), t # <<>>
  PROVE  Chain(h, Append(q, Head(t)), Tail(t)) = Chain(h, q, t)
<1>1. Tail(t) \in Seq(S) /\ Append(q, Head(t)) \in Seq(S)
  OBVIOUS
<1> DEFINE l == (h \o Append(q, Head(t))) \o Tail(t)
           r == (h \o q) \o t
<1>2. l \in Seq(S) /\ r \in Seq(S) /\ Len(l) = Len(r)
  BY <1>1
<1>3. ASSUME NEW i \in 1..Len(l)
      PROVE  l[i] = r[i]
  <2>1. /\ Len(h) \in Nat /\ Len(q) \in Nat /\ Len(t) \in Nat /\ Len(t) >= 1
        /\ Len(Append(q, Head(t))) = Len(q) + 1 /\ Len(Tail(t)) = Len(t) - 1
    BY <1>1
  <2>2. CASE i <= Len(h)
    BY <1>1, <2>1, <2>2
  <2>3. CASE Len(h) < i /\ i <= Len(h) + Len(q)
    BY <1>1, <2>1, <2>3
  <2>4. CASE i = Len(h) + Len(q) + 1
    BY <1>1, <2>1, <2>4
  <2>5. CASE i > Len(h) + Len(q) + 1
    BY <1>1, <2>1, <2>5
  <2> QED  BY <2>1, <2>2, <2>3, <2>4, <2>5
<1> HIDE DEF l, r
<1>4. l = r
  BY <1>2, <1>3, SeqEqual
<1> QED BY <1>4 DEF l, r, Chain

\* The first message in flight is taken in hand.
LEMMA TakesFirst ==
  ASSUME NEW S, NEW q \in Seq(S), NEW t \in Seq(S), q # <<>>
  PROVE  Chain(<<Head(q)>>, Tail(q), t) = Chain(<<>>, q, t)
<1>1. /\ <<Head(q)>> \in Seq(S) /\ Tail(q) \in Seq(S)
  OBVIOUS
<1>2. <<Head(q)>> \o Tail(q) \in Seq(S) /\ Len(<<Head(q)>> \o Tail(q)) = Len(q)
  BY <1>1
<1>3. \A i \in 1..Len(q) : (<<Head(q)>> \o Tail(q))[i] = q[i]
  BY <1>1
<1>4. <<Head(q)>> \o Tail(q) = q
  BY <1>2, <1>3, SeqEqual
<1> QED BY <1>4, ConcatEmptySeq DEF Chain

\* The message in hand is the first of the line; when it has been handled the
\* next one is.
LEMMA HandledFirst ==
  ASSUME NEW S, NEW h \in Seq(S), NEW q \in Seq(S), NEW t \in Seq(S),
         h # <<>>
  PROVE  /\ Head(Chain(h, q, t)) = Head(h)
         /\ Tail(Chain(h, q, t)) = Chain(Tail(h), q, t)
         /\ Chain(h, q, t) # <<>>
<1> DEFINE s == (h \o q) \o t
           r == (Tail(h) \o q) \o t
<1>1. Tail(h) \in Seq(S) /\ Len(h) \in Nat \ {0} /\ Len(Tail(h)) = Len(h) - 1
      /\ \A i \in 1..Len(Tail(h)) : Tail(h)[i] = h[i + 1]
  BY HeadTailProperties, EmptySeq
<1>2. h \o q \in Seq(S) /\ Tail(h) \o q \in Seq(S)
      /\ Len(h \o q) = Len(h) + Len(q)
      /\ Len(Tail(h) \o q) = Len(h) + Len(q) - 1
  BY <1>1
<1>3. s \in Seq(S) /\ r \in Seq(S) /\ Len(s) = 1 + Len(r) /\ s[1] = h[1]
  BY <1>1, <1>2
<1>4. \A i \in 1..Len(r) : s[i + 1] = r[i]
  BY <1>1, <1>2
<1> HIDE DEF s, r
<1>5. s # <<>> /\ Head(s) = Head(h)
  BY <1>3
<1>6. Tail(s) \in Seq(S) /\ Len(Tail(s)) = Len(r)
      /\ \A i \in 1..Len(r) : Tail(s)[i] = r[i]
  BY <1>3, <1>4, <1>5
<1>7. Tail(s) = r
  BY <1>3, <1>6, SeqEqual
<1> QED BY <1>5, <1>7 DEF s, r, Chain

\* When nothing is in hand, the message to be taken is the first of the line.
LEMMA TakenIsFirst ==
  ASSUME NEW S, NEW q \in Seq(S), NEW t \in Seq(S), q # <<>>
  PROVE  Head(Chain(<<>>, q, t)) = Head(q)
<1>1. <<>> \o q = q
  BY ConcatEmptySeq
<1>2. q \o t \in Seq(S) /\ Len(q \o t) = Len(q) + Len(t) /\ Len(q) \in Nat \ {0}
      /\ (q \o t)[1] = q[1]
  OBVIOUS
<1>3. Head(q \o t) = Head(q)
  BY <1>2
<1> QED BY <1>1, <1>3 DEF Chain

\* A message that is sent joins the end of the line.
LEMMA SendsLast ==
  ASSUME NEW S, NEW m \in S, NEW h \in Seq(S), NEW q \in Seq(S)
  PROVE  Chain(h, Append(q, m), <<>>) = Append(Chain(h, q, <<>>), m)
<1> DEFINE l == h \o Append(q, m)
           r == Append(h \o q, m)
<1>1. l \in Seq(S) /\ r \in Seq(S) /\ Len(l) = Len(r)
  OBVIOUS
<1>2. \A i \in 1..Len(l) : l[i] = r[i]
  OBVIOUS
<1>3. h \o q \in Seq(S)
  OBVIOUS
<1> HIDE DEF l, r
<1>4. l = r
  BY <1>1, <1>2, SeqEqual
<1> QED BY <1>1, <1>3, <1>4, ConcatEmptySeq DEF l, r, Chain

\* Nothing is in the line if and only if nothing is in any of its parts.
LEMMA EmptyLine ==
  ASSUME NEW S, NEW h \in Seq(S), NEW q \in Seq(S), NEW t \in Seq(S)
  PROVE  Chain(h, q, t) = <<>> <=> h = <<>> /\ q = <<>> /\ t = <<>>
<1>1. h \o q \in Seq(S)
  OBVIOUS
<1> QED BY <1>1, ConcatEqualIffEmpty DEF Chain

\* A queue of two messages and another one behind it.
LEMMA AppendToTwo ==
  ASSUME NEW x, NEW y, NEW z
  PROVE  Append(<<x, y>>, z) = <<x, y, z>>
<1> DEFINE S == {x, y, z}
<1>1. <<x, y>> \in Seq(S) /\ z \in S /\ <<x, y, z>> \in Seq(S)
  OBVIOUS
<1>2. Append(<<x, y>>, z) \in Seq(S) /\ Len(Append(<<x, y>>, z)) = 3
  BY <1>1
<1>3. \A i \in 1..3 : Append(<<x, y>>, z)[i] = <<x, y, z>>[i]
  BY <1>1
<1> QED BY <1>1, <1>2, <1>3, SeqEqual

\* A queue of three messages is shortened.
LEMMA LongQueues ==
  ASSUME NEW x, NEW y, NEW z
  PROVE  /\ <<x, y, z>> # <<>> /\ Head(<<x, y, z>>) = x
         /\ Tail(<<x, y, z>>) = <<y, z>>
OBVIOUS

\* The messages in the line are those of clients.
LEMMA LineParts ==
  ASSUME Base, NEW e \in Endpoint
  PROVE  /\ InHand \in Seq(ClientMessage) /\ inbox[e] \in Seq(ClientMessage)
         /\ toSend[e] \in Seq(ClientMessage)
         /\ Line(e) \in Seq(ClientMessage)
<1>1. current.msg \in ClientMessage /\ inbox[e] \in Seq(ClientMessage)
  BY DEF Base, IInv, TypeOK
<1>2. InHand \in Seq(ClientMessage)
  BY <1>1 DEF InHand
<1>3. {AddBot, InitialPing} \subseteq ClientMessage
  BY DEF AddBot, InitialPing, ClientMessage, NoId
<1>4. toSend[e] \in Seq({AddBot, InitialPing})
  BY DEF Base, OrdersInv
<1>5. toSend[e] \in Seq(ClientMessage)
  BY <1>3, <1>4, SeqMonotonic
<1> QED BY <1>1, <1>2, <1>5 DEF Line, Chain

\* Nothing in the line: nothing in hand, in flight or to be sent.
LEMMA NothingInLine ==
  ASSUME Base, NEW e \in Endpoint
  PROVE  Line(e) = <<>> <=> /\ asioPc # "dispatch" /\ inbox[e] = <<>>
                            /\ toSend[e] = <<>>
<1>1. Line(e) = <<>> <=> InHand = <<>> /\ inbox[e] = <<>> /\ toSend[e] = <<>>
  BY LineParts, EmptyLine DEF Line
<1> QED BY <1>1, ShortQueues DEF InHand

\* What is in hand comes first.
LEMMA FirstInLine ==
  ASSUME Base, NEW e \in Endpoint, asioPc = "dispatch"
  PROVE  Line(e) # <<>> /\ Head(Line(e)) = current.msg
<1>1. /\ InHand \in Seq(ClientMessage) /\ inbox[e] \in Seq(ClientMessage)
      /\ toSend[e] \in Seq(ClientMessage)
      /\ InHand # <<>> /\ Head(InHand) = current.msg /\ Tail(InHand) = <<>>
  BY LineParts, ShortQueues DEF InHand
<1>2. ASSUME NEW h \in Seq(ClientMessage), NEW q \in Seq(ClientMessage),
             NEW t \in Seq(ClientMessage), h # <<>>
      PROVE  Head(Chain(h, q, t)) = Head(h) /\ Chain(h, q, t) # <<>>
  BY <1>2, HandledFirst
<1> QED BY <1>1, <1>2 DEF Line

\* Once it is handled, the rest of the line is left.
LEMMA RestOfLine ==
  ASSUME Base, NEW e \in Endpoint, asioPc = "dispatch", asioPc' # "dispatch",
         UNCHANGED <<inbox, toSend>>
  PROVE  Line(e)' = Tail(Line(e))
<1>1. /\ InHand \in Seq(ClientMessage) /\ inbox[e] \in Seq(ClientMessage)
      /\ toSend[e] \in Seq(ClientMessage)
      /\ InHand # <<>> /\ Head(InHand) = current.msg /\ Tail(InHand) = <<>>
  BY LineParts, ShortQueues DEF InHand
<1>2. Line(e)' = Chain(<<>>, inbox[e], toSend[e])
  BY DEF Line, InHand
<1>3. Tail(Chain(InHand, inbox[e], toSend[e]))
        = Chain(Tail(InHand), inbox[e], toSend[e])
  <2>1. ASSUME NEW h \in Seq(ClientMessage), NEW q \in Seq(ClientMessage),
               NEW t \in Seq(ClientMessage), h # <<>>
        PROVE  Tail(Chain(h, q, t)) = Chain(Tail(h), q, t)
    BY <2>1, HandledFirst
  <2> QED BY <1>1, <2>1
<1>4. Line(e) = Chain(InHand, inbox[e], toSend[e])
  BY DEF Line
<1> QED BY <1>1, <1>2, <1>3, <1>4

\* A step that neither sends nor handles leaves the line as it is.
LEMMA SameLine ==
  ASSUME NEW e, UNCHANGED <<inbox, toSend, current>>,
         (asioPc = "dispatch") = (asioPc' = "dispatch")
  PROVE  Line(e)' = Line(e)
BY DEF Line, InHand

\* The client is the only one, and the bot's seat and its own are the only
\* ones.
LEMMA Participants ==
  ASSUME Solo, Base, SoloInv, NEW e \in Endpoint
  PROVE  /\ Endpoint = {e}
         /\ \/ players = {} /\ SoloUnseated(e)
            \/ \E i \in PlayerId : players = {i} /\ endpointOf[i] = e
                                     /\ SoloSeat(i, e)
         /\ NumberOfConnectedPlayers = (IF players = {} THEN 0 ELSE 1)
                                         + (IF bots = {} THEN 0 ELSE 1)
<1>1. Endpoint = {e}
  BY DEF Solo
<1>2. \/ players = {} /\ bots \in {{}, {0}}
      \/ \E i \in PlayerId : /\ players = {i}
                             /\ bots = {} \/ bots = {1 - i}
  BY DEF SoloInv, SoloOpened, Full, Gathering, PlayerId
<1>3. ASSUME NEW i \in players PROVE endpointOf[i] = e /\ SoloSeat(i, e)
  BY <1>1, <1>3 DEF SoloInv, Calm, SoloSeats, Base, IInv, TypeOK
<1>4. players = {} => SoloUnseated(e)
  BY DEF SoloInv, SoloSeats
<1>5. /\ Cardinality({}) = 0
      /\ \A i : Cardinality({i}) = 1
  BY FS_EmptySet, FS_Singleton
<1>6. /\ Cardinality(players) = IF players = {} THEN 0 ELSE 1
      /\ Cardinality(bots) = IF bots = {} THEN 0 ELSE 1
  BY <1>2, <1>5
<1> QED BY <1>1, <1>2, <1>3, <1>4, <1>6 DEF NumberOfConnectedPlayers

\* Nobody's socket is closed: nothing throws and the client is reached.
LEMMA EveryoneIsReached ==
  ASSUME Calm
  PROVE  /\ \A e : ~WalkThrows(e)
         /\ Reached = isOpen
BY DEF Calm, WalkThrows, Reached

\* Where the client stands is where its seat is.
LEMMA SeatsFromOne ==
  ASSUME NEW e, Endpoint = {e},
         \/ players' = {} /\ SoloUnseated(e)'
         \/ \E i \in PlayerId : players' = {i} /\ SoloSeat(i, e)'
  PROVE  SoloSeats'
<1>1. CASE players' = {} /\ SoloUnseated(e)'
  BY <1>1 DEF SoloSeats
<1>2. ASSUME NEW i \in PlayerId, players' = {i}, SoloSeat(i, e)'
      PROVE  SoloSeats'
  BY <1>2 DEF SoloSeats
<1> QED BY <1>1, <1>2

\* When the simulation runs or is about to, the client waits for it.
LEMMA ClientWaits ==
  ASSUME Solo, Base, SoloInv, NEW e \in Endpoint,
         SoloEveryoneReady, mainPc # "unready"
  PROVE  /\ \E i \in PlayerId : /\ players = {i} /\ bots = {1 - i}
                                /\ endpointOf[i] = e /\ SoloWaiting(i, e)
         /\ matchHasStarted /\ Line(e) = <<>>
<1>1. PICK i \in PlayerId : players = {i} /\ bots = {1 - i}
  BY DEF SoloEveryoneReady, Full, PlayerId
<1>2. endpointOf[i] = e /\ SoloSeat(i, e) /\ roundReady[i]
  BY <1>1, Participants DEF SoloEveryoneReady
<1>3. SoloWaiting(i, e)
  BY <1>2 DEF SoloSeat, SoloRegistered, SoloStarting, SoloPlacing, SoloSent, SoloFought
<1> QED BY <1>1, <1>2, <1>3 DEF SoloWaiting, SoloInTouch

-----------------------------------------------------------------------------
(* The steps of the client *)

\* What a client does without the server leaves the server as it is.
LEMMA ServerStays ==
  ASSUME Solo, Base, SoloInv, NEW e \in Endpoint,
         UNCHANGED server, UNCHANGED link,
         \/ players = {} /\ SoloUnseated(e)'
         \/ \E i \in PlayerId : players = {i} /\ SoloSeat(i, e)'
  PROVE  SoloInv'
<1> USE DEF server
<1>1. Calm' /\ SoloOpened' /\ SoloRounds' /\ BotArmy'
  BY DEF SoloInv, Calm, SoloOpened, Full, Gathering, SoloRounds, SoloEveryoneReady,
         BotArmy, UnitIdsOf
<1>2. SoloSeats'
  BY Participants, SeatsFromOne
<1> QED BY <1>1, <1>2 DEF SoloInv

\* The bot is asked for before or after the ping, or both.
LEMMA Openings ==
  /\ Opening("zero") = <<AddBot, InitialPing>>
  /\ Opening("one") = <<InitialPing, AddBot>>
  /\ Opening("both") = <<AddBot, InitialPing, AddBot>>
<1> DEFINE a == AddBot
           b == InitialPing
           S == {a, b}
<1> HIDE DEF a, b
<1>1. <<a>> \in Seq(S) /\ <<b>> \in Seq(S) /\ <<>> \in Seq(S)
      /\ <<a, b>> \in Seq(S) /\ <<b, a>> \in Seq(S) /\ <<a, b, a>> \in Seq(S)
  OBVIOUS
<1>2. <<a>> \o <<b>> = <<a, b>>
  <2>1. /\ <<a>> \o <<b>> \in Seq(S) /\ Len(<<a>> \o <<b>>) = 2
        /\ \A i \in 1..2 : (<<a>> \o <<b>>)[i] = <<a, b>>[i]
    BY <1>1
  <2> QED BY <1>1, <2>1, SeqEqual
<1>3. <<b>> \o <<a>> = <<b, a>>
  <2>1. /\ <<b>> \o <<a>> \in Seq(S) /\ Len(<<b>> \o <<a>>) = 2
        /\ \A i \in 1..2 : (<<b>> \o <<a>>)[i] = <<b, a>>[i]
    BY <1>1
  <2> QED BY <1>1, <2>1, SeqEqual
<1>4. <<a, b>> \o <<a>> = <<a, b, a>>
  <2>1. /\ <<a, b>> \o <<a>> \in Seq(S) /\ Len(<<a, b>> \o <<a>>) = 3
        /\ \A i \in 1..3 : (<<a, b>> \o <<a>>)[i] = <<a, b, a>>[i]
    BY <1>1
  <2> QED BY <1>1, <2>1, SeqEqual
<1>5. <<>> \o <<b>> = <<b>> /\ <<a, b>> \o <<>> = <<a, b>>
  BY <1>1, ConcatEmptySeq
<1>6. /\ Opening("zero") = (<<a>> \o <<b>>) \o <<>>
      /\ Opening("one") = (<<>> \o <<b>>) \o <<a>>
      /\ Opening("both") = (<<a>> \o <<b>>) \o <<a>>
  BY DEF Opening, a, b
<1> QED BY <1>2, <1>3, <1>4, <1>5, <1>6 DEF a, b

LEMMA CreateSolo ==
  ASSUME Solo, Base, SoloInv, NEW e \in Endpoint, Create(e)
  PROVE  SoloInv'
<1>1. PICK choice \in {"zero", "one", "both"} :
        toSend' = [toSend EXCEPT ![e] = Opening(choice)]
  BY DEF Create, Solo
<1>2. /\ state[e] = "Menu" /\ link[e] = "connected"
      /\ state' = [state EXCEPT ![e] = "WaitForAllPlayers"]
      /\ UNCHANGED <<vars, allConnected, terrain, dataReady, results, playing,
                     clientRound, army, upgraded>>
  BY DEF Create
<1>3. UNCHANGED server /\ UNCHANGED <<clientId, inbox, outbox, link>>
  BY <1>2 DEF vars, server
<1>4. players = {} /\ SoloUnseated(e)
  <2>1. \A i : ~SoloSeat(i, e)
    BY <1>2 DEF SoloSeat, SoloRegistered, SoloStarting, SoloPlacing, SoloSent,
                SoloWaiting, SoloFought
  <2> QED BY <2>1, Participants
<1>5. /\ bots = {} /\ asioPc = "idle" /\ Line(e) = <<>>
      /\ SoloFresh(e) /\ clientId[e] = NoId /\ ~allConnected[e] /\ outbox[e] = <<>>
  BY <1>2, <1>4 DEF SoloUnseated
<1>6. Line(e)' = Opening(choice)
  <2>1. inbox[e] = <<>> /\ InHand' = <<>>
    BY <1>2, <1>5, NothingInLine DEF InHand, vars
  <2>2. toSend'[e] = Opening(choice)
    BY <1>1 DEF Base, ClientInv, ClientTypeOK
  <2>3. Line(e)' = Chain(<<>>, <<>>, Opening(choice))
    BY <1>3, <2>1, <2>2 DEF Line
  <2>4. /\ Opening(choice) \in Seq({AddBot, InitialPing})
        /\ <<>> \in Seq({AddBot, InitialPing})
    BY OpeningType
  <2>5. <<>> \o <<>> = <<>> /\ <<>> \o Opening(choice) = Opening(choice)
    BY <2>4, ConcatEmptySeq
  <2> QED BY <2>3, <2>5 DEF Chain
<1>7. state'[e] = "WaitForAllPlayers"
  BY <1>2 DEF Base, ClientInv, ClientTypeOK
<1>8. SoloUnseated(e)'
  BY <1>2, <1>3, <1>5, <1>6, <1>7, Openings DEF SoloUnseated, SoloFresh, server
<1> QED BY <1>3, <1>4, <1>8, ServerStays

\* A message of the opening is sent: the line is as it was.
LEMMA SendOpeningSolo ==
  ASSUME Solo, Base, SoloInv, NEW e \in Endpoint, SendOpening(e)
  PROVE  SoloInv'
<1>1. /\ toSend[e] # <<>> /\ link[e] = "connected"
      /\ inbox' = [inbox EXCEPT ![e] = Append(@, Head(toSend[e]))]
      /\ toSend' = [toSend EXCEPT ![e] = Tail(@)]
      /\ UNCHANGED server
      /\ UNCHANGED <<link, clientId, outbox, state, allConnected, terrain,
                     dataReady, results, playing, clientRound, army, upgraded>>
  BY DEF SendOpening, Send
<1>2. Line(e)' = Line(e)
  <2>1. /\ inbox'[e] = Append(inbox[e], Head(toSend[e]))
        /\ toSend'[e] = Tail(toSend[e]) /\ InHand' = InHand
    BY <1>1 DEF Base, IInv, TypeOK, ClientInv, ClientTypeOK, InHand, server
  <2>2. Chain(InHand, Append(inbox[e], Head(toSend[e])), Tail(toSend[e]))
          = Chain(InHand, inbox[e], toSend[e])
    BY <1>1, LineParts, SendsFirst
  <2> QED BY <2>1, <2>2 DEF Line
<1>3. UNCHANGED <<roundReady, round, units, matchHasStarted, map, asioPc,
                  current, bots>>
  BY <1>1 DEF server
<1>4. CASE players = {} /\ SoloUnseated(e)
  <2>1. SoloUnseated(e)'
    BY <1>1, <1>2, <1>3, <1>4 DEF SoloUnseated, SoloFresh
  <2> QED BY <1>1, <1>4, <2>1, ServerStays
<1>5. ASSUME NEW i \in PlayerId, players = {i}, SoloSeat(i, e)
      PROVE  SoloInv'
  <2>1. CASE SoloRegistered(i, e)
    BY <1>1, <1>2, <1>3, <1>5, <2>1, ServerStays
       DEF SoloRegistered, SoloFresh, UnitIdsOf, SoloSeat
  <2>2. CASE SoloStarting(i, e)
    BY <1>1, <1>2, <1>3, <1>5, <2>2, ServerStays
       DEF SoloStarting, SoloFresh, UnitIdsOf, SoloSeat
  <2>3. CASE ~SoloRegistered(i, e) /\ ~SoloStarting(i, e)
    BY <1>1, <1>5, <2>3 DEF SoloSeat, SoloPlacing, SoloSent, SoloWaiting, SoloFought,
                            SoloInTouch
  <2> QED BY <2>1, <2>2, <2>3
<1> QED BY <1>4, <1>5, Participants

LEMMA SelectUnitsSolo ==
  ASSUME Solo, Base, SoloInv, NEW e \in Endpoint,
         BeginMatch(e) \/ SelectUnits(e)
  PROVE  SoloInv'
<1>1. /\ UNCHANGED <<vars, toSend, allConnected, terrain, dataReady, results,
                     playing, clientRound, army, upgraded>>
      /\ \/ /\ state[e] = "WaitForAllPlayers" /\ allConnected[e]
            /\ toSend[e] = <<>>
            /\ state' = [state EXCEPT ![e] = "SelectStartingUnits"]
         \/ /\ state[e] = "SelectStartingUnits"
            /\ state' = [state EXCEPT ![e] = "PlaceUnits"]
  BY DEF BeginMatch, SelectUnits
<1>2. PICK i \in PlayerId : players = {i} /\ SoloSeat(i, e)
  BY <1>1, Participants DEF SoloUnseated
<1>3. SoloStarting(i, e)
  BY <1>1, <1>2 DEF SoloSeat, SoloRegistered, SoloPlacing, SoloSent, SoloWaiting,
                    SoloFought
<1>4. UNCHANGED server /\ UNCHANGED <<clientId, inbox, outbox, link>>
  BY <1>1 DEF vars, server
<1>5. UNCHANGED <<roundReady, round, units, matchHasStarted, map, asioPc,
                  current, mainPc, cursor>>
  BY <1>4 DEF server
<1>6. Line(e)' = Line(e)
  BY <1>1, <1>4, <1>5, SameLine
<1>7. \/ /\ state[e] = "WaitForAllPlayers" /\ toSend[e] = <<>>
         /\ state'[e] = "SelectStartingUnits"
      \/ state[e] = "SelectStartingUnits" /\ state'[e] = "PlaceUnits"
  BY <1>1 DEF Base, ClientInv, ClientTypeOK
<1>8. CASE state'[e] = "SelectStartingUnits"
  <2>1. SoloStarting(i, e)'
    BY <1>1, <1>3, <1>4, <1>5, <1>6, <1>7, <1>8
       DEF SoloStarting, SoloFresh, UnitIdsOf
  <2> QED BY <1>2, <1>4, <2>1, ServerStays DEF SoloSeat
<1>9. CASE state'[e] = "PlaceUnits"
  <2>1. SoloPlacing(i, e)'
    BY <1>1, <1>3, <1>4, <1>5, <1>6, <1>7, <1>9
       DEF SoloStarting, SoloPlacing, SoloFresh, SoloInTouch, UnitIdsOf
  <2> QED BY <1>2, <1>4, <2>1, ServerStays DEF SoloSeat
<1> QED BY <1>7, <1>8, <1>9

\* A message the client sends in the match joins the end of the line.
LEMMA JoinsLine ==
  ASSUME Base, NEW e \in Endpoint, NEW m \in ClientMessage, toSend[e] = <<>>,
         inbox' = [inbox EXCEPT ![e] = Append(@, m)],
         UNCHANGED <<toSend, asioPc, current>>
  PROVE  Line(e)' = Append(Line(e), m)
<1>1. inbox'[e] = Append(inbox[e], m) /\ InHand' = InHand
  BY DEF Base, IInv, TypeOK, InHand
<1>2. Chain(InHand, Append(inbox[e], m), <<>>)
        = Append(Chain(InHand, inbox[e], <<>>), m)
  BY LineParts, SendsLast
<1> QED BY <1>1, <1>2 DEF Line

LEMMA BuyUpgradeSolo ==
  ASSUME Solo, Base, SoloInv, NEW e \in Endpoint, BuyUpgrade(e)
  PROVE  SoloInv'
<1>1. /\ state[e] = "PlaceUnits" /\ ~upgraded[e]
      /\ inbox' = [inbox EXCEPT ![e] = Append(@, UnitUpgrade(clientId[e]))]
      /\ upgraded' = [upgraded EXCEPT ![e] = TRUE]
      /\ UNCHANGED server
      /\ UNCHANGED <<link, clientId, outbox, state, toSend, allConnected,
                     terrain, dataReady, results, playing, clientRound, army>>
  BY DEF BuyUpgrade, Send
<1>2. PICK i \in PlayerId : players = {i} /\ SoloSeat(i, e)
  BY <1>1, Participants DEF SoloUnseated
<1>3. SoloPlacing(i, e)
  BY <1>1, <1>2 DEF SoloSeat, SoloRegistered, SoloStarting, SoloSent, SoloWaiting,
                    SoloFought
<1>4. UNCHANGED <<roundReady, round, units, matchHasStarted, map, asioPc,
                  current, mainPc, cursor>>
  BY <1>1 DEF server
<1>5. UnitUpgrade(i) \in ClientMessage
  BY DEF UnitUpgrade, ClientMessage
<1>6. Line(e)' = Append(Line(e), UnitUpgrade(i))
  BY <1>1, <1>3, <1>4, <1>5, JoinsLine DEF SoloPlacing, SoloInTouch
<1>7. Line(e) = <<>> \/ Line(e) = <<AddBot>>
  BY <1>1, <1>3 DEF SoloPlacing, BotOrNone
<1>8. Line(e)' = <<UnitUpgrade(i)>> \/ Line(e)' = <<AddBot, UnitUpgrade(i)>>
  <2>1. Append(<<>>, UnitUpgrade(i)) = <<UnitUpgrade(i)>>
    BY ShortQueues
  <2>2. Append(<<AddBot>>, UnitUpgrade(i)) = <<AddBot, UnitUpgrade(i)>>
    BY AppendToOne
  <2> QED BY <1>6, <1>7, <2>1, <2>2
<1>9. upgraded'[e]
  BY <1>1 DEF Base, ClientInv, ClientTypeOK
<1>10. SoloPlacing(i, e)'
  BY <1>1, <1>3, <1>4, <1>8, <1>9 DEF SoloPlacing, SoloInTouch, UnitIdsOf
<1> QED BY <1>1, <1>2, <1>10, ServerStays DEF SoloSeat

LEMMA ReadyRoundSolo ==
  ASSUME Solo, Base, SoloInv, NEW e \in Endpoint, ReadyRound(e)
  PROVE  SoloInv'
<1>1. /\ state[e] = "PlaceUnits" /\ clientRound[e] <= MaxRounds
      /\ mainPc # "unready"
      /\ state' = [state EXCEPT ![e] = "WaitForSimulationResults"]
      /\ UNCHANGED server
      /\ UNCHANGED <<link, clientId, outbox, toSend, allConnected, terrain,
                     dataReady, results, playing, clientRound, upgraded>>
  BY DEF ReadyRound, Solo
<1>2. PICK placed \in {{}, {clientRound[e]}} :
        \E sold \in {{}} \cup {{n} : n \in army[e] \ placed} :
          /\ Send(e, RoundReady(clientId[e], placed, sold))
          /\ army' = [army EXCEPT ![e] = (@ \cup placed) \ sold]
  BY DEF ReadyRound
<1>3. PICK sold \in {{}} \cup {{n} : n \in army[e] \ placed} :
        /\ Send(e, RoundReady(clientId[e], placed, sold))
        /\ army' = [army EXCEPT ![e] = (@ \cup placed) \ sold]
  BY <1>2
<1>4. placed \in SUBSET UnitId /\ sold \in SUBSET UnitId
  BY <1>1, RoundsAssumption DEF Base, OrdersInv
<1>5. PICK i \in PlayerId : players = {i} /\ SoloSeat(i, e)
  BY <1>1, Participants DEF SoloUnseated
<1>6. SoloPlacing(i, e)
  BY <1>1, <1>5 DEF SoloSeat, SoloRegistered, SoloStarting, SoloSent, SoloWaiting,
                    SoloFought
<1> DEFINE m == RoundReady(i, placed, sold)
<1>7. m \in ClientMessage
  BY <1>4 DEF RoundReady, ClientMessage
<1>8. /\ inbox' = [inbox EXCEPT ![e] = Append(@, m)]
      /\ army' = [army EXCEPT ![e] = (@ \cup placed) \ sold]
  BY <1>3, <1>6 DEF Send, SoloPlacing, SoloInTouch
<1>9. UNCHANGED <<roundReady, round, units, matchHasStarted, map, asioPc,
                  current, mainPc, cursor>>
  BY <1>1 DEF server
<1> HIDE DEF m
<1>10. Line(e)' = Append(Line(e), m)
  BY <1>1, <1>6, <1>7, <1>8, <1>9, JoinsLine DEF SoloPlacing, SoloInTouch
<1>11. SoloOrderInFlight(i, e, m)'
  <2>1. /\ Append(<<>>, m) = <<m>>
        /\ Append(<<AddBot>>, m) = <<AddBot, m>>
        /\ Append(<<UnitUpgrade(i)>>, m) = <<UnitUpgrade(i), m>>
    BY ShortQueues, AppendToOne
  <2>2. Append(<<AddBot, UnitUpgrade(i)>>, m) = <<AddBot, UnitUpgrade(i), m>>
    BY AppendToTwo
  <2>3. \/ Line(e) = <<>> \/ Line(e) = <<AddBot>>
        \/ Line(e) = <<UnitUpgrade(i)>> \/ Line(e) = <<AddBot, UnitUpgrade(i)>>
    BY <1>6 DEF SoloPlacing, BotOrNone
  <2>4. \/ Line(e)' = <<m>> \/ Line(e)' = <<AddBot, m>>
        \/ Line(e)' = <<UnitUpgrade(i), m>>
        \/ Line(e)' = <<AddBot, UnitUpgrade(i), m>>
    BY <1>10, <2>1, <2>2, <2>3
  <2>5. asioPc' \in {"idle", "dispatch"}
    BY <1>6, <1>9 DEF SoloPlacing
  <2> QED BY <2>4, <2>5 DEF SoloOrderInFlight
<1>12. /\ ~roundReady[i] /\ army'[e] = (UnitIdsOf(i, units) \cup placed) \ sold
       /\ state'[e] = "WaitForSimulationResults"
  BY <1>1, <1>6, <1>8
     DEF SoloPlacing, Base, OrdersInv, ClientInv, ClientTypeOK
<1>13. SoloSent(i, e)'
  BY <1>1, <1>4, <1>6, <1>9, <1>11, <1>12
     DEF SoloSent, SoloPlacing, SoloInTouch, UnitIdsOf, m
<1> QED BY <1>1, <1>5, <1>13, ServerStays DEF SoloSeat

LEMMA PlaybackSolo ==
  ASSUME Solo, Base, SoloInv, NEW e \in Endpoint,
         StartPlayback(e) \/ EndPlayback(e)
  PROVE  SoloInv'
<1>1. /\ UNCHANGED <<vars, toSend, allConnected, terrain, army, upgraded>>
      /\ \/ /\ state[e] = "WaitForSimulationResults" /\ dataReady[e]
            /\ state' = [state EXCEPT ![e] = "Playback"]
            /\ dataReady' = [dataReady EXCEPT ![e] = FALSE]
            /\ UNCHANGED clientRound
         \/ /\ state[e] = "Playback"
            /\ state' = [state EXCEPT ![e] = "PlaceUnits"]
            /\ clientRound' = [clientRound EXCEPT ![e] = @ + 1]
            /\ UNCHANGED <<dataReady, results>>
  BY DEF StartPlayback, EndPlayback
<1>2. PICK i \in PlayerId : players = {i} /\ SoloSeat(i, e)
  BY <1>1, Participants DEF SoloUnseated
<1>3. SoloFought(i, e)
  BY <1>1, <1>2 DEF SoloSeat, SoloRegistered, SoloStarting, SoloPlacing, SoloSent,
                    SoloWaiting, SoloFresh
<1>4. UNCHANGED server /\ UNCHANGED <<clientId, inbox, outbox, link>>
  BY <1>1 DEF vars, server
<1>5. UNCHANGED <<roundReady, round, matchHasStarted, map, fighters, mainPc,
                  cursor, units, asioPc, current, bots>>
  BY <1>4 DEF server
<1>6. Line(e)' = Line(e)
  BY <1>1, <1>4, <1>5, SameLine
<1>7. SoloSeat(i, e)'
  <2>1. CASE state[e] = "WaitForSimulationResults"
    <3>1. state'[e] = "Playback" /\ ~dataReady'[e] /\ UNCHANGED clientRound
      BY <1>1, <2>1 DEF Base, ClientInv, ClientTypeOK
    <3>2. outbox[e] = <<>>
      BY <1>1, <1>3, <2>1 DEF SoloFought
    <3> QED BY <1>1, <1>3, <1>4, <1>5, <1>6, <3>1, <3>2
            DEF SoloFought, SoloInTouch, UnitIdsOf, SoloSeat
  <2>2. CASE state[e] = "Playback"
    <3>1. /\ state'[e] = "PlaceUnits" /\ clientRound'[e] = clientRound[e] + 1
          /\ UNCHANGED dataReady
      BY <1>1, <2>2 DEF Base, ClientInv, ClientTypeOK
    <3>2. ~dataReady[e] /\ outbox[e] = <<>>
      BY <1>3, <2>2 DEF SoloFought
    <3>3. clientRound'[e] = round
      BY <1>3, <3>1 DEF SoloFought, Base, IInv, TypeOK
    <3> QED BY <1>1, <1>3, <1>4, <1>5, <1>6, <3>1, <3>2, <3>3
            DEF SoloFought, SoloPlacing, SoloInTouch, UnitIdsOf, BotOrNone, SoloSeat
  <2> QED BY <1>1, <2>1, <2>2
<1> QED BY <1>2, <1>4, <1>7, ServerStays

\* The client takes its id, the announcement and the result in this order.
LEMMA ReceiveSolo ==
  ASSUME Solo, Base, SoloInv, NEW e \in Endpoint, Receive(e)
  PROVE  SoloInv'
<1> DEFINE m == Head(outbox[e])
<1>1. /\ outbox[e] # <<>>
      /\ outbox' = [outbox EXCEPT ![e] = Tail(@)]
      /\ TakeId(e, m)
      /\ UNCHANGED server
      /\ UNCHANGED <<link, inbox, state, toSend, playing, clientRound, army,
                     upgraded>>
  BY DEF Receive, ClientReceive, server
<1>2. PICK i \in PlayerId : players = {i} /\ SoloSeat(i, e)
  BY <1>1, Participants DEF SoloUnseated
<1>3. state[e] # "Menu" /\ i # NoId
  BY <1>2 DEF SoloSeat, SoloRegistered, SoloStarting, SoloPlacing, SoloSent,
              SoloWaiting, SoloFought,
              PlayerId, NoId
<1>4. /\ allConnected' = [allConnected EXCEPT ![e] =
                            @ \/ m.type = "AllPlayersConnected"]
      /\ terrain' = IF m.type = "AllPlayersConnected"
                    THEN [terrain EXCEPT ![e] = m.map] ELSE terrain
      /\ IF m.type = "SimulationResult"
         THEN /\ results' = [results EXCEPT ![e] = m]
              /\ dataReady' = [dataReady EXCEPT ![e] = TRUE]
         ELSE UNCHANGED <<results, dataReady>>
  BY <1>3 DEF Receive, IsResult
<1>5. UNCHANGED <<roundReady, round, matchHasStarted, map, fighters, mainPc,
                  cursor, units, asioPc, current, bots>>
  BY <1>1 DEF server
<1>6. Line(e)' = Line(e)
  BY <1>1, <1>5, SameLine
<1>7. outbox'[e] = Tail(outbox[e])
  BY <1>1 DEF Base, IInv, TypeOK
<1>8. SoloSeat(i, e)'
  <2>1. CASE SoloRegistered(i, e) /\ m = PlayerIdResponse(i)
    <3>1. /\ m.type = "PlayerIdResponse" /\ m.playerId = i
          /\ UNCHANGED <<allConnected, terrain, results, dataReady>>
      <4>1. m.type = "PlayerIdResponse" /\ m.playerId = i
        BY <2>1 DEF PlayerIdResponse
      <4> QED BY <1>4, <4>1 DEF Base, ClientInv, ClientTypeOK
    <3>2. clientId[e] = NoId
      <4>1. AllPlayersConnected(map) # PlayerIdResponse(i)
        BY DEF AllPlayersConnected, PlayerIdResponse
      <4> QED BY <1>1, <1>3, <2>1, <4>1, ShortQueues DEF SoloRegistered
    <3>3. clientId'[e] = i
      BY <1>1, <3>1, <3>2 DEF TakeId, Base, IInv, TypeOK
    <3>4. CASE ~matchHasStarted
      <4>1. outbox[e] = <<PlayerIdResponse(i)>> /\ asioPc # "respond"
        BY <1>1, <1>3, <2>1, <3>2, <3>4 DEF SoloRegistered
      <4>2. outbox'[e] = <<>>
        BY <1>7, <4>1, ShortQueues
      <4> QED BY <1>1, <1>5, <1>6, <2>1, <3>1, <3>3, <3>4, <4>1, <4>2
              DEF SoloRegistered, SoloFresh, UnitIdsOf, SoloSeat
    <3>5. CASE matchHasStarted
      <4>1. /\ outbox[e] = <<PlayerIdResponse(i), AllPlayersConnected(map)>>
            /\ asioPc # "respond"
        BY <1>1, <1>3, <2>1, <3>2, <3>5
           DEF SoloRegistered, SoloInv, SoloOpened
      <4>2. outbox'[e] = <<AllPlayersConnected(map)>>
        BY <1>7, <4>1, ShortQueues
      <4> QED BY <1>1, <1>5, <1>6, <2>1, <3>1, <3>3, <3>5, <4>1, <4>2
              DEF SoloRegistered, SoloFresh, UnitIdsOf, SoloSeat
    <3> QED BY <3>4, <3>5
  <2>2. CASE SoloRegistered(i, e) /\ m # PlayerIdResponse(i)
    <3>1. /\ matchHasStarted /\ clientId[e] = i
          /\ outbox[e] = <<AllPlayersConnected(map)>>
      BY <1>1, <2>2, ShortQueues DEF SoloRegistered
    <3>2. m = AllPlayersConnected(map) /\ outbox'[e] = <<>>
      BY <1>7, <3>1, ShortQueues
    <3>3. m.type = "AllPlayersConnected" /\ m.map = map
      BY <3>2 DEF AllPlayersConnected
    <3>4. /\ allConnected'[e] /\ terrain'[e] = map
          /\ UNCHANGED <<clientId, results, dataReady>>
      BY <1>1, <1>4, <3>3 DEF TakeId, Base, ClientInv, ClientTypeOK
    <3>5. asioPc \in {"idle", "dispatch"}
      BY <2>2, <3>1 DEF SoloRegistered, SoloInv, SoloOpened
    <3>6. SoloStarting(i, e)'
      BY <1>1, <1>5, <1>6, <2>2, <3>1, <3>2, <3>4, <3>5
         DEF SoloRegistered, SoloFresh, SoloStarting, UnitIdsOf
    <3> QED BY <3>6 DEF SoloSeat
  <2>3. CASE ~SoloRegistered(i, e)
    <3>1. /\ SoloFought(i, e) /\ state[e] = "WaitForSimulationResults"
          /\ outbox[e] = <<SimulationResult(round - 1, fighters)>>
      BY <1>1, <1>2, <2>3
         DEF SoloSeat, SoloStarting, SoloPlacing, SoloSent, SoloWaiting, SoloFought
    <3>2. /\ m = SimulationResult(round - 1, fighters)
          /\ outbox'[e] = <<>>
      BY <1>7, <3>1, ShortQueues
    <3>3. m.type = "SimulationResult"
      BY <3>2 DEF SimulationResult
    <3>4. /\ results'[e] = m /\ dataReady'[e]
          /\ allConnected'[e] = allConnected[e]
          /\ UNCHANGED <<clientId, terrain>>
      BY <1>1, <1>4, <3>3 DEF TakeId, Base, ClientInv, ClientTypeOK
    <3> QED BY <1>1, <1>5, <1>6, <3>1, <3>2, <3>4
            DEF SoloFought, SoloInTouch, UnitIdsOf, SoloSeat
  <2> QED BY <2>1, <2>2, <2>3
<1> QED BY <1>1, <1>2, <1>8, ServerStays

LEMMA ClientStepSolo ==
  ASSUME Solo, Base, SoloInv, NEW e \in Endpoint, ClientStep(e)
  PROVE  SoloInv'
<1>1. ~Leave(e)
  BY DEF Leave, Solo
<1>2. ~Return(e)
  BY DEF Return, ClientReturn, SoloInv, Calm
<1> QED BY <1>1, <1>2, CreateSolo, SendOpeningSolo, SelectUnitsSolo,
           BuyUpgradeSolo, ReadyRoundSolo, PlaybackSolo, ReceiveSolo
       DEF ClientStep

-----------------------------------------------------------------------------
(* The steps of the asio thread *)

\* The asio thread works for the one client there is.
LEMMA WorksFor ==
  ASSUME Solo, Base, SoloInv, NEW e \in Endpoint, asioPc # "idle"
  PROVE  current.from = e /\ e \in isOpen
<1>1. current.from \in isOpen
  BY DEF Base, IInv, Handling, SenderIsConnected, SoloInv, Calm
<1> QED BY <1>1, Participants DEF Base, IInv, TypeOK

\* What the asio thread leaves as it is in most steps.
LEMMA CalmKept ==
  ASSUME SoloInv, UNCHANGED <<players, endpointOf, link, net, mainPc>>,
         asioPc' # "ended"
  PROVE  Calm'
BY DEF SoloInv, Calm

\* The first message of the line, whoever the client is to the server.
LEMMA HeadOfLine ==
  ASSUME Solo, Base, SoloInv, NEW e \in Endpoint, Line(e) # <<>>
  PROVE  /\ state[e] # "Menu" /\ ~(SoloEveryoneReady /\ mainPc # "unready")
         /\ players = {} => /\ SoloUnseated(e)
                            /\ \/ Head(Line(e)) = AddBot
                               \/ Head(Line(e)) = InitialPing
         /\ \A i \in players :
              /\ \/ Head(Line(e)) = AddBot
                 \/ Head(Line(e)) = UnitUpgrade(i)
                 \/ \E placed, sold \in SUBSET UnitId :
                      Head(Line(e)) = RoundReady(i, placed, sold)
              /\ ~SoloWaiting(i, e) /\ ~SoloFought(i, e)
<1>1. ~(SoloEveryoneReady /\ mainPc # "unready")
  BY ClientWaits
<1>2. CASE players = {} /\ SoloUnseated(e)
  <2>1. state[e] # "Menu"
    BY <1>2 DEF SoloUnseated
  <2>2. Head(Line(e)) = AddBot \/ Head(Line(e)) = InitialPing
    BY <1>2, <2>1, ShortQueues, LongQueues DEF SoloUnseated
  <2> QED BY <1>1, <1>2, <2>1, <2>2
<1>3. ASSUME NEW i \in PlayerId, players = {i}, SoloSeat(i, e)
      PROVE  /\ state[e] # "Menu"
             /\ \/ Head(Line(e)) = AddBot
                \/ Head(Line(e)) = UnitUpgrade(i)
                \/ \E placed, sold \in SUBSET UnitId :
                     Head(Line(e)) = RoundReady(i, placed, sold)
             /\ ~SoloWaiting(i, e) /\ ~SoloFought(i, e)
  <2>1. ~SoloWaiting(i, e) /\ ~SoloFought(i, e)
    BY DEF SoloWaiting, SoloFought
  <2>2. CASE SoloRegistered(i, e) \/ SoloStarting(i, e)
    <3>1. Line(e) = <<AddBot>> /\ state[e] # "Menu"
      BY <2>2 DEF SoloRegistered, SoloStarting, BotOrNone
    <3> QED BY <2>1, <3>1, ShortQueues
  <2>3. CASE SoloPlacing(i, e)
    <3>1. /\ state[e] # "Menu"
          /\ \/ Line(e) = <<AddBot>> \/ Line(e) = <<UnitUpgrade(i)>>
             \/ Line(e) = <<AddBot, UnitUpgrade(i)>>
      BY <2>3 DEF SoloPlacing, BotOrNone
    <3>2. Head(Line(e)) = AddBot \/ Head(Line(e)) = UnitUpgrade(i)
      BY <3>1, ShortQueues
    <3> QED BY <2>1, <3>1, <3>2
  <2>4. CASE SoloSent(i, e)
    <3>1. PICK placed, sold \in SUBSET UnitId :
            SoloOrderInFlight(i, e, RoundReady(i, placed, sold))
      BY <2>4 DEF SoloSent
    <3> DEFINE m == RoundReady(i, placed, sold)
    <3> HIDE DEF m
    <3>2. \/ Line(e) = <<m>> \/ Line(e) = <<AddBot, m>>
          \/ Line(e) = <<UnitUpgrade(i), m>>
          \/ Line(e) = <<AddBot, UnitUpgrade(i), m>>
      BY <3>1 DEF SoloOrderInFlight, m
    <3>3. \/ Head(Line(e)) = AddBot \/ Head(Line(e)) = UnitUpgrade(i)
          \/ Head(Line(e)) = m
      BY <3>2, ShortQueues, LongQueues
    <3> QED BY <2>1, <2>4, <3>3 DEF SoloSent, m
  <2> QED BY <1>3, <2>1, <2>2, <2>3, <2>4 DEF SoloSeat
<1> QED BY <1>1, <1>2, <1>3, Participants

LEMMA AcceptSolo ==
  ASSUME Solo, Base, SoloInv, NEW e \in Endpoint, HandleAccept(e),
         UNCHANGED client
  PROVE  SoloInv'
<1>1. /\ link[e] = "new"
      /\ sockets' = sockets \cup {e} /\ isOpen' = isOpen \cup {e}
      /\ ahead' = [ahead EXCEPT ![e] = sockets]
      /\ link' = [link EXCEPT ![e] = "connected"]
      /\ UNCHANGED <<simulation, lobby, flags, mainVars, asioVars, clientId,
                     channels>>
  BY DEF HandleAccept
<1>2. e \notin isOpen /\ Endpoint = {e} /\ link'[e] = "connected"
  BY <1>1, Participants DEF SoloInv, Calm
<1>3. players = {} /\ SoloUnseated(e)
  BY <1>2, Participants DEF SoloInv, Calm
<1>4. Calm'
  BY <1>1, <1>2 DEF SoloInv, Calm, Base, IInv, TypeOK
<1>5. SoloOpened' /\ SoloRounds' /\ BotArmy'
  BY <1>1 DEF SoloInv, SoloOpened, Full, Gathering, SoloRounds, SoloEveryoneReady,
              BotArmy, UnitIdsOf
<1>6. Line(e)' = Line(e)
  BY <1>1, SameLine DEF client
<1>7. SoloUnseated(e)'
  BY <1>1, <1>2, <1>3, <1>6 DEF client, SoloUnseated, SoloFresh
<1>8. SoloSeats'
  BY <1>1, <1>2, <1>3, <1>7, SeatsFromOne
<1> QED BY <1>4, <1>5, <1>8 DEF SoloInv

\* Every message of the client is accepted: it is one of the opening, or it
\* names the id of the player.
LEMMA MessageSolo ==
  ASSUME Solo, Base, SoloInv, NEW e \in Endpoint, HandleMessage(e),
         UNCHANGED client
  PROVE  SoloInv'
<1> DEFINE m == Head(inbox[e])
<1>1. /\ asioPc = "idle" /\ inbox[e] # <<>>
      /\ inbox' = [inbox EXCEPT ![e] = Tail(@)]
      /\ UNCHANGED <<simulation, lobby, flags, net, mainVars, clientVars,
                     outbox>>
  BY DEF HandleMessage
<1>2. /\ inbox[e] \in Seq(ClientMessage) /\ toSend[e] \in Seq(ClientMessage)
      /\ Line(e) # <<>>
  BY <1>1, LineParts, NothingInLine
<1>3. Line(e) = Chain(<<>>, inbox[e], toSend[e])
  BY <1>1 DEF Line, InHand
<1>4. Line(e) = Chain(<<m>>, Tail(inbox[e]), toSend[e])
  BY <1>1, <1>2, <1>3, TakesFirst
<1>5. Head(Line(e)) = m
  BY <1>1, <1>2, <1>3, TakenIsFirst
<1>6. \/ players = {} /\ SoloUnseated(e)
      \/ \E i \in PlayerId : players = {i} /\ endpointOf[i] = e /\ SoloSeat(i, e)
  BY Participants
<1>7. Accepts(e, m)
  <2>1. CASE players = {}
    BY <1>2, <1>5, <2>1, HeadOfLine DEF Accepts, AddBot, InitialPing
  <2>2. ASSUME NEW i \in players, endpointOf[i] = e PROVE Accepts(e, m)
    BY <1>2, <1>5, <2>2, HeadOfLine
       DEF Accepts, AddBot, UnitUpgrade, RoundReady
  <2> QED BY <1>6, <2>1, <2>2
<1>8. current' = [from |-> e, msg |-> m] /\ asioPc' = "dispatch"
  BY <1>7 DEF HandleMessage
<1>9. Line(e)' = Line(e)
  <2>1. inbox'[e] = Tail(inbox[e]) /\ InHand' = <<m>>
    BY <1>1, <1>8 DEF Base, IInv, TypeOK, InHand
  <2> QED BY <1>4, <2>1 DEF Line, client
<1>10. Calm'
  BY <1>1, <1>8, CalmKept
<1>11. ~(allPlayersReady /\ mainPc # "unready")
  BY <1>2, HeadOfLine DEF SoloInv, SoloRounds
<1>12. SoloOpened' /\ SoloRounds' /\ BotArmy'
  BY <1>1, <1>8, <1>11
     DEF SoloInv, SoloOpened, Full, Gathering, SoloRounds, SoloEveryoneReady, BotArmy,
         UnitIdsOf
<1>13. CASE players = {}
  <2>1. SoloUnseated(e) /\ state[e] # "Menu"
    BY <1>2, <1>13, HeadOfLine
  <2>2. SoloUnseated(e)'
    BY <1>1, <1>8, <1>9, <2>1 DEF client, SoloUnseated, SoloFresh
  <2>3. SoloSeats'
    BY <1>1, <1>13, <2>2, Participants, SeatsFromOne
  <2> QED BY <1>10, <1>12, <2>3 DEF SoloInv
<1>14. ASSUME NEW i \in PlayerId, players = {i}, SoloSeat(i, e)
       PROVE  SoloInv'
  <2>1. ~SoloWaiting(i, e) /\ ~SoloFought(i, e)
    BY <1>2, <1>14, HeadOfLine
  <2>2. SoloSeat(i, e)'
    <3>1. CASE SoloRegistered(i, e)
      BY <1>1, <1>8, <1>9, <3>1 DEF client, SoloRegistered, SoloFresh, UnitIdsOf, SoloSeat
    <3>2. CASE SoloStarting(i, e)
      BY <1>1, <1>8, <1>9, <3>2 DEF client, SoloStarting, SoloFresh, UnitIdsOf, SoloSeat
    <3>3. CASE SoloPlacing(i, e)
      BY <1>1, <1>8, <1>9, <3>3 DEF client, SoloPlacing, SoloInTouch, UnitIdsOf, SoloSeat
    <3>4. CASE SoloSent(i, e)
      <4>1. PICK placed, sold \in SUBSET UnitId :
              /\ army[e] = (UnitIdsOf(i, units) \cup placed) \ sold
              /\ SoloOrderInFlight(i, e, RoundReady(i, placed, sold))
        BY <3>4 DEF SoloSent
      <4>2. SoloOrderInFlight(i, e, RoundReady(i, placed, sold))'
        BY <1>1, <1>8, <1>9, <4>1 DEF SoloOrderInFlight
      <4>3. SoloSent(i, e)'
        BY <1>1, <3>4, <4>1, <4>2 DEF client, SoloSent, SoloInTouch, UnitIdsOf
      <4> QED BY <4>3 DEF SoloSeat
    <3> QED BY <1>14, <2>1, <3>1, <3>2, <3>3, <3>4 DEF SoloSeat
  <2>3. SoloSeats'
    BY <1>1, <1>14, <2>2, Participants, SeatsFromOne
  <2> QED BY <1>10, <1>12, <2>3 DEF SoloInv
<1> QED BY <1>6, <1>13, <1>14

\* As long as not everyone is ready no round begins.
LEMMA NoRoundYet ==
  ASSUME SoloInv, ~SoloEveryoneReady
  PROVE  /\ ~(allPlayersReady /\ mainPc # "unready")
         /\ mainPc \notin {"ai", "start", "simulate"} /\ asioPc # "store"
BY DEF SoloInv, SoloRounds

\* The ping is accepted: the client has no seat, and one is free.
LEMMA PingSolo ==
  ASSUME Solo, Base, SoloInv, HandleInitialPing, UNCHANGED client
  PROVE  SoloInv'
<1> PICK e \in Endpoint : e = current.from
  BY WorksFor DEF HandleInitialPing, Solo
<1>1. /\ asioPc = "dispatch" /\ current.msg.type = "InitialPing"
      /\ UNCHANGED <<simulation, roundReady, bots, flags, net, mainVars,
                     clientVars, channels>>
  BY DEF HandleInitialPing
<1>2. Line(e) # <<>> /\ Head(Line(e)) = current.msg
  BY <1>1, FirstInLine
<1>3. players = {} /\ SoloUnseated(e) /\ state[e] # "Menu"
  <2>1. ASSUME NEW i \in players PROVE FALSE
    BY <1>1, <1>2, <2>1, HeadOfLine DEF AddBot, UnitUpgrade, RoundReady
  <2> QED BY <1>2, <2>1, HeadOfLine
<1>4. /\ bots \in {{}, {0}} /\ Tail(Line(e)) \in BotOrNone
      /\ state[e] = "WaitForAllPlayers"
  <2>1. Head(Line(e)) # AddBot
    BY <1>1, <1>2 DEF AddBot
  <2>2. \/ bots = {} /\ Line(e) = <<InitialPing, AddBot>>
        \/ bots = {0} /\ Line(e) = <<InitialPing>>
        \/ bots = {0} /\ Line(e) = <<InitialPing, AddBot>>
    BY <1>3, <2>1, ShortQueues, LongQueues DEF SoloUnseated
  <2>3. Tail(Line(e)) = <<>> \/ Tail(Line(e)) = <<AddBot>>
    <3>1. CASE Line(e) = <<InitialPing, AddBot>>
      BY <3>1, ShortQueues
    <3>2. CASE Line(e) = <<InitialPing>>
      BY <3>2, ShortQueues
    <3> QED BY <2>2, <3>1, <3>2
  <2> QED BY <1>3, <2>2, <2>3 DEF SoloUnseated, BotOrNone
<1>5. PICK i \in {0, 1} : i = NumberOfConnectedPlayers /\ bots = IF i = 0 THEN {} ELSE {0}
  BY <1>3, <1>4, Participants
<1>6. ~RejectsPing(e)
  BY <1>3, <1>5 DEF RejectsPing
<1>7. /\ players' = {i}
      /\ endpointOf' = [endpointOf EXCEPT ![i] = e]
      /\ current' = [current EXCEPT !.msg.playerId = i]
      /\ asioPc' = "respond"
  BY <1>3, <1>5, <1>6 DEF HandleInitialPing
<1>8. endpointOf'[i] = e /\ current'.from = e /\ current'.msg.playerId = i
  BY <1>5, <1>7 DEF Base, IInv, TypeOK, PlayerId, ClientMessage
<1>9. ~matchHasStarted /\ units = {} /\ round = 1
  BY <1>3 DEF SoloInv, SoloOpened, Full
<1>10. Calm'
  <2>1. e \in isOpen
    BY <1>1, WorksFor
  <2> QED BY <1>1, <1>7, <1>8, <2>1 DEF SoloInv, Calm
<1>11. SoloOpened' /\ (bots = {0} => Full')
  <2>1. i = 1 => bots' = {0} /\ players' = {1 - 0}
    BY <1>1, <1>5, <1>7
  <2>2. i = 0 => bots' = {} /\ players' = {0}
    BY <1>1, <1>5, <1>7
  <2> QED BY <1>1, <1>5, <1>7, <1>9, <2>1, <2>2
          DEF SoloInv, SoloOpened, Full, Gathering, PlayerId
<1>12. SoloRounds' /\ BotArmy'
  <2>1. ~SoloEveryoneReady
    BY <1>3 DEF SoloEveryoneReady, Full
  <2> QED BY <1>1, <1>7, <2>1, NoRoundYet
          DEF SoloInv, SoloRounds, BotArmy, UnitIdsOf
<1>13. Line(e)' = Tail(Line(e))
  BY <1>1, <1>7, RestOfLine DEF client
<1>14. SoloRegistered(i, e)'
  <2>1. ~roundReady[i]
    BY <1>3, <1>5 DEF Base, IInv, Lobby, FreeIdsAreBlank, PlayerId
  <2>2. UnitIdsOf(i, units)' = {}
    BY <1>1, <1>9 DEF UnitIdsOf
  <2> QED BY <1>1, <1>3, <1>4, <1>7, <1>8, <1>9, <1>13, <2>1, <2>2
          DEF client, SoloRegistered, SoloUnseated, SoloFresh
<1>15. SoloSeats'
  BY <1>7, <1>14, Participants, SeatsFromOne DEF SoloSeat, PlayerId
<1> QED BY <1>10, <1>11, <1>12, <1>15 DEF SoloInv

\* In these stages the asio thread works for a client that has just come.
LEMMA JoiningSolo ==
  ASSUME Solo, Base, SoloInv, NEW e \in Endpoint,
         asioPc \in {"respond", "count", "announce"}
  PROVE  /\ ~matchHasStarted /\ ~SoloEveryoneReady
         /\ \/ players = {} /\ SoloUnseated(e) /\ asioPc = "count"
            \/ \E i \in PlayerId : players = {i} /\ SoloRegistered(i, e)
<1>1. ~matchHasStarted
  BY DEF SoloInv, SoloOpened
<1>2. CASE players = {} /\ SoloUnseated(e)
  BY <1>1, <1>2 DEF SoloUnseated, SoloEveryoneReady, Full
<1>3. ASSUME NEW i \in PlayerId, players = {i}, SoloSeat(i, e)
      PROVE  SoloRegistered(i, e) /\ ~SoloEveryoneReady
  <2>1. SoloRegistered(i, e)
    BY <1>3 DEF SoloSeat, SoloStarting, SoloPlacing, SoloSent, SoloOrderInFlight,
                SoloWaiting, SoloFought
  <2> QED BY <1>3, <2>1 DEF SoloRegistered, SoloEveryoneReady
<1> QED BY <1>1, <1>2, <1>3, Participants

LEMMA RespondSolo ==
  ASSUME Solo, Base, SoloInv, SendPlayerId, UNCHANGED client
  PROVE  SoloInv'
<1> PICK e \in Endpoint : e = current.from
  BY WorksFor DEF SendPlayerId, Solo
<1>1. /\ asioPc = "respond" /\ asioPc' = "count"
      /\ outbox' = [outbox EXCEPT ![e] =
                      Append(@, PlayerIdResponse(current.msg.playerId))]
      /\ UNCHANGED <<simulation, lobby, flags, net, mainVars, current,
                     clientVars, inbox>>
  BY DEF SendPlayerId
<1>2. PICK i \in PlayerId : players = {i} /\ SoloRegistered(i, e)
  BY <1>1, JoiningSolo
<1>3. ~matchHasStarted /\ ~SoloEveryoneReady
  BY <1>1, JoiningSolo
<1>4. /\ current.msg.playerId = i /\ clientId[e] = NoId /\ outbox[e] = <<>>
  BY <1>1, <1>2, <1>3 DEF SoloRegistered
<1>5. outbox'[e] = <<PlayerIdResponse(i)>>
  BY <1>1, <1>4, ShortQueues DEF Base, IInv, TypeOK
<1>6. Line(e)' = Line(e)
  BY <1>1, SameLine DEF client
<1>7. Calm' /\ SoloOpened' /\ SoloRounds' /\ BotArmy'
  BY <1>1, <1>3, CalmKept, NoRoundYet
     DEF SoloInv, SoloOpened, Full, Gathering, SoloRounds, SoloEveryoneReady, BotArmy,
         UnitIdsOf
<1>8. SoloRegistered(i, e)'
  BY <1>1, <1>2, <1>3, <1>4, <1>5, <1>6 DEF client, SoloRegistered, SoloFresh, UnitIdsOf
<1>9. SoloSeats'
  BY <1>1, <1>2, <1>8, Participants, SeatsFromOne DEF SoloSeat
<1> QED BY <1>7, <1>9 DEF SoloInv

\* The one after the other, a second bot is rejected; so the bot never gets
\* the seat of the client.
LEMMA BotSolo ==
  ASSUME Solo, Base, SoloInv, HandleAddBot, UNCHANGED client
  PROVE  SoloInv'
<1> PICK e \in Endpoint : e = current.from
  BY WorksFor DEF HandleAddBot, Solo
<1>1. /\ asioPc = "dispatch" /\ current.msg.type = "AddBot"
      /\ UNCHANGED <<simulation, players, endpointOf, roundReady, flags, net,
                     mainVars, clientVars, channels>>
  BY DEF HandleAddBot
<1>2. Line(e) # <<>> /\ Head(Line(e)) = current.msg
  BY <1>1, FirstInLine
<1>3. /\ \/ RejectsBot /\ asioPc' = "idle" /\ bots' = bots
         \/ /\ ~RejectsBot /\ bots' = bots \cup {NumberOfConnectedPlayers}
            /\ asioPc' = "count" /\ UNCHANGED current
  BY DEF HandleAddBot, AsioIdle
<1>4. Line(e)' = Tail(Line(e))
  BY <1>1, <1>3, RestOfLine DEF client
<1>5. Calm'
  BY <1>1, <1>3, CalmKept
<1>6. ~(SoloEveryoneReady /\ mainPc # "unready")
  BY <1>2, HeadOfLine
<1>7. CASE players = {}
  <2>1. /\ SoloUnseated(e) /\ state[e] = "WaitForAllPlayers"
        /\ Head(Line(e)) # InitialPing
    <3>1. SoloUnseated(e) /\ state[e] # "Menu"
      BY <1>2, <1>7, HeadOfLine
    <3>2. Head(Line(e)) # InitialPing
      BY <1>1, <1>2 DEF InitialPing
    <3> QED BY <3>1, <3>2 DEF SoloUnseated
  <2>2. /\ bots = {}
        /\ Tail(Line(e)) \in {<<InitialPing>>, <<InitialPing, AddBot>>}
    <3>1. /\ bots = {}
          /\ \/ Line(e) = <<AddBot, InitialPing>>
             \/ Line(e) = <<AddBot, InitialPing, AddBot>>
      BY <2>1, ShortQueues, LongQueues DEF SoloUnseated
    <3>2. CASE Line(e) = <<AddBot, InitialPing>>
      BY <3>1, <3>2, ShortQueues
    <3>3. CASE Line(e) = <<AddBot, InitialPing, AddBot>>
      BY <3>1, <3>3, LongQueues
    <3> QED BY <3>1, <3>2, <3>3
  <2>3. bots' = {0} /\ asioPc' = "count"
    BY <1>3, <1>7, <2>2, Participants DEF RejectsBot
  <2>4. ~matchHasStarted /\ ~SoloEveryoneReady /\ units = {} /\ round = 1
    BY <1>7 DEF SoloInv, SoloOpened, Full, SoloEveryoneReady
  <2>5. SoloOpened'
    BY <1>1, <1>7, <2>3, <2>4 DEF SoloInv, SoloOpened, Gathering
  <2>6. SoloRounds'
    BY <1>1, <2>3, <2>4, NoRoundYet DEF SoloInv, SoloRounds
  <2>7. BotArmy'
    <3>1. UnitIdsOf(0, units)' = {} /\ 1..(round' - 1) = {}
      BY <1>1, <2>4 DEF UnitIdsOf
    <3> QED BY <1>1, <2>3, <2>4, <3>1, NoRoundYet DEF BotArmy
  <2>8. SoloUnseated(e)'
    BY <1>1, <1>4, <2>1, <2>2, <2>3 DEF client, SoloUnseated, SoloFresh
  <2>9. SoloSeats'
    BY <1>1, <1>7, <2>8, Participants, SeatsFromOne
  <2> QED BY <1>5, <2>5, <2>6, <2>7, <2>9 DEF SoloInv
<1>8. ASSUME NEW i \in PlayerId, players = {i}, SoloSeat(i, e), bots = {}
      PROVE  SoloInv'
  <2>1. i = 0 /\ bots' = {1} /\ asioPc' = "count"
    <3>1. i = 0
      BY <1>8 DEF SoloInv, SoloOpened, Full, Gathering
    <3> QED BY <1>3, <1>8, <3>1, Participants DEF RejectsBot
  <2>2. /\ ~matchHasStarted /\ ~SoloEveryoneReady /\ units = {} /\ round = 1
    BY <1>8 DEF SoloInv, SoloOpened, Full, SoloEveryoneReady
  <2>3. SoloRegistered(i, e)
    BY <1>8, <2>2
       DEF SoloSeat, SoloStarting, SoloPlacing, SoloSent, SoloWaiting, SoloFought,
           SoloInTouch
  <2>4. Tail(Line(e)) \in BotOrNone
    BY <1>2, <2>3, ShortQueues DEF SoloRegistered, BotOrNone
  <2>5. Full'
    <3>1. bots' = {1} /\ players' = {1 - 1}
      BY <1>1, <1>8, <2>1
    <3> QED BY <3>1 DEF Full, PlayerId
  <2>6. SoloOpened'
    BY <1>1, <2>1, <2>2, <2>5 DEF SoloInv, SoloOpened
  <2>7. SoloRounds'
    BY <1>1, <2>1, <2>2, NoRoundYet DEF SoloInv, SoloRounds
  <2>8. BotArmy'
    <3>1. UnitIdsOf(1, units)' = {} /\ 1..(round' - 1) = {}
      BY <1>1, <2>2 DEF UnitIdsOf
    <3> QED BY <1>1, <2>1, <2>2, <3>1, NoRoundYet DEF BotArmy
  <2>9. SoloRegistered(i, e)'
    BY <1>1, <1>4, <2>1, <2>2, <2>3, <2>4
       DEF client, SoloRegistered, SoloFresh, UnitIdsOf
  <2>10. SoloSeats'
    BY <1>1, <1>8, <2>9, Participants, SeatsFromOne DEF SoloSeat
  <2> QED BY <1>5, <2>6, <2>7, <2>8, <2>10 DEF SoloInv
<1>9. ASSUME NEW i \in PlayerId, players = {i}, SoloSeat(i, e), bots # {}
      PROVE  SoloInv'
  <2>1. asioPc' = "idle" /\ bots' = bots
    BY <1>3, <1>9, Participants DEF RejectsBot
  <2>2. SoloOpened' /\ SoloRounds' /\ BotArmy'
    BY <1>1, <1>6, <2>1 DEF SoloInv, SoloOpened, Full, Gathering, SoloRounds,
       SoloEveryoneReady, BotArmy, UnitIdsOf
  <2>3. Head(Line(e)) = current.msg /\ current.msg.type = "AddBot"
    BY <1>1, <1>2
  <2>4. SoloSeat(i, e)'
    <3>1. CASE SoloRegistered(i, e)
      <4>1. Tail(Line(e)) \in BotOrNone
        BY <1>2, <3>1, ShortQueues DEF SoloRegistered, BotOrNone
      <4> QED BY <1>1, <1>4, <2>1, <3>1, <4>1
              DEF client, SoloRegistered, SoloFresh, UnitIdsOf, SoloSeat
    <3>2. CASE SoloStarting(i, e)
      <4>1. Tail(Line(e)) \in BotOrNone
        BY <1>2, <3>2, ShortQueues DEF SoloStarting, BotOrNone
      <4> QED BY <1>1, <1>4, <2>1, <3>2, <4>1
              DEF client, SoloStarting, SoloFresh, UnitIdsOf, SoloSeat
    <3>3. CASE SoloPlacing(i, e)
      <4>1. \/ Line(e) = <<AddBot>>
            \/ Line(e) = <<AddBot, UnitUpgrade(i)>> /\ upgraded[e]
        BY <1>2, <2>3, <3>3, ShortQueues
           DEF SoloPlacing, BotOrNone, UnitUpgrade
      <4>2. \/ Tail(Line(e)) = <<>>
            \/ Tail(Line(e)) = <<UnitUpgrade(i)>> /\ upgraded[e]
        <5>1. CASE Line(e) = <<AddBot>>
          BY <5>1, ShortQueues
        <5>2. CASE Line(e) = <<AddBot, UnitUpgrade(i)>> /\ upgraded[e]
          BY <5>2, ShortQueues
        <5> QED BY <4>1, <5>1, <5>2
      <4> QED BY <1>1, <1>4, <2>1, <3>3, <4>2
              DEF client, SoloPlacing, SoloInTouch, BotOrNone, UnitIdsOf, SoloSeat
    <3>4. CASE SoloSent(i, e)
      <4>1. PICK placed, sold \in SUBSET UnitId :
              /\ army[e] = (UnitIdsOf(i, units) \cup placed) \ sold
              /\ SoloOrderInFlight(i, e, RoundReady(i, placed, sold))
        BY <3>4 DEF SoloSent
      <4> DEFINE m == RoundReady(i, placed, sold)
      <4>2. m.type # "AddBot" /\ UnitUpgrade(i).type # "AddBot"
        BY DEF RoundReady, UnitUpgrade
      <4> HIDE DEF m
      <4>3. \/ Line(e) = <<AddBot, m>>
            \/ Line(e) = <<AddBot, UnitUpgrade(i), m>>
        BY <1>1, <2>3, <4>1, <4>2, ShortQueues DEF SoloOrderInFlight, m
      <4>4. Tail(Line(e)) = <<m>> \/ Tail(Line(e)) = <<UnitUpgrade(i), m>>
        <5>1. CASE Line(e) = <<AddBot, m>>
          BY <5>1, ShortQueues
        <5>2. CASE Line(e) = <<AddBot, UnitUpgrade(i), m>>
          BY <5>2, LongQueues
        <5> QED BY <4>3, <5>1, <5>2
      <4>5. SoloOrderInFlight(i, e, m)'
        BY <1>4, <2>1, <4>4 DEF SoloOrderInFlight
      <4>6. SoloSent(i, e)'
        BY <1>1, <3>4, <4>1, <4>5 DEF client, SoloSent, SoloInTouch, UnitIdsOf, m
      <4> QED BY <4>6 DEF SoloSeat
    <3>5. ~SoloWaiting(i, e) /\ ~SoloFought(i, e)
      BY <1>2 DEF SoloWaiting, SoloFought
    <3> QED BY <1>9, <3>1, <3>2, <3>3, <3>4, <3>5 DEF SoloSeat
  <2>5. SoloSeats'
    BY <1>1, <1>9, <2>4, Participants, SeatsFromOne
  <2> QED BY <1>5, <2>2, <2>5 DEF SoloInv
<1> QED BY <1>7, <1>8, <1>9, Participants

\* The client has not been told of the old map when a new one is made.
LEMMA CountSolo ==
  ASSUME Solo, Base, SoloInv, CheckForAllPlayersConnected, UNCHANGED client
  PROVE  SoloInv'
<1> PICK e \in Endpoint : Endpoint = {e}
  BY DEF Solo
<1>1. /\ asioPc = "count"
      /\ UNCHANGED <<units, fighters, lobby, flags, net, mainVars, clientVars,
                     channels>>
      /\ \/ /\ NumberOfConnectedPlayers = 2
            /\ asioPc' = "announce" /\ current' = current
         \/ NumberOfConnectedPlayers # 2 /\ asioPc' = "idle"
  BY DEF CheckForAllPlayersConnected, AllPlayersAreConnected, AsioIdle
<1>2. ~matchHasStarted /\ ~SoloEveryoneReady
  BY <1>1, JoiningSolo
<1>3. asioPc' = "announce" => Full
  BY <1>1, Participants DEF SoloInv, SoloOpened, Gathering
<1>4. Line(e)' = Line(e)
  <2>1. InHand' = InHand
    BY <1>1 DEF InHand
  <2> QED BY <1>1, <2>1 DEF Line, client
<1>5. Calm' /\ SoloOpened' /\ SoloRounds' /\ BotArmy'
  BY <1>1, <1>2, <1>3, CalmKept, NoRoundYet
     DEF SoloInv, SoloOpened, Full, Gathering, SoloRounds, SoloEveryoneReady, BotArmy,
         UnitIdsOf
<1>6. CASE players = {} /\ SoloUnseated(e)
  <2>1. asioPc' = "idle"
    BY <1>1, <1>6, Participants
  <2>2. state[e] # "Menu"
    BY <1>1, <1>6 DEF SoloUnseated
  <2>3. SoloUnseated(e)'
    BY <1>1, <1>4, <1>6, <2>1, <2>2 DEF client, SoloUnseated, SoloFresh
  <2>4. SoloSeats'
    BY <1>1, <1>6, <2>3, SeatsFromOne
  <2> QED BY <1>5, <2>4 DEF SoloInv
<1>7. ASSUME NEW i \in PlayerId, players = {i}, SoloRegistered(i, e)
      PROVE  SoloInv'
  <2>1. SoloRegistered(i, e)'
    BY <1>1, <1>2, <1>4, <1>7 DEF client, SoloRegistered, SoloFresh, UnitIdsOf
  <2>2. SoloSeats'
    BY <1>1, <1>7, <2>1, SeatsFromOne DEF SoloSeat
  <2> QED BY <1>5, <2>2 DEF SoloInv
<1> QED BY <1>1, <1>6, <1>7, JoiningSolo

\* The announcement follows the id of the client.
LEMMA AnnounceSolo ==
  ASSUME Solo, Base, SoloInv, AnnounceMatch, UNCHANGED client
  PROVE  SoloInv'
<1> PICK e \in Endpoint : Endpoint = {e}
  BY DEF Solo
<1>1. /\ asioPc = "announce"
      /\ SendToAll(AllPlayersConnected(map))
      /\ matchHasStarted' = TRUE /\ asioPc' = "idle"
      /\ UNCHANGED <<simulation, lobby, round, allPlayersReady,
                     simulationStarted, net, mainVars, clientVars, inbox>>
  BY DEF AnnounceMatch, AsioIdle
<1>2. PICK i \in PlayerId : players = {i} /\ SoloRegistered(i, e)
  BY <1>1, JoiningSolo
<1>3. ~matchHasStarted /\ ~SoloEveryoneReady /\ Full
  BY <1>1, JoiningSolo DEF SoloInv, SoloOpened
<1>4. endpointOf[i] = e /\ e \in isOpen
  BY <1>2, Participants DEF SoloInv, Calm
<1>5. outbox'[e] = Append(outbox[e], AllPlayersConnected(map))
  BY <1>1, <1>4, EveryoneIsReached DEF SendToAll, SoloInv
<1>6. \/ clientId[e] = NoId /\ outbox[e] = <<PlayerIdResponse(i)>>
      \/ clientId[e] = i /\ outbox[e] = <<>>
  BY <1>1, <1>2, <1>3 DEF SoloRegistered
<1>7. \/ /\ clientId[e] = NoId
         /\ outbox'[e] = <<PlayerIdResponse(i), AllPlayersConnected(map)>>
      \/ clientId[e] = i /\ outbox'[e] = <<AllPlayersConnected(map)>>
  <2>1. CASE clientId[e] = NoId /\ outbox[e] = <<PlayerIdResponse(i)>>
    BY <1>5, <2>1, AppendToOne
  <2>2. CASE clientId[e] = i /\ outbox[e] = <<>>
    BY <1>5, <2>2, ShortQueues
  <2> QED BY <1>6, <2>1, <2>2
<1>8. Line(e)' = Line(e)
  <2>1. InHand' = InHand
    BY <1>1 DEF InHand
  <2> QED BY <1>1, <2>1 DEF Line, client
<1>9. Calm' /\ SoloOpened' /\ SoloRounds' /\ BotArmy'
  BY <1>1, <1>3, CalmKept, NoRoundYet
     DEF SoloInv, SoloOpened, Full, SoloRounds, SoloEveryoneReady, BotArmy, UnitIdsOf
<1>10. SoloRegistered(i, e)'
  BY <1>1, <1>2, <1>7, <1>8 DEF client, SoloRegistered, SoloFresh, UnitIdsOf
<1>11. SoloSeats'
  BY <1>1, <1>2, <1>10, SeatsFromOne DEF SoloSeat
<1> QED BY <1>9, <1>11 DEF SoloInv

\* An order is dispatched to its critical section, a purchase is carried out.
LEMMA DispatchSolo ==
  ASSUME Solo, Base, SoloInv, HandleRoundReady \/ HandleUnitUpgrade,
         UNCHANGED client
  PROVE  SoloInv'
<1> PICK e \in Endpoint : Endpoint = {e}
  BY DEF Solo
<1>1. /\ asioPc = "dispatch"
      /\ UNCHANGED <<units, map, fighters, lobby, flags, net, mainVars,
                     clientVars, channels>>
      /\ \/ /\ current.msg.type = "RoundReady" /\ asioPc' # "dispatch"
            /\ matchHasStarted => asioPc' = "apply" /\ UNCHANGED current
         \/ current.msg.type = "UnitUpgrade" /\ asioPc' = "idle"
  BY DEF HandleRoundReady, HandleUnitUpgrade, AsioIdle
<1>2. Line(e) # <<>> /\ Head(Line(e)) = current.msg
  BY <1>1, FirstInLine
<1>3. Head(Line(e)) # AddBot /\ Head(Line(e)) # InitialPing
  BY <1>1, <1>2 DEF AddBot, InitialPing
<1>4. PICK i \in PlayerId : players = {i} /\ SoloSeat(i, e)
  BY <1>2, <1>3, HeadOfLine, Participants
<1>5. ~SoloRegistered(i, e) /\ ~SoloStarting(i, e)
  BY <1>2, <1>3, ShortQueues DEF SoloRegistered, SoloStarting, BotOrNone
<1>6. ~SoloWaiting(i, e) /\ ~SoloFought(i, e) /\ ~(SoloEveryoneReady /\ mainPc # "unready")
  BY <1>2, <1>4, HeadOfLine
<1>7. matchHasStarted /\ Full
  BY <1>4, <1>5, <1>6 DEF SoloSeat, SoloPlacing, SoloSent, SoloInTouch, SoloInv,
                          SoloOpened
<1>8. Line(e)' = Tail(Line(e))
  BY <1>1, RestOfLine DEF client
<1>9. /\ asioPc' \in {"idle", "apply"}
      /\ Calm' /\ SoloOpened' /\ SoloRounds' /\ BotArmy'
  BY <1>1, <1>6, <1>7, CalmKept
     DEF SoloInv, SoloOpened, Full, SoloRounds, SoloEveryoneReady, BotArmy, UnitIdsOf
<1>10. SoloSeat(i, e)'
  <2>1. CASE SoloPlacing(i, e)
    <3>1. Line(e) = <<UnitUpgrade(i)>>
      BY <1>2, <1>3, <2>1, ShortQueues DEF SoloPlacing, BotOrNone
    <3>2. Line(e)' = <<>> /\ current.msg = UnitUpgrade(i)
      BY <1>2, <1>8, <3>1, ShortQueues
    <3>3. asioPc' = "idle"
      BY <1>1, <3>2 DEF UnitUpgrade
    <3> QED BY <1>1, <2>1, <3>2, <3>3
            DEF client, SoloPlacing, SoloInTouch, BotOrNone, UnitIdsOf, SoloSeat
  <2>2. CASE SoloSent(i, e)
    <3>1. PICK placed, sold \in SUBSET UnitId :
            /\ army[e] = (UnitIdsOf(i, units) \cup placed) \ sold
            /\ SoloOrderInFlight(i, e, RoundReady(i, placed, sold))
      BY <2>2 DEF SoloSent
    <3> DEFINE m == RoundReady(i, placed, sold)
    <3>2. m.type = "RoundReady" /\ UnitUpgrade(i).type = "UnitUpgrade"
      BY DEF RoundReady, UnitUpgrade
    <3> HIDE DEF m
    <3>3. Line(e) = <<m>> \/ Line(e) = <<UnitUpgrade(i), m>>
      BY <1>1, <1>3, <3>1, ShortQueues, LongQueues DEF SoloOrderInFlight, m
    <3>4. SoloOrderInFlight(i, e, m)'
      <4>1. CASE Line(e) = <<m>>
        <5>1. Line(e)' = <<>> /\ current.msg = m
          BY <1>2, <1>8, <4>1, ShortQueues
        <5>2. asioPc' = "apply" /\ current' = current
          BY <1>1, <1>7, <3>2, <5>1
        <5> QED BY <5>1, <5>2 DEF SoloOrderInFlight
      <4>2. CASE Line(e) = <<UnitUpgrade(i), m>>
        <5>1. Line(e)' = <<m>> /\ current.msg = UnitUpgrade(i)
          BY <1>2, <1>8, <4>2, ShortQueues
        <5>2. asioPc' = "idle"
          BY <1>1, <3>2, <5>1
        <5> QED BY <5>1, <5>2 DEF SoloOrderInFlight
      <4> QED BY <3>3, <4>1, <4>2
    <3>5. SoloSent(i, e)'
      BY <1>1, <2>2, <3>1, <3>4 DEF client, SoloSent, SoloInTouch, UnitIdsOf, m
    <3> QED BY <3>5 DEF SoloSeat
  <2> QED BY <1>4, <1>5, <1>6, <2>1, <2>2 DEF SoloSeat
<1>11. SoloSeats'
  BY <1>1, <1>4, <1>10, SeatsFromOne
<1> QED BY <1>9, <1>11 DEF SoloInv

\* The order is carried out: the server's units of the player are its army,
\* and those of the bot are what they were.
LEMMA ApplySolo ==
  ASSUME Solo, Base, SoloInv, ApplyRoundReady, UNCHANGED client
  PROVE  SoloInv'
<1> PICK e \in Endpoint : Endpoint = {e}
  BY DEF Solo
<1>1. asioPc = "apply"
  BY DEF ApplyRoundReady
<1>2. PICK i \in PlayerId : players = {i} /\ SoloSent(i, e)
  BY <1>1, Participants DEF SoloUnseated, SoloSeat, SoloRegistered, SoloStarting,
                            SoloPlacing,
                            SoloWaiting, SoloFought
<1>3. PICK placed, sold \in SUBSET UnitId :
        /\ army[e] = (UnitIdsOf(i, units) \cup placed) \ sold
        /\ SoloOrderInFlight(i, e, RoundReady(i, placed, sold))
  BY <1>2 DEF SoloSent
<1>4. current.msg = RoundReady(i, placed, sold) /\ Line(e) = <<>>
  BY <1>1, <1>3 DEF SoloOrderInFlight
<1>5. /\ current.msg.playerId = i /\ current.msg.units = placed
      /\ current.msg.removed = sold /\ current.msg \in ClientMessage
  BY <1>4 DEF RoundReady, Base, IInv, TypeOK
<1>6. /\ players' = {i}
      /\ roundReady' = [roundReady EXCEPT ![i] = TRUE]
      /\ units' = AfterRoundReady(units, current.msg, current.from)
      /\ asioPc' \in {"idle", "store"}
      /\ UNCHANGED <<map, fighters, endpointOf, bots, flags, net, mainVars,
                     clientVars, channels>>
  BY <1>2, <1>5 DEF ApplyRoundReady, AsioIdle
<1>7. \A j : UnitIdsOf(j, units)' = IF j = i THEN army[e] ELSE UnitIdsOf(j, units)
  <2>1. units \in SUBSET Unit /\ current.msg.playerId \in PlayerId
    BY <1>5 DEF Base, IInv, TypeOK
  <2>2. PICK f : f = current.from
    OBVIOUS
  <2>3. ASSUME NEW j
        PROVE  UnitIdsOf(j, AfterRoundReady(units, current.msg, f)) =
                 IF j = i THEN army[e] ELSE UnitIdsOf(j, units)
    <3>1. PICK m \in ClientMessage : m = current.msg
      BY <1>5
    <3>2. UnitIdsOf(j, AfterRoundReady(units, m, f)) =
            IF j = m.playerId THEN (UnitIdsOf(j, units) \cup m.units) \ m.removed
                              ELSE UnitIdsOf(j, units)
      BY <2>1, <3>1, ArmyAfterRoundReady DEF PlayerId
    <3> QED BY <1>3, <1>5, <3>1, <3>2
  <2>4. \A j : UnitIdsOf(j, units)' = UnitIdsOf(j, units')
    BY DEF UnitIdsOf
  <2> QED BY <1>6, <2>2, <2>3, <2>4
<1>8. roundReady'[i]
  BY <1>6 DEF Base, IInv, TypeOK
<1>9. matchHasStarted /\ bots = {1 - i}
  BY <1>2 DEF SoloSent, SoloInTouch, SoloInv, SoloOpened, Full, PlayerId
<1>10. ~allPlayersReady /\ mainPc \notin {"ai", "start", "simulate", "unready"}
  BY <1>1, <1>2 DEF SoloInv, SoloRounds, SoloSent
<1>11. Calm'
  BY <1>2, <1>6, CalmKept
<1>12. SoloEveryoneReady'
  <2>1. Full'
    BY <1>6, <1>9 DEF Full, PlayerId
  <2> QED BY <1>6, <1>8, <2>1 DEF SoloEveryoneReady
<1>13. SoloOpened' /\ SoloRounds'
  BY <1>6, <1>9, <1>10, <1>12 DEF SoloInv, SoloOpened, SoloRounds, SoloEveryoneReady
<1>14. BotArmy'
  <2>1. 1 - i # i
    BY DEF PlayerId
  <2>2. UnitIdsOf(1 - i, units)' = UnitIdsOf(1 - i, units)
    BY <1>7, <2>1
  <2>3. UnitIdsOf(1 - i, units) = 1..(round - 1)
    BY <1>9, <1>10 DEF SoloInv, BotArmy
  <2> QED BY <1>6, <1>9, <1>10, <2>2, <2>3 DEF BotArmy
<1>15. SoloWaiting(i, e)'
  <2>1. InHand = <<>> /\ InHand' = <<>>
    BY <1>1, <1>6 DEF InHand
  <2>2. Line(e)' = <<>>
    BY <1>4, <1>6, <2>1 DEF Line, client
  <2>3. army'[e] = UnitIdsOf(i, units)'
    BY <1>7 DEF client
  <2> QED BY <1>2, <1>6, <1>8, <2>2, <2>3 DEF client, SoloSent, SoloWaiting, SoloInTouch
<1>16. SoloSeats'
  BY <1>2, <1>6, <1>15, SeatsFromOne DEF SoloSeat
<1> QED BY <1>11, <1>13, <1>14, <1>16 DEF SoloInv

LEMMA StoreSolo ==
  ASSUME Solo, Base, SoloInv, StoreAllPlayersReady, UNCHANGED client
  PROVE  SoloInv'
<1> PICK e \in Endpoint : Endpoint = {e}
  BY DEF Solo
<1>1. /\ asioPc = "store" /\ asioPc' = "idle" /\ allPlayersReady' = TRUE
      /\ UNCHANGED <<simulation, lobby, matchHasStarted, round,
                     simulationStarted, net, mainVars, clientVars, channels>>
  BY DEF StoreAllPlayersReady, AsioIdle
<1>2. PICK i \in PlayerId : players = {i} /\ SoloWaiting(i, e)
  BY <1>1, Participants DEF SoloUnseated, SoloSeat, SoloRegistered, SoloStarting,
                            SoloPlacing,
                            SoloSent, SoloOrderInFlight, SoloFought
<1>3. InHand = <<>> /\ InHand' = <<>>
  BY <1>1 DEF InHand
<1>4. Line(e)' = Line(e)
  BY <1>1, <1>3 DEF Line, client
<1>5. Calm' /\ SoloOpened' /\ SoloRounds' /\ BotArmy'
  BY <1>1, CalmKept DEF SoloInv, SoloOpened, Full, Gathering, SoloRounds,
     SoloEveryoneReady, BotArmy, UnitIdsOf
<1>6. SoloWaiting(i, e)'
  BY <1>1, <1>2, <1>4 DEF client, SoloWaiting, SoloInTouch, UnitIdsOf
<1>7. SoloSeats'
  BY <1>1, <1>2, <1>6, SeatsFromOne DEF SoloSeat
<1> QED BY <1>5, <1>7 DEF SoloInv

LEMMA AsioSolo ==
  ASSUME Solo, Base, SoloInv, AsioNext, UNCHANGED client
  PROVE  SoloInv'
<1>1. ASSUME NEW e \in Endpoint PROVE ~CloseSocket(e)
  BY DEF CloseSocket, SoloInv, Calm
<1>2. ~SendPlayerIdThrows
  BY EveryoneIsReached DEF SendPlayerIdThrows, SoloInv
<1> QED BY <1>1, <1>2, AcceptSolo, MessageSolo, PingSolo, RespondSolo, BotSolo,
           CountSolo, AnnounceSolo, DispatchSolo, ApplySolo, StoreSolo
       DEF AsioNext

-----------------------------------------------------------------------------
(* The steps of the main thread *)

\* A step of the main thread that touches nothing the client can see, between
\* two rounds.
LEMMA IdleSolo ==
  ASSUME Solo, Base, SoloInv, UNCHANGED client,
         UNCHANGED <<units, map, fighters, lobby, flags, sockets, isOpen,
                     cursor, asioVars, clientVars, channels>>,
         \A e \in Endpoint : ahead'[e] \subseteq isOpen,
         mainPc \in {"update", "reap", "poll"}, ~simulationStarted,
         \/ mainPc' \in {"update", "reap", "poll"}
         \/ mainPc' = "ai" /\ allPlayersReady /\ botCopy' = bots
  PROVE  SoloInv'
<1> PICK e \in Endpoint : Endpoint = {e}
  BY DEF Solo
<1>1. Calm'
  BY DEF SoloInv, Calm
<1>2. SoloOpened' /\ SoloRounds' /\ BotArmy'
  BY DEF SoloInv, SoloOpened, Full, Gathering, SoloRounds, SoloEveryoneReady, BotArmy,
         UnitIdsOf
<1>3. Line(e)' = Line(e)
  BY SameLine DEF client
<1>4. SoloSeats'
  <2>1. CASE players = {} /\ SoloUnseated(e)
    <3>1. SoloUnseated(e)'
      BY <1>3, <2>1 DEF client, SoloUnseated, SoloFresh
    <3> QED BY <2>1, <3>1, SeatsFromOne
  <2>2. ASSUME NEW i \in PlayerId, players = {i}, SoloSeat(i, e) PROVE SoloSeats'
    <3>1. SoloSeat(i, e)'
      <4>1. CASE SoloRegistered(i, e)
        BY <1>3, <4>1 DEF client, SoloRegistered, SoloFresh, UnitIdsOf, SoloSeat
      <4>2. CASE SoloStarting(i, e)
        BY <1>3, <4>2 DEF client, SoloStarting, SoloFresh, UnitIdsOf, SoloSeat
      <4>3. CASE SoloPlacing(i, e)
        BY <1>3, <4>3 DEF client, SoloPlacing, SoloInTouch, UnitIdsOf, SoloSeat
      <4>4. CASE SoloSent(i, e)
        BY <1>3, <4>4 DEF client, SoloSent, SoloOrderInFlight, SoloInTouch,
                          UnitIdsOf, SoloSeat
      <4>5. CASE SoloWaiting(i, e)
        BY <1>3, <4>5 DEF client, SoloWaiting, SoloInTouch, UnitIdsOf, SoloSeat
      <4>6. CASE SoloFought(i, e)
        BY <1>3, <4>6 DEF client, SoloFought, SoloInTouch, UnitIdsOf, SoloSeat
      <4> QED BY <2>2, <4>1, <4>2, <4>3, <4>4, <4>5, <4>6 DEF SoloSeat
    <3> QED BY <2>2, <3>1, SeatsFromOne
  <2> QED BY <2>1, <2>2, Participants
<1> QED BY <1>1, <1>2, <1>4 DEF SoloInv

LEMMA BetweenRoundsSolo ==
  ASSUME Solo, Base, SoloInv, UNCHANGED client,
         UpdateConnection \/ RemoveClosedPlayers \/ PollAllPlayersReady
  PROVE  SoloInv'
<1>1. CASE UpdateConnection
  <2>1. \A e \in Endpoint : ahead'[e] \subseteq isOpen
    BY <1>1 DEF UpdateConnection
  <2>2. sockets' = sockets
    BY <1>1 DEF UpdateConnection, SoloInv, Calm
  <2> QED BY <1>1, <2>1, <2>2, IdleSolo DEF UpdateConnection, SoloInv, SoloRounds
<1>2. CASE PollAllPlayersReady
  BY <1>2, IdleSolo DEF PollAllPlayersReady, SoloInv, Calm, SoloRounds
<1>3. CASE RemoveClosedPlayers
  <2>1. {i \in players : IsSocketOpenFor(endpointOf[i])} = players
    BY DEF IsSocketOpenFor, SoloInv, Calm
  <2>2. /\ mainPc = "reap" /\ mainPc' = "poll" /\ players' = players
        /\ endpointOf' = [i \in PlayerId |-> IF i \in players THEN endpointOf[i]
                                                              ELSE NoEndpoint]
        /\ roundReady' = [i \in PlayerId |-> i \in players /\ roundReady[i]]
        /\ UNCHANGED <<rolls, allPlayersReady, simulationStarted, net, botCopy,
                       cursor, asioVars, clientVars, channels>>
    BY <1>3, <2>1 DEF RemoveClosedPlayers
  <2>3. UNCHANGED <<matchHasStarted, round, bots, units, fighters, map>>
    BY <1>3, <2>1
       DEF RemoveClosedPlayers, ResetServer, SoloInv, SoloOpened, Full
  <2>4. endpointOf' = endpointOf
    BY <2>2 DEF Base, IInv, TypeOK, Lobby, FreeIdsAreBlank
  <2>5. roundReady' = roundReady
    BY <2>2 DEF Base, IInv, TypeOK, Lobby, FreeIdsAreBlank
  <2> QED BY <2>2, <2>3, <2>4, <2>5, IdleSolo DEF SoloInv, Calm, SoloRounds
<1> QED BY <1>1, <1>2, <1>3

\* The bot's new unit is named after the round, which none of its units is:
\* it is not dropped, and the client's units stay what they are.
LEMMA NewBotUnit ==
  ASSUME NEW b \in PlayerId, botCopy = {b}, units \subseteq Unit, round \in Nat,
         round >= 1, UnitIdsOf(b, units) = 1..(round - 1)
  PROVE  LET after == WithUnit(units, BotUnit) IN
         /\ UnitIdsOf(b, after) = 1..round
         /\ \A j : j # b => UnitIdsOf(j, after) = UnitIdsOf(j, units)
<1>1. BotUnit.player = b /\ BotUnit.id = round
  BY DEF BotUnit, PlayerId
<1>2. \A k, n, S : n \in UnitIdsOf(k, S) <=> \E u \in S : u.player = k /\ u.id = n
  BY DEF UnitIdsOf
<1>3. round \notin UnitIdsOf(b, units)
  OBVIOUS
<1>4. WithUnit(units, BotUnit) = units \cup {BotUnit}
  BY <1>1, <1>2, <1>3 DEF WithUnit
<1>5. \A k, n : n \in UnitIdsOf(k, units \cup {BotUnit}) <=>
                  n \in UnitIdsOf(k, units) \/ (k = b /\ n = round)
  BY <1>1, <1>2
<1>6. UnitIdsOf(b, units \cup {BotUnit}) = 1..round
  <2>1. \A n : n \in 1..round <=> n \in 1..(round - 1) \/ n = round
    OBVIOUS
  <2> QED BY <1>5, <2>1
<1>7. \A j : j # b => UnitIdsOf(j, units \cup {BotUnit}) = UnitIdsOf(j, units)
  BY <1>5
<1> QED BY <1>4, <1>6, <1>7

\* A client that waits goes on waiting while the bot moves and they fight.
LEMMA StillWaits ==
  ASSUME Solo, Base, SoloInv, UNCHANGED client, NEW e \in Endpoint,
         NEW i \in PlayerId, players = {i}, SoloWaiting(i, e),
         UNCHANGED <<map, lobby, matchHasStarted, round, asioVars, clientVars,
                     channels>>,
         mainPc' # "unready", UnitIdsOf(i, units)' = UnitIdsOf(i, units)
  PROVE  SoloSeats'
<1>1. Line(e)' = Line(e)
  BY SameLine DEF client
<1>2. SoloWaiting(i, e)'
  BY <1>1 DEF client, SoloWaiting, SoloInTouch
<1> QED BY <1>2, Participants, SeatsFromOne DEF SoloSeat

LEMMA PerformAISolo ==
  ASSUME Solo, Base, SoloInv, UNCHANGED client, PerformAI
  PROVE  SoloInv'
<1> PICK e \in Endpoint : Endpoint = {e}
  BY DEF Solo
<1>1. /\ mainPc = "ai" /\ mainPc' = "start"
      /\ units' = IF botCopy = {} THEN units ELSE WithUnit(units, BotUnit)
      /\ UNCHANGED <<upgrades, map, rolls, fighters, lobby, flags, net,
                     botCopy, cursor, asioVars, clientVars, channels>>
  BY DEF PerformAI
<1>2. allPlayersReady /\ SoloEveryoneReady /\ botCopy = bots /\ asioPc = "idle"
  BY <1>1 DEF SoloInv, SoloRounds
<1>3. PICK i \in PlayerId : /\ players = {i} /\ bots = {1 - i}
                            /\ endpointOf[i] = e /\ SoloWaiting(i, e)
  BY <1>1, <1>2, ClientWaits
<1>4. matchHasStarted
  BY <1>3 DEF SoloWaiting, SoloInTouch
<1> DEFINE b == 1 - i
<1>5. b \in PlayerId /\ b # i
  BY DEF PlayerId
<1>6. UnitIdsOf(b, units) = 1..(round - 1) /\ units \subseteq Unit
  BY <1>1, <1>3 DEF SoloInv, BotArmy, Base, IInv, TypeOK
<1>7. round \in Nat /\ round >= 1
  BY <1>3 DEF SoloWaiting, Base, IInv, TypeOK, OrdersInv
<1>8. units' = WithUnit(units, BotUnit)
  BY <1>1, <1>2, <1>3
<1> HIDE DEF b
<1>9. /\ UnitIdsOf(b, WithUnit(units, BotUnit)) = 1..round
      /\ \A j : j # b =>
           UnitIdsOf(j, WithUnit(units, BotUnit)) = UnitIdsOf(j, units)
  BY <1>2, <1>3, <1>5, <1>6, <1>7, NewBotUnit DEF b
<1>10. \A j : UnitIdsOf(j, units)' = UnitIdsOf(j, WithUnit(units, BotUnit))
  BY <1>8 DEF UnitIdsOf
<1>11. Calm'
  BY <1>1 DEF SoloInv, Calm
<1>12. SoloOpened' /\ SoloRounds'
  BY <1>1, <1>2, <1>4 DEF SoloInv, SoloOpened, Full, SoloRounds, SoloEveryoneReady
<1>13. BotArmy'
  BY <1>1, <1>3, <1>9, <1>10 DEF BotArmy, b
<1>14. UnitIdsOf(i, units)' = UnitIdsOf(i, units)
  BY <1>5, <1>9, <1>10
<1>15. SoloSeats'
  BY <1>1, <1>3, <1>14, StillWaits
<1> QED BY <1>11, <1>12, <1>13, <1>15 DEF SoloInv

LEMMA StartSolo ==
  ASSUME Solo, Base, SoloInv, UNCHANGED client, StartRoundSimulation
  PROVE  SoloInv'
<1> PICK e \in Endpoint : Endpoint = {e}
  BY DEF Solo
<1>1. /\ mainPc = "start" /\ mainPc' = "simulate" /\ simulationStarted' = TRUE
      /\ fighters' = units
      /\ UNCHANGED <<units, map, lobby, matchHasStarted, round,
                     allPlayersReady, net, botCopy, cursor, asioVars,
                     clientVars, channels>>
  BY DEF StartRoundSimulation
<1>2. allPlayersReady /\ SoloEveryoneReady /\ asioPc = "idle"
  BY <1>1 DEF SoloInv, SoloRounds
<1>3. PICK i \in PlayerId : players = {i} /\ SoloWaiting(i, e)
  BY <1>1, <1>2, ClientWaits
<1>4. matchHasStarted
  BY <1>3 DEF SoloWaiting, SoloInTouch
<1>5. Calm' /\ SoloOpened' /\ SoloRounds' /\ BotArmy'
  BY <1>1, <1>2, <1>4 DEF SoloInv, Calm, SoloOpened, Full, SoloRounds, SoloEveryoneReady,
                          BotArmy, UnitIdsOf
<1>6. UnitIdsOf(i, units)' = UnitIdsOf(i, units)
  BY <1>1 DEF UnitIdsOf
<1>7. SoloSeats'
  BY <1>1, <1>3, <1>6, StillWaits
<1> QED BY <1>5, <1>7 DEF SoloInv

\* The client gets the result of the round it is in.
LEMMA FinishSolo ==
  ASSUME Solo, Base, SoloInv, UNCHANGED client, FinishRoundSimulation
  PROVE  SoloInv'
<1> PICK e \in Endpoint : Endpoint = {e}
  BY DEF Solo
<1>1. /\ mainPc = "simulate" /\ mainPc' = "unready"
      /\ SendToAll(SimulationResult(round, fighters))
      /\ round' = round + 1 /\ cursor' = 0
      /\ UNCHANGED <<simulation, lobby, matchHasStarted, allPlayersReady,
                     simulationStarted, net, botCopy, asioVars, clientVars,
                     inbox>>
  BY DEF FinishRoundSimulation
<1>2. /\ allPlayersReady /\ SoloEveryoneReady /\ asioPc = "idle"
      /\ fighters = units
  BY <1>1 DEF SoloInv, SoloRounds
<1>3. PICK i \in PlayerId : /\ players = {i} /\ bots = {1 - i}
                            /\ endpointOf[i] = e /\ SoloWaiting(i, e)
  BY <1>1, <1>2, ClientWaits
<1>4. matchHasStarted /\ e \in isOpen /\ round \in Nat
  BY <1>3 DEF SoloWaiting, SoloInTouch, SoloInv, Calm, Base, IInv, TypeOK
<1>5. round' - 1 = round /\ i >= 0
  BY <1>1, <1>4 DEF PlayerId
<1>6. outbox'[e] = <<SimulationResult(round, fighters)>>
  BY <1>1, <1>3, <1>4, EveryoneIsReached, ShortQueues
     DEF SendToAll, SoloInv, SoloWaiting
<1>7. Line(e)' = Line(e)
  BY <1>1, SameLine DEF client
<1>8. Calm' /\ SoloOpened' /\ SoloRounds'
  BY <1>1, <1>2, <1>4 DEF SoloInv, Calm, SoloOpened, Full, SoloRounds, SoloEveryoneReady
<1>9. UnitIdsOf(1 - i, units) = 1..round
  BY <1>1, <1>3 DEF SoloInv, BotArmy
<1>10. BotArmy'
  BY <1>1, <1>3, <1>5, <1>9 DEF BotArmy, UnitIdsOf
<1>11. SoloFought(i, e)'
  BY <1>1, <1>2, <1>3, <1>5, <1>6, <1>7, <1>9
     DEF client, SoloWaiting, SoloFought, SoloInTouch, UnitIdsOf
<1>12. SoloSeats'
  BY <1>1, <1>3, <1>11, SeatsFromOne DEF SoloSeat
<1> QED BY <1>8, <1>10, <1>12 DEF SoloInv

\* After the round the client's order is not on its way.
LEMMA SoloNobodyOrders ==
  ASSUME Solo, Base, SoloInv, mainPc = "unready", NEW e \in Endpoint,
         NEW i \in players
  PROVE  /\ i \in PlayerId /\ players = {i} /\ endpointOf[i] = e
         /\ SoloRegistered(i, e) \/ SoloStarting(i, e) \/ SoloPlacing(i, e) \/ SoloFought(i, e)
         /\ roundReady[i] => i >= cursor
<1>1. i \in PlayerId /\ players = {i} /\ endpointOf[i] = e /\ SoloSeat(i, e)
  BY Participants
<1> QED BY <1>1 DEF SoloSeat, SoloRegistered, SoloStarting, SoloPlacing, SoloSent,
                    SoloWaiting, SoloFought

\* The client's flag is cleared, or all that were to be cleared have been.
LEMMA UnreadySolo ==
  ASSUME Solo, Base, SoloInv, UNCHANGED client, NEW e \in Endpoint,
         mainPc = "unready",
         UNCHANGED <<simulation, players, endpointOf, bots, matchHasStarted,
                     round, net, asioVars, clientVars, channels>>,
         \A i \in players : ~roundReady'[i]
  PROVE  SoloSeats'
<1>1. CASE players = {}
  <2>1. Line(e)' = Line(e)
    BY SameLine DEF client
  <2>2. SoloUnseated(e)'
    BY <1>1, <2>1, Participants DEF client, SoloUnseated, SoloFresh
  <2> QED BY <1>1, <2>2, Participants, SeatsFromOne
<1>2. ASSUME NEW i \in players PROVE SoloSeats'
  <2>1. Line(e)' = Line(e)
    BY SameLine DEF client
  <2>2. /\ i \in PlayerId /\ players = {i} /\ ~roundReady'[i]
        /\ SoloRegistered(i, e) \/ SoloStarting(i, e) \/ SoloPlacing(i, e) \/ SoloFought(i, e)
    BY SoloNobodyOrders
  <2>3. SoloSeat(i, e)'
    <3>1. CASE SoloRegistered(i, e)
      BY <2>1, <2>2, <3>1 DEF client, SoloRegistered, SoloFresh, UnitIdsOf, SoloSeat
    <3>2. CASE SoloStarting(i, e)
      BY <2>1, <2>2, <3>2 DEF client, SoloStarting, SoloFresh, UnitIdsOf, SoloSeat
    <3>3. CASE SoloPlacing(i, e)
      BY <2>1, <2>2, <3>3 DEF client, SoloPlacing, SoloInTouch, UnitIdsOf, SoloSeat
    <3>4. CASE SoloFought(i, e)
      BY <2>1, <2>2, <3>4 DEF client, SoloFought, SoloInTouch, UnitIdsOf, SoloSeat
    <3> QED BY <2>2, <3>1, <3>2, <3>3, <3>4
  <2> QED BY <2>2, <2>3, Participants, SeatsFromOne
<1> QED BY <1>1, <1>2

LEMMA ClearSolo ==
  ASSUME Solo, Base, SoloInv, UNCHANGED client, NEW j \in PlayerId,
         ClearRoundReady(j)
  PROVE  SoloInv'
<1> PICK e \in Endpoint : Endpoint = {e}
  BY DEF Solo
<1>1. /\ mainPc = "unready" /\ j \in players
      /\ roundReady' = [roundReady EXCEPT ![j] = FALSE]
      /\ UNCHANGED <<simulation, players, endpointOf, bots, flags, net, mainPc,
                     botCopy, asioVars, clientVars, channels>>
  BY DEF ClearRoundReady
<1>2. asioPc # "store"
  BY <1>1 DEF SoloInv, SoloRounds
<1>3. Calm' /\ SoloOpened' /\ SoloRounds' /\ BotArmy'
  BY <1>1, <1>2 DEF SoloInv, Calm, SoloOpened, Full, Gathering, SoloRounds,
                    SoloEveryoneReady, BotArmy, UnitIdsOf
<1>4. \A i \in players : ~roundReady'[i]
  BY <1>1, SoloNobodyOrders DEF Base, IInv, TypeOK
<1>5. SoloSeats'
  BY <1>1, <1>4, UnreadySolo
<1> QED BY <1>3, <1>5 DEF SoloInv

LEMMA EndRoundSolo ==
  ASSUME Solo, Base, SoloInv, UNCHANGED client, EndRound
  PROVE  SoloInv'
<1> PICK e \in Endpoint : Endpoint = {e}
  BY DEF Solo
<1>1. /\ mainPc = "unready" /\ mainPc' = "update"
      /\ \A i \in players : i < cursor
      /\ simulationStarted' = FALSE /\ allPlayersReady' = FALSE
      /\ UNCHANGED <<simulation, lobby, matchHasStarted, round, net, botCopy,
                     cursor, asioVars, clientVars, channels>>
  BY DEF EndRound
<1>2. asioPc # "store"
  BY <1>1 DEF SoloInv, SoloRounds
<1>3. Calm' /\ SoloOpened' /\ SoloRounds' /\ BotArmy'
  BY <1>1, <1>2 DEF SoloInv, Calm, SoloOpened, Full, Gathering, SoloRounds,
                    SoloEveryoneReady, BotArmy, UnitIdsOf
<1>4. \A i \in players : ~roundReady'[i]
  <2>1. \A i \in players : i \in Int
    BY DEF Base, IInv, TypeOK, PlayerId
  <2>2. cursor \in Int
    BY DEF Base, IInv, TypeOK, PlayerId
  <2> QED BY <1>1, <2>1, <2>2, SoloNobodyOrders
<1>5. SoloSeats'
  BY <1>1, <1>4, UnreadySolo
<1> QED BY <1>3, <1>5 DEF SoloInv

LEMMA MainSolo ==
  ASSUME Solo, Base, SoloInv, UNCHANGED client, MainNext
  PROVE  SoloInv'
<1>1. ~RemoveClosedPlayersThrows
  BY EveryoneIsReached DEF RemoveClosedPlayersThrows, SoloInv
<1> QED BY <1>1, BetweenRoundsSolo, PerformAISolo, StartSolo, FinishSolo,
           ClearSolo, EndRoundSolo DEF MainNext

-----------------------------------------------------------------------------
(* The theorems *)

LEMMA InitSolo == ASSUME Solo, MatchInit PROVE SoloInv
<1>1. Init
  BY DEF MatchInit
<1>2. Calm /\ SoloOpened /\ SoloRounds /\ BotArmy
  BY <1>1 DEF MatchInit, Init, Calm, SoloOpened, Full, Gathering, SoloRounds, BotArmy
<1>3. ASSUME NEW e \in Endpoint PROVE SoloUnseated(e)
  <2>1. InHand = <<>> /\ inbox[e] = <<>> /\ toSend[e] = <<>>
    BY <1>1 DEF MatchInit, Init, InHand
  <2>2. Line(e) = <<>>
    BY <2>1, ConcatEmptySeq DEF Line, Chain
  <2> QED BY <1>1, <2>2 DEF MatchInit, Init, SoloUnseated, SoloFresh
<1>4. SoloSeats
  BY <1>1, <1>3 DEF Init, SoloSeats
<1> QED BY <1>2, <1>4 DEF SoloInv

LEMMA NextSolo ==
  ASSUME Solo, Base, SoloInv, [MatchNext]_matchVars
  PROVE  SoloInv'
<1>1. CASE MatchNext
  BY <1>1, MainSolo, AsioSolo, ClientStepSolo DEF MatchNext
<1>2. CASE UNCHANGED matchVars
  <2> USE <1>2 DEF matchVars, vars, client
  <2>1. Calm' /\ SoloOpened' /\ SoloRounds' /\ BotArmy'
    BY DEF SoloInv, Calm, SoloOpened, Full, Gathering, SoloRounds, SoloEveryoneReady,
           BotArmy, UnitIdsOf
  <2>2. ASSUME NEW e \in Endpoint
        PROVE  /\ players' = {} => SoloUnseated(e)'
               /\ \A i \in players' : SoloSeat(i, e)'
    <3>1. Line(e)' = Line(e)
      BY SameLine
    <3>2. SoloUnseated(e)' = SoloUnseated(e)
      BY <3>1 DEF SoloUnseated, SoloFresh
    <3>3. ASSUME NEW i \in players PROVE SoloSeat(i, e)'
      <4>1. CASE SoloRegistered(i, e)
        BY <3>1, <4>1 DEF SoloRegistered, SoloFresh, UnitIdsOf, SoloSeat
      <4>2. CASE SoloStarting(i, e)
        BY <3>1, <4>2 DEF SoloStarting, SoloFresh, UnitIdsOf, SoloSeat
      <4>3. CASE SoloPlacing(i, e)
        BY <3>1, <4>3 DEF SoloPlacing, SoloInTouch, UnitIdsOf, SoloSeat
      <4>4. CASE SoloSent(i, e)
        BY <3>1, <4>4 DEF SoloSent, SoloOrderInFlight, SoloInTouch, UnitIdsOf, SoloSeat
      <4>5. CASE SoloWaiting(i, e)
        BY <3>1, <4>5 DEF SoloWaiting, SoloInTouch, UnitIdsOf, SoloSeat
      <4>6. CASE SoloFought(i, e)
        BY <3>1, <4>6 DEF SoloFought, SoloInTouch, UnitIdsOf, SoloSeat
      <4> QED BY <4>1, <4>2, <4>3, <4>4, <4>5, <4>6 DEF SoloInv, SoloSeats, SoloSeat
    <3> QED BY <3>2, <3>3 DEF SoloInv, SoloSeats
  <2>3. SoloSeats'
    BY <2>2 DEF SoloSeats
  <2> QED BY <2>1, <2>3 DEF SoloInv
<1> QED BY <1>1, <1>2

\* At every moment the client and the bot stand where the server takes them to
\* stand, in every round.
THEOREM SoloInvariance == ASSUME Solo PROVE MatchSpec => []SoloInv
<1>1. MatchInit => SoloInv
  BY InitSolo
<1>2. Base /\ SoloInv /\ [MatchNext]_matchVars => SoloInv'
  BY NextSolo
<1> QED BY <1>1, <1>2, BaseHolds, PTL DEF MatchSpec

\* A client that has entered the match has a seat, and is in touch.
LEMMA SoloInMatchIsSeated ==
  ASSUME Solo, Base, SoloInv, NEW e \in Endpoint, InMatch(e)
  PROVE  \E i \in players : endpointOf[i] = e /\ clientId[e] = i
                              /\ terrain[e] = map
<1>1. PICK i \in players : endpointOf[i] = e /\ SoloSeat(i, e)
  BY Participants DEF SoloUnseated, InMatch
<1> QED BY <1>1 DEF SoloSeat, SoloRegistered, SoloStarting, SoloPlacing, SoloSent,
                    SoloWaiting, SoloFought,
                    InMatch, SoloInTouch

\* Results that wait to be played back are those of the round just fought.
LEMMA SoloResultsInHand ==
  ASSUME Solo, Base, SoloInv, NEW e \in Endpoint, dataReady[e]
  PROVE  /\ state[e] = "WaitForSimulationResults"
         /\ results[e] = SimulationResult(round - 1, fighters)
         /\ \E i \in players : SoloFought(i, e)
<1>1. PICK i \in players : SoloSeat(i, e)
  BY Participants DEF SoloUnseated, SoloFresh
<1>2. SoloFought(i, e)
  BY <1>1 DEF SoloSeat, SoloRegistered, SoloStarting, SoloPlacing, SoloSent,
              SoloWaiting, SoloFresh
<1> QED BY <1>2 DEF SoloFought

\* performAI gives the bot one new unit in every round, under an id of its own,
\* and the round is fought with all of them.
THEOREM BotKeepsPace == ASSUME Solo PROVE MatchSpec => []BotKeepsUp
<1>1. Solo /\ Base /\ SoloInv => BotKeepsUp
  BY SoloResultsInHand DEF BotKeepsUp, SimulationResult, SoloFought
<1> QED BY <1>1, BaseHolds, SoloInvariance, PTL

\* The army a client sees fight the bot's is the one it commands, whether the
\* bot was added before the client or after it.
THEOREM ArmyMeetsBot == ASSUME Solo PROVE MatchSpec => []OwnArmyFights
<1>1. Solo /\ Base /\ SoloInv => OwnArmyFights
  <2> SUFFICES ASSUME Solo, Base, SoloInv, NEW e \in Endpoint, dataReady[e]
               PROVE  UnitIdsOf(clientId[e], results[e].units) = army[e]
    BY DEF OwnArmyFights
  <2>1. PICK i \in players : SoloFought(i, e)
    BY SoloResultsInHand
  <2>2. results[e].units = fighters
    BY SoloResultsInHand DEF SimulationResult
  <2> QED BY <2>1, <2>2 DEF SoloFought, SoloInTouch
<1> QED BY <1>1, BaseHolds, SoloInvariance, PTL

\* The results of a round against the bot are those of the round the client
\* waits in.
THEOREM BotResultsAreFresh ==
  ASSUME Solo PROVE MatchSpec => []ResultsOfThisRound
<1>1. Solo /\ Base /\ SoloInv => ResultsOfThisRound
  BY SoloResultsInHand DEF ResultsOfThisRound, SimulationResult, SoloFought
<1> QED BY <1>1, BaseHolds, SoloInvariance, PTL

\* The main thread, which performs the bot's move and simulates the round
\* without m_mutex, and a handler that changes the simulation never overlap:
\* not even when AddBot arrives in the middle of a match.
THEOREM SoloThreadsTakeTurns == ASSUME Solo PROVE MatchSpec => []SimulationExclusive
<1>1. Solo /\ Base /\ SoloInv => SimulationExclusive
  <2> SUFFICES ASSUME Solo, Base, SoloInv, MainUsesSimulation
               PROVE  asioPc = "idle"
    BY DEF SimulationExclusive, AsioUsesSimulation
  <2> QED BY DEF SoloInv, SoloRounds, MainUsesSimulation
<1> QED BY <1>1, BaseHolds, SoloInvariance, PTL

\* Against the bot too, orders carry the id the server has for the connection.
THEOREM SoloOrdersAreAccepted == ASSUME Solo PROVE MatchSpec => []PlaysUnderItsId
<1>1. Solo /\ Base /\ SoloInv => PlaysUnderItsId
  BY SoloInMatchIsSeated DEF PlaysUnderItsId
<1> QED BY <1>1, BaseHolds, SoloInvariance, PTL

\* Against the bot too, units are placed on the map the round is fought on:
\* the AddBot that is rejected does not roll it anew.
THEOREM SoloMapIsShared == ASSUME Solo PROVE MatchSpec => []SameTerrain
<1>1. Solo /\ Base /\ SoloInv => SameTerrain
  BY SoloInMatchIsSeated DEF SameTerrain
<1> QED BY <1>1, BaseHolds, SoloInvariance, PTL
=============================================================================
