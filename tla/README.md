# A TLA+ model of Medibellum (Kajam-13)

Medibellum is a two-player autobattler: clients place units, the server
simulates a round of fighting, the clients play the result back. This directory
holds TLA+ modules for the parts of `src/impl` that decide what a match does,
the TLC configurations that check them, and TLAPS proofs.

## The system

| Part (under `src/impl`) | State | Operations | Talks to |
|---|---|---|---|
| `game_server_lib/game_server.cpp` | players and bots by id, match started, round, the two atomics `m_allPlayersReady`, `m_simulationStarted` | `update` on the main thread; handlers of InitialPing, AddBot, RoundReady, UnitUpgrade on the asio thread | connection (callback, send), simulation (calls) |
| `game_server_lib/server_network_connection.cpp`, `game_common_lib/network_helpers.cpp` | list of sockets, one shared receive buffer | accept, receive, close on error, erase closed sockets, send to one / to all | asio, server callback |
| `game_server_lib/game_simulation.cpp`, `units/` | units and upgrades of the match, barriers, player hit points; units, arrows, attacks of the round | add/remove unit, add upgrade, roll map, prepare and perform a round, clear | called by both server threads; sends the results |
| `game_client_lib/client_network_connection.cpp`, `server_connection.cpp` | id, unit information, `m_dataReady`, results, `m_allPlayersConnected` | ping, readyRound, unitUpgrade; receive id, start, results | server; polled by the states |
| `game_client_lib/state_game.cpp`, `internal_state/` | active state, round, units shown, units to be removed, hit points | the transitions WaitForAllPlayers → SelectStartingUnits → PlaceUnits → WaitForSimulationResults → Playback → PlaceUnits, EndWin, EndLose | connection, placement |
| `game_client_lib/unit_placement/` | funds, credit and debt, prices, unlocked types, fields in use, upgrades bought | place, undo, sell, unlock, buy upgrade | PlaceUnits |
| `game_common_lib/map/` | fields, heights, slopes, placement areas | lookups by position | client and server |
| `game_common_lib/network_data/`, `message.cpp`, `compression/` | – | JSON and compression of what is sent | all |
| `game_client_lib/unit.cpp`, `critters/`, `terrain_renderer.cpp` | what the screen shows of units, critters, the map | follow the frames of a playback and the camera | states of the client |
| `jamtemplate/common/game_base.cpp`, `state_manager/`, `game_object*`, `tween*` | the state of the program, its objects and tweens | update in steps of fixed length, draw, switch states | all of the client |
| `jamtemplate/common/` `input/`, `audio/`, `log/`, `action_commands/` | flags of keys and buttons, music and fades, the console, the log | refreshed or written once a frame; the log by both threads | all of the client, the log also the server |
| `jamtemplate/common/` `graphics/`, `tilemap/`, `animation.cpp`, `bar.cpp`, `button.cpp`, containers | places, effects, tiles, animations | update and draw | objects of the game |
| `jamtemplate/sfml/`, `jamtemplate/sdl/` | the two back ends: textures, texts, keys, windows | the same interfaces on two libraries | engine |

What is hard here:

* **Two threads in the server.** The main thread runs `update` for ever, the asio
  thread runs the handlers. `m_mutex` is released between the check of a sender
  and its handler, and not taken at all around the simulation, the map, the
  count of participants after a ping, or the loop that clears the ready flags.
* **Players come and go.** A client may leave between any two steps. Its socket is
  closed by the asio thread, erased by the next `update`, and its player removed
  after that. A client binds its port, so that it comes back from the same
  endpoint. Ids are the number of participants.
* **A round barrier.** A round starts when all players are ready, its results start
  the next placement, and readiness must be neither lost nor kept.
* **Order on the client.** The asio thread of the client stores the start and the
  results whenever they arrive; the states of the main thread poll for them.
* **Bytes.** One buffer of the server serves the reads of all sockets, reads and
  writes come in pieces, and callbacks refer to sockets that may be gone.
* **Objects that change what is walked over.** Callbacks of tweens, updates of objects
  and commands of the console add and destroy what the loop around them visits.
* **Drawing that updates.** `StateGame::onDraw` updates every living unit once more, after the
  states have told it something new (`DrawAlive` of `UnitAnimation`).
* **What is seen a frame late.** AI, camera, bars, pictures and sounds work with what
  was true a frame ago, or with what was true when they were last told.

## Modules

### A match: the server, its clients and what they promise

| Module | What it is |
|---|---|
| `GameServer` | both threads of the server, its connections, the round data of the simulation, and clients that may send anything the program can send (run `server`) |
| `RoundProtocol` | the abstract specification: what a match promises its players, and the proof that it keeps it |
| `Match` | the server together with the clients' real protocol; the refinement of `RoundProtocol` (the runs `match_*`, one configuration `MCMatch*.cfg` each) |
| `MatchProofs` | the inductive invariant of `GameServer` and its theorems; every match is a behaviour of `GameServer`, so that they carry over; the types of the clients |
| `TwoPlayerProofs` | theorems about two players who stay and the refinement of `RoundProtocol`; theorems about one player and its bot |

### The components around it

Each of these modules is one component with all of its operations, too large a
state to be multiplied with that of the others. Three modules hold their instances:
`MCRound` (run `round`), `MCClient` (run `client`) and `MCEngine` (run `engine`). A
behaviour of these three is a behaviour of one component, which the variable
`machine` names for good; the variables of the others keep their first values. Their
properties say `machine = "..." => ...`, or are bundles of these, so that a run
answers for every component what it would answer alone. Each of the three extends the
component of its kind about which most is proved, `Simulation`, `Placement` or
`GameLoop`, and instantiates the others: `FightIsFair`, `Accounts`, `NoFreeMoney` and
`LoopIsSound` are the same definitions in the runs and in the theorems.

| Module (`machine`) | Code | What its properties are about |
|---|---|---|
| **`MCRound`** | | |
| `Simulation` (`sim`, `artillery`) | `game_simulation.cpp`, `units/`, `*_manager`, `game_player` | kills paid once, experience and levels kept, barriers of the dead, who is hurt, rounds that end |
| `Marching` (`march`) | `server_unit.cpp`, the AIs, the map under them | the edge of the screen, armies that meet, units that stand |
| `Wire` (`wire`) | `simulation_result_data.cpp`, the `*_info.cpp` of `network_data` | what is left out or cut and what arrives |
| `UnitInfo` (`info`, `shop`) | `unit_info*.cpp`, `upgrade_info.cpp`, `upgrade_manager.cpp` | both sides calculate alike, which promises of upgrades are kept |
| `Terrain` (`loads`, `maps`) | `terrain.cpp`, `terrain_chunk.cpp`, `terrain_renderer.cpp` | joined surfaces, heights, placement areas, the picture painted while a map arrives |
| `Connection` (`up`, `alone`, `down`, `lan`), `Channel` | `server_network_connection.cpp`, `client_network_connection.cpp`, `network_helpers.cpp` | bytes that are split, mixed or misread; with whole transfers, the channel `GameServer` assumes |
| **`MCClient`** | | |
| `Placement` (`place`) | `placement_manager.cpp`, `place_units.cpp`, the buttons | funds, debt, prices, fields, undo and sale |
| `Playback` (`play`) | `state_game.cpp`, `internal_state/` | units shown and sold, ends of a match |
| `Hover` (`hover`) | `placement_manager.cpp`, `common_functions.cpp` | the offered field, glow, circles |
| `Critters` (`critters`), `UnitAnimation` (`animation`), `Bar` (`bar`), `Texts` (`text`), `Button` (`button`) | `critters/`, `unit.cpp`, `animation.cpp`, `bar.cpp`, `text.cpp`, `button.cpp` | what the screen shows is what it stands for |
| `Audio` (`music`, `sounds`) | `audio_impl.cpp`, `sound_fade_manager.cpp`, `sound_group.cpp` | fades, volumes, pools |
| **`MCEngine`** | | |
| `GameLoop` (`loop`) | `game_base.cpp`, `state_manager.cpp`, `state_intro.cpp`, `state_menu.cpp` | switches of states under a fade |
| `Objects` (`objects`), `Tweens` (`tweens`) | `game_object_collection.cpp`, `object_group.hpp`, `tween_collection.cpp` | collections that callbacks change |
| `CircularBuffer` (`buffer`), `BoundedQueue` | `circular_buffer.hpp`, `info_screen.cpp`, `particle_system.hpp` | the buffer refines a queue (proved) |
| `SpatialObjectGrid` (`grid`), `Pathfinder` (`path`), `StrUtils` (`strings`) | the files of those names | found once, no way missed, splits and affixes |
| `Drawable` (`view`, `effects`, `shake`), `TileMap` (`tiles`, `row`), `Animations` (`animations`), `Palette` (`palette`) | `drawable_impl.cpp`, `camera.cpp`, `tilemap/`, `animation.cpp`, `color/` | places, effects, merged colliders, frames |
| `TextureManager` (`sfml`, `sdl`), `Images` (`pictures`, `frames`), `Keyboard` (`keyboard`) | `sfml/`, `sdl/` | what the two back ends do alike and where they differ |
| `Input`, `InputHelper` (`devices`, `commands`) | `input/` | edges and levels, commands once an update |
| `IntroSound` (`intro`), `Console` (`console`), `SharedLog` (`log`) | `intro_looping_sound_with_effect.cpp`, `console.cpp`, `action_command_manager.cpp`, `logger.cpp` | one sound, lines once, one story in all targets |

Two more modules hold proofs about these components: `SimulationProofs`, the theorems of
`Simulation`, and `Induction`, what the other proofs need of recursion, folds and sums.

### GameServer

A critical section of `m_mutex` is one action; where the code releases the mutex,
or works without it, the action ends. So `mainPc` steps through `update`:

    update  UpdateConnection          m_connection.update()
    reap    RemoveClosedPlayers       removePlayerIfConnectionClosed, resetServer
    poll    PollAllPlayersReady       the two atomics, the copy of m_botData
    ai      PerformAI                 performAI
    start   StartRoundSimulation      m_simulationStarted, prepareSimulationForNewRound
    simulate FinishRoundSimulation    performSimulation, results sent, m_round++
    unready ClearRoundReady, EndRound the loop over m_playerData, the flags

and `asioPc` through a handler: `dispatch` (sender checked, mutex released), then
for a ping `respond` (entry made), `count` (answer sent), `announce` (map rolled),
for RoundReady `apply` (match has started) and `store` (all ready).

| Variables | Code |
|---|---|
| `sockets`, `ahead`, `isOpen` | `m_sockets`, its order, `is_open()` of each |
| `players`, `endpointOf`, `roundReady`, `bots` | `m_playerData`, `m_botData` |
| `matchHasStarted`, `round`, `allPlayersReady`, `simulationStarted` | the members of that name |
| `units`, `upgrades`, `map`, `fighters` | `m_unitInformationForRoundStart`, `m_unitUpgrades`, `m_world`, `m_simulationObjects` |
| `inbox`, `outbox` | the two directions of each TCP connection: whole messages, in order, lost when the connection ends |
| `link`, `clientId` | the client's end of it, `ServerConnection::m_playerId` |

The order of the sockets matters, since `sendMessageToAll` returns at the first
closed one and `isSocketOpenFor` and `sendMessageToOne` ask every socket on the
way for its `remote_endpoint()`, which throws for a closed one: then the server
ends (`RemoveClosedPlayersThrows`, `SendPlayerIdThrows`).

Abstracted: the simulation of a round is one step whose result is the set of
units that fought; a unit is its player, its id and who placed it; an upgrade
is who bought it; maps are numbered as they are rolled. `rolls`, `sent`, the
field `by` and the round in `SimulationResult` only serve properties and bounds.

A client may come back once the old socket has left `sockets`. In the code it
may already be accepted while the closed one is still in the list, for at most
the 16 ms of a turn of the main loop; this window is left out. So is an accept that
fails: `handleAccept` logs the error and appends the useless socket all the same, whose
`remote_endpoint()` then throws.

### Match and RoundProtocol

`Match` replaces the open clients by the program's: `Create` and `SendOpening` are
`StateGame::onCreate` with the two check boxes for bots (a bot before the ping, one
after it), `BeginMatch` is `WaitForAllPlayers::update`, `SelectUnits` to
`EndPlayback` the transitions of `InternalStateManager`, `Receive` the handlers of
`ServerConnection` on the client's asio thread. In a placement a client places at
most one unit, named after the round, and sells at most one.

`RoundProtocol` says what players can expect: they submit their armies, a round is
fought once all have, with exactly these armies, everybody sees it, and rounds
that are due are fought and seen. `Match!Protocol` maps it to the code: a client
has *submitted* when it waits for results, a round is *fought* when
`prepareSimulationForNewRound` has copied the units, it is *seen* in Playback.

## What the runs check

| Run | Instance | Shows |
|---|---|---|
| `server` | 2 interchangeable connections (a symmetry: no name of theirs decides anything), 4 messages in all | `TypeOK`; never three participants; no connection with two ids; no entry created by `operator[]` after the unlock; unit names unique; only the present owner of an id acts in its name |
| `match_two` | 2 clients that stay, 2 rounds, fairness | `ClientTypeOK`; the threads never use the simulation at once; clients play under their id, on the server's map, with the results of the round they are in, and these hold exactly the army they command; `Match` implements `RoundProtocol`, its fairness included |
| `match_solo` | 1 client, one or two bots, 3 rounds, fairness | the army fights, the bot has one new unit per round, every round is answered |
| `match_leave` | 2 clients, one leaves and returns, 5 messages, fairness | a player who left is forgotten; clients send what `GameServer` allows |
| `round` | `MCRound` | `FightIsFair`, `RoundIsFair`, `RoundsEnd`: kills, levels, barriers, hit points, and that each round ends; `WireIsTrue`, `UpgradesAgree`: client and server show and calculate with the same numbers, and of all descriptions of upgrades exactly four are wrong; `SurfaceJoined`: terrains; `ReadsWhole`: what goes wrong with bytes is confined; `Channels`: without overlapping and split transfers a connection is a `Channel` |
| `client` | `MCClient` | `Accounts`, `NoFreeMoney`: the books of a placement; `PlaybackIsTrue`; `NothingHangs`: playbacks, animations and fades end; `ScreenIsTrue`, `MovesAreTrue`: what is shown and heard |
| `engine` | `MCEngine` | `LoopIsSound`: the game loop and its switches of states; `WalksUndisturbed`: collections that are changed while they are walked; `IsQueue`: the buffer is a `BoundedQueue`; `OneStory`: the log of two threads; `ContainersAreTrue`, `PicturesAreTrue`, `InputIsTrue`; `AnswersCome`: tweens, searches, switches and log entries come to an end |

The runs of the last three hold bundles; the end of each module lists what a bundle
consists of, and each part has a comment of its own.

Five runs show where the code does not do what it says:

* `match_race` (`SimulationExclusive`): a player leaves, the other one's round starts
  alone, and the new ping of the first rolls a map on the asio thread while the
  main thread simulates. `game_server.hpp:51` asks for synchronization there.
* `match_reset` (`ResetIsComplete`): `resetServer` leaves `m_allPlayersReady` set. A
  client readies its round and leaves at once: the server resets, then simulates a
  round for nobody, and the next match begins in round 2.
* `match_takeover` (`NoTakeover`): ids are the number of participants. When player 0
  has left, the next client becomes player 1 and overwrites the player 1 who is there.
* `match_third` (`EntersAsPlayer`): a connected client without an id is told, with
  the players, that the match begins, and enters it with id -1 and no starting units.
* `upgrades` (`UpgradesAsDescribed`): the machine `shop` has all eight files of
  `assets/units` and everything their upgrades are described to do. A player buys the
  barrierweaver's "crystal of reach" ("increase shield size by 1 tile"): its effect is
  stored under a key nobody reads. Three more do nothing of the kind: the other one of the
  barrierweaver, the shieldman's hit points, which a round sets before it applies the
  upgrades, and the shieldman's armor, which lets 8 percent of a splash through.
  `OthersKept` of `round` shows that these four (`BrokenPromises`) are all.

Where the code departs from a plain reading of its documents without a promise being
broken, the property says what holds and names the exception: a frame that is the
only one of a simulation (`ResultTold` of `Playback`), maps of three heights
(`CornersMeet` of `Terrain`), lengths and bodies that are misread (`ReadsWhole`).
In `HandledInOrder` of `Connection` the exception takes two mistakes at once: the
length of one client is overwritten by that of another one, which skips the rest of
a message written in parts, and a later message is taken before an earlier one.
Barriers that go on in the next round are such an exception of `FightIsFair`.

A hazard that a property only sets aside this way, or that an assumption excludes, is listed
in `PROJECT.json` without a property and with the reason: the lost RoundReady, units of a
client that rejoins, the barriers, the click shared by two objects, lengths and bytes that
mix, and the simulation of one frame.

### Bounds

* `MaxSends` bounds the messages of all clients, and a client returns only while
  one is left. Four are enough for two pings, a
  departure, a take-over and an order in the old owner's name, which is the longest
  story the properties of `server` need; a match of two players over two rounds
  needs two pings, two upgrades and four RoundReady, fewer than 12.
* Two connections: a server has at most two participants, and a returning client
  takes the part of a third one.
* Two rounds show a result that is left over; a third one in `match_solo` shows that
  unit names go on.
* Unit ids `1..MaxRounds`, since a client names a unit after its round.
* `Placement`: two rounds, three units at a time, two fields, two types with the
  prices of the game, the cheaper of which rises within the first rounds, a credit
  taken and paid back. `UnitInfo`: two upgrades each of two types in every order of up to
  six purchases (`info`), and any single upgrade of any file (`shop`). `Input`: two keys
  that may share their commands. `Simulation`: three units, two rounds and hit points of the
  game; `Marching` a line of 26 places with a hill. `Connection`: at most two clients
  and three messages of two lengths in a direction, split and mixed in every way.
  `CircularBuffer`: capacity 3 and five calls. `GameLoop`: frames shorter and much
  longer than an update, five states. The rest is at the instances in `MC*.tla`,
  each with what it is to make happen.

Deadlock is checked in the runs whose server cannot end (`match_two`, `match_solo`,
`match_third`). Where clients leave, the server may
end by an exception, and then nothing happens any more: `CHECK_DEADLOCK FALSE`.
The components of the three bundles stop at their bounds.
The main thread never blocks otherwise, so that deadlock freedom says little;
`RoundsAreAnswered` says more.

### Fairness

`MatchFairness` is weak fairness of each of the server's threads, of each client's
main thread where it only polls, and of each client's receiving thread: they run
in endless loops under the operating system's scheduler, and TCP delivers. No
fairness is assumed of what a player decides (SelectUnits, BuyUpgrade,
ReadyRound, Leave) or of new clients.

`PromptServer` is an assumption on timing, not on scheduling: when a player
ends a placement, the server has left the loop that clears the ready flags of the
round before. The player has watched a playback since; the code does nothing to
make it true. Without it a RoundReady handled before that loop ends is lost and
both clients wait for ever (hazard at `game_server.cpp:58`).

In the bundles `Turn` is weak fairness of what the program does by itself: the next
frame of a game loop or of a simulation, the next step of a search, the first of two
logging threads, the server's end of a connection. `Turn2` and `Turn3` are the other
threads where there are any. Clicks, messages and new objects are never assumed.

## What is proved

Every theorem holds for all values of the constants that its assumptions admit; the
assumptions are those the modules name (`EndpointAssumption`, `UnitIdAssumption`,
`MaxSendsAssumption`, `CostAssumption`, `BoundAssumption`, `UnitAssumption`,
`LoopAssumption`, `CircularBufferAssumption`), and TLC evaluates them for its
instances. Where a theorem needs more it says so in its statement.

### The server (`MatchProofs`)

For every set of connections, every set of unit ids and every number of messages:
`TypeCorrect`, `TwoParticipants`, `GhostFree`, `OneIdPerConnection`, `UnitsAreUnique`
and `OwnersAct`, the action property.

The types alone are not inductive: `HandleUnitUpgrade` is well typed only because
the id in the message in hand is a participant's. So `IInv` adds to the types

* `SenderIsConnected`: open sockets are in the list, and while a handler runs its
  sender's socket is open. This holds because only the asio thread closes sockets.
* `SenderIsOwner`: a handler that acts in a player's name still finds the sender the
  owner of the id. `RemoveClosedPlayers` is the one step of the other thread that
  could break it, and it keeps the players with open sockets.
* `FreeIdsAreBlank`, `NoGhostPlayer`, `OnePlayerPerEndpoint`, `AtMostTwoParticipants`
  for the participants, `UniqueUnits` for the units.

This is the argument why the unlock in `handleMessage` (line 146) does no harm to
the participants: the main thread cannot remove the sender in between. It stops
holding as soon as a second thread runs the `io_context` (mutant `CloseSocketAnyTime`).

### Any match (`MatchProofs`)

`MatchIsOpen`: every behaviour of `Match` is one of `GameServer`, for any
number of clients, bots and rounds, so that `MatchIsSafe` has the server's
invariants in every match. The clients' invariant needed is `OrdersInv`: what goes
into their messages is well formed. `ClientsTyped` adds `ClientTypeOK`, for which
messages on their way to a client have to be well formed too (`ClientInv`).

### Two players (`TwoPlayerProofs`)

The hypothesis `Duet` is the match the game is made for, the one of `match_two`: two
connections, no bots, nobody leaves, and the timing `PromptServer`. The number of
rounds, units and messages is free. (Without these hypotheses the properties are
false, as `match_race`, `match_takeover` and `match_third` show.)

What the runs check of it are one-line statements about two threads, two queues per
client and two client programs; none of them is inductive. `DuetInv` says where everybody
can be at a time:

* `Quiet`: every socket is open, nothing is dropped, nobody ends.
* `Opened`: the match starts when both have an id, and once; before that the
  simulation is empty. `Rounds`: who may be in the simulation, given the two atomics.
* `Seats`: each client is in one of the stations of a round, `Registered`,
  `Starting`, `Placing`, `Sent`, `Waiting` or `Fought`, and each station fixes its state,
  the messages on their way to it and from it, its ready flag on the server, and
  how its army relates to the units there.

`NextDuet` takes the actions one by one through it. From it follow `ThreadsTakeTurns` (no
lock protects the simulation; the protocol does), `OrdersAreAccepted`,
`MapIsShared`, `ResultsAreFresh` and `ArmyIsComplete`.

`MatchFollowsProtocol` is the safety part of the refinement checked in
`match_two`: with the mapping of `Match!Protocol` every step of a match is a step
of `RoundProtocol` or leaves it as it is. `RoundProtocol` keeps its promise
(`PromiseKept`), so does the match: `PlayersAgree`.

### One player and the bot (`TwoPlayerProofs`)

`Solo`: one connection that stays, one or two requests for a bot in either order with
the ping. `SoloInv` has the same shape with one seat, the rejected second bot among
the messages, and `BotArmy`: the bot has a unit for each round, from the moment
`performAI` has run. It gives `BotKeepsPace`, `ArmyMeetsBot`, `BotResultsAreFresh` and
this match's `SoloThreadsTakeTurns`, `SoloOrdersAreAccepted`, `SoloMapIsShared`. What the two
proofs have in common is stated once; the stations of the one player have the prefix `Solo`.

### The placement (`Placement`)

For any types, costs, fields and number of rounds: `NobodyPlaysOnDebt`,
`SellingIsExclusive`, `FieldsAreTrue`, `PricesNeverDrift` and `TheBooksBalance`, all of
them together `AccountsAreTrue`; and the action property `NobodyGetsRich`.

* The funds stay positive because a selection is affordable while it lasts and a debt
  is never more than the income that pays it back (`IncomePaysDebt`): `Solvent`.
* `FieldsMatchUnits` counts, so that it needs to know that no two units share a field
  or a number (`Apart`, `Numbered`), that what is shown is what was sent and not
  sold (`OnScreen`), and that numbers only grow.
* A price rises by 8 percent, rounded, with each third unit and is divided by 1.08, rounded,
  when that unit is undone. `RaiseIsUndone` proves that the one rounding
  always undoes the other, for every price; `Counted` that there is a purchase to undo.
  That the table of prices exists, so that its equations can be used at all, is
  `RecursionExists` of `Induction`.
* `Books` and `NoFreeMoney` compare sums over what is placed and what stands on the field.
  A click changes one entry, so that each action needs one of four facts: a sum with one
  more, one fewer, one changed or the same entries. They come from `SumFromAny`: a sum
  may be taken in any order. `BooksInv` adds that the army is finite.

### The game loop (`GameLoop`)

For any frame times, fades and number of states: `StatesCreatedOnce`, `GameIsNewest`,
`NeverLate`, all of them `TheLoopIsSound`, and the action property `LeftInTheDark`,
from `LoopInv`: what is entered was created (`Entering`), only the first switch happens before anything is drawn (`Beginning`),
a match hides no other (`LatestGame`), no frame leaves an update undone (`InTime`), and
a trigger of a fade finds the screen black (`Black`).

### The circular buffer (`CircularBuffer`)

`BufferIsQueue`: for any capacity and any values the buffer implements `BoundedQueue`,
provided that the counters meet the end of the array when they wrap or never get
there (`CountersSuffice`: true for a capacity that is a power of two, and for fewer than
2^64 calls). The invariant is that the tail stands `size` places behind the head, modulo
the capacity (`TailBehindHead`); the lemmas on `Wrap` reduce each call to arithmetic
on places. `PlotStaysInOrder` proves `PlotInOrder` with the addition that what is stored is
the history as long as nothing was taken (`PlotInv`). `ParticlesAreNewest` proves
`NewestParticles`, provided that the counter of firings has room for them
(`FiringsSuffice`): the particle a firing takes is the one that was fired longest ago.

### The simulation (`SimulationProofs`)

For any units, types, upgrades, lengths of a round and number of rounds:
`SimulationIsTyped`, `FightsAreFair`, and the action properties `VeteransAreKept` and
`TheBeatenAreHurt`. `SimulationInv` adds to the properties

* `Armies`, the types in full: who is in the fight, with which level and experience, and
  that no player has more hit points than at the start, so that `Clear`, which gives them
  back, is no loss;
* `InFight`: attacks, arrows and barriers refer to units that are in the fight;
* `Settled`: the dead are exactly those that were paid for, each once and to the other side;
  and within a round `Recorded`: what is kept of a unit is what the unit has learned;
* `Weaving`: a weaver has sustained at most one barrier for each round so far, and none in
  the present one while its AI still may.

A frame is not one change but a fold over the attacks that are due, the arrows in the
air and the targets of an explosion. The invariant is therefore one of the worlds
within a frame as well: one blow keeps it, so does a fold of blows over any sequence, by
induction on the positions that are left (`BackwardsInduction`). An explosion pays for
each kill once because it visits each unit once, which is the injectivity of the order of
its targets.

### Recursion, folds and sums (`Induction`)

The induction theorems of the library take an operator as a parameter, which the
installed provers cannot instantiate. What they would give is proved here for sets:
`SetInduction` and `NumberInduction` need only that a family of subsets of a finite set
has a member without a smaller one. From them follow `RecursionExists` (a function that
is defined by recursion on `Nat` exists and satisfies its equations), the equations of the folds of the community modules over finite sets and
sequences, and `SumFromAny`.

### What stays with TLC

* All liveness, `ENABLED`, and the fairness of the refinements: the provers have no rule
  for them.
* `StrUtils` and `Palette`, whose operators are `RECURSIVE`.
* What rests on `SelectSeq`, about which the library states nothing: parts of `Playback`
  (`RefsAlive`, `ArmyShown`), `Connection`, `Pathfinder`, `Objects`, `SpatialObjectGrid`,
  `Audio` and `SharedLog`. `Simulation` shows a way, a fold (`Keep`) in its place.
* The bundles `PlaybackIsTrue`, `ScreenIsTrue`, `WireIsTrue`, `UpgradesAgree`,
  `SurfaceJoined`, `ReadsWhole`, `ContainersAreTrue` and `PicturesAreTrue`, and
  `OneStory`. Where a part is proved (`PlotInOrder`, `NewestParticles`, `VeteransKept`,
  `OnlyTheBeatenAreHurt`, `SwitchedInTheDark`, `IsQueue`) the theorem is one of its
  component. The other components of the bundles have no proofs.
* Matches that players leave, beyond what `MatchIsSafe` and `ClientsTyped` say.

## What is not modelled, and the plan

Assumed of callers: an animation is started at a frame it has (`Animations`; `play` does
not check). Left to one of two modules: `Hover` has a player who can always pay, `Placement`
the check of funds that ends the active type.

Not modelled: noise, random numbers, easing curves, screen effects, vectors and collision
helpers (functions of numbers without state that others read), the list of
licenses, `jt::Timer` (used nowhere), the ring among the pictures, wording and layout,
the enumeration library in `src/ext`, and what Box2D, asio, SFML, SDL and the JSON and
compression libraries do inside. `PROJECT.json` lists every part and, under hazards,
what each could get wrong, with the properties that watch it.

Next:

1. `Playback`: `SoldOnce` and `ResultTold` need no filtered sequences; `RefsAlive` does.
2. `Connection`: `HandledInOrder`, which needs an invariant on the bytes in each buffer.
3. Matches that one player leaves: the server's invariants are proved for them; what a
   client that stays may still rely on is not stated yet.
