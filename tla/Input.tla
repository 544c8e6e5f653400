------------------------------- MODULE Input -------------------------------
(* The input of the engine: jt::InputManager with its keyboard, its mouse    *)
(* and a gamepad, and the control commands that game states bind to the      *)
(* events of keys (input/*.cpp).  One action is one call that GameBase or a  *)
(* game state makes: update() once a frame, reset() when a new state is      *)
(* entered, and the four setCommand functions in between.                    *)
EXTENDS InputHelper, FiniteSets, Sequences

CONSTANTS
    Keys,           \* the keys of the keyboard
    MouseButtons,
    PadButtons,
    States,         \* the game states the program switches between
    Basic,          \* the commands that act themselves
    OnceCommands,   \* those of Basic that are a ControlCommandOnce
    Composites,     \* the ControlCommandComposites
    Parts,          \* [Composites -> SUBSET Basic]
    OwnerOf,        \* [Basic \cup Composites -> States]: who binds a command
    NullCommand,    \* ControlCommandNull
    AxisValues,     \* values SDL gives for an axis, of a signed 16 bit integer
    StoresStates,   \* does the program switch back to stored states
    MaxBound        \* bound: setCommand calls of one state

Inputs   == Keys \cup MouseButtons \cup PadButtons
Commands == Basic \cup Composites
Events   == {"Pressed", "Released", "JustPressed", "JustReleased"}

VARIABLES
    flags,      \* the flags of every key and button
    bound,      \* m_commandsPressed, m_commandsReleased, ... per event and key
    executed,   \* m_hasBeenExecutedAlready of every ControlCommandOnce
    axis,       \* getAxisRaw of the gamepad, as SDL reports it
    state,      \* the game state that runs
    calls,      \* setCommand calls of this state so far (bounded)
    ran,        \* how often each basic command acted in the last update
    downs       \* presses less releases each input reported since its reset

vars == <<flags, bound, executed, axis, state, calls, ran, downs>>

-----------------------------------------------------------------------------
(* The basic commands that executing c reaches: a composite passes execute() *)
(* and reset() on to its parts.                                              *)
PartsOf(c) == IF c \in Composites THEN Parts[c]
              ELSE IF c = NullCommand THEN {} ELSE {c}

(* The events that updateCommands sees for one key. *)
Fired(f, e) ==
    CASE e = "Pressed"      -> f.pressed
      [] e = "Released"     -> f.released
      [] e = "JustPressed"  -> f.justPressed
      [] e = "JustReleased" -> f.justReleased

(* The bindings a call of updateCommands executes with these flags that      *)
(* reach command c.                                                          *)
Executions(fs, c) ==
    {b \in Events \X Keys : Fired(fs[b[2]], b[1]) /\ c \in PartsOf(bound[b[1]][b[2]])}

(* A mutant: the commands of a key are reset before the next key is looked   *)
(* at, in one loop over the keys.                                            *)
RunsPerKey(fs, c) ==
    IF c \in OnceCommands
    THEN Cardinality({b[2] : b \in Executions(fs, c)})
    ELSE Cardinality(Executions(fs, c))

(* How often c acts: ControlCommandOnce::execute acts only the first time    *)
(* until its reset().                                                        *)
Runs(fs, c) ==
    LET n == Cardinality(Executions(fs, c)) IN
    IF c \in OnceCommands
    THEN IF executed[c] \/ n = 0 THEN 0 ELSE 1
    ELSE n

(* The once commands that remember having acted when updateCommands is over: *)
(* every command bound to some key is reset.                                 *)
StillExecuted(fs) ==
    [c \in OnceCommands |->
        /\ executed[c] \/ Runs(fs, c) > 0
        /\ \A e \in Events, k \in Keys : c \notin PartsOf(bound[e][k])]

(* InputManager::update with what the devices report: positions and buttons  *)
(* of the mouse, keys, then the commands, then the gamepads.                 *)
Update(held, ax) ==
    LET fs == [i \in Inputs |-> UpdateValues(flags[i], held[i])] IN
    /\ flags' = fs
    /\ ran' = [c \in Basic |-> Runs(fs, c)]
    /\ executed' = StillExecuted(fs)
    /\ axis' = ax
    /\ downs' = [i \in Inputs |-> downs[i] + (IF fs[i].justPressed THEN 1 ELSE 0)
                                           - (IF fs[i].justReleased THEN 1 ELSE 0)]
    /\ UNCHANGED <<bound, state, calls>>

(* What reset() leaves of an input: KeyboardInput and MouseInput forget the  *)
(* flags, GamepadInput::reset is empty.                                      *)
AfterReset(i) == IF i \in PadButtons THEN flags[i] ELSE NoFlags

(* A mutant: one of the tables is forgotten. *)
KeepJustReleased ==
    [e \in Events |-> IF e = "JustReleased" THEN bound[e] ELSE [k \in Keys |-> NullCommand]]

(* KeyboardInput::reset puts a ControlCommandNull in every place. *)
ResetCommands == [e \in Events |-> [k \in Keys |-> NullCommand]]

(* StateManager::doSwitchState for a state that was not created yet: through *)
(* GameBase::reset, InputManager::reset resets mouse, keyboard and gamepads; *)
(* the keyboard also drops all commands.                                     *)
EnterNew(s) ==
    /\ flags' = [i \in Inputs |-> AfterReset(i)]
    /\ bound' = ResetCommands
    /\ downs' = [i \in Inputs |-> IF i \in PadButtons THEN downs[i] ELSE 0]
    /\ ran' = [c \in Basic |-> 0]
    /\ state' = s
    /\ calls' = 0
    /\ UNCHANGED <<executed, axis>>

(* doSwitchState for a stored state, created before: nothing is reset.       *)
EnterStored(s) ==
    /\ StoresStates
    /\ s # state
    /\ state' = s
    /\ ran' = [c \in Basic |-> 0]
    /\ UNCHANGED <<flags, bound, executed, axis, calls, downs>>

(* setCommandPressed and its three siblings: all the keys of the list share  *)
(* one command object.                                                       *)
SetCommand(e, ks, c) ==
    /\ calls < MaxBound
    /\ OwnerOf[c] = state
    /\ bound' = [bound EXCEPT ![e] = [k \in Keys |-> IF k \in ks THEN c ELSE @[k]]]
    /\ calls' = calls + 1
    /\ UNCHANGED <<flags, executed, axis, state, ran, downs>>

Init ==
    /\ flags = [i \in Inputs |-> NoFlags]
    /\ bound = [e \in Events |-> [k \in Keys |-> NullCommand]]
    /\ executed = [c \in OnceCommands |-> FALSE]
    /\ axis = 0
    /\ state \in States
    /\ calls = 0
    /\ ran = [c \in Basic |-> 0]
    /\ downs = [i \in Inputs |-> 0]

Next ==
    \/ \E held \in [Inputs -> BOOLEAN], ax \in AxisValues : Update(held, ax)
    \/ \E s \in States : EnterNew(s) \/ EnterStored(s)
    \/ \E e \in Events, ks \in SUBSET Keys \ {{}}, c \in Commands : SetCommand(e, ks, c)

Spec == Init /\ [][Next]_vars

-----------------------------------------------------------------------------
(* Every variable keeps to its type. *)
TypeOK ==
    /\ flags \in [Inputs -> Flags]
    /\ bound \in [Events -> [Keys -> Commands \cup {NullCommand}]]
    /\ executed \in [OnceCommands -> BOOLEAN]
    /\ axis \in AxisValues \cup {0}
    /\ state \in States /\ calls \in 0 .. MaxBound
    /\ \A c \in Basic : ran[c] \in 0 .. Cardinality(Events \X Keys)
    /\ \A i \in Inputs : downs[i] \in Int

(* The edges of an input are a faithful record of its level: whatever resets *)
(* come in between, presses and releases reported since then alternate and   *)
(* leave the input exactly as pressed() says, so that code which counts      *)
(* edges (clicks, toggles) never runs away from code that asks for levels.   *)
EdgesPaired ==
    \A i \in Inputs : downs[i] = IF flags[i].pressed THEN 1 ELSE 0

(* A ControlCommandOnce acts exactly once in every update in which one of    *)
(* its events happens, however many keys share it, in whatever composites it *)
(* is, and also when it was executed the frame before.                       *)
ActsOnceEachUpdateStep ==
  \A held \in [Inputs -> BOOLEAN], ax \in AxisValues :
    Update(held, ax) =>
      \A c \in OnceCommands :
         LET asked == \E e \in Events, k \in Keys :
                         /\ c \in PartsOf(bound[e][k])
                         /\ Fired(flags'[k], e)
         IN  ran'[c] = IF asked THEN 1 ELSE 0
ActsOnceEachUpdate == [][ActsOnceEachUpdateStep]_vars

(* A command never acts for a game state that did not bind it: the reset at  *)
(* the entry of a new state takes the commands of the one before off all four    *)
(* tables.  (A stored state that is entered again gets no such reset.)       *)
OwnCommandsOnly == \A c \in Basic : ran[c] > 0 => OwnerOf[c] = state

=============================================================================
