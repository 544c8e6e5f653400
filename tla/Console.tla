------------------------------ MODULE Console ------------------------------
(* The in-game console of the engine (jt::Console), the commands it executes *)
(* (jt::ActionCommandManager and the basic commands of the game), and the    *)
(* log both write to (jt::Logger, jt::LogHistory).  A frame of the game      *)
(* tidies the commands once, updates the game state one or more times, the   *)
(* console being the last object of the state, and draws it; the console     *)
(* takes its input while it is drawn.                                        *)
EXTENDS Integers, FiniteSets, Sequences, SequencesExt

CONSTANTS
    Names,          \* the names of commands
    Arity,          \* [Names -> SUBSET Nat]: how many arguments each accepts
    Owners,         \* objects that register temporary commands
    Offered,        \* [Owners -> SUBSET Names]: the commands each registers
    Lines,          \* what the user types: [name, args], args being a sequence
                    \* of "number" and "word"
    Blank,          \* a line of nothing but spaces
    NoLine,         \* m_lastCommand is empty
    HistoryMaxSize, HistoryResizeTo,    \* of LogHistory
    LogLevel,       \* m_logLevel: 0 fatal, 1 error, 2 warning, 3 info, 4 debug
    MaxLines,       \* bound: lines typed into one console
    MaxEntries,     \* bound: entries logged
    MaxUpdates      \* m_maxNumberOfUpdateIterations

Game == "game"      \* owns the basic commands and outlives everything
Tokens == (Owners \cup {Game}) \X Names

VARIABLES
    pc,             \* "begin", "update", "updated" or "crashed"
    updates,        \* update operations of this frame so far
    registered,     \* m_registeredCommands: name -> the token of its owner
    alive,          \* the shared states somebody still holds
    died,           \* those released since the commands were last tidied
    shown, historyPos, history, lastCommand, buffer,    \* the console
    ran,            \* the lines this console has executed
    log,            \* LogHistory: the numbers of the entries it keeps
    entries,        \* entries logged so far since the last clear
    stale           \* the token of the command that acted, if it was not alive

manager == <<registered, alive, died>>
console == <<shown, historyPos, history, lastCommand, buffer, ran>>
logger  == <<log, entries>>
vars == <<pc, updates, manager, console, logger, stale>>

-----------------------------------------------------------------------------
(* A mutant: the newest entries are erased. *)
AddEntryNewestLost(h, e) ==
    LET g == Append(h, e) IN
    IF Len(g) > HistoryMaxSize THEN SubSeq(g, 1, HistoryMaxSize - HistoryResizeTo) ELSE g

(* LogHistory::addEntry. *)
AddEntry(h, e) ==
    LET g == Append(h, e) IN
    IF Len(g) > HistoryMaxSize THEN SubSeq(g, HistoryResizeTo + 2, Len(g)) ELSE g

(* Logger::error, info, ...: n entries of a level; action is logged always.  *)
Log(level, n) ==
    LET m == IF level <= LogLevel THEN n ELSE 0 IN
    /\ entries + m <= MaxEntries
    /\ entries' = entries + m
    /\ log' = FoldLeft(AddEntry, log, [i \in 1 .. m |-> entries + i])

Action == -1

(* ActionCommandManager::getAllCommands: a vector resized to as many empty   *)
(* names as there are commands, and the commands after them.                 *)
GetAllCommands == Cardinality(DOMAIN registered) + Cardinality(DOMAIN registered)

(* ActionCommandManager::removeUnusedCommands. *)
Kept == {n \in DOMAIN registered : registered[n] \in alive}
(* A mutant: nothing is removed. *)
RemoveNothing == registered

(* What is left of the commands then. *)
RemoveUnused == [n \in Kept |-> registered[n]]

(* GameBase::runOneFrame begins: the commands are tidied. *)
BeginFrame ==
    /\ pc = "begin"
    /\ registered' = RemoveUnused
    /\ Log(3, Cardinality(DOMAIN registered \ Kept))
    /\ died' = {}
    /\ pc' = "update" /\ updates' = 1
    /\ stale' = {}
    /\ UNCHANGED <<alive, console>>

(* registerTemporaryCommand: a name that is taken gets a new owner.          *)
Register(o, n) ==
    /\ pc = "update"
    /\ <<o, n>> \notin alive
    /\ registered' = [m \in DOMAIN registered \cup {n} |->
                         IF m = n THEN <<o, n>> ELSE registered[m]]
    /\ alive' = alive \cup {<<o, n>>}
    /\ Log(3, 1)
    /\ UNCHANGED <<pc, updates, died, console, stale>>

(* An object of the state is destroyed, and with it the shared states in its *)
(* m_storedActionCommands.                                                   *)
Release(o) ==
    /\ pc = "update"
    /\ \E t \in alive : t[1] = o
    /\ alive' = {t \in alive : t[1] # o}
    /\ died' = died \cup {t \in alive : t[1] = o}
    /\ UNCHANGED <<pc, updates, registered, console, logger, stale>>

(* A new game state with a console of its own, at the start of an update. *)
SwitchState ==
    /\ pc = "update"
    /\ shown' = FALSE /\ historyPos' = -1 /\ history' = <<>>
    /\ lastCommand' = NoLine /\ buffer' = NoLine /\ ran' = <<>>
    /\ UNCHANGED <<pc, updates, manager, logger, stale>>

(* The callbacks of the basic commands: the number of arguments is checked,  *)
(* that they are numbers is left to std::stof, which throws.                 *)
Acts(line)  == Len(line.args) \in Arity[line.name]
Throws(line) == Acts(line) /\ \E i \in DOMAIN line.args : line.args[i] = "word"

(* ActionCommandManager::executeCommand. *)
ExecuteCommand(line) ==
    /\ stale' = IF line.name \in DOMAIN registered /\ registered[line.name] \notin alive
                THEN {registered[line.name]} ELSE {}
    /\ IF line.name \notin DOMAIN registered
       THEN Log(1, 1)
       ELSE CASE ~Acts(line)           -> Log(1, 1)
              [] line.name = "clear"   -> log' = <<>> /\ entries' = 0
              [] line.name = "help"    -> Log(Action, 1 + GetAllCommands)
              [] OTHER                 -> UNCHANGED logger

(* A mutant: the line is not forgotten. *)
HandleCommandAgain ==
    IF lastCommand = NoLine
    THEN UNCHANGED <<lastCommand, ran, logger, stale>> /\ pc' = "updated"
    ELSE /\ ExecuteCommand(lastCommand)
         /\ ran' = Append(ran, lastCommand)
         /\ pc' = "updated" /\ UNCHANGED lastCommand

(* Console::handleCommand: nothing to do, or the line and then forget it. *)
HandleCommand ==
    IF lastCommand = NoLine
    THEN UNCHANGED <<lastCommand, ran, logger, stale>> /\ pc' = "updated"
    ELSE /\ ExecuteCommand(lastCommand)
         /\ ran' = Append(ran, lastCommand)
         /\ IF lastCommand.name \in DOMAIN registered /\ Throws(lastCommand)
            THEN pc' = "crashed" /\ UNCHANGED lastCommand
            ELSE pc' = "updated" /\ lastCommand' = NoLine

(* Console::doUpdate: the command, then the key that shows and hides it. *)
Update(home) ==
    /\ pc = "update"
    /\ HandleCommand
    /\ shown' = (shown # home)
    /\ UNCHANGED <<updates, manager, historyPos, history, buffer>>

(* The game is late: another update before anything is drawn. *)
AnotherUpdate ==
    /\ pc = "updated" /\ updates < MaxUpdates
    /\ pc' = "update" /\ updates' = updates + 1
    /\ UNCHANGED <<manager, console, logger, stale>>

(* Console::inputUserCallback: the arrow keys walk through the history. *)
Up == IF historyPos = -1 THEN Len(history) - 1
      ELSE IF historyPos > 0 THEN historyPos - 1 ELSE historyPos
(* The other way, past the newest line to the empty one. *)
Down == IF historyPos # -1 /\ historyPos + 1 < Len(history) THEN historyPos + 1 ELSE -1

Recall(p) ==
    /\ pc = "updated" /\ shown
    /\ historyPos' = p
    /\ buffer' = IF p = historyPos THEN buffer
                 ELSE IF p >= 0 THEN history[p + 1] ELSE NoLine
    /\ pc' = "begin"
    /\ UNCHANGED <<updates, manager, shown, history, lastCommand, ran, logger, stale>>

(* The user edits the input line. *)
Type(line) ==
    /\ pc = "updated" /\ shown
    /\ buffer' = line
    /\ pc' = "begin"
    /\ UNCHANGED <<updates, manager, shown, historyPos, history, lastCommand, ran,
                   logger, stale>>

(* Console::storeInputInCommand when the user presses Return: the trimmed    *)
(* line is kept for the next update, and the input is cleared.               *)
Enter ==
    /\ pc = "updated" /\ shown
    /\ IF buffer \in {Blank, NoLine}
       THEN UNCHANGED <<historyPos, history, lastCommand, logger>>
       ELSE /\ Len(history) < MaxLines
            /\ lastCommand' = buffer /\ historyPos' = -1
            /\ history' = Append(history, buffer)
            /\ Log(Action, 1)
    /\ buffer' = NoLine
    /\ pc' = "begin"
    /\ UNCHANGED <<updates, manager, shown, ran, stale>>

(* Nothing is typed; a hidden console draws nothing. *)
DrawOnly ==
    /\ pc = "updated" /\ pc' = "begin"
    /\ UNCHANGED <<updates, manager, console, logger, stale>>

Init ==
    /\ pc = "begin" /\ updates = 0
    /\ registered = [n \in {"help", "clear", "zoom"} |-> <<Game, n>>]
    /\ alive = {<<Game, n>> : n \in {"help", "clear", "zoom"}} /\ died = {}
    /\ shown = FALSE /\ historyPos = -1 /\ history = <<>>
    /\ lastCommand = NoLine /\ buffer = NoLine /\ ran = <<>>
    /\ log = <<>> /\ entries = 0
    /\ stale = {}

Next ==
    \/ BeginFrame
    \/ \E o \in Owners : \E n \in Offered[o] : Register(o, n)
    \/ \E o \in Owners : Release(o)
    \/ SwitchState
    \/ \E home \in BOOLEAN : Update(home)
    \/ AnotherUpdate
    \/ Recall(Up) \/ Recall(Down)
    \/ \E line \in Lines \cup {Blank} : Type(line)
    \/ Enter
    \/ DrawOnly

Spec == Init /\ [][Next]_vars

-----------------------------------------------------------------------------
(* Every variable keeps to its type; in particular the history of the        *)
(* console is only ever read inside its bounds.                              *)
TypeOK ==
    /\ pc \in {"begin", "update", "updated", "crashed"} /\ updates \in 0 .. MaxUpdates
    /\ DOMAIN registered \subseteq Names /\ alive \subseteq Tokens /\ died \subseteq Tokens
    /\ \A n \in DOMAIN registered : registered[n] \in Tokens
    /\ shown \in BOOLEAN /\ historyPos \in -1 .. Len(history) - 1
    /\ history \in Seq(Lines) /\ ran \in Seq(Lines)
    /\ lastCommand \in Lines \cup {NoLine} /\ buffer \in Lines \cup {Blank, NoLine}
    /\ log \in Seq(Nat) /\ entries \in 0 .. MaxEntries
    /\ stale \subseteq Tokens

(* Every line confirmed in a console is executed once and in its order,      *)
(* except the one that waits for the next update.                            *)
EachLineOnce ==
    history = IF lastCommand = NoLine \/ pc = "crashed" THEN ran
              ELSE Append(ran, lastCommand)

(* The log the console shows is what was logged last, without a gap, never   *)
(* longer than its limit, and after anything was logged never empty.         *)
LogIsSuffix ==
    /\ Len(log) <= HistoryMaxSize
    /\ \A i \in DOMAIN log : log[i] = entries - Len(log) + i
    /\ entries > 0 => log # <<>>

(* A command whose owner is gone acts at most in the frame in which it died: *)
(* the tidying at the start of every frame is what keeps callbacks of dead   *)
(* objects from being called.                                                *)
StaleOneFrame == stale \subseteq died

=============================================================================
