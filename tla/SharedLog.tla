----------------------------- MODULE SharedLog -----------------------------
(* The one jt::Logger of a process, its targets and its history, used by the *)
(* main thread and by the thread of the network at the same time. The level  *)
(* of an entry is its number in LogLevel: action 0, fatal 2, error 3,        *)
(* warning 4, info 5, debug 6, verbose 7.                                    *)
EXTENDS Integers, Sequences, SequencesExt

CONSTANTS
    Threads,
    Calls,          \* [Threads -> Seq of levels]: what each thread logs
    OutLevel, FileLevel,    \* m_logLevel of LogTargetOstream and LogTargetFile
    LoggerLevel,            \* m_logLevel of the logger
    HistoryMaxSize, HistoryResizeTo,
    NoThread        \* nobody has locked m_mutex

SharedLogAssumption ==
    /\ Calls \in [Threads -> Seq({0, 2, 3, 4, 5, 6, 7})]
    /\ NoThread \notin Threads
    /\ HistoryResizeTo \in Nat /\ HistoryMaxSize > HistoryResizeTo

VARIABLES
    at,             \* what each thread does in its call of the logger
    done,           \* how many calls each thread has made
    holder,         \* who has locked m_mutex
    out, file,      \* entries in m_stream and in m_file
    history,        \* LogHistory
    shortened       \* how many entries LogHistory has dropped

vars == <<at, done, holder, out, file, history, shortened>>

(* A LogEntry: its level, and who made it in which call.                     *)
Entry(t) == [level |-> Calls[t][done[t] + 1], thread |-> t, call |-> done[t] + 1]

Init ==
    /\ at = [t \in Threads |-> "outside"]
    /\ done = [t \in Threads |-> 0]
    /\ holder = NoThread
    /\ out = <<>> /\ file = <<>> /\ history = <<>>
    /\ shortened = 0

Logged(level) == level = 0 \/ LoggerLevel >= level

Goto(t, place) == at' = [at EXCEPT ![t] = place]
Return(t) == done' = [done EXCEPT ![t] = @ + 1]

(* Logger::debug and its like: most calls are below the level and end here.  *)
Skip(t) ==
    /\ at[t] = "outside" /\ done[t] < Len(Calls[t])
    /\ ~Logged(Calls[t][done[t] + 1])
    /\ Return(t)
    /\ UNCHANGED <<at, holder, out, file, history, shortened>>

(* The entry is made, and gets its time before the mutex is locked.          *)
MakeEntry(t) ==
    /\ at[t] = "outside" /\ done[t] < Len(Calls[t])
    /\ Logged(Calls[t][done[t] + 1])
    /\ Goto(t, "waiting")
    /\ UNCHANGED <<done, holder, out, file, history, shortened>>

(* Mutant: the guard of the mutex is a temporary that is gone at once.       *)
LockNothing(t) ==
    /\ at[t] = "waiting"
    /\ Goto(t, "to_stream")
    /\ UNCHANGED <<done, holder, out, file, history, shortened>>

Lock(t) ==
    /\ at[t] = "waiting" /\ holder = NoThread
    /\ holder' = t
    /\ Goto(t, "to_stream")
    /\ UNCHANGED <<done, out, file, history, shortened>>

ToStream(t) ==
    /\ at[t] = "to_stream"
    /\ out' = IF Entry(t).level > OutLevel THEN out ELSE Append(out, Entry(t))
    /\ Goto(t, "to_file")
    /\ UNCHANGED <<done, holder, file, history, shortened>>

ToFile(t) ==
    /\ at[t] = "to_file"
    /\ file' = IF Entry(t).level > FileLevel THEN file ELSE Append(file, Entry(t))
    /\ Goto(t, "to_history")
    /\ UNCHANGED <<done, holder, out, history, shortened>>

(* LogHistory keeps the newest when it is full.                              *)
Shorten(entries) ==
    IF Len(entries) > HistoryMaxSize
    THEN SubSeq(entries, HistoryResizeTo + 2, Len(entries)) ELSE entries

(* The last thing done under the mutex; the guard unlocks it.                *)
ToHistory(t) ==
    /\ at[t] = "to_history"
    /\ LET longer == Append(history, Entry(t))
       IN /\ history' = Shorten(longer)
          /\ shortened' = shortened + Len(longer) - Len(history')
    /\ Goto(t, "unlocking")
    /\ UNCHANGED <<done, holder, out, file>>

(* Mutant: a call returns and leaves the mutex locked.                       *)
KeepLock(t) ==
    /\ at[t] = "unlocking"
    /\ Return(t) /\ Goto(t, "outside")
    /\ UNCHANGED <<holder, out, file, history, shortened>>

Unlock(t) ==
    /\ at[t] = "unlocking"
    /\ holder' = NoThread
    /\ Return(t) /\ Goto(t, "outside")
    /\ UNCHANGED <<out, file, history, shortened>>

(* The command clear of the console empties the history without the mutex,   *)
(* and the console reads it without: what becomes of an entry added in that  *)
(* moment is undefined, so the threads' calls are all there is here.         *)
Step(t) ==
    \/ Skip(t) \/ MakeEntry(t) \/ Lock(t) \/ ToStream(t) \/ ToFile(t)
    \/ ToHistory(t) \/ Unlock(t)

Next == \E t \in Threads : Step(t)

(* Threads are scheduled. The mutex owes nobody its turn; but the other one  *)
(* makes only so many calls.                                                 *)
Fairness == \A t \in Threads : WF_vars(Step(t))

Spec == Init /\ [][Next]_vars /\ Fairness

-----------------------------------------------------------------------------
(* Whenever nobody is writing, the stream, the file and the history tell the *)
(* same story: the stream is what the file has up to its level, the history  *)
(* is the end of it. (debug is the logger's level, verbose that of the file.)*)
OneStory ==
    (\A t \in Threads : at[t] \in {"outside", "waiting"}) =>
        /\ out = SelectSeq(file, LAMBDA e : e.level <= OutLevel)
        /\ history = SubSeq(file, shortened + 1, Len(file))

(* Every entry a thread makes is in the file in the end, once, and those of  *)
(* one thread in the order in which they were made.                          *)
Heard(t) == SelectSeq(file, LAMBDA e : e.thread = t)
AllWritten == \A t \in Threads :
    /\ done[t] = Len(Calls[t])
    /\ Len(Heard(t)) = Len(SelectSeq(Calls[t], Logged))
    /\ \A i, j \in DOMAIN Heard(t) : i < j => Heard(t)[i].call < Heard(t)[j].call
NothingLost == <>[]AllWritten

=============================================================================
