----------------------------- MODULE Animations -----------------------------
(* jt::Animation as any part of the program may use it: a pool of named      *)
(* animations, filled one by one or from a file, of which one is played.     *)
(* Loading replaces or extends the pool under the animation that is playing; *)
(* how a unit uses it is module UnitAnimation's.  Of a sprite only its look  *)
(* is kept, of a file its tags; an update takes one tick.                    *)
EXTENDS Naturals, Sequences, SequencesExt, FiniteSetsExt

CONSTANTS
    Name,           \* names of animations
    Adds,           \* arguments of add: name, count of frame indices, times
    Jsons,          \* json files: readable, and tags name, times, complete
    Aseprites,      \* aseprite files: tags name, times, repeat
    Colors, Scales  \* values of the setters; each has the one of a new sprite

NewSprite == [color |-> "white", scale |-> 1, shadow |-> FALSE]

AnimationsAssumption ==
    /\ "" \notin Name /\ "white" \in Colors /\ 1 \in Scales
    /\ \A f \in Jsons \cup Aseprites : \A i \in DOMAIN f.tags : f.tags[i].name \in Name
    /\ \A a \in Adds : \A i \in DOMAIN a.times : a.times[i] \in Nat \ {0}

VARIABLES
    frames,     \* m_frames: the sprites by name, none for an absent name
    time,       \* m_time
    looping,    \* m_isLooping
    valid,      \* m_isValid
    name,       \* m_currentAnimName
    index,      \* m_currentIdx, counted from 1
    frameTime,  \* m_frameTime
    outcome,    \* of the last call
    replaced,   \* history: the pool changed since the last good play
    grown       \* history: sprites were made since the last setter

pool == <<frames, time, looping>>
playing == <<valid, name, index, frameTime>>
vars == <<pool, playing, outcome, replaced, grown>>

Init ==
    /\ frames = [n \in Name |-> <<>>] /\ time = frames
    /\ looping = [n \in Name |-> TRUE]
    /\ valid = FALSE /\ name = "" /\ index = 1 /\ frameTime = 0
    /\ outcome = "ok" /\ replaced = FALSE /\ grown = FALSE

HasAnimation(n) == n \in Name /\ frames[n] # <<>>

Refused == outcome' = "invalid_argument" /\ UNCHANGED <<pool, playing, replaced, grown>>

-----------------------------------------------------------------------------
(* Filling the pool.  A pool is a record, so that a file adds its tags one   *)
(* after the other.                                                          *)
Pool == [frames |-> frames, time |-> time, looping |-> looping]
NoPool == [frames |-> [n \in Name |-> <<>>], time |-> [n \in Name |-> <<>>],
           looping |-> looping]

Added(p, n, ts, loop) ==
    [frames  |-> [p.frames EXCEPT ![n] = [i \in DOMAIN ts |-> NewSprite]],
     time    |-> [p.time EXCEPT ![n] = ts],
     looping |-> [p.looping EXCEPT ![n] = loop]]

Install(p, result) ==
    /\ frames' = p.frames /\ time' = p.time /\ looping' = p.looping
    /\ outcome' = result /\ replaced' = TRUE /\ grown' = TRUE
    /\ UNCHANGED playing

(* The checks of add.                                                        *)
GoodArguments(a) ==
    /\ a.name # "" /\ a.count > 0 /\ a.times # <<>>
    /\ Len(a.times) = a.count

(* add, which an old animation of the name gives way to.                     *)
Add == \E a \in Adds :
    IF GoodArguments(a)
    THEN Install([frames  |-> [frames EXCEPT ![a.name] = [i \in 1 .. a.count |-> NewSprite]],
                  time    |-> [time EXCEPT ![a.name] = a.times],
                  looping |-> [looping EXCEPT ![a.name] = TRUE]], "ok")
    ELSE Refused

(* add with one time for all frames, which checks the time first.            *)
AddUniform == \E a \in Adds, t \in 0 .. 2 :
    IF t > 0 /\ a.name # "" /\ a.count > 0
    THEN Install(Added(Pool, a.name, [i \in 1 .. a.count |-> t], TRUE), "ok")
    ELSE Refused

(* loadFromJson: the pool is emptied before anything is looked at, and the   *)
(* first tag with a missing frame ends the loading.                          *)
LoadFromJson == \E f \in Jsons :
    LET bad == {i \in DOMAIN f.tags : ~f.tags[i].complete}
        upTo == IF bad = {} THEN Len(f.tags) ELSE Min(bad) - 1
    IN IF ~f.readable THEN Install(NoPool, "invalid_argument")
       ELSE Install(FoldLeft(LAMBDA p, t : Added(p, t.name, t.times, TRUE), NoPool,
                             SubSeq(f.tags, 1, upTo)),
                    IF bad = {} THEN "ok" ELSE "invalid_argument")

(* loadFromAseprite: the pool is kept, each tag says whether it repeats.     *)
LoadFromAseprite == \E f \in Aseprites :
    IF f.tags = <<>> THEN Refused
    ELSE Install(FoldLeft(LAMBDA p, t : Added(p, t.name, t.times, t.repeat), Pool, f.tags), "ok")

SetLooping == \E n \in Name, loop \in BOOLEAN :
    IF ~HasAnimation(n) THEN Refused
    ELSE /\ looping' = [looping EXCEPT ![n] = loop] /\ outcome' = "ok"
         /\ UNCHANGED <<frames, time, playing, replaced, grown>>

SetFrameTimes == \E a \in Adds :
    IF ~HasAnimation(a.name) \/ Len(a.times) # Len(frames[a.name]) THEN Refused
    ELSE /\ time' = [time EXCEPT ![a.name] = a.times] /\ outcome' = "ok"
         /\ UNCHANGED <<frames, looping, playing, replaced, grown>>

-----------------------------------------------------------------------------
(* The look of all sprites                                                   *)

(* Mutant: only the animation that is playing is changed.                    *)
DressedPlaying(look) == [n \in Name |->
    IF n = name THEN [i \in DOMAIN frames[n] |-> look] ELSE frames[n]]

Dressed(look) == [n \in Name |-> [i \in DOMAIN frames[n] |-> look]]

(* setColor, setScale and setShadow, which a program calls together once its *)
(* animation is loaded.                                                      *)
SetLook == \E c \in Colors, s \in Scales, on \in BOOLEAN :
    /\ frames' = Dressed([color |-> c, scale |-> s, shadow |-> on])
    /\ outcome' = "ok" /\ grown' = FALSE
    /\ UNCHANGED <<time, looping, playing, replaced>>

-----------------------------------------------------------------------------
(* Playing                                                                   *)

(* play; a name that is not there leaves the old one where it was.  It takes *)
(* any start index unchecked (animation.cpp:205); that a frame is there is   *)
(* assumed of the callers: units start with the first one, critters with one *)
(* of the frames they count (critter.cpp:19).                                *)
Play == \E n \in Name, start \in 1 .. 2, restart \in BOOLEAN :
    /\ valid' = HasAnimation(n) /\ outcome' = "ok"
    /\ IF HasAnimation(n) /\ (name # n \/ restart)
       THEN /\ start \in DOMAIN frames[n]
            /\ name' = n /\ index' = start /\ frameTime' = 0 /\ replaced' = FALSE
       ELSE UNCHANGED <<name, index, frameTime, replaced>>
    /\ UNCHANGED <<pool, grown>>

(* Mutant: the index runs on at the end of an animation that does not loop.  *)
NextIndexRunsOn(i) == IF looping[name] /\ i >= Len(frames[name]) THEN 1 ELSE i + 1

NextIndex(i) ==
    IF i < Len(frames[name]) THEN i + 1
    ELSE IF looping[name] THEN 1 ELSE Len(frames[name])

(* The frames whose time is over, one after the other: <<index, time>>.      *)
Proceed(i, t) ==
    LET step[s \in Nat \X Nat] ==
            IF s[1] \in DOMAIN time[name] /\ s[2] >= time[name][s[1]]
            THEN step[<<NextIndex(s[1]), s[2] - time[name][s[1]]>>] ELSE s
    IN step[<<i, t>>]

(* The frame that doUpdate and doDraw would touch is not there: m_time[..][..] *)
(* reads beyond the vector.                                                  *)
BeyondTheEnd == valid /\ ~(HasAnimation(name) /\ index \in DOMAIN frames[name])

(* doUpdate by one tick.                                                     *)
Update ==
    /\ valid
    /\ IF BeyondTheEnd
       THEN outcome' = "undefined" /\ UNCHANGED <<index, frameTime>>
       ELSE /\ outcome' = "ok"
            /\ LET shown == Proceed(index, frameTime + 1)
               IN index' = shown[1] /\ frameTime' = shown[2]
    /\ UNCHANGED <<pool, valid, name, replaced, grown>>

Next ==
    /\ outcome # "undefined"
    /\ \/ Add \/ AddUniform \/ LoadFromJson \/ LoadFromAseprite
       \/ SetLooping \/ SetFrameTimes \/ SetLook \/ Play \/ Update

Spec == Init /\ [][Next]_vars

-----------------------------------------------------------------------------
(* The variables have their types, and every frame of the pool has its time. *)
TypeOK ==
    /\ DOMAIN frames = Name /\ DOMAIN looping = Name
    /\ \A n \in Name : Len(time[n]) = Len(frames[n])
    /\ name \in Name \cup {""} /\ index \in Nat \ {0} /\ frameTime \in Nat
    /\ outcome \in {"ok", "invalid_argument", "undefined"}

(* doUpdate and doDraw only ever touch a frame that is there, unless the     *)
(* pool was loaded or added to under the animation that plays: adding an     *)
(* animation again with fewer frames, or a load that fails, leaves the index *)
(* behind.                                                                   *)
FrameIsThere == BeyondTheEnd => replaced

(* Once dressed, all frames of all animations look alike, whichever is shown *)
(* next: no frame flickers in another colour or looks the other way.         *)
FramesAlike == grown \/ \A m, n \in Name :
    \A i \in DOMAIN frames[m], j \in DOMAIN frames[n] : frames[m][i] = frames[n][j]

=============================================================================
