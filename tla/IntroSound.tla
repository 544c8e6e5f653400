---------------------------- MODULE IntroSound ----------------------------
(* IntroLoopingSoundWithEffect: an intro that is played once, then a sound  *)
(* that loops. update() passes from the one to the other and forwards the   *)
(* volume to both; each part tells the sound library its volume only when   *)
(* it is updated itself.                                                    *)
EXTENDS Integers

CONSTANTS
  Calls,        \* calls of the game: "play", "stop", "pause", "again"
  Volumes,      \* arguments of setVolume, percent
  GroupVolumes  \* volumes the sound's group may have

IntroSoundAssumption ==
  /\ Calls \subseteq {"play", "stop", "pause", "again"}
  /\ Volumes \subseteq 0..100 /\ GroupVolumes \subseteq 0..100

Part   == {"intro", "loop"}
Status == {"stopped", "playing", "paused"}

VARIABLES
  status,             \* what the library does with each part
  introMusicPlaying,  \* m_isIntroMusicPlaying
  stopped,            \* m_isStopped
  volume,             \* m_volume
  partVolume,         \* m_volume of each part
  told,               \* volume the library was told for each part
  groupVolume,        \* volume of the group the sound was put into
  since               \* history: updates since the last change, up to 2

flags  == <<introMusicPlaying, stopped>>
sound  == <<volume, partVolume, told>>
vars   == <<status, flags, sound, groupVolume, since>>

IsPlaying == \E p \in Part : status[p] = "playing"

-----------------------------------------------------------------------------
\* play(), for a sound that is stopped, or again for one that is not.
Play ==
  /\ "play" \in Calls /\ (stopped \/ "again" \in Calls)
  /\ stopped' = FALSE
  /\ status' = [status EXCEPT !["intro"] = "playing"]
  /\ since' = 0
  /\ UNCHANGED <<introMusicPlaying, sound, groupVolume>>

\* Mutant: the next play() begins with the loop.
IntroNotReset == UNCHANGED introMusicPlaying

IntroReset == introMusicPlaying' = TRUE

\* Mutant: the loop plays on.
StopIntro == status' = [status EXCEPT !["intro"] = "stopped"]

StopParts == status' = [p \in Part |-> "stopped"]

Stop ==
  /\ "stop" \in Calls
  /\ IntroReset /\ stopped' = TRUE
  /\ StopParts
  /\ since' = 0
  /\ UNCHANGED <<sound, groupVolume>>

PausePart(p) ==
  status' = [status EXCEPT ![p] = IF @ = "playing" THEN "paused" ELSE @]

Pause ==
  /\ "pause" \in Calls
  /\ PausePart(IF introMusicPlaying THEN "intro" ELSE "loop")
  /\ stopped' = (stopped \/ introMusicPlaying)
  /\ since' = 0
  /\ UNCHANGED <<introMusicPlaying, sound, groupVolume>>

SetVolume ==
  /\ volume' \in Volumes
  /\ since' = 0
  /\ UNCHANGED <<status, flags, partVolume, told, groupVolume>>

\* setGroupVolume for the group given to setVolumeGroup.
SetGroupVolume ==
  /\ groupVolume' \in GroupVolumes
  /\ since' = 0
  /\ UNCHANGED <<status, flags, sound>>

\* The library comes to the end of the intro.
IntroEnds ==
  /\ status["intro"] = "playing"
  /\ status' = [status EXCEPT !["intro"] = "stopped"]
  /\ since' = 0
  /\ UNCHANGED <<flags, sound, groupVolume>>

\* SoundWithEffect::update: the parts are in no group.
TellVolume(p) == told' = [told EXCEPT ![p] = partVolume[p]]

\* Mutant: only the intro's volume is forwarded.
ForwardToIntro == partVolume' = [partVolume EXCEPT !["intro"] = volume]

ForwardVolume == partVolume' = [p \in Part |-> volume]

Update ==
  /\ IF stopped THEN UNCHANGED <<status, flags, partVolume, told>>
     ELSE /\ IF status["intro"] = "playing"
               THEN TellVolume("intro") /\ UNCHANGED <<status, introMusicPlaying>>
               ELSE /\ TellVolume("loop")
                    /\ introMusicPlaying' = FALSE
                    /\ status' = IF introMusicPlaying
                                   THEN [status EXCEPT !["loop"] = "playing"] ELSE status
          /\ ForwardVolume
          /\ UNCHANGED stopped
  /\ since' = IF since < 2 THEN since + 1 ELSE since
  /\ UNCHANGED <<volume, groupVolume>>

\* m_isIntroMusicPlaying and m_isStopped are true from the start.
Init ==
  /\ status = [p \in Part |-> "stopped"]
  /\ introMusicPlaying = TRUE /\ stopped = TRUE
  /\ volume = 100 /\ partVolume = [p \in Part |-> 100] /\ told = [p \in Part |-> 100]
  /\ groupVolume = 100 /\ since = 0

Next ==
  \/ Play \/ Stop \/ Pause \/ SetVolume \/ SetGroupVolume
  \/ IntroEnds \/ Update

Spec == Init /\ [][Next]_vars

-----------------------------------------------------------------------------
(* Properties *)

TypeOK ==
  /\ status \in [Part -> Status]
  /\ introMusicPlaying \in BOOLEAN /\ stopped \in BOOLEAN
  /\ volume \in 0..100 /\ partVolume \in [Part -> 0..100] /\ told \in [Part -> 0..100]
  /\ groupVolume \in 0..100 /\ since \in 0..2

\* The intro and the loop are never heard together.
NeverBoth == ~(status["intro"] = "playing" /\ status["loop"] = "playing")

\* A sound that was started is heard until it is stopped: the loop takes over
\* at the update after the end of the intro, the first time and after a stop.
NeverSilent == ~stopped /\ since = 2 => IsPlaying

\* Two updates after the last change the part that is heard has the volume of
\* the sound and of its group.
VolumeHeard ==
  since = 2 /\ ~stopped => \A p \in Part :
    status[p] = "playing" => told[p] = (volume * groupVolume) \div 100

=============================================================================
