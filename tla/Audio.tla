------------------------------- MODULE Audio -------------------------------
(* AudioImpl with its fades and group volumes, and how the game uses it:    *)
(* the music of the menu and of the match fade into each other, the units   *)
(* share pooled sounds, objects own temporary ones, keys mute everything.   *)
(* Volumes are percent; what the sound library was told is in out.          *)
EXTENDS Integers, Sequences, SequencesExt, FiniteSets, FiniteSetsExt

CONSTANTS
  Calls,         \* parts of the game at work: "music", "mute", "pool", "own"
  FadeTime,      \* duration of the music's fades
  Elapsed,       \* time of a frame
  Pools,         \* base identifiers of the units' sound pools
  PoolCount,     \* count given to soundPool
  MaxFades       \* bound of fades under way

AudioAssumption ==
  /\ Calls \subseteq {"music", "mute", "pool", "own"}
  /\ FadeTime \in Nat \ {0} /\ Elapsed \subseteq Nat \ {0}
  /\ Pools \subseteq STRING /\ PoolCount \in Nat /\ MaxFades \in Nat

MenuMusic == <<"bgm", 0>>
GameMusic == <<"bgm", 1>>
Jingle    == <<"temp", 0>>
Music     == {MenuMusic, GameMusic}

\* baseIdentifier, "####" and a number: Random::getInt has both ends.
PoolNames == Pools \X (0..PoolCount)

Sound  == Music \cup {Jingle} \cup PoolNames
Status == {"stopped", "playing", "paused"}

VARIABLES
  state,        \* the state the game is in: "none", "menu" or "game"
  permanent,    \* m_permanentSounds
  temporary,    \* m_temporarySounds: weak pointers
  owned,        \* temporary sounds somebody holds
  group,        \* sounds of the SoundGroup a unit holds
  volume,       \* m_volume of a sound
  status,       \* what the sound library does with it
  out,          \* volume it was told last
  master,       \* group volume "master"
  fades         \* m_fadeInfos: records of sound, from, to, age

held  == <<permanent, temporary, owned, group>>
vars  == <<state, held, volume, status, out, master, fades>>

MaxElapsed == Max(Elapsed)

-----------------------------------------------------------------------------
(* Music *)

\* volumeFade with the volume of the sound now
FadeOf(s, to, vol) == [sound |-> s, from |-> vol[s], to |-> to, age |-> 0]

\* onCreate of StateMenu and StateGame: add and play the one, fade the other
\* one out if it is there.
EnterState(new, mine, other) ==
  /\ "music" \in Calls /\ state # new /\ state' = new
  /\ Len(fades) + 2 <= MaxFades
  /\ permanent' = permanent \cup {mine}
  /\ volume' = IF mine \in permanent THEN volume ELSE [volume EXCEPT ![mine] = 100]
  /\ status' = [status EXCEPT ![mine] = "playing"]
  /\ fades' = fades \o <<FadeOf(mine, 100, volume')>>
                \o (IF other \in permanent THEN <<FadeOf(other, 0, volume')>> ELSE <<>>)
  /\ UNCHANGED <<temporary, owned, group, out, master>>

EnterMenu == EnterState("menu", MenuMusic, GameMusic)
EnterGame == EnterState("game", GameMusic, MenuMusic)

\* checkForMuteUnmute: the keys M and U
Mute ==
  /\ "mute" \in Calls
  /\ master' \in {0, 100}
  /\ UNCHANGED <<state, held, volume, status, out, fades>>

-----------------------------------------------------------------------------
(* Sounds of units and objects *)

\* Mutant: a sound of the pool is always a new one.
AlwaysNew(s) == TRUE

MissingInPool(s) == s \notin permanent

\* Unit::doCreate: soundPool and setVolume for one sound of each pool, a group
\* of them. The group of the newest unit is kept here.
CreateUnit ==
  /\ "pool" \in Calls
  /\ \E number \in [Pools -> 0..PoolCount] :
       LET drawn == {<<p, number[p]>> : p \in Pools} IN
       /\ group' = drawn
       /\ permanent' = permanent \cup drawn
       /\ status' = [s \in Sound |-> IF s \in drawn /\ MissingInPool(s) THEN "stopped" ELSE status[s]]
       /\ volume' = [s \in Sound |-> IF s \in drawn THEN 50 ELSE volume[s]]
  /\ UNCHANGED <<state, temporary, owned, out, master, fades>>

\* SoundGroup::play: one of its sounds
GroupPlay ==
  /\ \E s \in group : status' = [status EXCEPT ![s] = "playing"]
  /\ UNCHANGED <<state, held, volume, out, master, fades>>

\* SoundGroup::stop and pause: all of them
GroupStop ==
  /\ group # {}
  /\ status' = [s \in Sound |-> IF s \in group THEN "stopped" ELSE status[s]]
  /\ UNCHANGED <<state, held, volume, out, master, fades>>

GroupPause ==
  /\ group # {}
  /\ status' = [s \in Sound |-> IF s \in group /\ status[s] = "playing" THEN "paused" ELSE status[s]]
  /\ UNCHANGED <<state, held, volume, out, master, fades>>

\* addTemporarySound and play, by an object that holds it
AddTemporarySound ==
  /\ "own" \in Calls /\ Jingle \notin owned /\ Jingle \notin temporary
  /\ temporary' = temporary \cup {Jingle} /\ owned' = owned \cup {Jingle}
  /\ volume' = [volume EXCEPT ![Jingle] = 100]
  /\ status' = [status EXCEPT ![Jingle] = "playing"]
  /\ UNCHANGED <<state, permanent, group, out, master, fades>>

\* An object fades its sound out, and may be gone before that is over.
FadeOut ==
  /\ Jingle \in owned /\ Len(fades) < MaxFades
  /\ fades' = Append(fades, FadeOf(Jingle, 0, volume))
  /\ UNCHANGED <<state, held, volume, status, out, master>>

\* The owner is destroyed, and the sound with it.
DropOwned ==
  /\ Jingle \in owned
  /\ owned' = owned \ {Jingle}
  /\ status' = [status EXCEPT ![Jingle] = "stopped"]
  /\ UNCHANGED <<state, permanent, temporary, group, volume, out, master, fades>>

\* The library comes to the end of a sound that does not loop.
SoundEnds ==
  /\ \E s \in Sound \ Music :
       status[s] = "playing" /\ status' = [status EXCEPT ![s] = "stopped"]
  /\ UNCHANGED <<state, held, volume, out, master, fades>>

-----------------------------------------------------------------------------
(* AudioImpl::update *)

Valid(f) == f.sound \in permanent \cup owned

\* Mutant: a fade is a frame behind.
Behind(f) ==
  LET age == Min({f.age - 1, FadeTime}) IN
  ((FadeTime - age) * f.from + age * f.to) \div FadeTime

\* SoundFadeInfo::update, with the clamped share of the age
FadeValue(f) ==
  LET age == Min({f.age, FadeTime}) IN
  ((FadeTime - age) * f.from + age * f.to) \div FadeTime

\* Mutant: fades do not age.
Ageless(e) == fades

Aged(e) == [i \in DOMAIN fades |-> [fades[i] EXCEPT !.age = @ + e]]

\* Mutant: the first fade of a sound is the one that counts.
FirstFade(vol, fs) ==
  LET of(s) == {i \in DOMAIN fs : fs[i].sound = s} IN
  [s \in Sound |-> IF of(s) = {} THEN vol[s] ELSE FadeValue(fs[Min(of(s))])]

\* Every fade sets the volume, one after the other.
FadedBy(vol, fs) ==
  LET of(s) == {i \in DOMAIN fs : fs[i].sound = s} IN
  [s \in Sound |-> IF of(s) = {} THEN vol[s] ELSE FadeValue(fs[Max(of(s))])]

\* Mutant: the group "master" is not asked for.
NoMaster(v) == v

\* Sound::update: what the provider says of its group and of "master"
OutOf(v) == (v * master) \div 100

Update ==
  \E e \in Elapsed :
    LET live == SelectSeq(Aged(e), Valid) IN
    /\ temporary' = temporary \cap owned
    /\ volume' = FadedBy(volume, live)
    /\ fades' = SelectSeq(live, LAMBDA f : f.age < FadeTime)
    /\ out' = [s \in Sound |-> IF s \in permanent THEN OutOf(volume'[s])
                               ELSE IF s \in temporary' THEN OutOf(volume[s]) ELSE out[s]]
    /\ UNCHANGED <<state, permanent, owned, group, status, master>>

Init ==
  /\ state = "none"
  /\ permanent = {} /\ temporary = {} /\ owned = {} /\ group = {}
  /\ volume = [s \in Sound |-> 100] /\ out = [s \in Sound |-> 100]
  /\ status = [s \in Sound |-> "stopped"]
  /\ master = 100 /\ fades = <<>>

GameCall ==
  \/ EnterMenu \/ EnterGame \/ Mute
  \/ CreateUnit \/ GroupPlay \/ GroupStop \/ GroupPause
  \/ AddTemporarySound \/ FadeOut \/ DropOwned

Next == GameCall \/ SoundEnds \/ Update

\* The game loop updates the audio in every frame.
Spec == Init /\ [][Next]_vars /\ WF_vars(Update)

-----------------------------------------------------------------------------
(* Properties *)

TypeOK ==
  /\ state \in {"none", "menu", "game"} /\ master \in {0, 100}
  /\ permanent \subseteq Sound /\ temporary \subseteq {Jingle} /\ owned \subseteq temporary
  /\ group \subseteq permanent
  /\ volume \in [Sound -> 0..100] /\ out \in [Sound -> 0..100] /\ status \in [Sound -> Status]
  /\ Len(fades) <= MaxFades
  /\ \A i \in DOMAIN fades : fades[i].age < FadeTime /\ fades[i].sound \in Sound

FadesOf(s) == {i \in DOMAIN fades : fades[i].sound = s}

\* When its fades are over, the music of the state the game is in plays at full
\* volume and the other one is silent, however fast the states changed and
\* whatever fades of earlier changes were still under way.
MusicOfState ==
  \A s \in Music \cap permanent : FadesOf(s) = {} =>
    volume[s] = IF s = (IF state = "menu" THEN MenuMusic ELSE GameMusic) THEN 100 ELSE 0

\* The music never jumps: in a frame its volume moves no further than a fade
\* goes in that time.
VolumeNeverJumpsStep ==
  \A s \in Music \cap permanent :
    LET most == (100 * MaxElapsed) \div FadeTime + 1 IN
    volume'[s] - volume[s] \in -most..most
VolumeNeverJumps == [][VolumeNeverJumpsStep]_vars

\* Fades come to an end: their sounds are left alone then, also those of sounds
\* that are gone.
FadesEnd == <>[][~GameCall]_vars => <>[](fades = <<>>)

\* While everything is muted every sound is silent at the next update.
SilentWhenMutedStep ==
  Update /\ master = 0 => \A s \in permanent \cup temporary' : out'[s] = 0
SilentWhenMuted == [][SilentWhenMutedStep]_vars

\* A unit that is created takes no sound away from another one: what plays
\* plays on.
PoolKeepsPlayingStep ==
  CreateUnit => \A s \in Sound : status[s] = "playing" => status'[s] = "playing"
PoolKeepsPlaying == [][PoolKeepsPlayingStep]_vars

=============================================================================
