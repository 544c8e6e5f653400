------------------------------ MODULE MCClient ------------------------------
(* What a player of the game sees and does between two messages: buying and *)
(* placing, the playback of a round, units and their bars, critters, texts, *)
(* buttons, music and the change of game states. A behaviour is one of a    *)
(* single component, which machine names; the others stay where they are,   *)
(* so that every component is checked on its own.                           *)
EXTENDS Placement

CONSTANT Nil     \* a value that is no other one

VARIABLES
  machine,   \* the component this behaviour is one of
  play_roster, play_ids, play_serverHP, play_results, play_step, play_state,
  play_frames, play_tick, play_overflow, play_round, play_playerHP,
  play_running, play_objects, play_toAdd, play_killed, play_unit, play_group,
  play_sold, play_single,
  hover_phase, hover_army, hover_placed, hover_sent, hover_active,
  hover_selected, hover_offer, hover_tooltips, hover_ranges,
  crit_phase, crit_army, crit_placed, crit_home, crit_spot, crit_run,
  anim_turn, anim_playing, anim_name, anim_index, anim_time, anim_newName,
  anim_untilIdle, anim_hp, anim_slope, anim_sounds, anim_age, anim_told, anim_early,
  bar_hp, bar_hpMax, bar_bar, bar_drawn, bar_grown, bar_barriers,
  bar_barrierBar, bar_barriersDrawn,
  audio_state, audio_permanent, audio_temporary, audio_owned, audio_group,
  audio_volume, audio_status, audio_out, audio_master, audio_fades,
  text_text, text_align, text_position, text_offset, text_texture,
  text_placed, text_settled,
  button_mouse, button_mouseX, button_pos, button_iconPos, button_overlayPos,
  button_anim, button_visible, button_active, button_clicks,
  button_pressedHere

-----------------------------------------------------------------------------
(* The peasant, whose price rises within the first rounds, and the archer,  *)
(* which has to be unlocked.                                                *)
Costs == [peasant |-> 45, archer |-> 100]
Unlocks == [peasant |-> 25, archer |-> 50]
Offers == {[unit1 |-> "peasant", unit2 |-> "peasant", gold |-> 150]}
Improvements ==
  {[type |-> "peasant", cost |-> 100, name |-> n] : n \in {"weapon", "armor"}}

PlaceType == {"peasant", "archer"}
PlaceField == {"f1", "f2"}

ASSUME CostAssumption
ASSUME BoundAssumption

-----------------------------------------------------------------------------
PlayMaxRoster == [p \in {0, 1} |-> 1]

Play == INSTANCE Playback WITH
  MaxRound <- 2, MaxFrames <- 2, MaxRoster <- PlayMaxRoster, InitialHP <- 2,
  Overflow <- 2, roster <- play_roster, ids <- play_ids,
  serverHP <- play_serverHP, results <- play_results, step <- play_step,
  state <- play_state, frames <- play_frames, tick <- play_tick,
  overflow <- play_overflow, round <- play_round, playerHP <- play_playerHP,
  running <- play_running, objects <- play_objects, toAdd <- play_toAdd,
  killed <- play_killed, unit <- play_unit, group <- play_group,
  sold <- play_sold, single <- play_single
ASSUME Play!BoundAssumption

-----------------------------------------------------------------------------
(* Two fields to place units on, the lower on high ground, so that its unit *)
(* reaches into the field above.                                            *)

HoveringType == {"sword", "bow"}
HoveringCloseCombat == {"sword"}
HoveringFields == {1, 2}
HoveringArea == {1, 2}
HoveringHigh == {2}

Hovering == INSTANCE Hover WITH
  Type <- HoveringType, CloseCombat <- HoveringCloseCombat,
  Fields <- HoveringFields, Area <- HoveringArea, High <- HoveringHigh,
  MaxUnits <- 2, phase <- hover_phase, army <- hover_army,
  placed <- hover_placed, sent <- hover_sent, active <- hover_active,
  selected <- hover_selected, offer <- hover_offer,
  tooltips <- hover_tooltips, ranges <- hover_ranges
ASSUME Hovering!HoverAssumption

-----------------------------------------------------------------------------
(* A critter between posts that are within and out of its reach. *)

CritsCritter == {"c1"}
CritsHomes == {3, 9}
CritsPosts == {0, 4, 14}

Crits == INSTANCE Critters WITH
  Critter <- CritsCritter, Homes <- CritsHomes, Posts <- CritsPosts,
  MaxUnits <- 2, Edge <- 16, phase <- crit_phase, army <- crit_army,
  placed <- crit_placed, home <- crit_home, spot <- crit_spot,
  run <- crit_run
ASSUME Crits!CrittersAssumption

-----------------------------------------------------------------------------
(* A file with animations of one to three frames of different lengths, one  *)
(* tag written backwards and one that is overwritten.                       *)
Tag(n, f, t, r) == [name |-> n, from |-> f, to |-> t, repeat |-> r]

AnimatedTags == 
  <<Tag("idle", 1, 1, 0), Tag("walk", 2, 3, 0), Tag("attack", 6, 4, 0),
    Tag("damage", 1, 1, 1), Tag("death", 4, 5, 0), Tag("spell", 3, 4, 1),
    Tag("idle", 1, 2, 0)>>
AnimatedFrameTime == <<3, 1, 2, 1, 4, 3>>
AnimatedPace == {1, 2, 3}

Animated == INSTANCE UnitAnimation WITH
  Tags <- AnimatedTags, FrameTime <- AnimatedFrameTime, Elapsed <- 2,
  Pace <- AnimatedPace, SoundDelay <- 3, MaxHP <- 2, turn <- anim_turn,
  playing <- anim_playing, name <- anim_name, index <- anim_index,
  time <- anim_time, newName <- anim_newName, untilIdle <- anim_untilIdle,
  hp <- anim_hp, slope <- anim_slope, sounds <- anim_sounds, age <- anim_age,
  told <- anim_told, early <- anim_early
ASSUME Animated!UnitAnimationAssumption

-----------------------------------------------------------------------------
BarsBarrierHp == <<2, 4>>

Bars == INSTANCE Bar WITH
  HpMax <- 4, BaseHp <- 2, BarrierHp <- BarsBarrierHp, Nothing <- Nil,
  hp <- bar_hp, hpMax <- bar_hpMax, bar <- bar_bar, drawn <- bar_drawn,
  grown <- bar_grown, barriers <- bar_barriers, barrierBar <- bar_barrierBar,
  barriersDrawn <- bar_barriersDrawn
ASSUME Bars!BarAssumption

-----------------------------------------------------------------------------
(* States that change in any frame, and the sounds of units and objects. *)

MusicCalls == {"music"}
MusicElapsed == {1, 2}
MusicPools == {"cc1"}

Music == INSTANCE Audio WITH
  Calls <- MusicCalls, FadeTime <- 3, Elapsed <- MusicElapsed,
  Pools <- MusicPools, PoolCount <- 1, MaxFades <- 4, state <- audio_state,
  permanent <- audio_permanent, temporary <- audio_temporary,
  owned <- audio_owned, group <- audio_group, volume <- audio_volume,
  status <- audio_status, out <- audio_out, master <- audio_master,
  fades <- audio_fades
ASSUME Music!AudioAssumption

SoundsCalls == {"mute", "pool", "own"}
SoundsElapsed == {1, 2}
SoundsPools == {"cc1"}

Sounds == INSTANCE Audio WITH
  Calls <- SoundsCalls, FadeTime <- 2, Elapsed <- SoundsElapsed,
  Pools <- SoundsPools, PoolCount <- 1, MaxFades <- 1, state <- audio_state,
  permanent <- audio_permanent, temporary <- audio_temporary,
  owned <- audio_owned, group <- audio_group, volume <- audio_volume,
  status <- audio_status, out <- audio_out, master <- audio_master,
  fades <- audio_fades
ASSUME Sounds!AudioAssumption

-----------------------------------------------------------------------------
(* Texts of one and of two lines; the second of the fourth has more         *)
(* characters and fewer pixels than the first.                              *)
Line(c, p) == [chars |-> c, px |-> p]

TextStrings == 
  {<< >>, <<Line(3, 9)>>, <<Line(2, 6), Line(5, 13), Line(0, 0)>>,
   <<Line(2, 8), Line(3, 5)>>, <<Line(4, 10), Line(1, 3)>>}
TextPositions == {0, 21}
TextOffsets == {6}

Text == INSTANCE Texts WITH
  Strings <- TextStrings, Positions <- TextPositions, Offsets <- TextOffsets,
  text <- text_text, align <- text_align, position <- text_position,
  offset <- text_offset, texture <- text_texture, placed <- text_placed,
  settled <- text_settled
ASSUME Text!TextsAssumption

-----------------------------------------------------------------------------
(* Two buttons on a line of pixels; each click switches the other on or off. *)

ClickedButtons == <<"buy", "sell">>
ClickedPixels == 1 .. 4
ClickedStartAt == <<1, 3>>
ClickedCallback == 
  [buy |-> {<<1, "disable">>, <<2, "show">>, <<2, "enable">>},
   sell |-> {<<1, "enable">>, <<2, "hide">>}]

Clicked == INSTANCE Button WITH
  Buttons <- ClickedButtons, Width <- 2, Pixels <- ClickedPixels,
  StartAt <- ClickedStartAt, Callback <- ClickedCallback,
  mouse <- button_mouse, mouseX <- button_mouseX, pos <- button_pos,
  iconPos <- button_iconPos, overlayPos <- button_overlayPos,
  anim <- button_anim, visible <- button_visible, active <- button_active,
  clicks <- button_clicks, pressedHere <- button_pressedHere

-----------------------------------------------------------------------------
Machines == {"place", "play", "hover", "critters", "animation", "bar",
            "music", "sounds", "text", "button"}

playVars == <<play_roster, play_ids, play_serverHP, play_results, play_step,
    play_state, play_frames, play_tick, play_overflow, play_round,
    play_playerHP, play_running, play_objects, play_toAdd, play_killed,
    play_unit, play_group, play_sold, play_single>>
hoverVars == <<hover_phase, hover_army, hover_placed, hover_sent, hover_active,
    hover_selected, hover_offer, hover_tooltips, hover_ranges>>
critVars == <<crit_phase, crit_army, crit_placed, crit_home, crit_spot, crit_run>>
animVars == <<anim_turn, anim_playing, anim_name, anim_index, anim_time, anim_newName,
    anim_untilIdle, anim_hp, anim_slope, anim_sounds, anim_age, anim_told, anim_early>>
barVars == <<bar_hp, bar_hpMax, bar_bar, bar_drawn, bar_grown, bar_barriers,
    bar_barrierBar, bar_barriersDrawn>>
audioVars == <<audio_state, audio_permanent, audio_temporary, audio_owned, audio_group,
    audio_volume, audio_status, audio_out, audio_master, audio_fades>>
textVars == <<text_text, text_align, text_position, text_offset, text_texture,
    text_placed, text_settled>>
buttonVars == <<button_mouse, button_mouseX, button_pos, button_iconPos,
    button_overlayPos, button_anim, button_visible, button_active,
    button_clicks, button_pressedHere>>

allVars == <<machine, vars, playVars, hoverVars, critVars, animVars, barVars,
          audioVars, textVars, buttonVars>>

\* The components that are not run stay in one initial state.
ClientInit ==
  /\ machine \in Machines
  /\ Init
  /\ Play!Init
  /\ Hovering!Init
  /\ machine # "hover" => hover_army = <<>>
  /\ Crits!Init
  /\ machine # "critters" => crit_home = [c \in {"c1"} |-> 3]
  /\ Animated!Init
  /\ Bars!Init
  /\ IF machine = "sounds" THEN Sounds!Init ELSE Music!Init
  /\ Text!Init
  /\ machine # "text" => text_text = << >>
  /\ Clicked!Init

\* A step of the component that is run.
Only(m) ==
  /\ machine = m /\ UNCHANGED machine
  /\ m # "place" => UNCHANGED vars
  /\ m # "play" => UNCHANGED playVars
  /\ m # "hover" => UNCHANGED hoverVars
  /\ m # "critters" => UNCHANGED critVars
  /\ m # "animation" => UNCHANGED animVars
  /\ m # "bar" => UNCHANGED barVars
  /\ m \notin {"music", "sounds"} => UNCHANGED audioVars
  /\ m # "text" => UNCHANGED textVars
  /\ m # "button" => UNCHANGED buttonVars

ClientNext ==
  \/ Only("place") /\ Next
  \/ Only("play") /\ Play!Next
  \/ Only("hover") /\ Hovering!Next
  \/ Only("critters") /\ Crits!Next
  \/ Only("animation") /\ Animated!Next
  \/ Only("bar") /\ Bars!Next
  \/ Only("music") /\ Music!Next
  \/ Only("sounds") /\ Sounds!Next
  \/ Only("text") /\ Text!Next
  \/ Only("button") /\ Clicked!Next

\* The component that is run goes on: the loop of the game calls it.
Turn ==
  \/ Only("play") /\ Play!Loop
  \/ Only("animation") /\ Animated!Next
  \/ Only("music") /\ Music!Update
  \/ Only("sounds") /\ Sounds!Update

ClientSpec == ClientInit /\ [][ClientNext]_allVars
  /\ WF_allVars(Turn)

-----------------------------------------------------------------------------
(* Properties of the components, for their behaviours *)

\* The variables of every component have their types.
TypesOK ==
  /\ machine = "place" => TypeOK
  /\ machine = "play" => Play!TypeOK
  /\ machine = "hover" => Hovering!TypeOK
  /\ machine = "animation" => Animated!TypeOK
  /\ machine = "bar" => Bars!TypeOK
  /\ machine = "music" => Music!TypeOK
  /\ machine = "sounds" => Sounds!TypeOK
  /\ machine = "button" => Clicked!TypeOK

\* Whenever the internal state runs, every reference of m_units can be locked:
\* the transition to the placement dereferences all of them.
RefsAlive == machine = "play" => Play!RefsAlive

\* No unit is sold twice: the one that was sold is gone before another click.
SoldOnce == machine = "play" => Play!SoldOnce

\* When the placement begins and until something is sold, the player sees the
\* units the server has: each one once, with full health and its level.
ArmyShown == machine = "play" => Play!ArmyShown

\* A player who is beaten, or who has won, is told so: the game does not go on
\* behind it, unless a simulation had no more than one frame.
ResultTold == machine = "play" => Play!ResultTold

\* Every playback comes to its end, of the round or of the game.
PlaybackEnds == []<>(machine = "play" => Play!PlaybackOver)

\* After a frame the highlight marks a field only if a click there would
\* place a unit: not the field a unit was placed on in the same frame.
OfferIsGood == [][machine = "hover" => Hovering!OfferIsGoodStep]_allVars

\* All units of the player of one type glow or none does, those of this
\* round and of former ones alike, and the opponent's never do.
GlowsTogether == machine = "hover" => Hovering!GlowsTogether

\* After a frame, a unit of the type that glows is not left dark.
NoneLeftDark == [][machine = "hover" => Hovering!NoneLeftDarkStep]_allVars

\* A circle is only drawn around a unit that shoots; and while such a unit
\* is about to be placed, around no other.
CirclesOfShooters == [][machine = "hover" => Hovering!CirclesOfShootersStep]_allVars

\* After a frame no critter sits within reach of a unit of either player,
\* placed just now, walked up or put back to its start.
NoneSitsNear == [][machine = "critters" => Crits!NoneSitsNearStep]_allVars

\* A critter that starts runs away from a unit to which no other is nearer.
FromTheNearest == [][machine = "critters" => Crits!FromTheNearestStep]_allVars

\* Once it runs it never turns, whatever comes its way, until the round ends.
NeverTurns == [][machine = "critters" => Crits!NeverTurnsStep]_allVars

\* The frame that is drawn is the one that the time since the start of the
\* animation asks for: time is neither lost nor counted twice when an update is
\* longer than a frame or ends within one, at whatever pace the unit walks.
FrameIsDue == machine = "animation" => Animated!FrameIsDue

\* A unit that has lost its last hit point falls with the next update.
DeadFall == [][machine = "animation" => Animated!DeadFallStep]_allVars

\* An attack or a reaction to damage that nothing better interrupts is shown to its
\* end when drawing chose the animation, with the frame that told of it. The update
\* that chooses one counts it down at once (unit.cpp:73) and shows it for one update less.
ShownToTheEnd == [][machine = "animation" => Animated!ShownToTheEndStep]_allVars

\* A living unit that is told nothing new is idle in the end.
IdleAgain == Animated!IdleAgain

\* The bar over a unit tells the truth from the second frame on with the
\* same maximum, although its value is set before its maximum and so is cut
\* off at the maximum of the frame before.
UnitBarTrue == machine = "bar" => Bars!UnitBarTrue

\* In the one frame in which an upgrade shows for the first time, the bar
\* makes the unit look worse than it is, never better, and it is never more
\* than full.
UnitBarModest == machine = "bar" => Bars!UnitBarModest

\* When its fades are over, the music of the state the game is in plays at full
\* volume and the other one is silent, however fast the states changed and
\* whatever fades of earlier changes were still under way.
MusicOfState == machine = "music" => Music!MusicOfState

\* The music never jumps: in a frame its volume moves no further than a fade
\* goes in that time.
VolumeNeverJumps == [][machine = "music" => Music!VolumeNeverJumpsStep]_allVars

\* Fades come to an end: their sounds are left alone then, also those of sounds
\* that are gone.
FadesEnd == Music!FadesEnd

\* While everything is muted every sound is silent at the next update.
SilentWhenMuted == [][machine = "sounds" => Sounds!SilentWhenMutedStep]_allVars

\* A unit that is created takes no sound away from another one: what plays
\* plays on.
PoolKeepsPlaying == [][machine = "sounds" => Sounds!PoolKeepsPlayingStep]_allVars

\* SDL: however text, alignment and position were set, and in any order, the
\* lines of a centred text are around its position, those of another start
\* there or have the widest one end there.
LinesInPlace == machine = "text" => Text!LinesInPlace

\* A text left alone since its update starts at the same place in both
\* builds.
BuildsAgree == machine = "text" => Text!BuildsAgree

\* One release of the mouse clicks at most one button, also where two of
\* them touch and when the callback of one shows or enables its neighbour in
\* the same frame.
OneButtonClicked == machine = "button" => Clicked!OneButtonClicked

\* No button of a state is clicked by letting go of a mouse button that was
\* never down while this state ran: the click that left the last state does
\* not also press what the new one has under the mouse.
ClickedHere == machine = "button" => Clicked!ClickedHere

-----------------------------------------------------------------------------
(* What the runs check of them together *)

\* A playback shows the army that is commanded and ends the match for the player who
\* was beaten; no unit is shown that is gone, and none is sold twice.
PlaybackIsTrue ==
  /\ RefsAlive
  /\ SoldOnce
  /\ ArmyShown
  /\ ResultTold

\* Playbacks end, attacks return to idling and fades end.
NothingHangs ==
  /\ PlaybackEnds
  /\ IdleAgain
  /\ FadesEnd

\* What is drawn for a unit, a text or a button is what it stands for at this time: all
\* of a type glow together, the frame is the one due, bars show the present hit points,
\* lines of a text are in place in both builds, one button gets a click; the music is
\* that of the state; and the variables of every component have their types.
ScreenIsTrue ==
  /\ TypesOK
  /\ GlowsTogether
  /\ FrameIsDue
  /\ UnitBarTrue
  /\ UnitBarModest
  /\ LinesInPlace
  /\ BuildsAgree
  /\ OneButtonClicked
  /\ ClickedHere
  /\ MusicOfState

\* No update shows or sounds what it should not: the field offered is free, frightened
\* critters leave the nearest unit and do not turn, dead units fall, animations are
\* shown to the end, the volume never jumps.
MovesAreTrue ==
  /\ OfferIsGood
  /\ NoneLeftDark
  /\ CirclesOfShooters
  /\ NoneSitsNear
  /\ FromTheNearest
  /\ NeverTurns
  /\ DeadFall
  /\ ShownToTheEnd
  /\ VolumeNeverJumps
  /\ SilentWhenMuted
  /\ PoolKeepsPlaying

=============================================================================
