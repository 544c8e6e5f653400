------------------------------ MODULE MCEngine ------------------------------
(* The parts of the engine the game is built from: its loop, objects,        *)
(* tweens, buffers, search, drawables, tile maps, sounds, input, console,    *)
(* textures, strings, colours, keys, pictures, animations and the log. A     *)
(* behaviour is one of a single component, which machine names; the others   *)
(* stay where they are, so that every component is checked on its own.       *)
EXTENDS GameLoop

CONSTANTS Nil, Blank     \* values that are no other one

VARIABLES
  machine,   \* the component this behaviour is one of
  obj_objects, obj_toAdd, obj_dead, obj_destroyed, obj_held, obj_group,
  obj_at, obj_pass, obj_age, obj_joined, obj_doomed,
  tween_tweens, tween_toAdd, tween_tween, tween_owned, tween_shown, tween_at,
  tween_calls, tween_cancelled, tween_left, tween_cleared,
  ring_data, ring_head, ring_tail, ring_size, ring_answer, ring_plot,
  ring_currentIndex, ring_particles, ring_puts, ring_taken, ring_fired,
  ring_steps,
  grid_alive, grid_pos, grid_allObjects, grid_cells, grid_updated,
  grid_events,
  path_blocked, path_visited, path_value, path_phase, path_start, path_end,
  path_toCheck, path_path,
  draw_phase, draw_position, draw_offset, draw_ignore, draw_factor,
  draw_spriteAt, draw_flash, draw_flicker, draw_shake, draw_camera,
  draw_view, draw_layerView, draw_static, draw_picture, draw_age,
  tile_file, tile_maps, tile_colliders, tile_refines, tile_nodes,
  tile_tileNodes, tile_tiles, tile_layerAt, tile_camera, tile_drawn,
  intro_status, intro_introMusicPlaying, intro_stopped, intro_volume,
  intro_partVolume, intro_told, intro_groupVolume, intro_since,
  input_flags, input_bound, input_executed, input_axis, input_state,
  input_calls, input_ran, input_downs,
  con_pc, con_updates, con_registered, con_alive, con_died, con_shown,
  con_historyPos, con_history, con_lastCommand, con_buffer, con_ran, con_log,
  con_entries, con_stale,
  tex_textures, tex_renderer, tex_sprites, tex_loads, tex_outcome, tex_gets,
  str_str,
  pal_colors, pal_thrown,
  key_held, key_pressed,
  img_kind, img_width, img_height, img_image,
  anims_frames, anims_time, anims_looping, anims_valid, anims_name,
  anims_index, anims_frameTime, anims_outcome, anims_replaced, anims_grown,
  log_at, log_done, log_holder, log_out, log_file, log_history, log_shortened

-----------------------------------------------------------------------------
(* Frames shorter and much longer than an update. *)
LoopFrameTimes == {1, 9}
ASSUME LoopAssumption

-----------------------------------------------------------------------------
Collection == INSTANCE Objects WITH
  MaxObjects <- 3, MaxPasses <- 2, objects <- obj_objects,
  toAdd <- obj_toAdd, dead <- obj_dead, destroyed <- obj_destroyed,
  held <- obj_held, group <- obj_group, at <- obj_at, pass <- obj_pass,
  age <- obj_age, joined <- obj_joined, doomed <- obj_doomed
ASSUME Collection!ObjectsAssumption

-----------------------------------------------------------------------------
TweeningObject == {"o1"}
TweeningTotal == {2}
TweeningDelay == {0}

Tweening == INSTANCE Tweens WITH
  Object <- TweeningObject, Total <- TweeningTotal, Delay <- TweeningDelay,
  MaxTweens <- 2, tweens <- tween_tweens, toAdd <- tween_toAdd,
  tween <- tween_tween, owned <- tween_owned, shown <- tween_shown,
  at <- tween_at, calls <- tween_calls, cancelled <- tween_cancelled,
  left <- tween_left, cleared <- tween_cleared
ASSUME Tweening!TweensAssumption

-----------------------------------------------------------------------------
BufferValue == {"a", "b"}

Buffer == INSTANCE CircularBuffer WITH
  N <- 3, Width <- 6, Value <- BufferValue, Default <- Nil, MaxBurst <- 5,
  MaxSteps <- 5, data <- ring_data, head <- ring_head, tail <- ring_tail,
  size <- ring_size, answer <- ring_answer, plot <- ring_plot,
  currentIndex <- ring_currentIndex, particles <- ring_particles,
  puts <- ring_puts, taken <- ring_taken, fired <- ring_fired,
  steps <- ring_steps
ASSUME Buffer!CircularBufferAssumption

-----------------------------------------------------------------------------
(* Places on both sides of the borders of cells. *)

GridObject == {"o1", "o2"}
GridPosition == {<<-1, 0>>, <<0, 0>>, <<3, 0>>, <<4, 0>>}
GridDistance == {0, 1, 4, 5}

Grid == INSTANCE SpatialObjectGrid WITH
  Object <- GridObject, Position <- GridPosition, Distance <- GridDistance,
  CellSize <- 4, MaxEvents <- 3, alive <- grid_alive, pos <- grid_pos,
  allObjects <- grid_allObjects, cells <- grid_cells,
  updated <- grid_updated, events <- grid_events
ASSUME Grid!SpatialObjectGridAssumption

-----------------------------------------------------------------------------
(* Walls with a gap at one end, a corner, and no way at all. *)
Walls ==
  { {<<1, 0>>, <<1, 1>>, <<1, 2>>},
    {<<1, 1>>, <<2, 1>>, <<3, 1>>, <<0, 3>>},
    {<<1, 1>>, <<1, 2>>, <<2, 1>>, <<2, 2>>},
    {<<2, 0>>, <<2, 1>>, <<1, 2>>, <<0, 2>>} }

WayTile == (0 .. 3) \X (0 .. 3)

Way == INSTANCE Pathfinder WITH
  Tile <- WayTile, Mazes <- Walls, blocked <- path_blocked,
  visited <- path_visited, value <- path_value, phase <- path_phase,
  start <- path_start, end <- path_end, toCheck <- path_toCheck,
  path <- path_path
ASSUME Way!PathfinderAssumption

-----------------------------------------------------------------------------
(* The camera and the view with a drawable that stands still, and the       *)
(* effects of a drawable in front of a camera that does.                    *)

ViewCalls == {"setPosition", "setOffset", "setIgnore", "setFactor", "setCam", "reset"}
ViewPositions == {-3, 12}
ViewCamOffsets == {0, 5}
ViewIgnores == {TRUE}
ViewElapsed == {1}
ViewTimes == {3}
ViewIntervals == {1, 2}
ViewStrengths == {2}

View == INSTANCE Drawable WITH
  Calls <- ViewCalls, Positions <- ViewPositions,
  CamOffsets <- ViewCamOffsets, Width <- 4, ScreenSize <- 12,
  Ignores <- ViewIgnores, Elapsed <- ViewElapsed, Times <- ViewTimes,
  Intervals <- ViewIntervals, Strengths <- ViewStrengths, MaxAge <- 4,
  phase <- draw_phase, position <- draw_position, offset <- draw_offset,
  ignore <- draw_ignore, factor <- draw_factor, spriteAt <- draw_spriteAt,
  flash <- draw_flash, flicker <- draw_flicker, shake <- draw_shake,
  camera <- draw_camera, view <- draw_view, layerView <- draw_layerView,
  static <- draw_static, picture <- draw_picture, age <- draw_age
ASSUME View!DrawableAssumption

EffectsCalls == {"flash", "flicker"}
EffectsPositions == {0}
EffectsCamOffsets == {0}
EffectsIgnores == {TRUE}
EffectsElapsed == {1, 2}
EffectsTimes == {3}
EffectsIntervals == {1, 2}
EffectsStrengths == {2}

Effects == INSTANCE Drawable WITH
  Calls <- EffectsCalls, Positions <- EffectsPositions,
  CamOffsets <- EffectsCamOffsets, Width <- 4, ScreenSize <- 12,
  Ignores <- EffectsIgnores, Elapsed <- EffectsElapsed,
  Times <- EffectsTimes, Intervals <- EffectsIntervals,
  Strengths <- EffectsStrengths, MaxAge <- 6, phase <- draw_phase,
  position <- draw_position, offset <- draw_offset, ignore <- draw_ignore,
  factor <- draw_factor, spriteAt <- draw_spriteAt, flash <- draw_flash,
  flicker <- draw_flicker, shake <- draw_shake, camera <- draw_camera,
  view <- draw_view, layerView <- draw_layerView, static <- draw_static,
  picture <- draw_picture, age <- draw_age
ASSUME Effects!DrawableAssumption

ShakingCalls == {"shake", "camShake", "reset"}
ShakingPositions == {0}
ShakingCamOffsets == {0}
ShakingIgnores == {TRUE}
ShakingElapsed == {1, 2}
ShakingTimes == {3}
ShakingIntervals == {1, 2}
ShakingStrengths == {2}

Shaking == INSTANCE Drawable WITH
  Calls <- ShakingCalls, Positions <- ShakingPositions,
  CamOffsets <- ShakingCamOffsets, Width <- 4, ScreenSize <- 12,
  Ignores <- ShakingIgnores, Elapsed <- ShakingElapsed,
  Times <- ShakingTimes, Intervals <- ShakingIntervals,
  Strengths <- ShakingStrengths, MaxAge <- 5, phase <- draw_phase,
  position <- draw_position, offset <- draw_offset, ignore <- draw_ignore,
  factor <- draw_factor, spriteAt <- draw_spriteAt, flash <- draw_flash,
  flicker <- draw_flicker, shake <- draw_shake, camera <- draw_camera,
  view <- draw_view, layerView <- draw_layerView, static <- draw_static,
  picture <- draw_picture, age <- draw_age
ASSUME Shaking!DrawableAssumption

-----------------------------------------------------------------------------
(* Every layer of six tiles that are plain or blocked, two with tiles of    *)
(* all kinds, and a row that is scrolled.                                   *)
TwoSets == << [columns |-> 2, count |-> 4], [columns |-> 3, count |-> 3] >>
MapCells == (0 .. 2) \X (0 .. 1)
Layers == [MapCells -> {"plain", "blocked"}]
            \cup {[c \in MapCells |-> CASE c[1] = 0 -> "none" [] c[1] = 1 -> "passable" [] OTHER -> "blocked"],
                  [c \in MapCells |-> IF c = <<1, 1>> THEN "none" ELSE "blocked"]}
OneRow == {[c \in (0 .. 3) \X {0} |-> IF c[1] % 3 = 2 THEN "none" ELSE "plain"]}

TilesLayerAt == {0}
TilesCamOffsets == {0}

Tiles == INSTANCE TileMap WITH
  Columns <- 3, Rows <- 2, Maps <- Layers, TileSets <- TwoSets,
  LayerAt <- TilesLayerAt, CamOffsets <- TilesCamOffsets, ScreenSize <- 3,
  MaxRefines <- 1, file <- tile_file, maps <- tile_maps,
  colliders <- tile_colliders, refines <- tile_refines, nodes <- tile_nodes,
  tileNodes <- tile_tileNodes, tiles <- tile_tiles, layerAt <- tile_layerAt,
  camera <- tile_camera, drawn <- tile_drawn
ASSUME Tiles!TileMapAssumption

RowLayerAt == {-1, 0, 4}
RowCamOffsets == {0, 3}

Row == INSTANCE TileMap WITH
  Columns <- 4, Rows <- 1, Maps <- OneRow, TileSets <- TwoSets,
  LayerAt <- RowLayerAt, CamOffsets <- RowCamOffsets, ScreenSize <- 3,
  MaxRefines <- 0, file <- tile_file, maps <- tile_maps,
  colliders <- tile_colliders, refines <- tile_refines, nodes <- tile_nodes,
  tileNodes <- tile_tileNodes, tiles <- tile_tiles, layerAt <- tile_layerAt,
  camera <- tile_camera, drawn <- tile_drawn
ASSUME Row!TileMapAssumption

-----------------------------------------------------------------------------
IntroCalls == {"play", "stop"}
IntroVolumes == {0, 40, 100}
IntroGroupVolumes == {100}

Intro == INSTANCE IntroSound WITH
  Calls <- IntroCalls, Volumes <- IntroVolumes,
  GroupVolumes <- IntroGroupVolumes, status <- intro_status,
  introMusicPlaying <- intro_introMusicPlaying, stopped <- intro_stopped,
  volume <- intro_volume, partVolume <- intro_partVolume, told <- intro_told,
  groupVolume <- intro_groupVolume, since <- intro_since
ASSUME Intro!IntroSoundAssumption

-----------------------------------------------------------------------------
(* Two keys, which may share a command that acts once, a plain one or a     *)
(* composite of both, or have commands that overlap; and one button of each *)
(* device.                                                                  *)

CommandKeys == {"enter", "space"}
CommandMouseButtons == {}
CommandPadButtons == {}
CommandStates == {"menu", "game"}
CommandBasic == {"once", "plain", "other"}
CommandOnceCommands == {"once", "other"}
CommandComposites == {"both"}
CommandParts == [c \in {"both"} |-> {"once", "plain"}]
CommandOwnerOf == [c \in {"once", "plain", "other", "both"} |-> IF c = "other" THEN "menu" ELSE "game"]
CommandAxisValues == {0}

Command == INSTANCE Input WITH
  Keys <- CommandKeys, MouseButtons <- CommandMouseButtons,
  PadButtons <- CommandPadButtons, States <- CommandStates,
  Basic <- CommandBasic, OnceCommands <- CommandOnceCommands,
  Composites <- CommandComposites, Parts <- CommandParts,
  OwnerOf <- CommandOwnerOf, NullCommand <- Nil,
  AxisValues <- CommandAxisValues, StoresStates <- FALSE, MaxBound <- 2,
  flags <- input_flags, bound <- input_bound, executed <- input_executed,
  axis <- input_axis, state <- input_state, calls <- input_calls,
  ran <- input_ran, downs <- input_downs

DeviceKeys == {"shift"}
DeviceMouseButtons == {"left"}
DevicePadButtons == {"a"}
DeviceStates == {"menu", "game"}
DeviceBasic == {}
DeviceOnceCommands == {}
DeviceComposites == {}
DeviceParts == << >>
DeviceOwnerOf == << >>
DeviceAxisValues == {0}

Device == INSTANCE Input WITH
  Keys <- DeviceKeys, MouseButtons <- DeviceMouseButtons,
  PadButtons <- DevicePadButtons, States <- DeviceStates,
  Basic <- DeviceBasic, OnceCommands <- DeviceOnceCommands,
  Composites <- DeviceComposites, Parts <- DeviceParts,
  OwnerOf <- DeviceOwnerOf, NullCommand <- Nil,
  AxisValues <- DeviceAxisValues, StoresStates <- TRUE, MaxBound <- 0,
  flags <- input_flags, bound <- input_bound, executed <- input_executed,
  axis <- input_axis, state <- input_state, calls <- input_calls,
  ran <- input_ran, downs <- input_downs

-----------------------------------------------------------------------------
(* An object that registers a command of its own, and lines with right and  *)
(* with unreadable arguments.                                               *)
Typed(n, a) == [name |-> n, args |-> a]

ConsolesNames == {"help", "clear", "zoom", "tool"}
ConsolesArity == [n \in {"help", "clear", "zoom", "tool"} |-> IF n \in {"zoom", "tool"} THEN {1} ELSE 0 .. 3]
ConsolesOwners == {"hero"}
ConsolesOffered == [o \in {"hero"} |-> {"tool"}]
ConsolesLines == {Typed("tool", <<"number">>), Typed("zoom", <<"word">>), Typed("typo", << >>)}

Consoles == INSTANCE Console WITH
  Names <- ConsolesNames, Arity <- ConsolesArity, Owners <- ConsolesOwners,
  Offered <- ConsolesOffered, Lines <- ConsolesLines, Blank <- Blank,
  NoLine <- Nil, HistoryMaxSize <- 2, HistoryResizeTo <- 1, LogLevel <- 4,
  MaxLines <- 2, MaxEntries <- 6, MaxUpdates <- 2, pc <- con_pc,
  updates <- con_updates, registered <- con_registered, alive <- con_alive,
  died <- con_died, shown <- con_shown, historyPos <- con_historyPos,
  history <- con_history, lastCommand <- con_lastCommand,
  buffer <- con_buffer, ran <- con_ran, log <- con_log,
  entries <- con_entries, stale <- con_stale

-----------------------------------------------------------------------------
SfmlFiles == {"unit.png"}
SfmlMissing == {"lost.png"}
SfmlAseprites == {"tree.aseprite"}
SfmlDrawn == {"#b#16#16"}
SfmlMalformed == {}

Sfml == INSTANCE TextureManager WITH
  Backend <- "sfml", Files <- SfmlFiles, Missing <- SfmlMissing,
  Aseprites <- SfmlAseprites, Drawn <- SfmlDrawn, Malformed <- SfmlMalformed,
  MaxGets <- 4, textures <- tex_textures, renderer <- tex_renderer,
  sprites <- tex_sprites, loads <- tex_loads, outcome <- tex_outcome,
  gets <- tex_gets

SdlFiles == {"unit.png"}
SdlMissing == {"lost.png"}
SdlAseprites == {"tree.aseprite"}
SdlDrawn == {"#b#16#16"}
SdlMalformed == {"#b#16"}

Sdl == INSTANCE TextureManager WITH
  Backend <- "sdl", Files <- SdlFiles, Missing <- SdlMissing,
  Aseprites <- SdlAseprites, Drawn <- SdlDrawn, Malformed <- SdlMalformed,
  MaxGets <- 4, textures <- tex_textures, renderer <- tex_renderer,
  sprites <- tex_sprites, loads <- tex_loads, outcome <- tex_outcome,
  gets <- tex_gets

-----------------------------------------------------------------------------
StringsLetters == {"a", "b", " "}
StringsSpace == " "

Strings == INSTANCE StrUtils WITH
  Letters <- StringsLetters, Space <- StringsSpace, MaxLen <- 4,
  str <- str_str
ASSUME Strings!StrAssumption

-----------------------------------------------------------------------------
(* Colours, palette files, gradients and a picture. *)
Line(k, r, g, b) == [kind |-> k, rgb |-> <<r, g, b>>]
Header == Line("other", 0, 0, 0)
Gradient(a, hsv, m, n) == [axis |-> a, hsv |-> hsv, max |-> m, steps |-> n]

PalettesColors == {<<255, 0, 0>>, <<7, 130, 1>>}
PalettesGplFiles == 
  {<<Header, Line("comment", 0, 0, 0), Line("color", 7, 130, 257), Line("empty", 0, 0, 0)>>,
   <<Header, Line("color", 9, 9, 9), Line("spaces", 0, 0, 0)>>,
   <<Header, Line("other", 0, 0, 0), Line("color", 9, 9, 9)>>}
PalettesGradients == 
  {Gradient(1, <<0, 100, 100>>, 360, 2), Gradient(1, <<0, 100, 100>>, 360, 3),
   Gradient(2, <<200, 0, 50>>, 100, 2), Gradient(3, <<100, 60, 0>>, 80, 1)}
PalettesPictures == {<< <<<<255, 0, 0>>, <<0, 0, 0>>>>, <<<<0, 0, 0>>, <<255, 0, 0>>>> >>}

Palettes == INSTANCE Palette WITH
  Colors <- PalettesColors, GplFiles <- PalettesGplFiles,
  Gradients <- PalettesGradients, Pictures <- PalettesPictures,
  MaxColors <- 3, colors <- pal_colors, thrown <- pal_thrown

-----------------------------------------------------------------------------
Keys == INSTANCE Keyboard WITH
  Backend <- "sdl", MaxHeld <- 1, held <- key_held, pressed <- key_pressed
ASSUME Keys!KeyboardAssumption

-----------------------------------------------------------------------------
SdlImages == INSTANCE Images WITH
  Backend <- "sdl", MaxSize <- 4, kind <- img_kind, width <- img_width,
  height <- img_height, image <- img_image
ASSUME SdlImages!ImagesAssumption

SfmlImages == INSTANCE Images WITH
  Backend <- "sfml", MaxSize <- 4, kind <- img_kind, width <- img_width,
  height <- img_height, image <- img_image
ASSUME SfmlImages!ImagesAssumption

-----------------------------------------------------------------------------
(* Two names; arguments and files of every kind: an animation again with    *)
(* fewer frames, arguments and files that are refused, a file that breaks   *)
(* off after its first tag.                                                 *)
Adding(n, c, t) == [name |-> n, count |-> c, times |-> t]
IdleTag == [name |-> "idle", times |-> <<1, 1>>, complete |-> TRUE]
WalkTag == [name |-> "walk", times |-> <<2>>, complete |-> TRUE]
File(n, t, r) == [name |-> n, times |-> t, repeat |-> r]

AnimsName == {"idle", "walk"}
AnimsAdds == 
  {Adding("idle", 2, <<1, 2>>), Adding("idle", 1, <<2>>), Adding("walk", 2, <<2>>),
   Adding("", 1, <<1>>)}
AnimsJsons == 
  {[readable |-> TRUE, tags |-> <<IdleTag, WalkTag>>],
   [readable |-> TRUE, tags |-> <<WalkTag, [IdleTag EXCEPT !.complete = FALSE]>>],
   [readable |-> FALSE, tags |-> << >>]}
AnimsAseprites == 
  {[tags |-> << >>],
   [tags |-> <<File("idle", <<1, 2>>, TRUE), File("walk", <<1, 1>>, FALSE)>>]}
AnimsColors == {"white"}
AnimsScales == {1}

Anims == INSTANCE Animations WITH
  Name <- AnimsName, Adds <- AnimsAdds, Jsons <- AnimsJsons,
  Aseprites <- AnimsAseprites, Colors <- AnimsColors, Scales <- AnimsScales,
  frames <- anims_frames, time <- anims_time, looping <- anims_looping,
  valid <- anims_valid, name <- anims_name, index <- anims_index,
  frameTime <- anims_frameTime, outcome <- anims_outcome,
  replaced <- anims_replaced, grown <- anims_grown
ASSUME Anims!AnimationsAssumption

-----------------------------------------------------------------------------
(* The two threads of the server. *)
Logging == [t \in {"main", "network"} |->
  IF t = "main" THEN <<5, 6, 7, 0>> ELSE <<6, 3, 5>>]

LogsThreads == {"main", "network"}

Logs == INSTANCE SharedLog WITH
  Threads <- LogsThreads, Calls <- Logging, OutLevel <- 5, FileLevel <- 7,
  LoggerLevel <- 6, HistoryMaxSize <- 4, HistoryResizeTo <- 2,
  NoThread <- Nil, at <- log_at, done <- log_done, holder <- log_holder,
  out <- log_out, file <- log_file, history <- log_history,
  shortened <- log_shortened
ASSUME Logs!SharedLogAssumption

-----------------------------------------------------------------------------
Machines == {"loop", "objects", "tweens", "buffer", "grid", "path", "view", "effects",
            "shake", "tiles", "row", "intro", "commands", "devices",
            "console", "sfml", "sdl", "strings", "palette", "keyboard",
            "pictures", "frames", "animations", "log"}

objVars == <<obj_objects, obj_toAdd, obj_dead, obj_destroyed, obj_held, obj_group,
    obj_at, obj_pass, obj_age, obj_joined, obj_doomed>>
tweenVars == <<tween_tweens, tween_toAdd, tween_tween, tween_owned, tween_shown,
    tween_at, tween_calls, tween_cancelled, tween_left, tween_cleared>>
ringVars == <<ring_data, ring_head, ring_tail, ring_size, ring_answer, ring_plot,
    ring_currentIndex, ring_particles, ring_puts, ring_taken, ring_fired,
    ring_steps>>
gridVars == <<grid_alive, grid_pos, grid_allObjects, grid_cells, grid_updated,
    grid_events>>
pathVars == <<path_blocked, path_visited, path_value, path_phase, path_start, path_end,
    path_toCheck, path_path>>
drawVars == <<draw_phase, draw_position, draw_offset, draw_ignore, draw_factor,
    draw_spriteAt, draw_flash, draw_flicker, draw_shake, draw_camera,
    draw_view, draw_layerView, draw_static, draw_picture, draw_age>>
tileVars == <<tile_file, tile_maps, tile_colliders, tile_refines, tile_nodes,
    tile_tileNodes, tile_tiles, tile_layerAt, tile_camera, tile_drawn>>
introVars == <<intro_status, intro_introMusicPlaying, intro_stopped, intro_volume,
    intro_partVolume, intro_told, intro_groupVolume, intro_since>>
inputVars == <<input_flags, input_bound, input_executed, input_axis, input_state,
    input_calls, input_ran, input_downs>>
conVars == <<con_pc, con_updates, con_registered, con_alive, con_died, con_shown,
    con_historyPos, con_history, con_lastCommand, con_buffer, con_ran,
    con_log, con_entries, con_stale>>
texVars == <<tex_textures, tex_renderer, tex_sprites, tex_loads, tex_outcome, tex_gets>>
strVars == <<str_str>>
palVars == <<pal_colors, pal_thrown>>
keyVars == <<key_held, key_pressed>>
imgVars == <<img_kind, img_width, img_height, img_image>>
animsVars == <<anims_frames, anims_time, anims_looping, anims_valid, anims_name,
    anims_index, anims_frameTime, anims_outcome, anims_replaced, anims_grown>>
logVars == <<log_at, log_done, log_holder, log_out, log_file, log_history,
    log_shortened>>

allVars == <<machine, vars, objVars, tweenVars, ringVars, gridVars, pathVars, drawVars,
          tileVars, introVars, inputVars, conVars, texVars, strVars, palVars,
          keyVars, imgVars, animsVars, logVars>>

\* The components that are not run stay in one initial state.
EngineInit ==
  /\ machine \in Machines
  /\ Init
  /\ Collection!Init
  /\ Tweening!Init
  /\ Buffer!Init
  /\ Grid!Init
  /\ machine # "grid" => grid_pos = [o \in {"o1", "o2"} |-> <<0, 0>>]
  /\ Way!Init
  /\ machine # "path" => path_blocked = {<<1, 0>>, <<1, 1>>, <<1, 2>>}
  /\ IF machine = "effects" THEN Effects!Init ELSE IF machine = "shake" THEN Shaking!Init ELSE View!Init
  /\ machine \notin {"view", "effects", "shake"} => draw_position = -3
  /\ IF machine = "row" THEN Row!Init ELSE Tiles!Init
  /\ machine \notin {"tiles", "row"} => tile_file = [c \in MapCells |-> "plain"]
  /\ Intro!Init
  /\ IF machine = "devices" THEN Device!Init ELSE Command!Init
  /\ machine \notin {"commands", "devices"} => input_state = "menu"
  /\ Consoles!Init
  /\ IF machine = "sdl" THEN Sdl!Init ELSE Sfml!Init
  /\ Strings!Init
  /\ Palettes!Init
  /\ Keys!Init
  /\ IF machine = "frames" THEN SfmlImages!Init ELSE SdlImages!Init
  /\ Anims!Init
  /\ Logs!Init

\* A step of the component that is run.
Only(m) ==
  /\ machine = m /\ UNCHANGED machine
  /\ m # "loop" => UNCHANGED vars
  /\ m # "objects" => UNCHANGED objVars
  /\ m # "tweens" => UNCHANGED tweenVars
  /\ m # "buffer" => UNCHANGED ringVars
  /\ m # "grid" => UNCHANGED gridVars
  /\ m # "path" => UNCHANGED pathVars
  /\ m \notin {"view", "effects", "shake"} => UNCHANGED drawVars
  /\ m \notin {"tiles", "row"} => UNCHANGED tileVars
  /\ m # "intro" => UNCHANGED introVars
  /\ m \notin {"commands", "devices"} => UNCHANGED inputVars
  /\ m # "console" => UNCHANGED conVars
  /\ m \notin {"sfml", "sdl"} => UNCHANGED texVars
  /\ m # "strings" => UNCHANGED strVars
  /\ m # "palette" => UNCHANGED palVars
  /\ m # "keyboard" => UNCHANGED keyVars
  /\ m \notin {"pictures", "frames"} => UNCHANGED imgVars
  /\ m # "animations" => UNCHANGED animsVars
  /\ m # "log" => UNCHANGED logVars

EngineNext ==
  \/ Only("loop") /\ Next
  \/ Only("objects") /\ Collection!Next
  \/ Only("tweens") /\ Tweening!Next
  \/ Only("buffer") /\ Buffer!Next
  \/ Only("grid") /\ Grid!Next
  \/ Only("path") /\ Way!Next
  \/ Only("view") /\ View!Next
  \/ Only("effects") /\ Effects!Next
  \/ Only("shake") /\ Shaking!Next
  \/ Only("tiles") /\ Tiles!Next
  \/ Only("row") /\ Row!Next
  \/ Only("intro") /\ Intro!Next
  \/ Only("commands") /\ Command!Next
  \/ Only("devices") /\ Device!Next
  \/ Only("console") /\ Consoles!Next
  \/ Only("sfml") /\ Sfml!Next
  \/ Only("sdl") /\ Sdl!Next
  \/ Only("strings") /\ Strings!Next
  \/ Only("palette") /\ Palettes!Next
  \/ Only("keyboard") /\ Keys!Next
  \/ Only("pictures") /\ SdlImages!Next
  \/ Only("frames") /\ SfmlImages!Next
  \/ Only("animations") /\ Anims!Next
  \/ Only("log") /\ Logs!Next

\* The component that is run goes on; of the server its main thread
Turn ==
  \/ Only("loop") /\ Engine
  \/ Only("tweens") /\ Tweening!Frame
  \/ Only("path") /\ Way!Search
  \/ Only("log") /\ Logs!Step("main")

\* and its network thread.
Turn2 ==
  \/ Only("log") /\ Logs!Step("network")

EngineSpec == EngineInit /\ [][EngineNext]_allVars
  /\ WF_allVars(Turn)
  /\ WF_allVars(Turn2)

-----------------------------------------------------------------------------
(* Properties of the components, for their behaviours *)

\* The variables of every component have their types.
TypesOK ==
  /\ TypeOK
  /\ machine = "objects" => Collection!TypeOK
  /\ machine = "tweens" => Tweening!TypeOK
  /\ machine = "buffer" => Buffer!TypeOK
  /\ machine = "grid" => Grid!TypeOK
  /\ machine = "path" => Way!TypeOK
  /\ machine = "view" => View!TypeOK
  /\ machine = "effects" => Effects!TypeOK
  /\ machine = "shake" => Shaking!TypeOK
  /\ machine = "tiles" => Tiles!TypeOK
  /\ machine = "row" => Row!TypeOK
  /\ machine = "intro" => Intro!TypeOK
  /\ machine = "commands" => Command!TypeOK
  /\ machine = "devices" => Device!TypeOK
  /\ machine = "console" => Consoles!TypeOK
  /\ machine = "sfml" => Sfml!TypeOK
  /\ machine = "palette" => Palettes!TypeOK
  /\ machine = "animations" => Anims!TypeOK

\* A switch that was asked for is made, or the one that takes its place is.
SwitchIsMade == []<>(machine = "loop" => NothingPending)

\* A game that was left is gone in the end.
LeftForGood == []<>(machine = "loop" => RunsUnended)

\* The walk over the objects is never disturbed by what the objects do: the
\* vector keeps its elements until the next pass.
WalkUndisturbed == [][machine = "objects" => Collection!WalkUndisturbedStep]_allVars

\* Every object is updated exactly once in every pass from the one it joined.
UpdatedEveryPass == machine = "objects" => Collection!UpdatedEveryPass

\* An object that was dead when a pass began is not updated in it, whether it
\* had been updated before or not, and destroy() is called for it.
DeadNotUpdated == machine = "objects" => Collection!DeadNotUpdated

\* The group loses no object that anybody still owns.
GroupComplete == [][machine = "objects" => Collection!GroupCompleteStep]_allVars

\* A tween that went its way out of the collection, neither cancelled nor
\* cleared, has run its callbacks: what a completion is to start (the sound of
\* a unit that has landed, placement_manager.cpp:337) is not lost, whatever
\* other callbacks did in between and whether or not its object still exists.
CallbackRan == machine = "tweens" => Tweening!CallbackRan

\* The callbacks of a tween that does not repeat run once, if its object is
\* there when it ends: the dead are erased (tween_collection.cpp:20) before
\* they could be updated again.
CalledOnce == machine = "tweens" => Tweening!CalledOnce

\* A tween that was cancelled while no update was under way does nothing more.
\* (One that is cancelled by a callback may still be updated, and even run its
\* callbacks, if it stands behind the one that completed.)
CancelledLeftAlone == [][machine = "tweens" => Tweening!CancelledLeftAloneStep]_allVars

\* The update that completes a tween leaves its object with the final value,
\* although the last step is not of the exact length (tween_base.cpp:75-82).
EndShown == [][machine = "tweens" => Tweening!EndShownStep]_allVars

\* Every tween that does not repeat leaves the collection.
TweensEnd == []<>(machine = "tweens" => Tweening!OnlyRepeatingStored)

\* The buffer is a queue of the newest N values (circular_buffer.hpp:116-148),
\* whether puts overtake gets or gets overtake puts.
IsQueue == Buffer!IsQueue

\* The plot of the info screen, which never takes a value, ends with the values
\* of the last frames, in their order.
PlotInOrder == machine = "buffer" => Buffer!PlotInOrder

\* The particles in use are those of the N newest firings: no particle is
\* taken away while an older one could be.
NewestParticles == machine = "buffer" => Buffer!NewestParticles

\* After an update, every live object within the distance is found, on both
\* sides of a border of cells and of the origin.
AllFound == machine = "grid" => Grid!AllFound

\* No object is in two cells or twice in one, not even between two updates.
FoundOnce == machine = "grid" => Grid!FoundOnce

\* After an update, the dead are found no more, and nothing beyond the cells
\* that the distance reaches.
OthersNotFound == machine = "grid" => Grid!OthersNotFound

\* A path leads from the start to the end over free tiles, each next to the
\* one before it, and visits none twice.
PathLeads == machine = "path" => Way!PathLeads

\* The answer is empty only if there is no way, or none to go: neither the
\* order of the visits nor an earlier query hides one.
PathFound == machine = "path" => Way!PathFound

\* A value comes from a visited node next to it that is nearer to the end: the
\* values that the walk follows never lead into a dead end or a circle, and
\* values found later cannot spoil that.
ValuesLead == machine = "path" => Way!ValuesLead

\* Every query is answered: nodes are put into the open list again, but not
\* visited again, and the walk ends.
AnswerGiven == []<>(machine = "path" => Way!Answered)

\* What ignores the camera stays where it is on the screen while the camera
\* moves, what follows it by half moves by half: the sprite is placed with the
\* offset of the very view it will be drawn in.
FollowsByFactor == machine = "view" => View!FollowsByFactor

\* getScreenPosition(), asked when the drawable has been updated, is where it
\* will be drawn (in the view that the targets will be given).
ScreenPositionTrue == machine = "view" => View!ScreenPositionTrue

\* The same while neither the camera moves nor the drawable shakes.
DrawnIfStill == machine = "view" => View!DrawnIfStill

\* A flicker hides the drawable for no longer than its interval, and a frame;
\* this holds at its end and for flickers that begin while it is hidden.
HiddenBriefly == machine = "effects" => Effects!HiddenBriefly

\* A flash fades from update to update until the next one begins.
FlashFades == [][machine = "effects" => Effects!FlashFadesStep]_allVars

\* A shake displaces the drawable for its duration, and to the end of the
\* frame, even if it replaces another one.
ShakeEnds == machine = "shake" => Shaking!ShakeEnds

\* The shake of the camera is over with its time, and when it is reset.
CameraShakeEnds == machine = "shake" => Shaking!CameraShakeEnds

\* Refined once, the colliders cover what they covered before, and nothing
\* twice, and they stay on the map.
SameArea == machine = "tiles" => Tiles!SameArea

\* Refined, no two colliders are left that could be one.
NoneToMerge == machine = "tiles" => Tiles!NoneToMerge

\* What the pathfinder takes for blocked is solid, and the other way around
\* unless a tile's "blocked" is false.
SolidAsBlocked == machine = "tiles" => Tiles!SolidAsBlocked

\* The k-th tile of the i-th tileset has the sprite of its place in the image,
\* behind those of all tilesets before it.
SpritesInOrder == machine = "tiles" => Tiles!SpritesInOrder

\* The same for a layer that stands where its map says.
DrawnAtOrigin == machine = "row" => Row!DrawnAtOrigin

\* The intro and the loop are never heard together.
NeverBoth == machine = "intro" => Intro!NeverBoth

\* A sound that was started is heard until it is stopped: the loop takes over
\* at the update after the end of the intro, the first time and after a stop.
NeverSilent == machine = "intro" => Intro!NeverSilent

\* Two updates after the last change the part that is heard has the volume of
\* the sound and of its group.
VolumeHeard == machine = "intro" => Intro!VolumeHeard

\* The edges of an input are a faithful record of its level: whatever resets
\* come in between, presses and releases reported since then alternate and
\* leave the input exactly as pressed() says, so that code which counts
\* edges (clicks, toggles) never runs away from code that asks for levels.
EdgesPaired == machine = "devices" => Device!EdgesPaired

\* A ControlCommandOnce acts exactly once in every update in which one of
\* its events happens, however many keys share it, in whatever composites it
\* is, and also when it was executed the frame before.
ActsOnceEachUpdate == [][machine = "commands" => Command!ActsOnceEachUpdateStep]_allVars

\* A command never acts for a game state that did not bind it: the reset at
\* the entry of a new state takes the commands of the one before off all four
\* tables.  (A stored state that is entered again gets no such reset.)
OwnCommandsOnly == machine = "commands" => Command!OwnCommandsOnly

\* Every line confirmed in a console is executed once and in its order,
\* except the one that waits for the next update.
EachLineOnce == machine = "console" => Consoles!EachLineOnce

\* The log the console shows is what was logged last, without a gap, never
\* longer than its limit, and after anything was logged never empty.
LogIsSuffix == machine = "console" => Consoles!LogIsSuffix

\* A command whose owner is gone acts at most in the frame in which it died:
\* the tidying at the start of every frame is what keeps callbacks of dead
\* objects from being called.
StaleOneFrame == machine = "console" => Consoles!StaleOneFrame

\* However many sprites share a name, its picture is loaded or drawn at most
\* once until the store is emptied.
LoadedOnce == machine = "sfml" => Sfml!LoadedOnce

\* Every sprite that could be made shows the picture of its own name, and
\* with sfml its flash image is that picture in white.
SpritesComplete == machine = "sfml" => Sfml!SpritesComplete

\* A picture never is in the store without its flash image, so that the
\* second request of a sprite is always answered from the store.
FlashWithPicture == machine = "sdl" => Sdl!FlashWithPicture

\* The three ways of splitting agree on one letter, as the comment "Match semantics of
\* split(str,str)" asks for, also at both ends, for delimiters side by side and for "".
SplitsAgree == machine = "strings" => Strings!SplitsAgree

\* Joining with the delimiter undoes splitting by it.
JoinUndoesSplit == machine = "strings" => Strings!JoinUndoesSplit

\* Replacing all is splitting and joining with the replacement: every target that is in the
\* string goes, none that only comes into being by replacing.
ReplacesEachOnce == machine = "strings" => Strings!ReplacesEachOnce

\* The last occurrence is the first one read backwards.
LastIsFirstBackwards == machine = "strings" => Strings!LastIsFirstBackwards

\* The unsigned differences of lengths never make a longer string an affix of a shorter one.
AffixesFound == machine = "strings" => Strings!AffixesFound

\* Trimming leaves the longest part that neither begins nor ends with a space.
TrimLeavesTheMiddle == machine = "strings" => Strings!TrimLeavesTheMiddle

\* Removing duplicates in place leaves exactly the first of all equal colours, in their order.
UniqueKeepsFirst == machine = "palette" => Palettes!UniqueKeepsFirst

\* The HSV of a colour is that colour again: no sextant and no greatest component is taken
\* for another one (in exact arithmetic).
ThereAndBack == machine = "palette" => Palettes!ThereAndBack

\* A palette grows at its end or loses duplicates, and a file with a bad line adds nothing.
OnlyAppends == [][machine = "palette" => Palettes!OnlyAppendsStep]_allVars

\* A gradient over the whole circle of hues repeats none of its colours: the end of the circle
\* is its beginning.
CircleHasNoRepeat == [][machine = "palette" => Palettes!CircleHasNoRepeatStep]_allVars

\* The keys the program asks for, in game, placement and debug windows, are
\* pressed when their own key is down and by no other key.
UsedKeysApart == [][machine = "keyboard" => Keys!UsedKeysApartStep]_allVars

\* The pressed button of SDL is the button with light and shadow exchanged,
\* down to the corners, where a row and a column are drawn over each other.
PressedIsSunken == machine = "pictures" => SdlImages!PressedIsSunken

\* A glow and a circle look the same in a mirror and after a quarter turn,
\* so an origin in the middle of the picture is the middle of the light.
Round == machine = "pictures" => SdlImages!Round

\* The button of SFML keeps the frame of the normal picture when it is
\* pressed, and only the middle changes; hovered, it has one colour.
SameFrame == machine = "frames" => SfmlImages!SameFrame

\* doUpdate and doDraw only ever touch a frame that is there, unless the
\* pool was loaded or added to under the animation that plays: adding an
\* animation again with fewer frames, or a load that fails, leaves the index
\* behind.
FrameIsThere == machine = "animations" => Anims!FrameIsThere

\* Once dressed, all frames of all animations look alike, whichever is shown
\* next: no frame flickers in another colour or looks the other way.
FramesAlike == machine = "animations" => Anims!FramesAlike

\* Whenever nobody is writing, the stream, the file and the history tell the
\* same story: the stream is what the file has up to its level, the history
\* is the end of it. (debug is the logger's level, verbose that of the file.)
OneStory == machine = "log" => Logs!OneStory

\* Every entry a thread makes is in the file in the end, once, and those of
\* one thread in the order in which they were made.
NothingLost == <>[](machine = "log" => Logs!AllWritten)

-----------------------------------------------------------------------------
(* What the runs check of them together *)

\* Callbacks may add, kill and cancel what a loop around them walks over: the walk still
\* sees each member once, groups miss no member, what was cancelled is not touched
\* again, and every tween shows its end.
WalksUndisturbed ==
  /\ WalkUndisturbed
  /\ GroupComplete
  /\ CancelledLeftAlone
  /\ EndShown
  /\ []UpdatedEveryPass
  /\ []DeadNotUpdated
  /\ []CallbackRan
  /\ []CalledOnce

\* Containers and searches give what their definitions say, across wrap-arounds, cell
\* borders and repeated queries: nothing is found twice or
\* missed, and a path leads where it should whenever there is one; the variables of every
\* component have their types.
ContainersAreTrue ==
  /\ TypesOK
  /\ PlotInOrder
  /\ NewestParticles
  /\ AllFound
  /\ FoundOnce
  /\ OthersNotFound
  /\ PathLeads
  /\ PathFound
  /\ ValuesLead
  /\ SplitsAgree
  /\ JoinUndoesSplit
  /\ ReplacesEachOnce
  /\ LastIsFirstBackwards
  /\ AffixesFound
  /\ TrimLeavesTheMiddle
  /\ UniqueKeepsFirst

\* Pictures are where and what they should be: drawn with the camera they are seen
\* with, effects over when their time is, solid tiles solid after merging, textures
\* complete and loaded once. Each build is looked at for itself: with SFML textures are
\* loaded once and complete and a pressed button keeps its frame, with SDL no picture is
\* without its flash image and a pressed button is the normal one sunken.
PicturesAreTrue ==
  /\ FollowsByFactor
  /\ ScreenPositionTrue
  /\ DrawnIfStill
  /\ HiddenBriefly
  /\ ShakeEnds
  /\ CameraShakeEnds
  /\ SameArea
  /\ NoneToMerge
  /\ SolidAsBlocked
  /\ SpritesInOrder
  /\ DrawnAtOrigin
  /\ LoadedOnce
  /\ SpritesComplete
  /\ FlashWithPicture
  /\ ThereAndBack
  /\ PressedIsSunken
  /\ Round
  /\ SameFrame
  /\ FrameIsThere
  /\ FramesAlike

\* One input has one effect: a command acts once an update however many keys share it,
\* every press is followed by its release, a console line runs once and only commands
\* that are registered; a sound with an intro is one sound; and of the effects on the
\* screen, a flash fades, a gradient repeats no colour and states change in the dark.
InputIsTrue ==
  /\ ActsOnceEachUpdate
  /\ UsedKeysApart
  /\ []EdgesPaired
  /\ []OwnCommandsOnly
  /\ []EachLineOnce
  /\ []LogIsSuffix
  /\ []StaleOneFrame
  /\ []NeverBoth
  /\ []NeverSilent
  /\ []VolumeHeard
  /\ FlashFades
  /\ OnlyAppends
  /\ CircleHasNoRepeat
  /\ SwitchedInTheDark

\* Tweens end, searches are answered, requested switches are made, an ended match is left
\* and every entry of either thread is written to the log in the end.
AnswersCome ==
  /\ TweensEnd
  /\ AnswerGiven
  /\ SwitchIsMade
  /\ LeftForGood
  /\ NothingLost

=============================================================================
