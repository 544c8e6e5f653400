--------------------------- MODULE TextureManager ---------------------------
(* The texture manager of both back ends (TextureManagerImpl, in sfml/ and   *)
(* sdl/): it loads or draws the picture of a name once, keeps it together    *)
(* with its flash image, and hands it to every sprite that asks.  A name is  *)
(* the name of a file, of an aseprite file, or "#" and a letter for a        *)
(* picture the engine draws itself; a picture is known by its name.          *)
EXTENDS Naturals, FiniteSets, Functions

CONSTANTS
    Backend,        \* "sfml" or "sdl"
    Files,          \* names of files that exist
    Missing,        \* names of files that do not
    Aseprites,      \* names of aseprite files
    Drawn,          \* names with "#", a known letter and proper arguments
    Malformed,      \* names with "#", a known letter and wrong arguments
    MaxGets         \* bound: calls of get and constructions of sprites

Names == Files \cup Missing \cup Aseprites \cup Drawn \cup Malformed

(* getFlashName. *)
Plain(n) == <<n, "plain">>
Flash(n) == <<n, "flash">>
Keys == {Plain(n) : n \in Names} \cup {Flash(n) : n \in Names}

VARIABLES
    textures,       \* m_textures: key -> image
    renderer,       \* sdl: is m_renderer still there
    sprites,        \* the sprites made so far
    loads,          \* how often the picture of a name was loaded since a reset
    outcome,        \* of the last call
    gets

vars == <<textures, renderer, sprites, loads, outcome, gets>>

Picture(n) == <<n, "picture">>
White(n) == <<n, "white">>
\* What stands for a missing surface, an entry without a picture, an exception.
Null   == <<"none", "null">>
Empty  == <<"none", "empty">>
Thrown == <<"none", "thrown">>
Images == {Picture(n) : n \in Names} \cup {White(n) : n \in Names} \cup {Empty, Null}

(* A mutant: the picture itself is the flash image, as in sdl/. *)
FlashAsPicture(n) == Picture(n)

(* createFlashImage: white where the picture is not transparent.  The one of *)
(* sdl/ reads the file again, which SDL_image cannot do for aseprite files,  *)
(* and is not called for what the engine draws.                              *)
FlashImage(n) ==
    CASE Backend = "sfml" -> White(n)
      [] Backend = "sdl" /\ n \in Files -> White(n)
      [] Backend = "sdl" /\ n \in Aseprites -> Null
      [] Backend = "sdl" /\ n \in Drawn -> Picture(n)

(* A mutant: what is stored is not found again. *)
ContainsNothing(st, k) == FALSE

(* containsTexture. *)
Contains(st, k) == k \in DOMAIN st

(* m_textures[k] = image. *)
Store(st, k, image) == [x \in DOMAIN st \cup {k} |-> IF x = k THEN image ELSE st[x]]

(* The create functions: the number of arguments after the letter, and each  *)
(* of them a whole, positive number and nothing else.                        *)
ProperArguments(k) == k[1] \in Drawn /\ k[2] = "plain"

(* A name that was never stored can be loaded or drawn; the flash name of    *)
(* anything else is no file, or has arguments that are no numbers.           *)
Loadable(k) == k[2] = "plain" /\ (k[1] \in Files \cup Aseprites \/ ProperArguments(k))

(* A mutant: sdl/ makes the entry first, too. *)
LeavesEmpty(st, k) == IF k[1] \in Drawn \cup Malformed THEN Store(st, k, Empty) ELSE st

(* m_textures[str].loadFromImage(...) of sfml/ makes the entry before the    *)
(* arguments of the name are looked at; the assignment of sdl/ makes it      *)
(* afterwards.                                                               *)
LeftBehind(st, k) ==
    IF Backend = "sfml" /\ k[1] \in Drawn \cup Malformed THEN Store(st, k, Empty) ELSE st

(* TextureManagerImpl::get: the store it leaves, the image or Thrown, and  *)
(* whether the picture was loaded.                                           *)
Get(st, k) ==
    IF Backend = "sdl" /\ ~renderer
    THEN [store |-> st, image |-> Thrown, loaded |-> FALSE]
    ELSE IF Contains(st, k)
    THEN [store |-> st, image |-> st[k], loaded |-> FALSE]
    ELSE IF Loadable(k)
    THEN [store |-> Store(Store(st, k, Picture(k[1])), Flash(k[1]), FlashImage(k[1])),
          image |-> Picture(k[1]), loaded |-> TRUE]
    ELSE [store |-> LeftBehind(st, k), image |-> Thrown, loaded |-> FALSE]

Counted(n, g) == [loads EXCEPT ![n] = @ + (IF g.loaded THEN 1 ELSE 0)]

(* Somebody asks for the picture of a name. *)
Ask(n) ==
    LET g == Get(textures, Plain(n)) IN
    /\ gets < MaxGets /\ gets' = gets + 1
    /\ textures' = g.store
    /\ loads' = Counted(n, g)
    /\ outcome' = <<n, g.image>>
    /\ UNCHANGED <<renderer, sprites>>

(* The constructor of Sprite: the picture, then the flash image. *)
NewSprite(n) ==
    LET g == Get(textures, Plain(n))
        f == Get(g.store, Flash(n))
    IN
    /\ gets < MaxGets /\ gets' = gets + 1
    /\ loads' = Counted(n, g)
    /\ IF g.image = Thrown
       THEN /\ textures' = g.store
            /\ outcome' = <<n, Thrown>> /\ UNCHANGED sprites
       ELSE /\ textures' = f.store
            /\ outcome' = <<n, f.image>>
            /\ sprites' = IF f.image = Thrown THEN sprites
                          ELSE sprites \cup {[name |-> n, text |-> g.image, flash |-> f.image]}
    /\ UNCHANGED renderer

(* The textures are dropped; sprites of sdl/ share theirs, those of sfml/    *)
(* would refer to nothing and must be gone.                                  *)
Reset ==
    /\ Backend = "sdl" \/ sprites = {}
    /\ textures' = [k \in {} |-> Empty]
    /\ loads' = [n \in Names |-> 0]
    /\ UNCHANGED <<renderer, sprites, outcome, gets>>

(* The window of sdl/ and its renderer are destroyed. *)
RendererGone ==
    /\ Backend = "sdl" /\ renderer
    /\ renderer' = FALSE
    /\ UNCHANGED <<textures, sprites, loads, outcome, gets>>

Init ==
    /\ textures = [k \in {} |-> Empty]
    /\ renderer = TRUE
    /\ sprites = {}
    /\ loads = [n \in Names |-> 0]
    /\ outcome = <<>>
    /\ gets = 0

Next ==
    \/ \E n \in Names : Ask(n) \/ NewSprite(n)
    \/ Reset
    \/ RendererGone

Spec == Init /\ [][Next]_vars

-----------------------------------------------------------------------------
(* Every variable keeps to its type. *)
TypeOK ==
    /\ DOMAIN textures \subseteq Keys
    /\ \A k \in DOMAIN textures : textures[k] \in Images
    /\ renderer \in BOOLEAN
    /\ \A s \in sprites : s.name \in Names /\ {s.text, s.flash} \subseteq Images
    /\ loads \in [Names -> 0 .. MaxGets] /\ gets \in 0 .. MaxGets

(* However many sprites share a name, its picture is loaded or drawn at most *)
(* once until the store is emptied.                                          *)
LoadedOnce == \A n \in Names : loads[n] <= 1

(* Every sprite that could be made shows the picture of its own name, and    *)
(* with sfml its flash image is that picture in white.                       *)
SpritesComplete ==
    \A s \in sprites : s.text = Picture(s.name) /\ (Backend = "sfml" => s.flash = White(s.name))

(* A picture never is in the store without its flash image, so that the      *)
(* second request of a sprite is always answered from the store.             *)
FlashWithPicture == \A n \in Names : Plain(n) \in DOMAIN textures => Flash(n) \in DOMAIN textures

=============================================================================
