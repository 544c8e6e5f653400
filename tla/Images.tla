------------------------------- MODULE Images -------------------------------
(* The pictures the engine draws itself (SpriteFunctions, in sfml/ and       *)
(* sdl/): the three-part picture of a button, the glow, the vignette, the    *)
(* filled rectangle and the circle.  A picture is a function from its pixels *)
(* to colours; the strength of a glow or a vignette is a number that grows   *)
(* with the alpha of the pixel, which is a power of it.  The ring is left    *)
(* out: its pixels come from sine and cosine.                                *)
EXTENDS Integers, FiniteSets, Functions

CONSTANTS
    Backend,        \* "sfml" or "sdl"
    MaxSize         \* bound: width, height and radius of a picture

ImagesAssumption == Backend \in {"sfml", "sdl"} /\ MaxSize \in Nat \ {0}

Pixels(w, h) == (0 .. w - 1) \X (0 .. h - 1)

(* setPixel over a set of pixels.                                            *)
Painted(image, set, colour) ==
    [p \in DOMAIN image |-> IF p \in set THEN colour ELSE image[p]]

Row(x, w, y) == (x .. x + w - 1) \X {y}
Column(x, h) == {x} \X (0 .. h - 1)

-----------------------------------------------------------------------------
(* Mutant: the columns of the third picture are those of the first.          *)
BevelAllBright(w, h) ==
    LET rows == Painted(Painted(Painted(Painted([p \in Pixels(3 * w, h) |-> "mid"],
                    Row(0, w, 0), "bright"), Row(0, w, h - 1), "dark"),
                    Row(2 * w, w, 0), "dark"), Row(2 * w, w, h - 1), "bright")
    IN Painted(Painted(Painted(Painted(rows,
           Column(0, h), "bright"), Column(w - 1, h), "dark"),
           Column(2 * w, h), "bright"), Column(3 * w - 1, h), "dark")

(* makeButtonImage of sdl/: normal, hovered and pressed side by side; every  *)
(* row is drawn before every column.                                         *)
Bevel(w, h) ==
    LET rows == Painted(Painted(Painted(Painted([p \in Pixels(3 * w, h) |-> "mid"],
                    Row(0, w, 0), "bright"), Row(0, w, h - 1), "dark"),
                    Row(2 * w, w, 0), "dark"), Row(2 * w, w, h - 1), "bright")
    IN Painted(Painted(Painted(Painted(rows,
           Column(0, h), "bright"), Column(w - 1, h), "dark"),
           Column(2 * w, h), "dark"), Column(3 * w - 1, h), "bright")

(* Mutant: the right border of the third picture is one pixel too far left.  *)
FrameOffByOne(w, h) ==
    LET over == (w .. 3 * w - 1) \X (0 .. h - 1)
        border == Row(0, w, 0) \cup Row(0, w, h - 1) \cup Column(0, h) \cup Column(w - 1, h)
            \cup Row(2 * w, w, 0) \cup Row(2 * w, w, h - 1)
            \cup Column(2 * w, h) \cup Column(3 * w - 2, h)
    IN Painted(Painted([p \in Pixels(3 * w, h) |-> "empty"], over, "over"), border, "border")

(* makeButtonImage of sfml/: the hovered picture has no border.              *)
Frame(w, h) ==
    LET over == (w .. 3 * w - 1) \X (0 .. h - 1)
        border == Row(0, w, 0) \cup Row(0, w, h - 1) \cup Column(0, h) \cup Column(w - 1, h)
            \cup Row(2 * w, w, 0) \cup Row(2 * w, w, h - 1)
            \cup Column(2 * w, h) \cup Column(3 * w - 1, h)
    IN Painted(Painted([p \in Pixels(3 * w, h) |-> "empty"], over, "over"), border, "border")

MakeButtonImage(w, h) == IF Backend = "sdl" THEN Bevel(w, h) ELSE Frame(w, h)

(* makeBlankImage, and makeRect of sdl/, which a shape is made of.           *)
MakeBlankImage(w, h) == [p \in Pixels(w, h) |-> "white"]
MakeRect(w, h) == [p \in Pixels(w, h) |-> "white"]

-----------------------------------------------------------------------------
(* Four times the square of the distance between a pixel and (cx/2, cy/2).   *)
Distance4(p, cx, cy) ==
    (2 * p[1] - cx) * (2 * p[1] - cx) + (2 * p[2] - cy) * (2 * p[2] - cy)

Clamped(n, top) == IF n > top THEN top ELSE n

(* makeGlowImage of a whole radius: (r + 0.5f * 2) pixels square around      *)
(* r / 2, the alpha a power of 1 - clamp(2 * distance / size, 0, 1); here    *)
(* size^2 - 4 * distance^2.                                                  *)
MakeGlowImage(r) ==
    [p \in Pixels(r + 1, r + 1) |->
        (r + 1) * (r + 1) - Clamped(Distance4(p, r, r), (r + 1) * (r + 1))]

(* The alpha of makeVignetteImage is 245 * clamp(n, 0, 1) ^ 3.5 and a random *)
(* number up to 10, n = distance / (cx + cy) / 1.5 * 2; here the clamped     *)
(* square of n in units of 1 / (9 * (w + h)^2): 16 * Distance4.              *)
VignetteTop(w, h) == 9 * (w + h) * (w + h)
VignetteLevel(p, w, h) == Clamped(16 * Distance4(p, w, h), VignetteTop(w, h))

(* A bound of 245 * sqrt(level / top) ^ 3.5 from above: the square of the    *)
(* clamped share, rounded up; a share of one is exact.                       *)
VignetteAlpha(level, top) == -((-245 * level) \div top)

(* The largest alpha of a pixel, with the random number at its top.          *)
MakeVignetteImage(w, h) ==
    [p \in Pixels(w, h) |-> VignetteAlpha(VignetteLevel(p, w, h), VignetteTop(w, h)) + 10]

(* Mutant: the radius counts from the corner of the pixel.                   *)
CircleFromCorner(r) ==
    [p \in Pixels(2 * r + 1, 2 * r + 1) |->
        IF Distance4(p, 2 * r - 1, 2 * r - 1) < 4 * r * r THEN "white" ELSE "none"]

(* makeCircle of sdl/ and a whole radius: the pixels nearer than r to (r, r).*)
MakeCircle(r) ==
    [p \in Pixels(2 * r + 1, 2 * r + 1) |->
        IF Distance4(p, 2 * r, 2 * r) < 4 * r * r THEN "white" ELSE "none"]

-----------------------------------------------------------------------------
VARIABLES
    kind,       \* the picture made last
    width,      \* its size; the radius of a glow or a circle
    height,
    image       \* the picture

vars == <<kind, width, height, image>>

Init == kind = "blank" /\ width = 1 /\ height = 1 /\ image = MakeBlankImage(1, 1)

Kinds == {"button", "blank", "glow", "vignette"}
         \cup (IF Backend = "sdl" THEN {"circle", "rect"} ELSE {})

Image(k, w, h) ==
    CASE k = "button"   -> MakeButtonImage(w, h)
      [] k = "blank"    -> MakeBlankImage(w, h)
      [] k = "glow"     -> MakeGlowImage(w)
      [] k = "vignette" -> MakeVignetteImage(w, h)
      [] k = "circle"   -> MakeCircle(w)
      [] k = "rect"     -> MakeRect(w, h)

Make == \E k \in Kinds, w \in 1 .. MaxSize, h \in 1 .. MaxSize :
    /\ kind' = k /\ width' = w /\ height' = h
    /\ image' = Image(k, w, h)

Next == Make

Spec == Init /\ [][Next]_vars

-----------------------------------------------------------------------------
(* Pixels of the part i = 0, 1, 2 of a button.                               *)
Part(i) == [p \in Pixels(width, height) |-> image[<<p[1] + i * width, p[2]>>]]
Swapped(c) == CASE c = "bright" -> "dark" [] c = "dark" -> "bright" [] OTHER -> c

(* The pressed button of SDL is the button with light and shadow exchanged,  *)
(* down to the corners, where a row and a column are drawn over each other.  *)
PressedIsSunken == kind = "button" =>
    \A p \in Pixels(width, height) : Part(2)[p] = Swapped(Part(0)[p])

(* The button of SFML keeps the frame of the normal picture when it is       *)
(* pressed, and only the middle changes; hovered, it has one colour.         *)
SameFrame == kind = "button" => \A p \in Pixels(width, height) :
    /\ (Part(0)[p] = "border") <=> (Part(2)[p] = "border")
    /\ Part(1)[p] = "over"

(* A glow and a circle look the same in a mirror and after a quarter turn,   *)
(* so an origin in the middle of the picture is the middle of the light.     *)
Round == kind \in {"glow", "circle"} =>
    LET s == IF kind = "glow" THEN width ELSE 2 * width
    IN \A p \in DOMAIN image :
        /\ image[p] = image[<<s - p[1], p[2]>>]
        /\ image[p] = image[<<s - p[2], p[1]>>]

=============================================================================
