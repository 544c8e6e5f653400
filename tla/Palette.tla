------------------------------ MODULE Palette ------------------------------
(***************************************************************************)
(* Palettes and colours (palette_builder.cpp, palette.cpp, color_*.cpp):   *)
(* a builder gathers colours one by one, from the lines of a palette file, *)
(* from gradients in one of hue, saturation and value, and from the pixels *)
(* of a picture, and can remove the duplicates.  Colours are converted     *)
(* between RGB and HSV.  Calculations with floating point numbers are      *)
(* exact here: a number is a fraction <<n, d>> in its lowest terms; the    *)
(* cast to uint8_t cuts it off and takes it modulo 256.                    *)
(***************************************************************************)
EXTENDS Integers, Sequences, SequencesExt

CONSTANTS Colors,      \* colours that are added by themselves
          GplFiles,    \* palette files: sequences of lines
          Gradients,   \* gradients: records of the axis, hsv, max and steps
          Pictures,    \* pictures: columns of pixels
          MaxColors    \* bound of the model on the size of a palette

VARIABLES colors,      \* m_colors
          thrown       \* whether the last call ended with an exception

vars == <<colors, thrown>>

----------------------------------------------------------------------------
\* Fractions

RECURSIVE Gcd(_, _)
Gcd(a, b) == IF b = 0 THEN a ELSE Gcd(b, a % b)
Fraction(n, d) == LET g == Gcd(IF n < 0 THEN -n ELSE n, d) IN <<n \div g, d \div g>>
Times(a, b) == LET x == Fraction(a[1], b[2]) y == Fraction(b[1], a[2])
               IN <<x[1] * y[1], x[2] * y[2]>>
Plus(a, b) == Fraction(a[1] * b[2] + b[1] * a[2], a[2] * b[2])
OneMinus(a) == Fraction(a[2] - a[1], a[2])
Exactly(n) == <<n, 1>>
Floor(a) == a[1] \div a[2]
Byte(n) == n % 256          \* static_cast<std::uint8_t>

----------------------------------------------------------------------------
\* ColorConversions; wrong when the third and the fourth are swapped
SextantSwapped(i, v, p, q, t) == CASE i = 0 -> <<v, t, p>>
                                   [] i = 1 -> <<q, v, p>>
                                   [] i = 3 -> <<p, v, t>>
                                   [] i = 2 -> <<p, q, v>>
                                   [] i = 4 -> <<t, p, v>>
                                   [] OTHER -> <<v, p, q>>
Sextant(i, v, p, q, t) == CASE i = 0 -> <<v, t, p>>
                            [] i = 1 -> <<q, v, p>>
                            [] i = 2 -> <<p, v, t>>
                            [] i = 3 -> <<p, q, v>>
                            [] i = 4 -> <<t, p, v>>
                            [] OTHER -> <<v, p, q>>

ToRgb(hsv) ==
    LET s == Times(hsv[2], <<1, 100>>)
        v == Times(hsv[3], <<255, 100>>)
        hh == IF Floor(hsv[1]) >= 360 THEN Exactly(0) ELSE Times(hsv[1], <<1, 60>>)
        i == Floor(hh)
        ff == Plus(hh, Exactly(-i))
        cut(a) == Byte(Floor(a))
    IN IF s[1] <= 0 THEN <<cut(v), cut(v), cut(v)>>
       ELSE Sextant(i, cut(v), cut(Times(v, OneMinus(s))),
                    cut(Times(v, OneMinus(Times(s, ff)))),
                    cut(Times(v, OneMinus(Times(s, OneMinus(ff))))))

Greatest(a, b) == IF a > b THEN a ELSE b
Least(a, b) == IF a < b THEN a ELSE b

ToHsv(c) ==
    LET r == c[1] g == c[2] b == c[3]
        max == Greatest(Greatest(r, g), b)
        delta == max - Least(Least(r, g), b)
        v == Fraction(max * 100, 255)
        h == CASE r >= max -> Fraction(g - b, delta)
               [] r < max /\ g >= max -> Plus(Exactly(2), Fraction(b - r, delta))
               [] OTHER -> Plus(Exactly(4), Fraction(r - g, delta))
        hue == Times(Exactly(60), h)
    IN IF delta = 0 THEN <<Exactly(0), Exactly(0), v>>
       ELSE <<IF hue[1] < 0 THEN Plus(hue, Exactly(360)) ELSE hue, Fraction(delta * 100, max), v>>

----------------------------------------------------------------------------
\* PaletteBuilder

\* addGradientH, addGradientS and addGradientV: from the least value in equal steps towards
\* the greatest, which is not reached; wrong when it is.
DeltaToMax(g) == Fraction(g.max - g.hsv[g.axis], IF g.steps = 1 THEN 1 ELSE g.steps - 1)
Delta(g) == Fraction(g.max - g.hsv[g.axis], g.steps)
Gradient(g) == [k \in 1..g.steps |->
    ToRgb([a \in 1..3 |-> IF a = g.axis THEN Plus(Exactly(g.hsv[a]), Times(Exactly(k - 1), Delta(g)))
                          ELSE Exactly(g.hsv[a])])]

\* parseGPLImpl: the first line is skipped, and so are lines that are empty or a comment; a
\* line of spaces is empty only after trimming, and then at(0) throws, as does a line that
\* does not have four parts.  What it has read so far is lost with it.
Skipped(line) == line.kind \in {"empty", "comment"}
Malformed(line) == line.kind \in {"spaces", "other"}
GplLines(file) == SelectSeq(Tail(file), LAMBDA l : ~Skipped(l))
GplThrows(file) == \E k \in DOMAIN GplLines(file) : Malformed(GplLines(file)[k])
GplColors(file) == [k \in DOMAIN GplLines(file) |->
                       [a \in 1..3 |-> Byte(GplLines(file)[k].rgb[a])]]
\* Wrong when only the bad line is left out.
ParsedBeforeError(file) ==
    LET ok == SelectSeq(GplLines(file), LAMBDA l : ~Malformed(l))
    IN [k \in DOMAIN ok |-> [a \in 1..3 |-> Byte(ok[k].rgb[a])]]
Parsed(file) == IF GplThrows(file) THEN <<>> ELSE GplColors(file)

\* Wrong when an element is compared with the last one of the front only.
JoinsUnlessLast(front, c) == IF front # <<>> /\ Last(front) = c THEN front ELSE Append(front, c)
Joins(front, c) == IF \E k \in DOMAIN front : front[k] = c THEN front ELSE Append(front, c)
RemoveDuplicates(s) == FoldLeft(LAMBDA front, c : Joins(front, c), <<>>, s)

Init == colors = <<>> /\ thrown = FALSE

Insert(new) == /\ Len(colors \o new) <= MaxColors
               /\ colors' = colors \o new

AddColor(c) == Insert(<<c>>) /\ thrown' = FALSE
AddColorsFromGPL(file) == Insert(Parsed(file)) /\ thrown' = GplThrows(file)
AddGradient(g) == Insert(Gradient(g)) /\ thrown' = FALSE
AddColorsFromPicture(pic) == Insert(RemoveDuplicates(FlattenSeq(pic))) /\ thrown' = FALSE
MakeUnique == colors' = RemoveDuplicates(colors) /\ thrown' = FALSE

Next == \/ \E c \in Colors : AddColor(c)
        \/ \E f \in GplFiles : AddColorsFromGPL(f)
        \/ \E g \in Gradients : AddGradient(g)
        \/ \E p \in Pictures : AddColorsFromPicture(p)
        \/ MakeUnique
Spec == Init /\ [][Next]_vars

----------------------------------------------------------------------------
\* Properties

\* Every colour is three bytes, whatever numbers a file holds.
TypeOK == colors \in Seq((0..255) \X (0..255) \X (0..255)) /\ thrown \in BOOLEAN

FirstOccurrences(s) == LET first == {k \in DOMAIN s : \A j \in 1..(k - 1) : s[j] # s[k]}
                       IN SetToSortSeq(first, LAMBDA a, b : a < b)

\* Removing duplicates in place leaves exactly the first of all equal colours, in their order.
UniqueKeepsFirst == LET f == FirstOccurrences(colors)
                    IN RemoveDuplicates(colors) = [k \in DOMAIN f |-> colors[f[k]]]

\* A palette grows at its end or loses duplicates, and a file with a bad line adds nothing.
OnlyAppendsStep ==
  /\ IsPrefix(colors, colors') \/ ToSet(colors) = ToSet(colors')
  /\ thrown' => colors' = colors
OnlyAppends == [][OnlyAppendsStep]_vars

\* The HSV of a colour is that colour again: no sextant and no greatest component is taken
\* for another one (in exact arithmetic).
ThereAndBack == \A k \in DOMAIN colors : ToRgb(ToHsv(colors[k])) = colors[k]

\* A gradient over the whole circle of hues repeats none of its colours: the end of the circle
\* is its beginning.
CircleHasNoRepeatStep ==
  \A g \in Gradients :
    g.axis = 1 /\ g.hsv[1] = 0 /\ g.max = 360 /\ colors' = colors \o Gradient(g)
       => \A j, k \in 1..g.steps : j # k => Gradient(g)[j] # Gradient(g)[k]
CircleHasNoRepeat == [][CircleHasNoRepeatStep]_vars
=============================================================================
