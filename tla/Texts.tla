-------------------------------- MODULE Texts --------------------------------
(* A text of the screen in both builds, in one coordinate.  SDL renders the  *)
(* lines into a texture when the text or its alignment changes and works out *)
(* the place when it draws; SFML keeps the text and works out the place when *)
(* the text is updated.  Positions are counted in half pixels, the widths of *)
(* lines and what is drawn in pixels.                                        *)
EXTENDS Integers, Sequences, FiniteSetsExt

CONSTANTS
    Strings,    \* texts: sequences of lines [chars, px]; << >> is the empty one
    Positions,  \* arguments of setPosition
    Offsets     \* arguments of setOffset

TextsAssumption ==
    /\ \A t \in Strings : t = << >> \/ \E i \in DOMAIN t : t[i].chars > 0 /\ t[i].px > 0
    /\ Positions \subseteq Int /\ Offsets \subseteq Int

Aligns == {"CENTER", "LEFT", "RIGHT"}
Nothing == [width |-> 0, lines |-> << >>]

VARIABLES
    text,       \* m_text; SFML: the string of m_text
    align,      \* m_textAlign
    position,   \* m_position
    offset,     \* m_offset
    texture,    \* SDL: m_textTexture and its width; where each line is in it
    placed,     \* SFML: position of m_text
    settled     \* history: nothing changed since the last update

state == <<text, align, position, offset>>
vars == <<state, texture, placed, settled>>

-----------------------------------------------------------------------------
(* static_cast<int> of half pixels.                                          *)
ToPixel(h) == IF h >= 0 THEN h \div 2 ELSE -((-h) \div 2)

(* Mutant: the last line gives the width.                                    *)
WidthOfLast(t) == t[Len(t)].px

(* calculateTextTextureSize: of the first line with the most characters.     *)
TextTextureSize(t) ==
    LET most == Max({t[i].chars : i \in DOMAIN t})
    IN t[Min({i \in DOMAIN t : t[i].chars = most})].px

(* renderOneLineOfText, cut where the texture ends.                          *)
OneLineOfText(w, line, a) ==
    LET left == IF a = "CENTER" THEN ToPixel(w - line.px) ELSE 0
    IN [from |-> Max({0, left}), to |-> Min({w, left + line.px})]

Rendered(t, a) ==
    LET w == TextTextureSize(t)
    IN [width |-> w, lines |-> [i \in DOMAIN t |-> OneLineOfText(w, t[i], a)]]

(* recreateTextTexture: without a text the texture is left as it was.        *)
RecreateTextTexture(t, a) == IF t = << >> THEN texture ELSE Rendered(t, a)

(* The shift to the left of a text of a width, in half pixels.               *)
AlignOffset(w, a) ==
    CASE a = "CENTER" -> -w
      [] a = "RIGHT" -> -2 * w
      [] OTHER -> 0

(* SDL's getDestRect: where the texture is put.                              *)
DestRect == ToPixel(position + offset + AlignOffset(texture.width, align))

(* SDL's doDraw: the lines on the screen.                                    *)
DrawSdl == [i \in DOMAIN texture.lines |->
    [from |-> DestRect + texture.lines[i].from, to |-> DestRect + texture.lines[i].to]]

(* SFML's doDraw: the library puts the lines below each other.               *)
DrawSfml == [i \in DOMAIN text |-> [from |-> placed, to |-> placed + text[i].px]]

(* getGlobalBounds of SFML: of the widest line.                              *)
BoundsWidth(t) == Max({0} \cup {t[i].px : i \in DOMAIN t})

-----------------------------------------------------------------------------
Init ==
    /\ text \in Strings /\ align = "CENTER" /\ position = 0 /\ offset = 0
    /\ texture = (IF text = << >> THEN Nothing ELSE Rendered(text, align))
    /\ placed = 0 /\ settled = FALSE

SetText(t) ==
    /\ text' = t /\ texture' = RecreateTextTexture(t, align)
    /\ settled' = FALSE
    /\ UNCHANGED <<align, position, offset, placed>>

(* Mutant: a new alignment waits for the next text.                          *)
TextureOfAlign(a) == texture

NewTexture(a) == IF a = align THEN texture ELSE RecreateTextTexture(text, a)

SetTextAlign(a) ==
    /\ align' = a /\ texture' = NewTexture(a)
    /\ settled' = FALSE
    /\ UNCHANGED <<text, position, offset, placed>>

SetPosition(p) ==
    /\ position' = p /\ settled' = FALSE
    /\ UNCHANGED <<text, align, offset, texture, placed>>

SetOffset(o) ==
    /\ offset' = o /\ settled' = FALSE
    /\ UNCHANGED <<text, align, position, texture, placed>>

(* doUpdate, where SFML leaves the offset of the drawable out.               *)
Update ==
    /\ placed' = ToPixel(position + AlignOffset(BoundsWidth(text), align))
    /\ settled' = TRUE
    /\ UNCHANGED <<state, texture>>

Next ==
    \/ \E t \in Strings : SetText(t)
    \/ \E a \in Aligns : SetTextAlign(a)
    \/ \E p \in Positions : SetPosition(p)
    \/ \E o \in Offsets : SetOffset(o)
    \/ Update

Spec == Init /\ [][Next]_vars

-----------------------------------------------------------------------------
Near(a, b) == a - b \in -1 .. 1

(* The longest line, in characters, is the widest: what the width counts on. *)
Regular(t) == \A i, j \in DOMAIN t : t[i].chars < t[j].chars => t[i].px <= t[j].px

Anchor == ToPixel(position + offset)

(* SDL: however text, alignment and position were set, and in any order, the *)
(* lines of a centred text are around its position, those of another start   *)
(* there or have the widest one end there.                                   *)
LinesInPlace == text # << >> =>
    /\ DOMAIN DrawSdl = DOMAIN text
    /\ align = "CENTER" =>
          \A i \in DOMAIN text : DrawSdl[i].from + DrawSdl[i].to - 2 * Anchor \in -3 .. 3
    /\ align = "LEFT" => \A i \in DOMAIN text : DrawSdl[i].from = Anchor
    /\ align = "RIGHT" => Near(Max({DrawSdl[i].to : i \in DOMAIN text}), Anchor)

(* A text left alone since its update starts at the same place in both       *)
(* builds.                                                                   *)
BuildsAgree == settled /\ text # << >> /\ offset = 0 /\ Regular(text) =>
    Near(Min({DrawSdl[i].from : i \in DOMAIN text}), Min({DrawSfml[i].from : i \in DOMAIN text}))

=============================================================================
