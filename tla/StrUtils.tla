------------------------------ MODULE StrUtils ------------------------------
(***************************************************************************)
(* The string functions of strutils.hpp, which take apart console lines,   *)
(* action commands, names of textures and palette files.  A string is a    *)
(* sequence of letters; the functions are translated with their loops and  *)
(* early returns.  The specification types a string, and trims it or       *)
(* replaces in it in place, so that the functions are compared with each   *)
(* other and with their definitions on every short string.                 *)
(***************************************************************************)
EXTENDS Naturals, Sequences, SequencesExt

CONSTANTS Letters, Space, MaxLen

StrAssumption == Space \in Letters /\ MaxLen \in Nat \ {0}

VARIABLE str
vars == str

Short == {<<a>> : a \in Letters} \cup {<<a, b>> : a, b \in Letters}   \* non-empty targets
Replacements == {<<>>} \cup {<<a>> : a \in Letters}

----------------------------------------------------------------------------
\* std::string: positions start at 1 and 0 is npos

At(s, i, t) == i + Len(t) - 1 <= Len(s) /\ SubSeq(s, i, i + Len(t) - 1) = t
Places(s, t) == {i \in 1..(Len(s) + 1) : At(s, i, t)}
Find(s, t, from) == LET p == {i \in Places(s, t) : i >= from}
                    IN IF p = {} THEN 0 ELSE CHOOSE i \in p : \A k \in p : i <= k
RFind(s, t) == LET p == Places(s, t)
               IN IF p = {} THEN 0 ELSE CHOOSE i \in p : \A k \in p : i >= k
From(s, i) == SubSeq(s, i, Len(s))
Put(s, i, n, r) == SubSeq(s, 1, i - 1) \o r \o From(s, i + n)   \* str.replace(i, n, r)

----------------------------------------------------------------------------
\* strutil

TrimLeft(s) == IF \A i \in DOMAIN s : s[i] = Space THEN <<>>
               ELSE From(s, SelectInSeq(s, LAMBDA c : c # Space))
\* Wrong when the last letter that is no space is erased too.
TrimRightOneMore(s) == IF \A i \in DOMAIN s : s[i] = Space THEN <<>>
                       ELSE SubSeq(s, 1, SelectLastInSeq(s, LAMBDA c : c # Space) - 1)
TrimRight(s) == IF \A i \in DOMAIN s : s[i] = Space THEN <<>>
                ELSE SubSeq(s, 1, SelectLastInSeq(s, LAMBDA c : c # Space))
Trim(s) == TrimRight(TrimLeft(s))

ReplaceFirst(s, t, r) == LET i == Find(s, t, 1) IN IF i = 0 THEN s ELSE Put(s, i, Len(t), r)
\* Wrong when it looks from the left.
ReplaceLastLeft(s, t, r) == LET i == Find(s, t, 1) IN IF i = 0 THEN s ELSE Put(s, i, Len(t), r)
ReplaceLast(s, t, r) == LET i == RFind(s, t) IN IF i = 0 THEN s ELSE Put(s, i, Len(t), r)

\* The next search begins behind the replacement; wrong when it skips a letter after erasing.
ResumeOneOn(i, r) == IF r = <<>> THEN i + 1 ELSE i + Len(r)
Resume(i, r) == i + Len(r)
RECURSIVE ReplaceFrom(_, _, _, _)
ReplaceFrom(s, t, r, from) ==
    LET i == Find(s, t, from)
    IN IF i = 0 THEN s ELSE ReplaceFrom(Put(s, i, Len(t), r), t, r, Resume(i, r))
ReplaceEach(s, t, r) == IF t = <<>> THEN s ELSE ReplaceFrom(s, t, r, 1)

\* The last place of the suffix has to be the end of the string.
EndsWithAny(s, t) == RFind(s, t) # 0        \* wrong
EndsWith(s, t) == LET i == RFind(s, t) IN i # 0 /\ i = Len(s) - Len(t) + 1
EndsWithChar(s, c) == Len(s) > 0 /\ s[Len(s)] = c
StartsWith(s, t) == Find(s, t, 1) = 1

RECURSIVE SplitFrom(_, _, _)
SplitFrom(s, d, from) ==
    LET i == Find(s, d, from)
    IN IF i = 0 THEN <<From(s, from)>>
       ELSE <<SubSeq(s, from, i - 1)>> \o SplitFrom(s, d, i + Len(d))
Split(s, d) == SplitFrom(s, d, 1)

\* std::getline hands out what is before each delimiter, and a rest that is not empty.
GetLines(s, c) ==
    LET all == Split(s, <<c>>) IN IF Last(all) = <<>> THEN Front(all) ELSE all
\* The empty token at the end; wrong when it is forgotten for a string that ends in one.
SplitCharNoEnd(s, c) == IF s = <<>> THEN <<<<>>>> ELSE GetLines(s, c)
SplitChar(s, c) == IF s = <<>> \/ EndsWithChar(s, c) THEN Append(GetLines(s, c), <<>>)
                   ELSE GetLines(s, c)

SplitAny(s, set) ==
    LET step(acc, c) == IF c \in set THEN [tokens |-> Append(acc.tokens, acc.token), token |-> <<>>]
                        ELSE [acc EXCEPT !.token = Append(@, c)]
        all == FoldLeft(step, [tokens |-> <<>>, token |-> <<>>], s)
    IN Append(all.tokens, all.token)

\* A delimiter before every token but the first; wrong when it follows every token.
JoinAfterEach(ts, d) == FlattenSeq([i \in DOMAIN ts |-> ts[i] \o d])
Join(ts, d) == FlattenSeq([i \in DOMAIN ts |-> IF i = 1 THEN ts[i] ELSE d \o ts[i]])

DropEmpty(ts) == SelectSeq(ts, LAMBDA t : t # <<>>)

----------------------------------------------------------------------------
Init == str = <<>>
Type(c) == Len(str) < MaxLen /\ str' = Append(str, c)
TrimIt == str' = Trim(str)
ReplaceIn(t, r) == /\ Len(ReplaceEach(str, t, r)) <= MaxLen
                   /\ str' = ReplaceEach(str, t, r)

Next == \/ \E c \in Letters : Type(c)
        \/ TrimIt
        \/ \E t \in Short, r \in Replacements : ReplaceIn(t, r)
Spec == Init /\ [][Next]_vars

----------------------------------------------------------------------------
\* Properties

\* The three ways of splitting agree on one letter, as the comment "Match semantics of
\* split(str,str)" asks for, also at both ends, for delimiters side by side and for "".
SplitsAgree == \A c \in Letters : /\ SplitChar(str, c) = Split(str, <<c>>)
                                  /\ SplitAny(str, {c}) = Split(str, <<c>>)

\* Joining with the delimiter undoes splitting by it.
JoinUndoesSplit == \A t \in Short : Join(Split(str, t), t) = str

\* Replacing all is splitting and joining with the replacement: every target that is in the
\* string goes, none that only comes into being by replacing.
ReplacesEachOnce == \A t \in Short, r \in Replacements :
                       ReplaceEach(str, t, r) = Join(Split(str, t), r)

\* The last occurrence is the first one read backwards.
LastIsFirstBackwards ==
    \A t \in Short, r \in Replacements :
        ReplaceLast(str, t, r) = Reverse(ReplaceFirst(Reverse(str), Reverse(t), Reverse(r)))

\* The unsigned differences of lengths never make a longer string an affix of a shorter one.
AffixesFound == \A t \in Short \cup {<<>>} : /\ EndsWith(str, t) <=> IsSuffix(t, str)
                                             /\ StartsWith(str, t) <=> IsPrefix(t, str)

Bare(s) == s = <<>> \/ (s[1] # Space /\ s[Len(s)] # Space)

\* Trimming leaves the longest part that neither begins nor ends with a space.
TrimLeavesTheMiddle ==
    /\ Bare(Trim(str)) /\ (Bare(str) => Trim(str) = str)
    /\ DropEmpty(Split(Trim(str), <<Space>>)) = DropEmpty(Split(str, <<Space>>))
=============================================================================
