------------------------------ MODULE MCLessDb ------------------------------
(***************************************************************************)
(* Instances of LessDb for TLC: bytes of two bits.                         *)
(***************************************************************************)
EXTENDS LessDb

Section(n, t, keep, inc, default) ==
  [count |-> n, type |-> t, preserve |-> keep, increment |-> inc,
   default |-> default]

\* A preserved bit section whose second byte is past IndexLimit, half bytes.
PackedLayout ==
  << << Section(3, "Bit", TRUE, FALSE, 0) >>,
     << Section(2, "HalfByte", FALSE, TRUE, 0) >> >>

\* A preserved word in front of a byte, a wide parameter, and bytes whose
\* second default does not fit.
WideLayout ==
  << << Section(1, "Word", TRUE, FALSE, 15), Section(1, "Byte", FALSE, TRUE, 3) >> >>
DwordLayout == << << Section(1, "Dword", FALSE, FALSE, 63) >> >>
OverflowLayout == << << Section(2, "Byte", FALSE, TRUE, 3) >> >>

SmallLayouts == {PackedLayout, WideLayout, DwordLayout, OverflowLayout, <<>>}

\* A provider that leaves the first parameter to its default.
SmallProviders == {[p \in 0 .. 2 |-> IF p = 0 THEN None ELSE 1]}
=============================================================================
