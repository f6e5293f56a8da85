----------------------------- MODULE MC_Literals -----------------------------
EXTENDS Literals

Seqs(S, n) == UNION {[1..k -> S] : k \in 0..n}
Texts_(first, S, n) == {<<first>> \o s : s \in Seqs(S, n)}
Continued(t) == \E k \in 1..(Len(t) - 1) : t[k] = BackSlash /\ t[k + 1] = NewLine

\* " \ x b 1 8, and a quote to begin with: up to six characters.
StringTexts ==
  {t \in Texts_(Quote, {Quote, BackSlash, LowerX, 98, 49, 56}, 5) :
     Cardinality({k \in DOMAIN t : t[k] = Quote}) > 1}

\* ' \ n " 1 and newline.
CharTexts ==
  {t \in Texts_(Apostrophe, {Apostrophe, BackSlash, 110, Quote, 49, NewLine}, 5) :
     ~Continued(t)}

\* Every byte, before a digit and at the end.
HexCode(d) == IF d < 10 THEN 48 + d ELSE 87 + d
Bytes ==
  {<<Quote, BackSlash, LowerX, HexCode(b \div 16), HexCode(b % 16)>> \o t :
     b \in 0..255, t \in {<<Quote>>, <<BackSlash, 49, Quote>>, <<103, 49, Quote>>}}
OctalTexts ==
  {<<Quote, BackSlash>> \o s \o <<Quote>> : s \in Seqs({48, 49, 55, 56}, 4)}

\* What may stand behind \x: digits, the prefix 0x in either case, a space.
HexTexts ==
  {<<Quote, BackSlash, LowerX>> \o s \o <<Quote>> :
     s \in Seqs({Zero, 49, LowerX, UpperX, 32, BackSlash}, 4)}

\* Several units of a string, each an escape or a character.
Units == {<<BackSlash, 48>>, <<49>>, <<BackSlash, 110>>, <<BackSlash, BackSlash>>,
          <<BackSlash, Quote>>, <<Quote, 44, Quote>>, <<BackSlash, 49, 50, 51>>,
          <<BackSlash, LowerX, 48, 52, 49>>, <<63>>}
Composed ==
  {<<Quote>> \o FlattenSeq(s) \o <<Quote>> : s \in Seqs(Units, 4)}

\* With an L in front; with a newline in a string.
Wide == {<<UpperL>> \o t : t \in {u \in CharTexts \cup Composed : Len(u) < 6}}
BrokenStrings ==
  {t \in Texts_(Quote, {Quote, BackSlash, LowerX, 97, NewLine}, 4) : ~Continued(t)}

MCTexts ==
  StringTexts \cup CharTexts \cup Bytes \cup OctalTexts \cup HexTexts \cup Composed
    \cup Wide \cup BrokenStrings
=============================================================================
