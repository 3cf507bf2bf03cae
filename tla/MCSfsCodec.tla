----------------------------- MODULE MCSfsCodec -----------------------------
\* An instance of SfsCodec: a plain key, and a sensitive one in two spellings.
EXTENDS SfsCodec

MCKeys == {<<1>>, <<2>>, <<3>>}
MCLower == (<<1>> :> <<1>>) @@ (<<2>> :> <<2>>) @@ (<<3>> :> <<2>>)
MCSensitive == {<<2>>}
MCTexts == {<<>>, <<7, 7, 7, 7>>}
MCCounts == {-1, 0, 1, 2, 3, 9}
=============================================================================
