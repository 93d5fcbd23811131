---------------------------- MODULE MCInvertedVM ----------------------------
\* An instance of InvertedVM for TLC.
EXTENDS InvertedVM

SmallFrameCounts == {1, 2, 4}
ThreeVpns == 0 .. 2

===========================================================================
