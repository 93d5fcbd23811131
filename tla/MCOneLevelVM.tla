---------------------------- MODULE MCOneLevelVM ----------------------------
\* Instances of OneLevelVM for TLC.
EXTENDS OneLevelVM

SmallFrameCounts == {1, 2, 4}
TwoFrames == {2}
ThreeVpns == 0 .. 2

===========================================================================
