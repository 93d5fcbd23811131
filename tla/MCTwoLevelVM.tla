---------------------------- MODULE MCTwoLevelVM ----------------------------
\* An instance of TwoLevelVM for TLC.
EXTENDS TwoLevelVM

SmallFrameCounts == {1, 2, 4}
TwoVpns == 0 .. 1
VpnPairs == TwoVpns \X TwoVpns

===========================================================================
