---------------------------- MODULE MCEchoSystem ----------------------------
\* An instance of EchoSystem for TLC: as many writeClients as descriptors.
EXTENDS EchoSystem

CONSTANTS s, w, v

OneShut == {s}
TwoWrite == {w, v}
LinesEach == s :> 6 @@ w :> 2 @@ v :> 0

===========================================================================
