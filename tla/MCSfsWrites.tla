---------------------------- MODULE MCSfsWrites ----------------------------
\* An instance of SfsWrites for TLC.
EXTENDS SfsWrites, TLC

\* A file that needs the indirect block and does not fill its last block.
OneHost == {"odd"}
OneHostSize == [h \in OneHost |-> 5]

AnyNames == Permutations(Names)

===========================================================================
