------------------------------- MODULE MCSfs -------------------------------
\* Instances of Sfs for TLC.
EXTENDS Sfs, TLC

\* A file that fills the last direct block, one that fills the last indirect block,
\* one too large, and none.
SmallHost == {"direct", "full", "large", "absent"}
SmallHostSize ==
    [h \in SmallHost |-> CASE h = "direct" -> 4 [] h = "full" -> 6 [] h = "large" -> 7 [] h = "absent" -> -1]

AnyNames == Permutations(Names)

===========================================================================
