------------------------- MODULE TwoLevelVMProofs --------------------------
(***************************************************************************)
(* Theorems about TwoLevelVM, for every number of processes and frames,    *)
(* every size of the two levels and traces of any length: the second-level *)
(* tables and the frames agree, a valid entry is in a table that exists,   *)
(* and the frames are replaced as LRU replaces pages.                      *)
(***************************************************************************)
EXTENDS TwoLevelVM, VMSimProofs

----------------------------------------------------------------------------
\* The inductive invariant.

TableTypesOK ==
    /\ second \in [Procs -> [FVpns -> BOOLEAN]]
    /\ vaild \in [Procs -> [Vpns -> BOOLEAN]]
    /\ phyMemid \in [Procs -> [Vpns -> Frames \cup {-1}]]
    /\ num2ndLevelPageTable \in [Procs -> Nat]

\* A valid entry is in a table that exists and names a loaded frame with its page.
EntriesOK ==
    \A page \in ValidPages :
        LET f == phyMemid[page[1]][page[2]]
        IN  f \in Loaded /\ phyMem[f] = page /\ second[page[1]][page[2][1]]

TablesInv ==
    /\ FrameTypesOK /\ TableTypesOK
    /\ LRUList /\ PHYMEMCOUNT = len
    /\ Agree(ValidPages, phyMem, Loaded)
    /\ EntriesOK

\* The first-level entries of the pages that process j referenced.
Touched(j) == {page[2][1] : page \in {q \in ToSet(recency) : q[1] = j}}

\* A table for each of them and no other, counted once.
OnDemand ==
    \A j \in Procs :
        /\ IsFiniteSet(Touched(j))
        /\ {f \in FVpns : second[j][f]} = Touched(j)
        /\ num2ndLevelPageTable[j] = Cardinality(Touched(j))

IndInv == RoundInv /\ TablesInv /\ OnDemand

LEMMA InitTables == Init => TablesInv
<1> SUFFICES ASSUME Init PROVE TablesInv
  OBVIOUS
<1>1. LRUList /\ FrameTypesOK /\ SimInit
  BY NewListShape DEF Init
<1>2. TableTypesOK /\ Loaded = {} /\ ValidPages = {}
  BY <1>1 DEF Init, SimInit, TableTypesOK, Loaded, ValidPages, Pages
<1>3. QED
  BY <1>1, <1>2 DEF TablesInv, Agree, EntriesOK, SimInit

----------------------------------------------------------------------------
\* A reference to a page that is not there.

\* Its entry is not valid, for a valid entry's table exists.
LEMMA AbsentIsInvalid ==
    ASSUME TablesInv, NEW vpn \in Vpns, <<turn, vpn>> \in Pages, ~Present(turn, vpn)
    PROVE  <<turn, vpn>> \notin ValidPages
<1> DEFINE page == <<turn, vpn>>
<1>1. page[1] = turn /\ page[2] = vpn
  OBVIOUS
<1>. HIDE DEF page
<1>2. page \in ValidPages => vaild[turn][vpn] /\ second[turn][vpn[1]]
  BY <1>1 DEF TablesInv, EntriesOK, ValidPages
<1>3. QED
  BY <1>2 DEF Present, page

\* The second-level table of the page exists afterwards, and no table goes away.
LEMMA SecondExists ==
    ASSUME TablesInv, NEW page \in Pages, NEW vpn, page = <<turn, vpn>>, AllocateSecond(vpn)
    PROVE  /\ second' \in [Procs -> [FVpns -> BOOLEAN]]
           /\ num2ndLevelPageTable' \in [Procs -> Nat]
           /\ second'[page[1]][page[2][1]]
           /\ \A j \in Procs : \A f \in FVpns : second[j][f] => second'[j][f]
<1>1. /\ turn \in Procs /\ vpn \in Vpns /\ vpn[1] \in FVpns /\ page[1] = turn /\ page[2] = vpn
  BY TwoLevelAssumption DEF Pages
<1>2. second' = [second EXCEPT ![turn][vpn[1]] = TRUE]
  BY DEF AllocateSecond
<1>3. /\ second \in [Procs -> [FVpns -> BOOLEAN]] /\ num2ndLevelPageTable \in [Procs -> Nat]
  BY DEF TablesInv, TableTypesOK
<1>4. second' \in [Procs -> [FVpns -> BOOLEAN]]
  BY <1>1, <1>2, <1>3
<1>5. second'[turn][vpn[1]]
  BY <1>1, <1>2, <1>3
<1>6. \A j \in Procs : \A f \in FVpns : second[j][f] => second'[j][f]
  BY <1>1, <1>2, <1>3
<1>7. num2ndLevelPageTable' \in [Procs -> Nat]
  BY <1>1, <1>3 DEF AllocateSecond
<1>8. QED
  BY <1>1, <1>4, <1>5, <1>6, <1>7

\* Setting and clearing entries changes the set of valid pages by them.
LEMMA ValidChanges ==
    ASSUME TableTypesOK, NEW page \in Pages, NEW victim \in Pages
    PROVE  /\ vaild' = [vaild EXCEPT ![page[1]][page[2]] = TRUE] =>
                 /\ vaild' \in [Procs -> [Vpns -> BOOLEAN]]
                 /\ ValidPages' = ValidPages \cup {page}
           /\ vaild' = Replaced(victim, page) =>
                 /\ vaild' \in [Procs -> [Vpns -> BOOLEAN]]
                 /\ ValidPages' = (ValidPages \ {victim}) \cup {page}
<1>1. /\ page[1] \in Procs /\ page[2] \in Vpns /\ victim[1] \in Procs /\ victim[2] \in Vpns
      /\ vaild \in [Procs -> [Vpns -> BOOLEAN]]
  BY DEF TableTypesOK, Pages
<1>2. \A q \in Pages : /\ q[1] \in Procs /\ q[2] \in Vpns
                       /\ q[1] = page[1] /\ q[2] = page[2] => q = page
                       /\ q[1] = victim[1] /\ q[2] = victim[2] => q = victim
  BY DEF Pages
<1>3. ASSUME vaild' = [vaild EXCEPT ![page[1]][page[2]] = TRUE]
      PROVE  /\ vaild' \in [Procs -> [Vpns -> BOOLEAN]]
             /\ ValidPages' = ValidPages \cup {page}
  <2>1. vaild' \in [Procs -> [Vpns -> BOOLEAN]]
    BY <1>1, <1>3
  <2>2. \A q \in Pages : vaild'[q[1]][q[2]] <=> vaild[q[1]][q[2]] \/ q = page
    BY <1>1, <1>2, <1>3
  <2>3. QED
    BY <2>1, <2>2 DEF ValidPages, Pages
<1>4. ASSUME vaild' = Replaced(victim, page)
      PROVE  /\ vaild' \in [Procs -> [Vpns -> BOOLEAN]]
             /\ ValidPages' = (ValidPages \ {victim}) \cup {page}
  <2>1. vaild' \in [Procs -> [Vpns -> BOOLEAN]]
    BY <1>1, <1>4 DEF Replaced
  <2>2. \A q \in Pages :
           vaild'[q[1]][q[2]] <=> (vaild[q[1]][q[2]] /\ q # victim) \/ q = page
    BY <1>1, <1>2, <1>4 DEF Replaced
  <2>3. QED
    BY <2>1, <2>2 DEF ValidPages, Pages
<1>5. QED
  BY <1>3, <1>4

\* The entry that becomes valid names its frame, the other valid ones keep theirs.
LEMMA EntriesChange ==
    ASSUME TablesInv, NEW page \in Pages, NEW f \in Frames,
           NEW vpn, page = <<turn, vpn>>, AllocateSecond(vpn),
           phyMem' = [phyMem EXCEPT ![f] = page],
           phyMemid' = [phyMemid EXCEPT ![page[1]][page[2]] = f],
           Loaded \cup {f} \subseteq Loaded',
           \A q \in ValidPages' : q = page \/ (q \in ValidPages /\ (f \in Loaded => q # phyMem[f]))
    PROVE  EntriesOK' /\ phyMemid' \in [Procs -> [Vpns -> Frames \cup {-1}]]
<1>1. /\ phyMemid \in [Procs -> [Vpns -> Frames \cup {-1}]]
      /\ phyMem \in [Frames -> Pages \cup {NoPage}] /\ Loaded \subseteq Frames
      /\ page[1] \in Procs /\ page[2] \in Vpns
  BY DEF TablesInv, TableTypesOK, FrameTypesOK, Loaded, Frames, Pages
<1>2. /\ second'[page[1]][page[2][1]]
      /\ \A j \in Procs : \A t \in FVpns : second[j][t] => second'[j][t]
  BY SecondExists
<1>3. phyMemid' \in [Procs -> [Vpns -> Frames \cup {-1}]]
  BY <1>1
<1>4. phyMemid'[page[1]][page[2]] = f /\ phyMem'[f] = page /\ f \in Loaded'
  BY <1>1
<1>5. ASSUME NEW q \in ValidPages', q # page
      PROVE  /\ phyMemid'[q[1]][q[2]] \in Loaded' /\ phyMem'[phyMemid'[q[1]][q[2]]] = q
             /\ second'[q[1]][q[2][1]]
  <2> DEFINE g == phyMemid[q[1]][q[2]]
  <2>1. q \in ValidPages /\ (f \in Loaded => q # phyMem[f])
    BY <1>5
  <2>2. g \in Loaded /\ phyMem[g] = q /\ second[q[1]][q[2][1]]
    BY <2>1 DEF TablesInv, EntriesOK
  <2>3. /\ q[1] \in Procs /\ q[2] \in Vpns /\ q[2][1] \in FVpns
        /\ ~(q[1] = page[1] /\ q[2] = page[2])
    BY <1>5, <2>1, TwoLevelAssumption DEF ValidPages, Pages
  <2>4. phyMemid'[q[1]][q[2]] = g
    BY <1>1, <2>3
  <2>5. g # f /\ phyMem'[g] = phyMem[g]
    BY <1>1, <2>1, <2>2
  <2>6. QED
    BY <1>2, <2>2, <2>3, <2>4, <2>5
<1>6. QED
  BY <1>2, <1>3, <1>4, <1>5 DEF EntriesOK

----------------------------------------------------------------------------
\* The steps.

LEMMA HitTables ==
    ASSUME TablesInv, RoundInv, NEW vpn \in Vpns, Hit(vpn), UNCHANGED maxLen
    PROVE  TablesInv'
<1>1. /\ <<turn, vpn>> \in ValidPages
      /\ UNCHANGED <<maxLen, len, PHYMEMCOUNT, phyMem, second, vaild, phyMemid,
                     num2ndLevelPageTable>>
  BY DEF Hit, Present, ValidPages, Pages, RoundInv, tableVars
<1>2. phyMemid[turn][vpn] \in Loaded
  BY <1>1 DEF TablesInv, EntriesOK
<1>3. LRUList'
  BY <1>1, <1>2, HitKeepsList DEF TablesInv, Hit
<1>4. Frames' = Frames /\ Loaded' = Loaded /\ ValidPages' = ValidPages
  BY <1>1 DEF Frames, Loaded, ValidPages
<1>5. QED
  BY <1>1, <1>3, <1>4 DEF TablesInv, FrameTypesOK, TableTypesOK, Agree, EntriesOK

LEMMA LoadTables ==
    ASSUME TablesInv, NEW page \in Pages, page \notin ValidPages, NEW vpn, page = <<turn, vpn>>,
           AllocateSecond(vpn), Load(vpn), UNCHANGED maxLen
    PROVE  TablesInv'
<1>1. /\ ~Full /\ PHYMEMCOUNT = len /\ len' = len + 1 /\ PHYMEMCOUNT' = len + 1
      /\ phyMem' = [phyMem EXCEPT ![len] = page] /\ TakeFrame(page)
      /\ vaild' = [vaild EXCEPT ![page[1]][page[2]] = TRUE]
      /\ phyMemid' = [phyMemid EXCEPT ![page[1]][page[2]] = len]
  BY DEF Load, TakeFrame, TablesInv
<1>2. /\ len \in Frames \ Loaded /\ Loaded' = Loaded \cup {len} /\ Frames' = Frames
      /\ Loaded \in SUBSET Frames /\ phyMem \in [Frames -> Pages \cup {NoPage}]
      /\ len' \in 0 .. maxLen'
  BY <1>1 DEF TablesInv, FrameTypesOK, Full, Frames, Loaded
<1>3. vaild' \in [Procs -> [Vpns -> BOOLEAN]] /\ ValidPages' = ValidPages \cup {page}
  BY <1>1, ValidChanges DEF TablesInv
<1>4. Agree(ValidPages \cup {page}, phyMem', Loaded \cup {len})
  BY <1>1, <1>2, LoadAgrees DEF TablesInv
<1>5. LRUList'
  BY <1>1, LoadKeepsList DEF TablesInv
<1>6. EntriesOK' /\ phyMemid' \in [Procs -> [Vpns -> Frames \cup {-1}]]
  <2>1. \A q \in ValidPages' : q = page \/ (q \in ValidPages /\ (len \in Loaded => q # phyMem[len]))
    BY <1>2, <1>3
  <2>2. QED
    BY <1>1, <1>2, <2>1, EntriesChange
<1>7. FrameTypesOK'
  BY <1>1, <1>2 DEF TablesInv, FrameTypesOK
<1>8. second' \in [Procs -> [FVpns -> BOOLEAN]] /\ num2ndLevelPageTable' \in [Procs -> Nat]
  BY SecondExists
<1>9. QED
  BY <1>1, <1>2, <1>3, <1>4, <1>5, <1>6, <1>7, <1>8 DEF TablesInv, TableTypesOK, Agree

LEMMA ReplaceTables ==
    ASSUME TablesInv, NEW page \in Pages, page \notin ValidPages, NEW vpn, page = <<turn, vpn>>,
           AllocateSecond(vpn), Replace(vpn), UNCHANGED maxLen
    PROVE  TablesInv'
<1> DEFINE f == First(list)
<1>1. /\ PHYMEMCOUNT = len /\ UNCHANGED <<len, PHYMEMCOUNT>> /\ ReuseFirst(page)
      /\ phyMem' = [phyMem EXCEPT ![f] = page]
      /\ vaild' = Replaced(phyMem[f], page)
      /\ phyMemid' = [phyMemid EXCEPT ![page[1]][page[2]] = f]
  BY DEF Replace, ReuseFirst, TablesInv
<1>2. LRUList' /\ f \in Loaded
  BY <1>1, ReplaceKeepsList DEF TablesInv
<1>. HIDE DEF f
<1>3. /\ Loaded' = Loaded /\ Frames' = Frames /\ f \in Frames
      /\ Loaded \in SUBSET Frames /\ phyMem \in [Frames -> Pages \cup {NoPage}]
  BY <1>1, <1>2 DEF TablesInv, FrameTypesOK, Frames, Loaded
<1>4. phyMem[f] \in ValidPages /\ phyMem[f] \in Pages
  BY <1>2 DEF TablesInv, Agree, ValidPages
<1>5. /\ vaild' \in [Procs -> [Vpns -> BOOLEAN]]
      /\ ValidPages' = (ValidPages \ {phyMem[f]}) \cup {page}
  BY <1>1, <1>4, ValidChanges DEF TablesInv
<1>6. Agree((ValidPages \ {phyMem[f]}) \cup {page}, phyMem', Loaded)
  BY <1>1, <1>2, <1>3, ReplaceAgrees DEF TablesInv
<1>7. EntriesOK' /\ phyMemid' \in [Procs -> [Vpns -> Frames \cup {-1}]]
  <2>1. Loaded \cup {f} \subseteq Loaded'
    BY <1>2, <1>3
  <2>2. \A q \in ValidPages' : q = page \/ (q \in ValidPages /\ (f \in Loaded => q # phyMem[f]))
    BY <1>5
  <2>3. /\ f \in Frames /\ phyMem' = [phyMem EXCEPT ![f] = page]
        /\ phyMemid' = [phyMemid EXCEPT ![page[1]][page[2]] = f]
    BY <1>1, <1>3
  <2>4. QED
    BY <2>1, <2>2, <2>3, EntriesChange
<1>8. FrameTypesOK'
  BY <1>1, <1>3 DEF TablesInv, FrameTypesOK
<1>9. second' \in [Procs -> [FVpns -> BOOLEAN]] /\ num2ndLevelPageTable' \in [Procs -> Nat]
  BY SecondExists
<1>10. QED
  BY <1>1, <1>2, <1>3, <1>5, <1>6, <1>7, <1>8, <1>9 DEF TablesInv, TableTypesOK, Agree

LEMMA QuietTables ==
    ASSUME TablesInv, UNCHANGED <<maxLen, frameVars, tableVars>>
    PROVE  TablesInv'
<1>1. UNCHANGED <<maxLen, len, list, PHYMEMCOUNT, phyMem, second, vaild, phyMemid,
                  num2ndLevelPageTable>>
  BY DEF frameVars, tableVars
<1>2. Frames' = Frames /\ Loaded' = Loaded /\ ValidPages' = ValidPages
  BY <1>1 DEF Frames, Loaded, ValidPages
<1>3. LRUList => LRUList'
  BY <1>1, <1>2 DEF LRUList, Shape, Full, ListTypeOK, First, Linked
<1>4. QED
  BY <1>1, <1>2, <1>3 DEF TablesInv, FrameTypesOK, TableTypesOK, Agree, EntriesOK

----------------------------------------------------------------------------
\* Tables on demand.

LEMMA InitOnDemand == Init => OnDemand
<1> SUFFICES ASSUME Init PROVE OnDemand
  OBVIOUS
<1>1. ToSet(recency) = {}
  BY DEF Init, SimInit, ToSet
<1>2. \A j \in Procs : Touched(j) = {} /\ {f \in FVpns : second[j][f]} = {}
                       /\ num2ndLevelPageTable[j] = 0
  BY <1>1 DEF Init, Touched
<1>3. IsFiniteSet({}) /\ Cardinality({}) = 0
  BY FS_EmptySet
<1>4. QED
  BY <1>2, <1>3 DEF OnDemand

\* What a reference touches.
LEMMA TouchedChanges ==
    ASSUME RoundInv, NEW vpn \in Vpns, References(vpn), NEW j \in Procs
    PROVE  Touched(j)' = IF j = turn THEN Touched(j) \cup {vpn[1]} ELSE Touched(j)
<1>1. ToSet(recency') = ToSet(recency) \cup {<<turn, vpn>>}
  BY ReferenceRecency DEF RoundInv, HistoryOK
<1> DEFINE page == <<turn, vpn>>
           of(S) == {q \in S : q[1] = j}
<1>2. page[1] = turn /\ page[2][1] = vpn[1]
  OBVIOUS
<1>. HIDE DEF page
<1>3. of(ToSet(recency')) = IF j = turn THEN of(ToSet(recency)) \cup {page} ELSE of(ToSet(recency))
  BY <1>1, <1>2 DEF page
<1>4. /\ Touched(j)' = {q[2][1] : q \in of(ToSet(recency'))}
      /\ Touched(j) = {q[2][1] : q \in of(ToSet(recency))}
  BY DEF Touched
<1>. HIDE DEF of
<1>5. QED
  BY <1>2, <1>3, <1>4

LEMMA ReferenceOnDemand ==
    ASSUME RoundInv, TablesInv, OnDemand, NEW vpn \in Vpns, Reference(vpn)
    PROVE  OnDemand'
<1>1. References(vpn) /\ (Hit(vpn) \/ Fault(vpn)) /\ turn \in Procs /\ vpn[1] \in FVpns
  BY TwoLevelAssumption DEF Reference, RoundInv
<1>2. \A j \in Procs :
         Touched(j)' = IF j = turn THEN Touched(j) \cup {vpn[1]} ELSE Touched(j)
  BY <1>1, TouchedChanges
<1>3. \A j \in Procs : IsFiniteSet(Touched(j))'
  <2>1. \A j \in Procs : IsFiniteSet(Touched(j)) /\ IsFiniteSet(Touched(j) \cup {vpn[1]})
    BY FS_AddElement DEF OnDemand
  <2>2. QED
    BY <1>2, <2>1
<1>4. second \in [Procs -> [FVpns -> BOOLEAN]] /\ num2ndLevelPageTable \in [Procs -> Nat]
  BY DEF TablesInv, TableTypesOK
<1>5. CASE second[turn][vpn[1]]
  <2>1. vpn[1] \in Touched(turn)
    <3>1. vpn[1] \in {f \in FVpns : second[turn][f]}
      BY <1>1, <1>5
    <3>2. QED
      BY <1>1, <3>1 DEF OnDemand
  <2>2. num2ndLevelPageTable' = num2ndLevelPageTable
    BY <1>1, <1>5 DEF Hit, Fault, AllocateSecond, tableVars
  <2>3. second' = second
    <3>1. second' = second \/ second' = [second EXCEPT ![turn][vpn[1]] = TRUE]
      BY <1>1 DEF Hit, Fault, AllocateSecond, tableVars
    <3>2. [second EXCEPT ![turn][vpn[1]] = TRUE] = second
      <4>1. second[turn] \in [FVpns -> BOOLEAN] /\ second[turn][vpn[1]] = TRUE
        BY <1>1, <1>4, <1>5
      <4>2. [second[turn] EXCEPT ![vpn[1]] = TRUE] = second[turn]
        BY <1>1, <4>1
      <4>3. QED
        BY <1>1, <1>4, <4>2
    <3>3. QED
      BY <3>1, <3>2
  <2>4. \A j \in Procs : Touched(j)' = Touched(j)
    BY <1>2, <2>1
  <2>5. QED
    BY <1>3, <2>2, <2>3, <2>4 DEF OnDemand
<1>6. CASE ~second[turn][vpn[1]]
  <2>1. /\ second' = [second EXCEPT ![turn][vpn[1]] = TRUE]
        /\ num2ndLevelPageTable' = [num2ndLevelPageTable EXCEPT ![turn] = @ + 1]
    BY <1>1, <1>6 DEF Hit, Present, Fault, AllocateSecond
  <2>2. vpn[1] \notin Touched(turn)
    BY <1>1, <1>6 DEF OnDemand
  <2>3. Cardinality(Touched(turn) \cup {vpn[1]}) = Cardinality(Touched(turn)) + 1
    BY <1>1, <2>2, FS_AddElement DEF OnDemand
  <2>4. ASSUME NEW j \in Procs
        PROVE  /\ {f \in FVpns : second'[j][f]} =
                     IF j = turn THEN {f \in FVpns : second[j][f]} \cup {vpn[1]}
                     ELSE {f \in FVpns : second[j][f]}
               /\ num2ndLevelPageTable'[j] = IF j = turn THEN num2ndLevelPageTable[j] + 1
                                             ELSE num2ndLevelPageTable[j]
    BY <1>1, <1>4, <2>1
  <2>5. ASSUME NEW j \in Procs
        PROVE  /\ {f \in FVpns : second'[j][f]} = Touched(j)'
               /\ num2ndLevelPageTable'[j] = Cardinality(Touched(j)')
    BY <1>1, <1>2, <2>3, <2>4 DEF OnDemand
  <2>6. QED
    BY <1>3, <2>5 DEF OnDemand
<1>7. QED
  BY <1>5, <1>6

LEMMA QuietOnDemand ==
    ASSUME OnDemand, UNCHANGED <<recency, tableVars>>
    PROVE  OnDemand'
  BY DEF OnDemand, Touched, tableVars

----------------------------------------------------------------------------
\* The steps.

LEMMA NextInv == IndInv /\ [Next]_vars => IndInv'
<1> SUFFICES ASSUME IndInv, [Next]_vars
             PROVE  IndInv'
  OBVIOUS
<1>. RoundInv /\ TablesInv /\ OnDemand
  BY DEF IndInv
<1>1. ASSUME NEW vpn \in Vpns, Reference(vpn)
      PROVE  IndInv'
  <2>. OnDemand'
    BY <1>1, ReferenceOnDemand
  <2>1. /\ References(vpn) /\ UNCHANGED maxLen /\ (Hit(vpn) \/ Fault(vpn))
        /\ <<turn, vpn>> \in Pages
    BY <1>1 DEF Reference, References, RoundInv, Pages
  <2>2. RoundInv'
    BY <2>1, ReferenceRounds DEF Hit, Fault
  <2>3. CASE Hit(vpn)
    BY <2>1, <2>2, <2>3, HitTables DEF IndInv
  <2>4. CASE Fault(vpn)
    <3>1. ~Present(turn, vpn) /\ AllocateSecond(vpn) /\ (Load(vpn) \/ Replace(vpn))
      BY <2>4 DEF Fault
    <3>2. <<turn, vpn>> \notin ValidPages
      BY <2>1, <3>1, AbsentIsInvalid
    <3>3. TablesInv'
      BY <2>1, <3>1, <3>2, LoadTables, ReplaceTables
    <3>4. QED
      BY <2>2, <3>3 DEF IndInv
  <2>5. QED
    BY <2>1, <2>3, <2>4
<1>2. CASE EndOfTrace
  <2>1. AtEnd /\ UNCHANGED <<maxLen, frameVars, tableVars>>
    BY <1>2 DEF EndOfTrace, AtEnd
  <2>2. QED
    BY <1>2, <2>1, EndRounds, QuietTables, QuietOnDemand DEF IndInv, AtEnd
<1>3. CASE UNCHANGED vars
  <2>1. UNCHANGED <<maxLen, frameVars, tableVars>>
    BY <1>3 DEF vars, simVars, frameVars
  <2>2. RoundInv'
    BY <1>3 DEF vars, simVars, RoundInv, HistoryOK, Pages
  <2>3. recency' = recency
    BY <1>3 DEF vars, simVars
  <2>4. QED
    BY <2>1, <2>2, <2>3, QuietTables, QuietOnDemand DEF IndInv
<1>4. CASE Stop /\ UNCHANGED tableVars
  BY <1>3, <1>4 DEF Stop, vars
<1>5. QED
  BY <1>1, <1>2, <1>3, <1>4 DEF Next

\* Tables, list and rounds are in order in every reachable state.
THEOREM TablesInvariant == Spec => []IndInv
<1>1. Init => IndInv
  BY InitTables, InitRounds, InitOnDemand DEF Init, IndInv
<1>2. QED
  BY <1>1, NextInv, PTL DEF Spec

----------------------------------------------------------------------------
\* The properties.

\* Every variable keeps to its type.
THEOREM TwoLevelTypesCorrect == Spec => []TypeOK
<1>1. ASSUME IndInv PROVE TypeOK
  <2>1. FrameTypesOK /\ RoundInv /\ TableTypesOK
    BY <1>1 DEF IndInv, TablesInv
  <2>2. ListTypeOK(list) /\ PHYMEMCOUNT \in 0 .. maxLen
    BY <1>1, <2>1 DEF IndInv, TablesInv, LRUList, Shape, FrameTypesOK
  <2>3. SimTypeOK
    BY <2>1, <2>2, SimTypes
  <2>4. QED
    BY <2>1, <2>3 DEF TableTypesOK, TypeOK
<1>2. QED
  BY <1>1, TablesInvariant, PTL

\* The entries of both levels and the loaded frames agree, and valid ones are in existing tables.
THEOREM TwoLevelTablesCorrect == Spec => []PageTableMatchesFrames
<1>1. IndInv => PageTableMatchesFrames
  BY DEF IndInv, TablesInv, Agree, EntriesOK, PageTableMatchesFrames
<1>2. QED
  BY <1>1, TablesInvariant, PTL

\* A second-level table is allocated for exactly the first-level entries referenced, once.
THEOREM TablesAllocatedOnce == Spec => []TablesOnDemand
<1>1. IndInv => TablesOnDemand
  BY DEF IndInv, OnDemand, Touched, TablesOnDemand
<1>2. QED
  BY <1>1, TablesInvariant, PTL

----------------------------------------------------------------------------
\* The simulation implements LRU.

\* The instance has operators on sequences of its own.
LEMMA SameOperators ==
    ASSUME NEW s, NEW e
    PROVE  Policy!ToSet(s) = ToSet(s) /\ Policy!RemoveFirst(s, e) = RemoveFirst(s, e)
<1>1. Policy!ToSet(s) = ToSet(s)
  BY DEF Policy!ToSet, ToSet
<1>2. /\ \A i : Policy!RemoveAt(s, i) = RemoveAt(s, i)
      /\ \A I : Policy!Min(I) = Min(I)
  BY Zenon DEF Policy!RemoveAt, RemoveAt, Policy!Min, Min
<1> DEFINE I == {i \in 1 .. Len(s) : s[i] = e}
<1>3. CASE I # {}
  <2>1. RemoveFirst(s, e) = RemoveAt(s, Min(I))
    BY <1>3 DEF RemoveFirst, SelectInSeq
  <2>2. Policy!RemoveFirst(s, e) = Policy!RemoveAt(s, Policy!Min(I))
    BY <1>3 DEF Policy!RemoveFirst, Policy!SelectInSeq
  <2>. HIDE DEF I
  <2>3. QED
    BY <1>1, <1>2, <2>1, <2>2, Zenon
<1>4. CASE I = {}
  <2>1. ~\E i \in 1 .. Len(s) : s[i] = e
    BY <1>4
  <2>2. RemoveFirst(s, e) = s /\ Policy!RemoveFirst(s, e) = s
    BY <2>1, Zenon DEF RemoveFirst, Policy!RemoveFirst
  <2>3. QED
    BY <1>1, <2>2
<1>5. QED
  BY <1>3, <1>4

LEMMA ListIsResident ==
    ASSUME IndInv, maxLen # 2
    PROVE  ToSet(ListedPages) = ValidPages
<1>1. FrameTypesOK /\ LRUList /\ ValidPages = {phyMem[f] : f \in Loaded}
  BY DEF IndInv, TablesInv, Agree
<1>2. \E s : InOrder(list, s)
  BY <1>1, OrderExists
<1>3. QED
  BY <1>1, <1>2, OrderedPages

LEMMA HitStep ==
    ASSUME IndInv, maxLen # 2, NEW vpn \in Vpns, References(vpn), Hit(vpn)
    PROVE  Policy!Hit(<<turn, vpn>>)
<1> DEFINE page == <<turn, vpn>>
           f == phyMemid[turn][vpn]
<1>1. /\ page \in ValidPages /\ turn \in Procs /\ recency \in Seq(Pages)
      /\ UNCHANGED <<maxLen, len, PHYMEMCOUNT, phyMem, numPageFault>>
      /\ numPageHit' = [numPageHit EXCEPT ![turn] = @ + 1]
      /\ list' = MoveToTail(list, f)
  BY DEF Hit, Present, ValidPages, Pages, IndInv, RoundInv, HistoryOK, CountHit, References
<1>2. LastReferenced' = page
  BY <1>1, ReferenceRecency
<1>3. f \in Loaded /\ phyMem[f] = page
  BY <1>1 DEF IndInv, TablesInv, EntriesOK
<1>. HIDE DEF f
<1>4. ListedPages' = Append(RemoveFirst(ListedPages, page), page)
  BY <1>1, <1>3, HitOrder DEF IndInv, TablesInv
<1>5. QED
  BY <1>1, <1>2, <1>4, ListIsResident, SameOperators DEF Policy!Hit, Policy!Resident

LEMMA FaultStep ==
    ASSUME IndInv, maxLen # 2, NEW vpn \in Vpns, References(vpn), Fault(vpn)
    PROVE  Policy!Load(<<turn, vpn>>) \/ Policy!Replace(<<turn, vpn>>)
<1> DEFINE page == <<turn, vpn>>
<1>1. /\ page \in Pages /\ turn \in Procs /\ recency \in Seq(Pages) /\ TablesInv
      /\ UNCHANGED <<maxLen, numPageHit>> /\ FrameTypesOK /\ LRUList /\ PHYMEMCOUNT = len
      /\ numPageFault' = [numPageFault EXCEPT ![turn] = @ + 1]
  BY DEF Fault, Pages, IndInv, TablesInv, RoundInv, HistoryOK, CountFault, References
<1>2. LastReferenced' = page
  BY <1>1, ReferenceRecency
<1>3. page \notin ValidPages
  BY <1>1, AbsentIsInvalid DEF Fault
<1>4. ~Policy!Resident(page)
  BY <1>3, ListIsResident, SameOperators DEF Policy!Resident
<1>5. ASSUME Load(vpn)
      PROVE  Len(ListedPages) < maxLen /\ ListedPages' = Append(ListedPages, page)
  BY <1>1, <1>5, LoadOrder DEF Load
<1>6. ASSUME Replace(vpn)
      PROVE  Len(ListedPages) = maxLen /\ ListedPages' = Append(Tail(ListedPages), page)
  BY <1>1, <1>6, ReplaceOrder DEF Replace
<1>7. Load(vpn) \/ Replace(vpn)
  BY DEF Fault
<1>8. QED
  BY <1>1, <1>2, <1>4, <1>5, <1>6, <1>7 DEF Policy!Load, Policy!Replace

LEMMA LRUStep == IndInv /\ [Next]_vars => [maxLen # 2 => Policy!Next]_(Policy!vars)
<1> SUFFICES ASSUME IndInv, [Next]_vars
             PROVE  [maxLen # 2 => Policy!Next]_(Policy!vars)
  OBVIOUS
<1>1. ASSUME NEW vpn \in Vpns, Reference(vpn), maxLen # 2
      PROVE  Policy!Next
  <2>1. References(vpn) /\ (Hit(vpn) \/ Fault(vpn)) /\ <<turn, vpn>> \in Pages
    BY <1>1 DEF Reference, IndInv, RoundInv, Pages
  <2>2. QED
    BY <1>1, <2>1, HitStep, FaultStep DEF Policy!Next
<1>2. ASSUME UNCHANGED <<maxLen, frameVars, numPageHit, numPageFault, recency>>
      PROVE  UNCHANGED Policy!vars
  BY <1>2 DEF Policy!vars, frameVars, ListedPages, LastReferenced
<1>3. QED
  BY <1>1, <1>2 DEF Next, EndOfTrace, AtEnd, Stop, vars, simVars, frameVars

LEMMA LRUInit == Init => Policy!Init
<1> SUFFICES ASSUME Init PROVE Policy!Init
  OBVIOUS
<1>1. /\ maxLen \in Nat \ {0} /\ numPageHit = [j \in Procs |-> 0]
      /\ numPageFault = [j \in Procs |-> 0]
  BY VMAssumption DEF Init, SimInit
<1>2. QED
  BY <1>1, EmptyOrder DEF Init, Policy!Init

\* Every step of the simulation is one of LRU over the pages of all processes,
\* unless there are two frames.
THEOREM LRURefinement == Spec => ImplementsLRU
<1>1. Init => Policy!Init
  BY LRUInit
<1>2. IndInv /\ [Next]_vars => [maxLen # 2 => Policy!Next]_(Policy!vars)
  BY LRUStep
<1>3. QED
  BY <1>1, <1>2, TablesInvariant, PTL DEF Spec, ImplementsLRU

============================================================================
