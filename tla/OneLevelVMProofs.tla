------------------------- MODULE OneLevelVMProofs --------------------------
(***************************************************************************)
(* Theorems about OneLevelVM, for every number of processes, frames and    *)
(* pages and traces of any length: the page tables and the frames agree,   *)
(* no NULL pointer is followed, the traces advance together, the frames    *)
(* are replaced as FIFO and LRU replace pages, and LRU keeps the pages     *)
(* referenced last.                                                        *)
(***************************************************************************)
EXTENDS OneLevelVM, VMSimProofs

----------------------------------------------------------------------------
\* The inductive invariant.

TableTypesOK ==
    /\ howRepl \in {"FIFO", "LRU"}
    /\ vaild \in [Procs -> [Vpns -> BOOLEAN]]
    /\ phyMemid \in [Procs -> [Vpns -> Frames \cup {-1}]]

\* FIFO uses the frames in turn; its list only has to lead to loaded frames.
FIFOList ==
    /\ ~Full => PHYMEMCOUNT = len
    /\ PHYMEMCOUNT \in Frames
    /\ ListTypeOK(list)
    /\ \A f \in Frames : list.next[f] \in IF f \in Loaded THEN Loaded \cup {Null} ELSE {Null}
    /\ IF len = 0 THEN list.tail = Header ELSE list.tail \in Loaded /\ First(list) \in Loaded

\* A valid entry names a loaded frame, under LRU that of its page.
EntriesOK ==
    howRepl = "LRU" => \A page \in ValidPages :
        LET f == phyMemid[page[1]][page[2]] IN f \in Loaded /\ phyMem[f] = page

TablesInv ==
    /\ FrameTypesOK /\ TableTypesOK
    /\ howRepl = "FIFO" => FIFOList
    /\ howRepl = "LRU" => LRUList /\ PHYMEMCOUNT = len
    /\ Agree(ValidPages, phyMem, Loaded)
    /\ EntriesOK

IndInv == RoundInv /\ TablesInv

LEMMA InitTables == Init => TablesInv
<1> SUFFICES ASSUME Init PROVE TablesInv
  OBVIOUS
<1>1. LRUList /\ FrameTypesOK /\ SimInit
  BY NewListShape DEF Init
<1>2. TableTypesOK /\ Loaded = {} /\ ValidPages = {}
  BY <1>1 DEF Init, SimInit, TableTypesOK, Loaded, ValidPages, Pages
<1>3. FIFOList
  BY <1>1, <1>2, NodesDiffer
  DEF FIFOList, LRUList, Shape, Init, SimInit, FrameTypesOK, Frames, Full, NewList
<1>4. QED
  BY <1>1, <1>2, <1>3 DEF TablesInv, Agree, EntriesOK, SimInit

----------------------------------------------------------------------------
\* The page tables.

\* Validating and invalidating an entry changes the set of valid pages by it.
LEMMA ValidChanges ==
    ASSUME TableTypesOK, NEW page \in Pages, NEW victim \in Pages
    PROVE  /\ vaild' = Validate(vaild, page) =>
                 /\ vaild' \in [Procs -> [Vpns -> BOOLEAN]]
                 /\ ValidPages' = ValidPages \cup {page}
           /\ vaild' = Validate(Invalidate(vaild, victim), page) =>
                 /\ vaild' \in [Procs -> [Vpns -> BOOLEAN]]
                 /\ ValidPages' = (ValidPages \ {victim}) \cup {page}
<1>1. /\ page[1] \in Procs /\ page[2] \in Vpns /\ victim[1] \in Procs /\ victim[2] \in Vpns
      /\ vaild \in [Procs -> [Vpns -> BOOLEAN]]
  BY DEF TableTypesOK, Pages
<1>2. \A q \in Pages : /\ q[1] \in Procs /\ q[2] \in Vpns
                       /\ q[1] = page[1] /\ q[2] = page[2] => q = page
                       /\ q[1] = victim[1] /\ q[2] = victim[2] => q = victim
  BY DEF Pages
<1>3. ASSUME vaild' = Validate(vaild, page)
      PROVE  /\ vaild' \in [Procs -> [Vpns -> BOOLEAN]]
             /\ ValidPages' = ValidPages \cup {page}
  <2>1. vaild' \in [Procs -> [Vpns -> BOOLEAN]]
    BY <1>1, <1>3 DEF Validate
  <2>2. \A q \in Pages : vaild'[q[1]][q[2]] <=> vaild[q[1]][q[2]] \/ q = page
    BY <1>1, <1>2, <1>3 DEF Validate
  <2>3. QED
    BY <2>1, <2>2 DEF ValidPages, Pages
<1>4. ASSUME vaild' = Validate(Invalidate(vaild, victim), page)
      PROVE  /\ vaild' \in [Procs -> [Vpns -> BOOLEAN]]
             /\ ValidPages' = (ValidPages \ {victim}) \cup {page}
  <2>1. vaild' \in [Procs -> [Vpns -> BOOLEAN]]
    BY <1>1, <1>4 DEF Validate, Invalidate
  <2>2. \A q \in Pages :
           vaild'[q[1]][q[2]] <=> (vaild[q[1]][q[2]] /\ q # victim) \/ q = page
    BY <1>1, <1>2, <1>4 DEF Validate, Invalidate
  <2>3. QED
    BY <2>1, <2>2 DEF ValidPages, Pages
<1>5. QED
  BY <1>3, <1>4

\* The frame fields after a frame came into use, and after one was reused.
LEMMA LoadFrame ==
    ASSUME TablesInv, ~Full, NEW page \in Pages, page \notin ValidPages, UNCHANGED maxLen,
           len' = len + 1, PHYMEMCOUNT = len, phyMem' = [phyMem EXCEPT ![PHYMEMCOUNT] = page],
           vaild' = Validate(vaild, page)
    PROVE  /\ FrameTypesOK' /\ Agree(ValidPages, phyMem, Loaded)'
           /\ vaild' \in [Procs -> [Vpns -> BOOLEAN]] /\ ValidPages' = ValidPages \cup {page}
           /\ Loaded' = Loaded \cup {len} /\ len \in Frames \ Loaded /\ Frames' = Frames
<1>1. /\ len \in Frames \ Loaded /\ Loaded' = Loaded \cup {len} /\ Frames' = Frames
      /\ Loaded \in SUBSET Frames /\ phyMem \in [Frames -> Pages \cup {NoPage}]
      /\ len' \in 0 .. maxLen'
  BY DEF TablesInv, FrameTypesOK, Full, Frames, Loaded
<1>2. vaild' \in [Procs -> [Vpns -> BOOLEAN]] /\ ValidPages' = ValidPages \cup {page}
  BY ValidChanges DEF TablesInv
<1>3. Agree(ValidPages \cup {page}, phyMem', Loaded \cup {len})
  BY <1>1, LoadAgrees DEF TablesInv
<1>4. QED
  BY <1>1, <1>2, <1>3 DEF TablesInv, FrameTypesOK, Agree

LEMMA ReuseFrame ==
    ASSUME TablesInv, NEW f \in Loaded, NEW page \in Pages, page \notin ValidPages,
           UNCHANGED <<maxLen, len>>, phyMem' = [phyMem EXCEPT ![f] = page],
           vaild' = Validate(Invalidate(vaild, phyMem[f]), page)
    PROVE  /\ FrameTypesOK' /\ Agree(ValidPages, phyMem, Loaded)'
           /\ vaild' \in [Procs -> [Vpns -> BOOLEAN]]
           /\ ValidPages' = (ValidPages \ {phyMem[f]}) \cup {page}
           /\ Loaded' = Loaded /\ Frames' = Frames /\ f \in Frames
<1>1. /\ Loaded' = Loaded /\ Frames' = Frames /\ f \in Frames
      /\ Loaded \in SUBSET Frames /\ phyMem \in [Frames -> Pages \cup {NoPage}]
  BY DEF TablesInv, FrameTypesOK, Frames, Loaded
<1>2. phyMem[f] \in ValidPages /\ phyMem[f] \in Pages
  BY DEF TablesInv, Agree, ValidPages
<1>3. /\ vaild' \in [Procs -> [Vpns -> BOOLEAN]]
      /\ ValidPages' = (ValidPages \ {phyMem[f]}) \cup {page}
  BY <1>2, ValidChanges DEF TablesInv
<1>4. Agree((ValidPages \ {phyMem[f]}) \cup {page}, phyMem', Loaded)
  BY <1>1, ReplaceAgrees DEF TablesInv
<1>5. QED
  BY <1>1, <1>3, <1>4 DEF TablesInv, FrameTypesOK, Agree

----------------------------------------------------------------------------
\* The steps.

\* FIFO's list operations.
LEMMA FIFOAppend ==
    ASSUME maxLen \in Nat, NEW l, ListTypeOK(l), NEW f \in Frames
    PROVE  /\ ListTypeOK(AppendForward(l, f)) /\ AppendForward(l, f).tail = f
           /\ AppendForward(l, f).next = [l.next EXCEPT ![l.tail] = f]
<1>1. ListTypeOK(AppendForward(l, f))
  BY DEF ListTypeOK, AppendForward
<1>2. AppendForward(l, f).tail = f /\ AppendForward(l, f).next = [l.next EXCEPT ![l.tail] = f]
  BY DEF ListTypeOK, AppendForward
<1>3. QED
  BY <1>1, <1>2

LEMMA FIFOPop ==
    ASSUME maxLen \in Nat, NEW l, ListTypeOK(l), First(l) \in Frames
    PROVE  /\ ListTypeOK(PopForward(l)) /\ PopForward(l).tail = l.tail
           /\ PopForward(l).next = IF l.next[First(l)] = Null THEN l.next
                                   ELSE [l.next EXCEPT ![Header] = l.next[First(l)],
                                                       ![First(l)] = Null]
<1>1. CASE l.next[First(l)] = Null
  BY <1>1 DEF PopForward
<1>2. CASE l.next[First(l)] # Null
  <2>1. ListTypeOK(PopForward(l)) /\ PopForward(l).tail = l.tail
    BY <1>2 DEF PopForward, ListTypeOK, First
  <2>2. PopForward(l).next = [l.next EXCEPT ![Header] = l.next[First(l)], ![First(l)] = Null]
    BY <1>2 DEF PopForward, ListTypeOK, First
  <2>3. QED
    BY <1>2, <2>1, <2>2
<1>3. QED
  BY <1>1, <1>2

LEMMA HitTables ==
    ASSUME TablesInv, RoundInv, NEW vpn \in Vpns, Hit(vpn), UNCHANGED <<maxLen, howRepl>>
    PROVE  TablesInv'
<1>1. /\ vaild[turn][vpn] /\ <<turn, vpn>> \in ValidPages /\ turn \in Procs
      /\ UNCHANGED <<maxLen, howRepl, len, PHYMEMCOUNT, phyMem, vaild, phyMemid>>
  BY DEF Hit, ValidPages, Pages, RoundInv, tableVars
<1>2. CASE howRepl = "LRU"
  <2>1. phyMemid[turn][vpn] \in Loaded
    BY <1>1, <1>2 DEF TablesInv, EntriesOK
  <2>2. LRUList'
    BY <1>1, <1>2, <2>1, HitKeepsList DEF TablesInv, Hit
  <2>3. QED
    BY <1>1, <1>2, <2>2 DEF TablesInv, FrameTypesOK, TableTypesOK, Agree, EntriesOK, ValidPages,
                            Loaded, Frames
<1>3. CASE howRepl = "FIFO"
  <2>1. list' = list
    BY <1>3 DEF Hit
  <2>2. FIFOList'
    BY <1>1, <1>3, <2>1 DEF TablesInv, FIFOList, Full, Frames, Loaded, ListTypeOK, First
  <2>3. QED
    BY <1>1, <1>3, <2>2 DEF TablesInv, FrameTypesOK, TableTypesOK, Agree, EntriesOK, ValidPages,
                            Loaded, Frames
<1>4. QED
  BY <1>2, <1>3 DEF TablesInv, TableTypesOK

LEMMA FIFOLoadTables ==
    ASSUME TablesInv, NEW vpn \in Vpns, <<turn, vpn>> \in Pages, ~vaild[turn][vpn],
           FIFOLoad(vpn), UNCHANGED <<maxLen, howRepl>>
    PROVE  TablesInv'
<1> DEFINE page == <<turn, vpn>>
<1>1. page \notin ValidPages
  BY DEF ValidPages
<1>2. /\ howRepl = "FIFO" /\ ~Full /\ FIFOList /\ PHYMEMCOUNT = len /\ phyMemid' = phyMemid
      /\ len' = len + 1 /\ phyMem' = [phyMem EXCEPT ![PHYMEMCOUNT] = page]
      /\ vaild' = Validate(vaild, page) /\ PHYMEMCOUNT' = Wrapped
      /\ maxLen \in Nat /\ len \in Nat /\ len < maxLen
  BY DEF FIFOLoad, TablesInv, FIFOList, FrameTypesOK, Full
<1>3. /\ FrameTypesOK' /\ Agree(ValidPages, phyMem, Loaded)'
      /\ vaild' \in [Procs -> [Vpns -> BOOLEAN]]
      /\ Loaded' = Loaded \cup {len} /\ len \in Frames \ Loaded /\ Frames' = Frames
  BY <1>1, <1>2, LoadFrame
<1>4. /\ ListTypeOK(list') /\ list'.tail = len
      /\ list'.next = [list.next EXCEPT ![list.tail] = len]
  <2>1. list' = AppendForward(list, len) /\ ListTypeOK(list)
    BY <1>2 DEF FIFOLoad, FIFOList
  <2>2. len \in Frames /\ maxLen \in Nat
    BY <1>2, <1>3
  <2>3. QED
    BY <2>1, <2>2, FIFOAppend
<1>5. /\ PHYMEMCOUNT' \in Frames' /\ (~Full' => PHYMEMCOUNT' = len')
  BY <1>2, <1>3 DEF Wrapped, Full, Frames
<1>6. \A f \in Frames :
         list'.next[f] \in IF f \in Loaded' THEN Loaded' \cup {Null} ELSE {Null}
  BY <1>2, <1>3, <1>4, NodesDiffer DEF FIFOList, ListTypeOK
<1>7. First(list)' \in Loaded'
  <2>1. CASE len = 0
    BY <1>2, <1>3, <1>4, <2>1 DEF FIFOList, ListTypeOK, First
  <2>2. CASE len # 0
    <3>1. list.tail # Header
      BY <1>2, <2>2, NodesDiffer DEF FIFOList, Loaded, Header
    <3>2. QED
      BY <1>2, <1>3, <1>4, <2>2, <3>1 DEF FIFOList, ListTypeOK, First
  <2>3. QED
    BY <2>1, <2>2
<1>8. FIFOList'
  BY <1>2, <1>3, <1>4, <1>5, <1>6, <1>7 DEF FIFOList, ListTypeOK
<1>9. QED
  BY <1>2, <1>3, <1>8 DEF TablesInv, TableTypesOK, EntriesOK

LEMMA FIFOReplaceTables ==
    ASSUME TablesInv, NEW vpn \in Vpns, <<turn, vpn>> \in Pages, ~vaild[turn][vpn],
           FIFOReplace(vpn), UNCHANGED <<maxLen, howRepl>>
    PROVE  TablesInv'
<1> DEFINE page == <<turn, vpn>>
           f == PHYMEMCOUNT
           popped == PopForward(list)
<1>1. page \notin ValidPages
  BY DEF ValidPages
<1>2. /\ howRepl = "FIFO" /\ Full /\ FIFOList /\ phyMemid' = phyMemid /\ len' = len
      /\ phyMem' = [phyMem EXCEPT ![f] = page]
      /\ vaild' = Validate(Invalidate(vaild, phyMem[f]), page) /\ PHYMEMCOUNT' = Wrapped
      /\ maxLen \in Nat /\ len = maxLen /\ len > 0
      /\ f \in Frames /\ Loaded = Frames
  BY DEF FIFOReplace, TablesInv, FIFOList, FrameTypesOK, Full, Loaded, Frames
<1>3. /\ FrameTypesOK' /\ Agree(ValidPages, phyMem, Loaded)'
      /\ vaild' \in [Procs -> [Vpns -> BOOLEAN]]
      /\ Loaded' = Loaded /\ Frames' = Frames
  BY <1>1, <1>2, ReuseFrame
<1>4. /\ First(list) \in Loaded /\ list.tail \in Loaded /\ ListTypeOK(list)
      /\ \A g \in Loaded : list.next[g] \in Loaded \cup {Null}
  BY <1>2 DEF FIFOList
<1>5. /\ ListTypeOK(popped) /\ popped.tail = list.tail
      /\ popped.next = IF list.next[First(list)] = Null THEN list.next
                       ELSE [list.next EXCEPT ![Header] = list.next[First(list)],
                                              ![First(list)] = Null]
  BY <1>2, <1>4, FIFOPop
<1>. HIDE DEF popped
<1>6. /\ ListTypeOK(list') /\ list'.tail = f
      /\ list'.next = [popped.next EXCEPT ![popped.tail] = f]
  BY <1>2, <1>5, FIFOAppend DEF FIFOReplace, popped
<1>7. First(popped) \in Loaded /\ \A g \in Loaded : popped.next[g] \in Loaded \cup {Null}
  BY <1>2, <1>4, <1>5, NodesDiffer DEF ListTypeOK, First
<1>8. First(list)' \in Loaded /\ \A g \in Loaded : list'.next[g] \in Loaded \cup {Null}
  BY <1>2, <1>4, <1>5, <1>6, <1>7, NodesDiffer DEF ListTypeOK, First
<1>9. PHYMEMCOUNT' \in Frames' /\ Full'
  BY <1>2, <1>3 DEF Wrapped, Full, Frames
<1>10. FIFOList'
  BY <1>2, <1>3, <1>6, <1>8, <1>9 DEF FIFOList, ListTypeOK
<1>11. QED
  BY <1>2, <1>3, <1>10 DEF TablesInv, TableTypesOK, EntriesOK

\* Under LRU the entry that becomes valid names the frame, the other valid ones keep theirs.
LEMMA EntriesChange ==
    ASSUME TablesInv, howRepl = "LRU", NEW page \in Pages, NEW f \in Frames,
           UNCHANGED <<howRepl, maxLen>>,
           phyMem' = [phyMem EXCEPT ![f] = page],
           phyMemid' = [phyMemid EXCEPT ![page[1]][page[2]] = f],
           Loaded \cup {f} \subseteq Loaded',
           \A q \in ValidPages' : q = page \/ (q \in ValidPages /\ (f \in Loaded => q # phyMem[f]))
    PROVE  EntriesOK' /\ phyMemid' \in [Procs -> [Vpns -> Frames \cup {-1}]]
<1>1. /\ phyMemid \in [Procs -> [Vpns -> Frames \cup {-1}]]
      /\ phyMem \in [Frames -> Pages \cup {NoPage}] /\ Loaded \subseteq Frames
      /\ page[1] \in Procs /\ page[2] \in Vpns
  BY DEF TablesInv, TableTypesOK, FrameTypesOK, Loaded, Frames, Pages
<1>2. phyMemid' \in [Procs -> [Vpns -> Frames \cup {-1}]]
  BY <1>1
<1>3. phyMemid'[page[1]][page[2]] = f /\ phyMem'[f] = page /\ f \in Loaded'
  BY <1>1
<1>4. ASSUME NEW q \in ValidPages', q # page
      PROVE  phyMemid'[q[1]][q[2]] \in Loaded' /\ phyMem'[phyMemid'[q[1]][q[2]]] = q
  <2> DEFINE g == phyMemid[q[1]][q[2]]
  <2>1. q \in ValidPages /\ (f \in Loaded => q # phyMem[f])
    BY <1>4
  <2>2. g \in Loaded /\ phyMem[g] = q
    BY <2>1 DEF TablesInv, EntriesOK
  <2>3. q[1] \in Procs /\ q[2] \in Vpns /\ ~(q[1] = page[1] /\ q[2] = page[2])
    BY <1>4, <2>1 DEF ValidPages, Pages
  <2>4. phyMemid'[q[1]][q[2]] = g
    BY <1>1, <2>3
  <2>5. g # f /\ phyMem'[g] = phyMem[g]
    BY <1>1, <2>1, <2>2
  <2>6. QED
    BY <2>2, <2>4, <2>5
<1>5. QED
  BY <1>2, <1>3, <1>4 DEF EntriesOK

LEMMA LRULoadTables ==
    ASSUME TablesInv, NEW vpn \in Vpns, <<turn, vpn>> \in Pages, ~vaild[turn][vpn],
           LRULoad(vpn), UNCHANGED <<maxLen, howRepl>>
    PROVE  TablesInv'
<1> DEFINE page == <<turn, vpn>>
<1>1. page \notin ValidPages
  BY DEF ValidPages
<1>2. /\ howRepl = "LRU" /\ ~Full /\ PHYMEMCOUNT = len /\ len' = len + 1
      /\ phyMem' = [phyMem EXCEPT ![PHYMEMCOUNT] = page] /\ TakeFrame(page)
      /\ vaild' = Validate(vaild, page) /\ PHYMEMCOUNT' = PHYMEMCOUNT + 1
      /\ phyMemid' = [phyMemid EXCEPT ![page[1]][page[2]] = len]
  BY DEF LRULoad, TakeFrame, TablesInv
<1>3. /\ FrameTypesOK' /\ Agree(ValidPages, phyMem, Loaded)'
      /\ vaild' \in [Procs -> [Vpns -> BOOLEAN]] /\ ValidPages' = ValidPages \cup {page}
      /\ Loaded' = Loaded \cup {len} /\ len \in Frames \ Loaded /\ Frames' = Frames
  BY <1>1, <1>2, LoadFrame
<1>4. LRUList'
  BY <1>2, LoadKeepsList DEF TablesInv
<1>5. EntriesOK' /\ phyMemid' \in [Procs -> [Vpns -> Frames \cup {-1}]]
  BY <1>2, <1>3, EntriesChange
<1>6. QED
  BY <1>2, <1>3, <1>4, <1>5 DEF TablesInv, TableTypesOK

LEMMA LRUReplaceTables ==
    ASSUME TablesInv, NEW vpn \in Vpns, <<turn, vpn>> \in Pages, ~vaild[turn][vpn],
           LRUReplace(vpn), UNCHANGED <<maxLen, howRepl>>
    PROVE  TablesInv'
<1> DEFINE page == <<turn, vpn>>
           f == First(list)
<1>1. page \notin ValidPages
  BY DEF ValidPages
<1>2. /\ howRepl = "LRU" /\ PHYMEMCOUNT = len /\ UNCHANGED <<len, PHYMEMCOUNT>>
      /\ phyMem' = [phyMem EXCEPT ![f] = page] /\ ReuseFirst(page)
      /\ vaild' = Validate(Invalidate(vaild, phyMem[f]), page)
      /\ phyMemid' = [phyMemid EXCEPT ![page[1]][page[2]] = f]
  BY DEF LRUReplace, ReuseFirst, TablesInv
<1>3. LRUList' /\ f \in Loaded
  BY <1>2, ReplaceKeepsList DEF TablesInv
<1>. HIDE DEF f
<1>4. /\ FrameTypesOK' /\ Agree(ValidPages, phyMem, Loaded)'
      /\ vaild' \in [Procs -> [Vpns -> BOOLEAN]]
      /\ ValidPages' = (ValidPages \ {phyMem[f]}) \cup {page}
      /\ Loaded' = Loaded /\ Frames' = Frames /\ f \in Frames
  BY <1>1, <1>2, <1>3, ReuseFrame
<1>5. EntriesOK' /\ phyMemid' \in [Procs -> [Vpns -> Frames \cup {-1}]]
  <2>1. /\ page \in Pages /\ ValidPages' = (ValidPages \ {phyMem[f]}) \cup {page}
        /\ phyMem' = [phyMem EXCEPT ![f] = page]
        /\ phyMemid' = [phyMemid EXCEPT ![page[1]][page[2]] = f]
    BY <1>2, <1>4
  <2>. HIDE DEF page
  <2>2. Loaded \cup {f} \subseteq Loaded'
    BY <1>3, <1>4
  <2>3. \A q \in ValidPages' : q = page \/ (q \in ValidPages /\ (f \in Loaded => q # phyMem[f]))
    BY <2>1
  <2>4. howRepl = "LRU" /\ UNCHANGED <<howRepl, maxLen>> /\ f \in Frames
    BY <1>2, <1>4
  <2>5. QED
    BY <2>1, <2>2, <2>3, <2>4, EntriesChange
<1>6. QED
  BY <1>2, <1>3, <1>4, <1>5 DEF TablesInv, TableTypesOK

LEMMA QuietTables ==
    ASSUME TablesInv, UNCHANGED <<maxLen, frameVars, howRepl, tableVars>>
    PROVE  TablesInv'
<1>1. UNCHANGED <<maxLen, len, list, PHYMEMCOUNT, phyMem, howRepl, vaild, phyMemid>>
  BY DEF frameVars, tableVars
<1>2. Frames' = Frames /\ Loaded' = Loaded /\ ValidPages' = ValidPages
  BY <1>1 DEF Frames, Loaded, ValidPages
<1>3. FIFOList => FIFOList'
  BY <1>1, <1>2 DEF FIFOList, Full, ListTypeOK, First
<1>4. LRUList => LRUList'
  BY <1>1, <1>2 DEF LRUList, Shape, Full, ListTypeOK, First, Linked
<1>5. QED
  BY <1>1, <1>2, <1>3, <1>4 DEF TablesInv, FrameTypesOK, TableTypesOK, Agree, EntriesOK

LEMMA NextInv == IndInv /\ [Next]_vars => IndInv'
<1> SUFFICES ASSUME IndInv, [Next]_vars
             PROVE  IndInv'
  OBVIOUS
<1>. RoundInv /\ TablesInv
  BY DEF IndInv
<1>1. ASSUME NEW vpn \in Vpns, Reference(vpn)
      PROVE  IndInv'
  <2>1. /\ References(vpn) /\ UNCHANGED <<maxLen, howRepl>> /\ (Hit(vpn) \/ Fault(vpn))
        /\ <<turn, vpn>> \in Pages
    BY <1>1 DEF Reference, References, RoundInv, Pages
  <2>2. CountHit \/ CountFault
    BY <2>1 DEF Hit, Fault
  <2>3. RoundInv'
    BY <2>1, <2>2, ReferenceRounds
  <2>4. CASE Hit(vpn)
    BY <2>1, <2>3, <2>4, HitTables DEF IndInv
  <2>5. CASE Fault(vpn)
    <3>1. ~vaild[turn][vpn]
      BY <2>5 DEF Fault
    <3>2. TablesInv'
      BY <2>1, <2>5, <3>1, FIFOLoadTables, FIFOReplaceTables, LRULoadTables, LRUReplaceTables
      DEF Fault
    <3>3. QED
      BY <2>3, <3>2 DEF IndInv
  <2>6. QED
    BY <2>1, <2>4, <2>5
<1>2. CASE EndOfTrace
  <2>1. AtEnd /\ UNCHANGED <<maxLen, frameVars, howRepl, tableVars>>
    BY <1>2 DEF EndOfTrace, AtEnd
  <2>2. QED
    BY <2>1, EndRounds, QuietTables DEF IndInv
<1>3. CASE UNCHANGED vars
  <2>1. UNCHANGED <<maxLen, frameVars, howRepl, tableVars>>
    BY <1>3 DEF vars, simVars, frameVars
  <2>2. RoundInv'
    BY <1>3 DEF vars, simVars, RoundInv, HistoryOK, Pages
  <2>3. QED
    BY <2>1, <2>2, QuietTables DEF IndInv
<1>4. CASE Stop /\ UNCHANGED <<howRepl, tableVars>>
  BY <1>3, <1>4 DEF Stop, vars
<1>5. QED
  BY <1>1, <1>2, <1>3, <1>4 DEF Next

\* Types, tables, list and rounds are in order in every reachable state.
THEOREM TablesInvariant == Spec => []IndInv
<1>1. Init => IndInv
  BY InitTables, InitRounds DEF Init, IndInv
<1>2. QED
  BY <1>1, NextInv, PTL DEF Spec

----------------------------------------------------------------------------
\* The properties.

\* Every variable keeps to its type.
THEOREM TypesCorrect == Spec => []TypeOK
<1>1. ASSUME IndInv PROVE TypeOK
  <2>1. FrameTypesOK /\ RoundInv /\ TableTypesOK
    BY <1>1 DEF IndInv, TablesInv
  <2>2. ListTypeOK(list) /\ PHYMEMCOUNT \in 0 .. maxLen
    <3>1. CASE howRepl = "LRU"
      BY <1>1, <2>1, <3>1 DEF IndInv, TablesInv, LRUList, Shape, FrameTypesOK
    <3>2. CASE howRepl = "FIFO"
      BY <1>1, <2>1, <3>2 DEF IndInv, TablesInv, FIFOList, Frames, FrameTypesOK
    <3>3. QED
      BY <2>1, <3>1, <3>2 DEF TableTypesOK
  <2>3. SimTypeOK
    BY <2>1, <2>2, SimTypes
  <2>4. QED
    BY <2>1, <2>3 DEF TableTypesOK, TypeOK
<1>2. QED
  BY <1>1, TablesInvariant, PTL

\* The page tables of all processes and the loaded frames agree.
THEOREM TablesCorrect == Spec => []PageTableMatchesFrames
<1>1. IndInv => PageTableMatchesFrames
  BY DEF IndInv, TablesInv, Agree, EntriesOK, PageTableMatchesFrames
<1>2. QED
  BY <1>1, TablesInvariant, PTL

\* The list operations follow no NULL pointer.
THEOREM ListCorrect == Spec => []NoNullDereference
<1>1. ASSUME IndInv PROVE NoNullDereference
  <2>1. CASE howRepl = "LRU"
    BY <1>1, <2>1, ListFollowed DEF IndInv, TablesInv, NoNullDereference
  <2>2. CASE howRepl = "FIFO"
    BY <1>1, <2>2 DEF IndInv, TablesInv, FIFOList, FrameTypesOK, NoNullDereference
  <2>3. QED
    BY <1>1, <2>1, <2>2 DEF IndInv, TablesInv, TableTypesOK
<1>2. QED
  BY <1>1, TablesInvariant, PTL

\* The traces advance together, and every reference is counted once.
THEOREM RoundsCorrect == Spec => []RoundsAreFair
<1>1. ASSUME IndInv PROVE RoundsAreFair
  <2>1. PICK b \in Nat : \A j \in Procs : ntraces[j] \in {b, b + 1}
    BY <1>1 DEF IndInv, RoundInv
  <2>2. \A j, k \in Procs : ntraces[j] - ntraces[k] \in -1 .. 1
    BY <2>1
  <2>3. QED
    BY <1>1, <2>2 DEF IndInv, RoundInv, RoundsAreFair
<1>2. QED
  BY <1>1, TablesInvariant, PTL

----------------------------------------------------------------------------
\* Replacement.

\* Frame numbers go on at 0 after the last one.
Around(k) == IF k < maxLen THEN k ELSE k - maxLen

(***************************************************************************)
(* FIFO's list leads through the loaded frames from the one that was       *)
(* loaded first, which is the one PHYMEMCOUNT takes next: the list and the *)
(* counter agree although neither is read to set the other.                *)
(***************************************************************************)
InTurn(s) ==
    /\ InOrder(list, s)
    /\ s # << >> => list.tail = s[len] /\ (maxLen > 1 => list.next[s[len]] = Null)
    /\ \A i \in 1 .. len : s[i] = Around((IF Full THEN PHYMEMCOUNT ELSE 0) + i - 1)

FIFOOrder == howRepl = "FIFO" => \E s : InTurn(s)

\* Another state of the variables InTurn reads.
InTurnAgain(s) ==
    /\ Listed(list', s, maxLen) /\ Distinct(s) /\ ToSet(s) = Loaded' /\ Len(s) = len'
    /\ s # << >> => list'.tail = s[len'] /\ (maxLen > 1 => list'.next[s[len']] = Null)
    /\ \A i \in 1 .. len' : s[i] = Around((IF len' = maxLen THEN PHYMEMCOUNT' ELSE 0) + i - 1)

LEMMA OrderAgain ==
    ASSUME UNCHANGED <<maxLen, howRepl>>, NEW s, InTurnAgain(s)
    PROVE  FIFOOrder'
<1>1. maxLen' = maxLen /\ Frames' = Frames
  BY DEF Frames
<1>2. InOrder(list, s)'
  BY <1>1 DEF InTurnAgain, InOrder, Listed, First, Distinct
<1>3. (s # << >> => list.tail = s[len] /\ (maxLen > 1 => list.next[s[len]] = Null))'
  BY <1>1 DEF InTurnAgain
<1>4. (\A i \in 1 .. len : s[i] = Around((IF Full THEN PHYMEMCOUNT ELSE 0) + i - 1))'
  BY <1>1 DEF InTurnAgain, Around, Full
<1>5. InTurn(s)'
  BY <1>2, <1>3, <1>4 DEF InTurn
<1>6. QED
  BY <1>5 DEF FIFOOrder

\* The element of a sequence without repetition that is put at its end.
LEMMA AppendedSeq ==
    ASSUME NEW s \in Seq(Frames), Distinct(s), NEW e \in Frames \ ToSet(s)
    PROVE  /\ Append(s, e) \in Seq(Frames) /\ Len(Append(s, e)) = Len(s) + 1
           /\ Append(s, e)[Len(s) + 1] = e /\ \A i \in 1 .. Len(s) : Append(s, e)[i] = s[i]
           /\ Distinct(Append(s, e)) /\ ToSet(Append(s, e)) = ToSet(s) \cup {e}
<1> DEFINE t == Append(s, e)
           n == Len(s)
<1>1. /\ t \in Seq(Frames) /\ Len(t) = n + 1 /\ t[n + 1] = e /\ n \in Nat
      /\ \A i \in 1 .. n : t[i] = s[i] /\ s[i] # e
      /\ DOMAIN s = 1 .. n /\ DOMAIN t = 1 .. n + 1
  BY DEF ToSet
<1>. HIDE DEF t
<1>2. \A i \in 1 .. n + 1 : i \in 1 .. n \/ i = n + 1
  BY <1>1
<1>3. Distinct(t)
  BY <1>1, <1>2 DEF Distinct
<1>4. ToSet(t) = ToSet(s) \cup {e}
  BY <1>1, <1>2 DEF ToSet
<1>5. QED
  BY <1>1, <1>3, <1>4 DEF t

\* A page that comes to an unused frame goes to the end of the order.
LEMMA FIFOLoadOrder ==
    ASSUME TablesInv, NEW s, InTurn(s), NEW vpn \in Vpns, FIFOLoad(vpn),
           UNCHANGED <<maxLen, howRepl>>
    PROVE  /\ FIFOOrder'
           /\ Len(ListedPages) < maxLen /\ ListedPages' = Append(ListedPages, <<turn, vpn>>)
<1> DEFINE t == Append(s, len)
<1>1. /\ ~Full /\ PHYMEMCOUNT = len /\ FIFOList /\ FrameTypesOK
      /\ maxLen \in Nat /\ len \in Nat /\ len < maxLen /\ len \in Frames \ Loaded
      /\ len' = len + 1 /\ list' = AppendForward(list, len) /\ PHYMEMCOUNT' = Wrapped
      /\ phyMem' = [phyMem EXCEPT ![len] = <<turn, vpn>>]
      /\ Loaded' = Loaded \cup {len} /\ phyMem \in [Frames -> Pages \cup {NoPage}]
  BY DEF FIFOLoad, TablesInv, FIFOList, FrameTypesOK, Full, Frames, Loaded
<1>2. /\ s \in Seq(Frames) /\ Distinct(s) /\ ToSet(s) = Loaded /\ Len(s) = len
      /\ Listed(list, s, maxLen) /\ \A i \in 1 .. len : s[i] = i - 1
  BY <1>1 DEF InTurn, InOrder, Listed, Around
<1>3. /\ list'.tail = len /\ list'.next = [list.next EXCEPT ![list.tail] = len]
      /\ ListTypeOK(list) /\ list.next[len] = Null
  BY <1>1, FIFOAppend DEF FIFOList
<1>4. /\ t \in Seq(Frames) /\ Len(t) = len' /\ t[len'] = len /\ t # << >>
      /\ \A i \in 1 .. len : t[i] = s[i]
      /\ Distinct(t) /\ ToSet(t) = Loaded'
  <2>1. len \in Frames \ ToSet(s) /\ s \in Seq(Frames) /\ Distinct(s) /\ Len(s) = len
    BY <1>1, <1>2
  <2>2. /\ t \in Seq(Frames) /\ Len(t) = Len(s) + 1 /\ t[Len(s) + 1] = len
        /\ \A i \in 1 .. Len(s) : t[i] = s[i]
    BY <2>1, AppendedSeq
  <2>3. Distinct(t) /\ ToSet(t) = ToSet(s) \cup {len}
    BY <2>1, AppendedSeq, Zenon
  <2>. HIDE DEF t
  <2>4. QED
    BY <1>1, <1>2, <2>2, <2>3
<1>. HIDE DEF t
<1>5. Listed(list', t, maxLen) /\ list'.next[len] = Null
  <2>1. CASE len = 0
    <3>1. list.tail = Header /\ list'.next = [list.next EXCEPT ![Header] = len]
      BY <1>1, <1>3, <2>1 DEF FIFOList
    <3>2. list'.next[Header] = len /\ list'.next[len] = Null
      BY <1>1, <1>3, <3>1, NodesDiffer DEF ListTypeOK
    <3>3. QED
      BY <1>1, <1>4, <2>1, <3>2 DEF Listed, First
  <2>2. CASE len > 0
    <3>1. /\ s # << >> /\ list.tail = s[len] /\ len \in 1 .. len
          /\ \A i \in 1 .. len : s[i] \in Frames /\ s[i] # len /\ s[i] # Header /\ s[i] # Null
          /\ Header # len /\ \A i \in 1 .. len - 1 : i \in 1 .. len /\ s[i] # s[len]
      BY <1>1, <1>2, <2>2, NodesDiffer DEF InTurn
    <3>2. /\ list'.next[Header] = list.next[Header] /\ list'.next[s[len]] = len
          /\ list'.next[len] = Null
          /\ \A i \in 1 .. len - 1 : list'.next[s[i]] = list.next[s[i]]
      BY <1>1, <1>3, <3>1 DEF ListTypeOK
    <3>3. First(list') = t[1]
      BY <1>2, <1>4, <2>2, <3>1, <3>2 DEF Listed, First
    <3>4. ASSUME NEW i \in 1 .. len' - 1 PROVE list'.next[t[i]] = t[i + 1]
      <4>1. CASE i = len
        BY <1>1, <1>4, <3>1, <3>2, <4>1
      <4>2. CASE i \in 1 .. len - 1
        <5>1. i \in 1 .. len /\ i + 1 \in 1 .. len
          BY <1>1, <4>2
        <5>2. QED
          BY <1>2, <1>4, <3>2, <4>2, <5>1 DEF Listed
      <4>3. QED
        BY <1>1, <4>1, <4>2
    <3>5. Len(t) <= maxLen
      BY <1>1, <1>4
    <3>6. QED
      BY <1>4, <3>2, <3>3, <3>4, <3>5 DEF Listed
  <2>3. QED
    BY <1>1, <2>1, <2>2
<1>6. ASSUME NEW i \in 1 .. len'
      PROVE  t[i] = Around((IF len' = maxLen THEN PHYMEMCOUNT' ELSE 0) + i - 1)
  <2>1. (IF len' = maxLen THEN PHYMEMCOUNT' ELSE 0) = 0
    BY <1>1 DEF Wrapped
  <2>2. t[i] = i - 1
    <3>1. i \in 1 .. len \/ i = len'
      BY <1>1
    <3>2. QED
      BY <1>1, <1>2, <1>4, <3>1
  <2> DEFINE first == IF len' = maxLen THEN PHYMEMCOUNT' ELSE 0
  <2>3. first = 0
    BY <2>1
  <2>. HIDE DEF first
  <2>4. i - 1 = Around(first + i - 1)
    BY <1>1, <2>3 DEF Around
  <2>5. QED
    BY <2>2, <2>4 DEF first
<1>7. InTurnAgain(t)
  BY <1>3, <1>4, <1>5, <1>6 DEF InTurnAgain
<1>8. ListedPages = PagesOf(phyMem, s) /\ ListedPages' = PagesOf(phyMem', t)
  BY <1>1, <1>2, <1>5, PagesListed
<1>9. PagesOf(phyMem', t) = Append(PagesOf(phyMem, s), <<turn, vpn>>)
  <2>1. /\ len \in Frames \ ToSet(s) /\ s \in Seq(Frames)
        /\ phyMem \in [Frames -> Pages \cup {NoPage}]
    BY <1>1, <1>2
  <2>2. PagesOf([phyMem EXCEPT ![len] = <<turn, vpn>>], Append(s, len))
           = Append(PagesOf(phyMem, s), <<turn, vpn>>)
    BY <2>1, PagesAppended, Zenon
  <2>3. QED
    BY <1>1, <2>2 DEF t
<1>10. Len(ListedPages) = len
  BY <1>1, OrderedPages DEF InTurn
<1>11. QED
  BY <1>1, <1>7, <1>8, <1>9, <1>10, OrderAgain

\* FIFO's replacement moves the first frame of the list to the end.
LEMMA FIFORequeue ==
    ASSUME TablesInv, NEW s, InTurn(s), howRepl = "FIFO", Full,
           list' = AppendForward(PopForward(list), PHYMEMCOUNT)
    PROVE  /\ Listed(list', MovedToEnd(s, 1), maxLen)
           /\ list'.tail = s[1] /\ (maxLen > 1 => list'.next[s[1]] = Null)
           /\ s[1] = PHYMEMCOUNT
<1> DEFINE popped == PopForward(list)
           t == MovedToEnd(s, 1)
<1>1. /\ maxLen \in Nat /\ len = maxLen /\ len > 0 /\ ListTypeOK(list) /\ Loaded = Frames
      /\ PHYMEMCOUNT \in Frames /\ First(list) \in Loaded
      /\ \A f \in Loaded : list.next[f] \in Loaded \cup {Null}
  BY DEF TablesInv, FIFOList, FrameTypesOK, Full, Loaded, Frames
<1>2. /\ s \in Seq(Frames) /\ Distinct(s) /\ Len(s) = len /\ s # << >>
      /\ Listed(list, s, maxLen) /\ list.tail = s[len]
      /\ 1 \in 1 .. len /\ First(list) = s[1]
  BY <1>1 DEF InTurn, InOrder, Listed
<1>3. s[1] = PHYMEMCOUNT
  <2>1. s[1] = Around(PHYMEMCOUNT + 1 - 1)
    BY <1>2 DEF InTurn
  <2>2. QED
    BY <1>1, <2>1 DEF Around, Frames
<1>4. /\ t \in Seq(Frames) /\ Len(t) = len
      /\ \A j \in 1 .. len : t[j] = IF j < len THEN s[j + 1] ELSE s[1]
  <2>1. t \in Seq(Frames) /\ Len(t) = Len(s)
    BY <1>2, MovedIsSeq
  <2>2. QED
    BY <1>2, <2>1 DEF MovedToEnd
<1>5. /\ ListTypeOK(popped) /\ popped.tail = list.tail
      /\ popped.next = IF list.next[s[1]] = Null THEN list.next
                       ELSE [list.next EXCEPT ![Header] = list.next[s[1]], ![s[1]] = Null]
  BY <1>1, <1>2, FIFOPop
<1>6. list'.tail = s[1] /\ list'.next = [popped.next EXCEPT ![s[len]] = s[1]]
  BY <1>1, <1>2, <1>3, <1>5, FIFOAppend
<1>. HIDE DEF popped, t
<1>7. CASE len = 1
  <2>1. Frames = {s[1]}
    BY <1>1, <1>2, <1>7 DEF Frames, Loaded
  <2>2. popped.next[Header] = s[1]
    BY <1>1, <1>2, <1>5, <2>1, NodesDiffer DEF ListTypeOK, First
  <2>3. list'.next[Header] = s[1]
    BY <1>1, <1>2, <1>5, <1>6, <1>7, <2>1, <2>2, NodesDiffer DEF ListTypeOK
  <2>4. t[1] = s[1] /\ t # << >>
    BY <1>2, <1>4, <1>7
  <2>5. Listed(list', t, maxLen)
    BY <1>1, <1>4, <1>7, <2>3, <2>4 DEF Listed, First
  <2>6. QED
    BY <1>1, <1>3, <1>6, <1>7, <2>5 DEF t
<1>8. CASE len > 1
  <2>1. /\ \A j \in 1 .. len : s[j] \in Frames /\ s[j] # Header /\ s[j] # Null
        /\ 2 \in 1 .. len /\ len \in 1 .. len /\ s[1] # s[len]
    BY <1>1, <1>2, <1>8, NodesDiffer DEF Distinct
  <2>2. list.next[s[1]] = s[2]
    <3>1. 1 \in 1 .. len - 1 /\ 1 + 1 = 2
      BY <1>1, <1>8
    <3>2. QED
      BY <1>2, <3>1 DEF Listed
  <2>3. popped.next = [list.next EXCEPT ![Header] = s[2], ![s[1]] = Null]
    BY <1>5, <2>1, <2>2
  <2>4. /\ list'.next[Header] = s[2] /\ list'.next[s[1]] = Null /\ list'.next[s[len]] = s[1]
        /\ \A j \in 1 .. len : j # 1 /\ j # len => list'.next[s[j]] = list.next[s[j]]
    <3>1. popped.next[Header] = s[2] /\ popped.next[s[1]] = Null
      BY <1>1, <1>2, <2>1, <2>3 DEF ListTypeOK
    <3>2. \A j \in 1 .. len : j # 1 => popped.next[s[j]] = list.next[s[j]]
      BY <1>1, <1>2, <2>1, <2>3 DEF ListTypeOK, Distinct
    <3>3. QED
      BY <1>1, <1>2, <1>5, <1>6, <2>1, <3>1, <3>2 DEF ListTypeOK, Distinct
  <2>5. First(list') = t[1] /\ t # << >>
    BY <1>1, <1>4, <1>8, <2>1, <2>4 DEF First
  <2>6. ASSUME NEW j \in 1 .. len - 1 PROVE list'.next[t[j]] = t[j + 1]
    <3>1. /\ j \in 1 .. len /\ j + 1 \in 1 .. len /\ j < len /\ j + 1 # 1
          /\ t[j] = s[j + 1] /\ t[j + 1] = IF j + 1 < len THEN s[j + 1 + 1] ELSE s[1]
      BY <1>1, <1>4
    <3>2. CASE j + 1 = len
      BY <2>4, <3>1, <3>2
    <3>3. CASE j + 1 < len
      <4>1. j + 1 \in 1 .. len - 1
        BY <1>1, <3>3
      <4>2. list.next[s[j + 1]] = s[j + 1 + 1]
        BY <1>2, <4>1 DEF Listed
      <4>3. QED
        BY <2>4, <3>1, <3>3, <4>2
    <3>4. QED
      BY <1>1, <3>2, <3>3
  <2>7. Listed(list', t, maxLen)
    BY <1>1, <1>4, <2>5, <2>6 DEF Listed
  <2>8. QED
    BY <1>3, <1>6, <2>4, <2>7 DEF t
<1>9. QED
  BY <1>1, <1>7, <1>8

LEMMA FIFOReplaceOrder ==
    ASSUME TablesInv, NEW s, InTurn(s), NEW vpn \in Vpns, FIFOReplace(vpn),
           UNCHANGED <<maxLen, howRepl>>
    PROVE  /\ FIFOOrder'
           /\ Len(ListedPages) = maxLen /\ ListedPages' = Append(Tail(ListedPages), <<turn, vpn>>)
<1> DEFINE t == MovedToEnd(s, 1)
<1>1. /\ howRepl = "FIFO" /\ Full /\ FrameTypesOK /\ len' = len
      /\ maxLen \in Nat /\ len = maxLen /\ len > 0 /\ Loaded' = Loaded
      /\ PHYMEMCOUNT \in 0 .. maxLen - 1 /\ PHYMEMCOUNT' = Wrapped
      /\ phyMem' = [phyMem EXCEPT ![PHYMEMCOUNT] = <<turn, vpn>>]
      /\ phyMem \in [Frames -> Pages \cup {NoPage}]
      /\ list' = AppendForward(PopForward(list), PHYMEMCOUNT)
  BY DEF FIFOReplace, TablesInv, FIFOList, FrameTypesOK, Full, Frames, Loaded
<1>2. /\ s \in Seq(Frames) /\ Distinct(s) /\ Len(s) = len /\ ToSet(s) = Loaded
      /\ Listed(list, s, maxLen) /\ 1 \in 1 .. Len(s)
      /\ \A i \in 1 .. len : s[i] = Around(PHYMEMCOUNT + i - 1)
  BY <1>1 DEF InTurn, InOrder, Listed
<1>3. /\ Listed(list', t, maxLen) /\ list'.tail = s[1]
      /\ (maxLen > 1 => list'.next[s[1]] = Null) /\ s[1] = PHYMEMCOUNT
  BY <1>1, FIFORequeue
<1>4. /\ Distinct(t) /\ ToSet(t) = Loaded /\ Len(t) = len
      /\ \A j \in 1 .. len : t[j] = IF j < len THEN s[j + 1] ELSE s[1]
  <2>1. Distinct(t) /\ ToSet(t) = Loaded /\ Len(t) = Len(s)
    BY <1>2, MovedIsSeq
  <2>2. QED
    BY <1>2, <2>1 DEF MovedToEnd
<1>. HIDE DEF t
<1>5. ASSUME NEW i \in 1 .. len
      PROVE  t[i] = Around(PHYMEMCOUNT' + i - 1)
  <2>1. CASE i < len
    <3>1. i + 1 \in 1 .. len /\ t[i] = Around(PHYMEMCOUNT + (i + 1) - 1)
      BY <1>1, <1>2, <1>4, <2>1
    <3>2. QED
      BY <1>1, <2>1, <3>1 DEF Around, Wrapped
  <2>2. CASE i = len
    <3>1. t[i] = PHYMEMCOUNT
      BY <1>3, <1>4, <2>2
    <3>2. QED
      BY <1>1, <2>2, <3>1 DEF Around, Wrapped
  <2>3. QED
    BY <1>1, <2>1, <2>2
<1>6. t[len] = s[1] /\ len \in 1 .. len
  BY <1>1, <1>4
<1>7. InTurnAgain(t)
  BY <1>1, <1>3, <1>4, <1>5, <1>6 DEF InTurnAgain
<1>8. ListedPages = PagesOf(phyMem, s) /\ ListedPages' = PagesOf(phyMem', t)
  BY <1>1, <1>2, <1>3, PagesListed
<1>9. PagesOf(phyMem', t) = Append(Tail(PagesOf(phyMem, s)), <<turn, vpn>>)
  BY <1>1, <1>2, <1>3, PagesReplaced DEF t
<1>10. Len(ListedPages) = len
  BY <1>1, OrderedPages DEF InTurn
<1>11. QED
  BY <1>1, <1>7, <1>8, <1>9, <1>10, OrderAgain

----------------------------------------------------------------------------
\* The simulation implements the policy.

\* The steps for which it does.
Replaces == howRepl = "FIFO" \/ maxLen # 2

\* The instance has operators on sequences of its own.
LEMMA SameOperators ==
    ASSUME NEW s, NEW e
    PROVE  Policy!ToSet(s) = ToSet(s) /\ Policy!RemoveFirst(s, e) = RemoveFirst(s, e)
<1>1. Policy!ToSet(s) = ToSet(s)
  BY DEF Policy!ToSet, ToSet
<1>2. /\ \A i : Policy!RemoveAt(s, i) = RemoveAt(s, i)
      /\ \A I : Policy!Min(I) = Min(I)
  BY Zenon DEF Policy!RemoveAt, RemoveAt, Policy!Min, Min
<1> DEFINE I == {i \in 1 .. Len(s) : s[i] = e}
<1>3. CASE I # {}
  <2>1. RemoveFirst(s, e) = RemoveAt(s, Min(I))
    BY <1>3 DEF RemoveFirst, SelectInSeq
  <2>2. Policy!RemoveFirst(s, e) = Policy!RemoveAt(s, Policy!Min(I))
    BY <1>3 DEF Policy!RemoveFirst, Policy!SelectInSeq
  <2>. HIDE DEF I
  <2>3. QED
    BY <1>1, <1>2, <2>1, <2>2, Zenon
<1>4. CASE I = {}
  <2>1. ~\E i \in 1 .. Len(s) : s[i] = e
    BY <1>4
  <2>2. RemoveFirst(s, e) = s /\ Policy!RemoveFirst(s, e) = s
    BY <2>1, Zenon DEF RemoveFirst, Policy!RemoveFirst
  <2>3. QED
    BY <1>1, <2>2
<1>5. QED
  BY <1>3, <1>4

LEMMA ListIsResident ==
    ASSUME IndInv, FIFOOrder, Replaces
    PROVE  ToSet(ListedPages) = ValidPages
<1>1. FrameTypesOK /\ ValidPages = {phyMem[f] : f \in Loaded} /\ howRepl \in {"FIFO", "LRU"}
  BY DEF IndInv, TablesInv, TableTypesOK, Agree
<1>2. \E s : InOrder(list, s)
  <2>1. CASE howRepl = "FIFO"
    BY <2>1 DEF FIFOOrder, InTurn
  <2>2. CASE howRepl = "LRU"
    BY <1>1, <2>2, OrderExists DEF Replaces, IndInv, TablesInv
  <2>3. QED
    BY <1>1, <2>1, <2>2
<1>3. QED
  BY <1>1, <1>2, OrderedPages

\* What FIFO's order and the policy's see does not change.
LEMMA QuietOrder ==
    ASSUME FIFOOrder, UNCHANGED <<maxLen, len, list, PHYMEMCOUNT, phyMem, howRepl>>
    PROVE  FIFOOrder' /\ ListedPages' = ListedPages
<1>1. Frames' = Frames /\ Loaded' = Loaded
  BY DEF Frames, Loaded
<1>2. ASSUME NEW s, InTurn(s), howRepl = "FIFO" PROVE FIFOOrder'
  <2>1. InTurnAgain(s)
    BY <1>1, <1>2 DEF InTurn, InOrder, InTurnAgain, Full
  <2>2. QED
    BY <2>1, OrderAgain
<1>3. FIFOOrder'
  BY <1>2 DEF FIFOOrder
<1>4. ListedPages' = ListedPages
  BY DEF ListedPages
<1>5. QED
  BY <1>3, <1>4

LEMMA HitStep ==
    ASSUME IndInv, FIFOOrder, NEW vpn \in Vpns, References(vpn), Hit(vpn), UNCHANGED howRepl
    PROVE  FIFOOrder' /\ (Replaces => Policy!Hit(<<turn, vpn>>))
<1> DEFINE page == <<turn, vpn>>
<1>1. /\ page \in ValidPages /\ page \in Pages /\ turn \in Procs
      /\ howRepl \in {"FIFO", "LRU"} /\ recency \in Seq(Pages)
      /\ UNCHANGED <<maxLen, len, PHYMEMCOUNT, phyMem, numPageFault>>
      /\ numPageHit' = [numPageHit EXCEPT ![turn] = @ + 1]
  BY DEF Hit, ValidPages, Pages, IndInv, TablesInv, TableTypesOK, RoundInv, HistoryOK, CountHit,
         References
<1>2. LastReferenced' = page
  BY <1>1, ReferenceRecency
<1>3. CASE howRepl = "FIFO"
  <2>1. FIFOOrder' /\ ListedPages' = ListedPages
    BY <1>1, <1>3, QuietOrder DEF Hit
  <2>2. QED
    BY <1>1, <1>2, <1>3, <2>1, ListIsResident, SameOperators DEF Policy!Hit, Policy!Resident
<1>4. CASE howRepl = "LRU"
  <2>1. FIFOOrder'
    BY <1>4 DEF FIFOOrder
  <2>2. ASSUME Replaces PROVE Policy!Hit(page)
    <3> DEFINE f == phyMemid[turn][vpn]
    <3>1. f \in Loaded /\ phyMem[f] = page
      BY <1>1, <1>4 DEF IndInv, TablesInv, EntriesOK
    <3>2. list' = MoveToTail(list, f) /\ maxLen # 2
      BY <1>4, <2>2 DEF Hit, Replaces
    <3>. HIDE DEF f
    <3>3. ListedPages' = Append(RemoveFirst(ListedPages, page), page)
      BY <1>1, <1>4, <3>1, <3>2, HitOrder DEF IndInv, TablesInv
    <3>4. QED
      BY <1>1, <1>2, <1>4, <2>2, <3>3, ListIsResident, SameOperators
      DEF Policy!Hit, Policy!Resident
  <2>3. QED
    BY <2>1, <2>2
<1>5. QED
  BY <1>1, <1>3, <1>4

LEMMA FaultStep ==
    ASSUME IndInv, FIFOOrder, NEW vpn \in Vpns, References(vpn), Fault(vpn), UNCHANGED howRepl
    PROVE  /\ FIFOOrder'
           /\ Replaces => Policy!Load(<<turn, vpn>>) \/ Policy!Replace(<<turn, vpn>>)
<1> DEFINE page == <<turn, vpn>>
<1>1. /\ page \notin ValidPages /\ page \in Pages /\ turn \in Procs
      /\ howRepl \in {"FIFO", "LRU"} /\ recency \in Seq(Pages)
      /\ UNCHANGED <<maxLen, numPageHit>> /\ FrameTypesOK /\ TablesInv
      /\ numPageFault' = [numPageFault EXCEPT ![turn] = @ + 1]
  BY DEF Fault, ValidPages, Pages, IndInv, TablesInv, TableTypesOK, RoundInv, HistoryOK,
         CountFault, References
<1>2. LastReferenced' = page
  BY <1>1, ReferenceRecency
<1>3. ASSUME Replaces,
             \/ Len(ListedPages) < maxLen /\ ListedPages' = Append(ListedPages, page)
             \/ Len(ListedPages) = maxLen /\ ListedPages' = Append(Tail(ListedPages), page)
      PROVE  Policy!Load(page) \/ Policy!Replace(page)
  <2>1. ~Policy!Resident(page)
    BY <1>1, <1>3, ListIsResident, SameOperators DEF Policy!Resident
  <2>2. QED
    BY <1>1, <1>2, <1>3, <2>1 DEF Policy!Load, Policy!Replace
<1>4. ASSUME NEW s, InTurn(s), FIFOLoad(vpn)
      PROVE  /\ FIFOOrder'
             /\ Len(ListedPages) < maxLen /\ ListedPages' = Append(ListedPages, page)
  BY <1>1, <1>4, FIFOLoadOrder
<1>5. ASSUME NEW s, InTurn(s), FIFOReplace(vpn)
      PROVE  /\ FIFOOrder'
             /\ Len(ListedPages) = maxLen /\ ListedPages' = Append(Tail(ListedPages), page)
  BY <1>1, <1>5, FIFOReplaceOrder
<1>6. CASE howRepl = "FIFO"
  <2>1. FIFOLoad(vpn) \/ FIFOReplace(vpn)
    BY <1>6 DEF Fault, LRULoad, LRUReplace
  <2>2. QED
    BY <1>3, <1>4, <1>5, <1>6, <2>1 DEF FIFOOrder
<1>7. CASE howRepl = "LRU"
  <2>1. FIFOOrder'
    BY <1>7 DEF FIFOOrder
  <2>2. LRULoad(vpn) \/ LRUReplace(vpn)
    BY <1>7 DEF Fault, FIFOLoad, FIFOReplace
  <2>3. LRUList /\ PHYMEMCOUNT = len /\ (Replaces => maxLen # 2)
    BY <1>1, <1>7 DEF TablesInv, Replaces
  <2>4. ASSUME LRULoad(vpn), Replaces
        PROVE  Len(ListedPages) < maxLen /\ ListedPages' = Append(ListedPages, page)
    BY <1>1, <2>3, <2>4, LoadOrder DEF LRULoad
  <2>5. ASSUME LRUReplace(vpn), Replaces
        PROVE  Len(ListedPages) = maxLen /\ ListedPages' = Append(Tail(ListedPages), page)
    BY <1>1, <2>3, <2>5, ReplaceOrder DEF LRUReplace
  <2>6. QED
    BY <1>3, <2>1, <2>2, <2>4, <2>5
<1>8. QED
  BY <1>1, <1>6, <1>7

LEMMA PolicyStep ==
    IndInv /\ FIFOOrder /\ [Next]_vars =>
        FIFOOrder' /\ [howRepl = "FIFO" \/ maxLen # 2 => Policy!Next]_(Policy!vars)
<1> SUFFICES ASSUME IndInv, FIFOOrder, [Next]_vars
             PROVE  FIFOOrder' /\ [Replaces => Policy!Next]_(Policy!vars)
  BY DEF Replaces
<1>1. ASSUME NEW vpn \in Vpns, Reference(vpn)
      PROVE  FIFOOrder' /\ (Replaces => Policy!Next)
  <2>1. References(vpn) /\ UNCHANGED howRepl /\ (Hit(vpn) \/ Fault(vpn)) /\ <<turn, vpn>> \in Pages
    BY <1>1 DEF Reference, IndInv, RoundInv, Pages
  <2>2. QED
    BY <2>1, HitStep, FaultStep DEF Policy!Next
<1>2. ASSUME UNCHANGED <<maxLen, frameVars, howRepl, numPageHit, numPageFault, recency>>
      PROVE  FIFOOrder' /\ UNCHANGED Policy!vars
  <2>1. FIFOOrder' /\ ListedPages' = ListedPages
    BY <1>2, QuietOrder DEF frameVars
  <2>2. LastReferenced' = LastReferenced
    BY <1>2 DEF LastReferenced
  <2>3. QED
    BY <1>2, <2>1, <2>2 DEF Policy!vars
<1>3. QED
  BY <1>1, <1>2 DEF Next, EndOfTrace, AtEnd, Stop, vars, simVars, frameVars

LEMMA PolicyInit == Init => FIFOOrder /\ Policy!Init
<1> SUFFICES ASSUME Init PROVE FIFOOrder /\ Policy!Init
  OBVIOUS
<1>1. /\ maxLen \in Nat \ {0} /\ len = 0
      /\ howRepl \in {"FIFO", "LRU"} /\ numPageHit = [j \in Procs |-> 0]
      /\ numPageFault = [j \in Procs |-> 0]
  BY VMAssumption DEF Init, SimInit
<1>2. InOrder(list, << >>) /\ ListedPages = << >>
  BY EmptyOrder DEF Init
<1>3. InTurn(<< >>)
  BY <1>1, <1>2 DEF InTurn
<1>4. QED
  BY <1>1, <1>2, <1>3 DEF FIFOOrder, Policy!Init

\* Every step of the simulation is one of FIFO or of LRU over the pages of all
\* processes, for LRU unless there are two frames.
THEOREM PolicyRefinement == Spec => ImplementsPolicy
<1>1. Init => FIFOOrder /\ Policy!Init
  BY PolicyInit
<1>2. IndInv /\ FIFOOrder /\ [Next]_vars =>
         FIFOOrder' /\ [howRepl = "FIFO" \/ maxLen # 2 => Policy!Next]_(Policy!vars)
  BY PolicyStep
<1>3. QED
  BY <1>1, <1>2, TablesInvariant, PTL DEF Spec, ImplementsPolicy

----------------------------------------------------------------------------
\* LRU keeps the pages that were referenced last.

\* With two frames the list loses one of them.
RecentInv == howRepl = "LRU" => RecentOrder

LEMMA ListedSeq ==
    ASSUME IndInv, FIFOOrder, Replaces
    PROVE  ListedPages \in Seq(Pages) /\ Len(ListedPages) = len
<1>1. ToSet(ListedPages) = ValidPages
  BY ListIsResident
<1>2. FrameTypesOK /\ \E s : InOrder(list, s)
  <2>1. CASE howRepl = "FIFO"
    BY <2>1 DEF FIFOOrder, InTurn, IndInv, TablesInv
  <2>2. CASE howRepl = "LRU"
    BY <2>2, OrderExists DEF Replaces, IndInv, TablesInv
  <2>3. QED
    BY <2>1, <2>2 DEF IndInv, TablesInv, TableTypesOK
<1>3. ListedPages \in Seq(Pages \cup {NoPage}) /\ Len(ListedPages) = len
  BY <1>2, OrderedPages
<1>4. \A i \in 1 .. Len(ListedPages) : ListedPages[i] \in Pages
  BY <1>1, <1>3 DEF ToSet, ValidPages
<1>5. QED
  BY <1>3, <1>4

LEMMA RecentStep ==
    ASSUME 2 \notin FrameCounts, IndInv, FIFOOrder, RecentInv, [Next]_vars
    PROVE  RecentInv'
<1>1. /\ Replaces /\ recency \in Seq(Pages) /\ ListedPages \in Seq(Pages)
      /\ Len(ListedPages) = len
  <2>1. Replaces
    BY DEF Replaces, IndInv, TablesInv, FrameTypesOK
  <2>2. QED
    BY <2>1, ListedSeq DEF IndInv, RoundInv, HistoryOK
<1>2. ASSUME NEW vpn \in Vpns, Reference(vpn), howRepl = "LRU"
      PROVE  RecentOrder'
  <2> DEFINE page == <<turn, vpn>>
  <2>1. /\ References(vpn) /\ UNCHANGED <<howRepl, maxLen>> /\ page \in Pages
        /\ recency' = Append(RemoveFirst(recency, page), page) /\ RecentOrder
        /\ Hit(vpn) \/ Fault(vpn)
    BY <1>2 DEF Reference, References, IndInv, RoundInv, Pages, RecentInv
  <2>2. CASE Hit(vpn)
    <3>1. Policy!Hit(page)
      BY <1>1, <2>1, <2>2, HitStep
    <3>2. /\ page \in ToSet(ListedPages)
          /\ ListedPages' = Append(RemoveFirst(ListedPages, page), page)
      BY <1>2, <3>1, SameOperators DEF Policy!Hit, Policy!Resident
    <3>3. len' = len
      BY <2>2 DEF Hit
    <3>4. QED
      BY <1>1, <2>1, <3>2, <3>3, RecentHit
  <2>3. CASE Fault(vpn)
    <3>1. Policy!Load(page) \/ Policy!Replace(page)
      BY <1>1, <2>1, <2>3, FaultStep
    <3>2. page \notin ToSet(ListedPages)
      BY <3>1, SameOperators DEF Policy!Load, Policy!Replace, Policy!Resident
    <3>3. CASE Policy!Load(page)
      <4>1. ~Full /\ ListedPages' = Append(ListedPages, page)
        BY <1>1, <3>3 DEF Policy!Load, Full, IndInv, TablesInv, FrameTypesOK
      <4>2. QED
        BY <1>1, <2>1, <3>2, <4>1, RecentLoad
    <3>4. CASE Policy!Replace(page)
      <4>1. Full /\ ListedPages' = Append(Tail(ListedPages), page)
        BY <1>1, <3>4 DEF Policy!Replace, Full
      <4>2. len' = len
        BY <1>2, <2>3, <4>1 DEF Fault, FIFOLoad, FIFOReplace, LRULoad, TakeFrame, LRUReplace,
                                ReuseFirst
      <4>3. ListedPages # << >>
        BY <1>1, <4>1 DEF Full, IndInv, TablesInv, FrameTypesOK
      <4>4. QED
        BY <1>1, <2>1, <3>2, <4>1, <4>2, <4>3, RecentReplace
    <3>5. QED
      BY <3>1, <3>3, <3>4
  <2>4. QED
    BY <2>1, <2>2, <2>3
<1>3. ASSUME UNCHANGED <<maxLen, frameVars, howRepl, recency>>
      PROVE  RecentInv'
  <2>1. UNCHANGED <<maxLen, len, list, phyMem, howRepl, recency>>
    BY <1>3 DEF frameVars
  <2>2. ListedPages' = ListedPages
    BY <2>1 DEF ListedPages
  <2>3. QED
    BY <2>1, <2>2 DEF RecentInv, RecentOrder, Full, Distinct
<1>4. ASSUME NEW vpn \in Vpns, Reference(vpn) PROVE RecentInv'
  <2>1. howRepl' = howRepl
    BY <1>4 DEF Reference
  <2>2. QED
    BY <1>2, <1>4, <2>1 DEF RecentInv
<1>5. QED
  BY <1>3, <1>4 DEF Next, EndOfTrace, AtEnd, Stop, vars, simVars, frameVars

LEMMA RecentInit == Init => RecentInv
<1> SUFFICES ASSUME Init PROVE RecentOrder
  BY DEF RecentInv
<1>1. recency = << >> /\ ListedPages = << >>
  BY EmptyOrder DEF Init, SimInit
<1>2. << >> \in Seq(Pages) /\ << >> = << >> \o << >>
  OBVIOUS
<1>3. Distinct(recency)
  BY <1>1 DEF Distinct
<1>4. QED
  BY <1>1, <1>2, <1>3 DEF RecentOrder

\* Unless there may be two frames, the pages in the frames are the ones that
\* were referenced last.
THEOREM MostRecentKept ==
    ASSUME 2 \notin FrameCounts
    PROVE  Spec => []LRUKeepsMostRecent
<1>1. Init => FIFOOrder /\ RecentInv
  BY PolicyInit, RecentInit
<1>2. IndInv /\ FIFOOrder /\ RecentInv /\ [Next]_vars => FIFOOrder' /\ RecentInv'
  BY PolicyStep, RecentStep
<1>3. ASSUME IndInv, FIFOOrder, RecentInv PROVE LRUKeepsMostRecent
  <2>1. Replaces /\ FrameTypesOK /\ recency \in Seq(Pages)
    BY <1>3 DEF Replaces, IndInv, TablesInv, FrameTypesOK, RoundInv, HistoryOK
  <2>2. ListedPages \in Seq(Pages) /\ Len(ListedPages) = len /\ ToSet(ListedPages) = ValidPages
    BY <1>3, <2>1, ListedSeq, ListIsResident
  <2>3. QED
    BY <1>3, <2>1, <2>2, RecentPages DEF LRUKeepsMostRecent, RecentInv
<1>4. QED
  BY <1>1, <1>2, <1>3, TablesInvariant, PTL DEF Spec

============================================================================
