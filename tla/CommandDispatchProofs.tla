----------------------- MODULE CommandDispatchProofs -----------------------
(***************************************************************************)
(* The search of CommandDispatch finds the row a name stands for, for      *)
(* every table and every name.                                             *)
(***************************************************************************)
EXTENDS CommandDispatch, TLAPS

DispatchOK == DispatchTypeOK /\ DispatchInv

LEMMA TableRows == Len(Table) \in Nat /\ Rows = 1..Len(Table)
  BY DispatchAssumption DEF Rows

LEMMA Sets == \A a : Exact(a) \subseteq Candidates(a) /\ Candidates(a) \subseteq Rows
  BY DEF Exact, Candidates

LEMMA DispatchStarts == DispatchInit => DispatchOK
<1>. SUFFICES ASSUME DispatchInit PROVE DispatchOK
  OBVIOUS
<1>1. DispatchTypeOK
  BY TableRows DEF DispatchInit, DispatchTypeOK
<1>. QED  BY <1>1 DEF DispatchOK, DispatchInit, DispatchInv, DispatchedAsNamed

LEMMA RequestKeeps ==
  ASSUME DispatchOK, NEW name, Request(name)
  PROVE  DispatchOK'
<1>. USE DEF DispatchOK, Request
<1>1. DispatchTypeOK'
  BY TableRows DEF DispatchTypeOK
<1>2. Before(argv0)' = {}
  BY TableRows, Sets DEF Before
<1>3. Counted'
  BY <1>2 DEF Counted
<1>. QED  BY <1>1, <1>3 DEF DispatchInv, DispatchedAsNamed

LEMMA CompareKeeps ==
  ASSUME DispatchOK, Compare
  PROVE  DispatchOK'
<1>1. /\ dpc = "scan" /\ row \in Candidates(argv0) /\ row \in Rows
      /\ match' = row /\ argv0' = argv0 /\ Counted /\ DispatchTypeOK
  BY Sets DEF Compare, DispatchOK, DispatchInv
<1>2. CASE row \in Exact(argv0)
  <2>1. dpc' = "chosen" /\ count' = 1 /\ row' = row
    BY <1>2 DEF Compare
  <2>2. DispatchTypeOK'
    BY <1>1, <2>1, TableRows DEF DispatchTypeOK
  <2>3. row' \in Exact(argv0') /\ (Before(argv0) \cap Exact(argv0) = {})'
    BY <1>1, <1>2, <2>1 DEF Counted, Before
  <2>. QED  BY <1>1, <2>1, <2>2, <2>3 DEF DispatchOK, DispatchInv, DispatchedAsNamed
<1>3. CASE row \notin Exact(argv0)
  <2>1. dpc' = "scan" /\ row' = row + 1 /\ count' = count + 1
    BY <1>1, <1>3 DEF Compare
  <2>2. DispatchTypeOK'
    BY <1>1, <2>1, TableRows DEF DispatchTypeOK, Counted
  <2>3. Before(argv0)' = Before(argv0) \cup {row}
    BY <1>1, <2>1, TableRows, Sets DEF Before, DispatchTypeOK
  <2>4. row \notin Before(argv0)
    BY <1>1, TableRows DEF Before
  <2>5. Counted'
    <3>1. (Before(argv0) \cap Exact(argv0))' = {}
      BY <1>1, <1>3, <2>3 DEF Counted
    <3>2. count' > 1 => \E i, j \in Before(argv0)' : i # j
      <4>1. SUFFICES ASSUME count' > 1 PROVE \E i \in Before(argv0) : TRUE
        BY <2>3, <2>4
      <4>2. count \in Nat /\ count > 0
        BY <4>1, <2>1, <1>1, TableRows DEF DispatchTypeOK
      <4>3. CASE count = 1
        BY <4>3, <1>1 DEF Counted
      <4>4. CASE count > 1
        BY <4>4, <1>1 DEF Counted
      <4>. QED  BY <4>2, <4>3, <4>4
    <3>3. count' = 1 => Before(argv0)' = {match'}
      BY <1>1, <2>1, <2>3 DEF Counted, DispatchTypeOK
    <3>4. count' # 0 /\ count' < row'
      BY <1>1, <2>1, TableRows DEF Counted, DispatchTypeOK
    <3>. QED  BY <3>1, <3>2, <3>3, <3>4 DEF Counted
  <2>. QED  BY <2>1, <2>2, <2>5 DEF DispatchOK, DispatchInv, DispatchedAsNamed
<1>. QED  BY <1>2, <1>3

LEMMA PassOverKeeps ==
  ASSUME DispatchOK, PassOver
  PROVE  DispatchOK'
<1>1. /\ dpc = "scan" /\ row \in Rows /\ row \notin Candidates(argv0) /\ row' = row + 1
      /\ dpc' = dpc /\ argv0' = argv0 /\ match' = match /\ count' = count
      /\ Counted /\ DispatchTypeOK
  BY DEF PassOver, DispatchOK, DispatchInv
<1>2. DispatchTypeOK'
  BY <1>1, TableRows DEF DispatchTypeOK
<1>3. Before(argv0)' = Before(argv0)
  BY <1>1, TableRows, Sets DEF Before
<1>4. Counted'
  BY <1>1, <1>3, TableRows DEF Counted, DispatchTypeOK
<1>. QED  BY <1>1, <1>2, <1>4 DEF DispatchOK, DispatchInv, DispatchedAsNamed

LEMMA EndOfTableKeeps ==
  ASSUME DispatchOK, EndOfTable
  PROVE  DispatchOK'
<1>1. /\ row \notin Rows /\ dpc' = "chosen" /\ Counted /\ DispatchTypeOK
      /\ argv0' = argv0 /\ row' = row /\ match' = match /\ count' = count
  BY DEF EndOfTable, DispatchOK, DispatchInv
<1>2. DispatchTypeOK' /\ Counted'
  BY <1>1 DEF DispatchTypeOK, Counted, Before
<1>. QED  BY <1>1, <1>2 DEF DispatchOK, DispatchInv, DispatchedAsNamed

\* The case the search is for: what it has counted decides whether the name
\* stands for a row, and for which.
LEMMA ChooseKeeps ==
  ASSUME DispatchOK, Choose
  PROVE  DispatchOK'
<1>1. /\ dpc = "chosen" /\ dpc' = (IF count = 1 THEN "handler" ELSE "refused")
      /\ argv0' = argv0 /\ row' = row /\ match' = match /\ count' = count
      /\ DispatchTypeOK
  BY DEF Choose, DispatchOK
<1>2. DispatchTypeOK'
  BY <1>1 DEF DispatchTypeOK
<1>3. CASE row \notin Rows /\ Counted
  <2>1. Before(argv0) = Candidates(argv0)
    <3>1. \A i \in Rows : i < row
      BY <1>1, <1>3, TableRows DEF DispatchTypeOK
    <3>. QED  BY <3>1, Sets DEF Before
  <2>2. Exact(argv0) = {}
    BY <1>3, <2>1, Sets DEF Counted
  <2>3. count = 1 => StandsFor(argv0, match)
    BY <1>3, <2>1, <2>2 DEF Counted, StandsFor
  <2>4. count # 1 => \A i \in Rows : ~StandsFor(argv0, i)
    BY <1>1, <1>3, <2>1, <2>2 DEF Counted, StandsFor, DispatchTypeOK
  <2>5. DispatchedAsNamed'
    BY <1>1, <2>3, <2>4 DEF DispatchedAsNamed
  <2>. QED  BY <1>1, <1>2, <2>2, <2>5 DEF DispatchOK, DispatchInv
<1>4. CASE /\ row \in Exact(argv0) /\ Before(argv0) \cap Exact(argv0) = {}
           /\ match = row /\ count = 1
  <2>1. \A j \in Exact(argv0) : row <= j
    BY <1>1, <1>4, TableRows, Sets DEF Before, DispatchTypeOK
  <2>2. StandsFor(argv0, match)
    BY <1>4, <2>1 DEF StandsFor
  <2>3. DispatchedAsNamed'
    BY <1>1, <1>4, <2>2 DEF DispatchedAsNamed
  <2>. QED  BY <1>1, <1>2, <1>4, <2>3 DEF DispatchOK, DispatchInv
<1>. QED  BY <1>1, <1>3, <1>4 DEF DispatchOK, DispatchInv

LEMMA ReturnKeeps ==
  ASSUME DispatchOK, Return
  PROVE  DispatchOK'
<1>1. DispatchTypeOK'
  BY DEF DispatchOK, DispatchTypeOK, Return
<1>. QED  BY <1>1 DEF DispatchOK, Return, DispatchInv, DispatchedAsNamed

LEMMA SearchKeeps ==
  ASSUME DispatchOK, Search
  PROVE  DispatchOK'
  BY CompareKeeps, PassOverKeeps, EndOfTableKeeps, ChooseKeeps DEF Search

LEMMA DispatchStutters ==
  ASSUME DispatchOK, UNCHANGED dispatchVars
  PROVE  DispatchOK'
  BY DEF DispatchOK, DispatchTypeOK, DispatchInv, DispatchedAsNamed, Counted, Before,
         dispatchVars
============================================================================
