--------------------------- MODULE DiftFlowProofs ---------------------------
(***************************************************************************)
(* Why a bound on the number of instructions is enough: the handlers copy   *)
(* and OR tags, so what a transfer does to a set of tainted cells is what   *)
(* it does to each of them.  When every instruction treats every single     *)
(* cell well, every sequence of instructions treats every taint well.       *)
(***************************************************************************)
EXTENDS DiftFlow, TLAPS

\* One instruction and one cell it touches: the taint goes wherever the data
\* goes, unless the instruction is named as dropping it.
CarriesEach ==
    \A i \in Translatable : \A t \in i.does : \A c \in Touched(i) \cap Real :
       c \notin i.drop => Apply(i.data, {c}) \cap Real \subseteq Apply(t, {c})

\* One instruction and one cell it touches, not clean_source: the taint goes
\* nowhere else, unless the instruction is named as spreading it; a cell that
\* holds no guest data does not reach one that does, and none reaches
\* clean_source.
ConfinesEach ==
    \A i \in Translatable : \A t \in i.does :
       \A c \in Touched(i) \ {NoCell, M(clean_source)} :
          c \notin i.blur =>
            /\ M(clean_source) \notin Apply(t, {c})
            /\ Apply(t, {c}) \cap Real \subseteq (IF c \in Real THEN Apply(i.data, {c}) ELSE {})

\* One instruction and one cell it touches, outside the scratch register: the
\* taint is not left in the scratch register.
CleansEach ==
    \A i \in Translatable : \A t \in i.does : \A c \in Touched(i) \ ({NoCell} \cup Tmp) :
       ~i.leaves => Apply(t, {c}) \cap Tmp = {}

\* A transfer treats a set cell by cell (Apply, the handlers of dift-policy.h).
LEMMA ApplyEach ==
    ASSUME NEW t, NEW S, NEW d
    PROVE  d \in Apply(t, S) <=> \E c \in S : d \in Apply(t, {c})
BY DEF Apply

\* The taint of one cell of a set is part of the taint of the set.
LEMMA ApplyOne ==
    ASSUME NEW t, NEW S, NEW c \in S
    PROVE  Apply(t, {c}) \subseteq Apply(t, S)
BY ApplyEach, Zenon

\* No guest data is kept in a byte of a device.
LEMMA NoCellNotReal == NoCell \notin Real
BY RamAssumption DEF NoCell, Real, R, X, M, R_DIFT_TMP

\* What a transfer does not touch stays as it is.
LEMMA Untouched ==
    ASSUME NEW t, NEW c, c \notin Touches(t)
    PROVE  Apply(t, {c}) = {c}
BY Zenon DEF Apply, Touches

\* A cell the instruction does not touch, and a byte of a device, are left
\* alone by its records.
LEMMA LeftAlone ==
    ASSUME NEW i \in Insns, NEW t \in i.does, NEW c, c \notin Touched(i) \/ c = NoCell
    PROVE  Apply(t, {c}) = {c}
<1>1. c \notin Touches(t)
  BY InsnsAssumption, Zenon DEF Touched
<1> QED
  BY <1>1, Untouched, Zenon

\* What flows is guest data.
LEMMA FlowIsReal == Spec => [](flow \subseteq Real)
<1>1. Init => flow \subseteq Real
  BY DEF Init
<1>2. flow \subseteq Real /\ [Next]_vars => (flow \subseteq Real)'
  BY DEF Next, Execute, Exit, vars
<1> QED
  BY <1>1, <1>2, PTL DEF Spec

\* One instruction and one cell are enough: if every instruction carries the
\* taint of every cell it touches, NothingLost holds of every sequence of
\* instructions, whatever the instance (records of translate.c).
THEOREM NothingLostHolds ==
    ASSUME CarriesEach
    PROVE  Spec => []NothingLost
<1>1. Init => NothingLost
  BY DEF Init, NothingLost
<1>2. flow \subseteq Real /\ NothingLost /\ [Next]_vars => NothingLost'
  <2> SUFFICES ASSUME flow \subseteq Real, NothingLost, [Next]_vars PROVE NothingLost'
    OBVIOUS
  <2>1. CASE UNCHANGED vars
    BY <2>1 DEF vars, NothingLost
  <2>2. CASE Next
    <3>1. PICK i \in Insns : Execute(i) \/ Exit(i)
      BY <2>2 DEF Next
    <3>2. CASE Exit(i)
      BY <3>2 DEF Exit, NothingLost
    <3>3. CASE Execute(i)
      <4> SUFFICES ASSUME ~lost', NEW d \in flow' PROVE d \in dirty'
        BY DEF NothingLost
      <4>1. PICK t \in i.does : dirty' = Apply(t, dirty)
        BY <3>3 DEF Execute
      <4>2. ~lost /\ i.drop \cap flow = {} /\ d \in Apply(i.data, flow) /\ d \in Real /\ i.lacks = {}
        BY <3>3, Zenon DEF Execute
      <4>3. PICK c \in flow : d \in Apply(i.data, {c})
        BY <4>2, ApplyEach, Zenon
      <4>4. d \in Apply(t, {c})
        <5>1. CASE c \in Touched(i)
          BY <4>2, <4>3, <5>1 DEF CarriesEach, Translatable
        <5>2. CASE c \notin Touched(i)
          <6>1. d = c
            BY <4>3, <5>2, Untouched DEF Touched
          <6> QED
            BY <5>2, <6>1, LeftAlone
        <5> QED
          BY <5>1, <5>2
      <4>5. c \in dirty
        BY <4>2 DEF NothingLost
      <4> QED
        BY <4>1, <4>4, <4>5, ApplyOne
    <3> QED
      BY <3>1, <3>2, <3>3
  <2> QED
    BY <2>1, <2>2
<1> QED
  BY <1>1, <1>2, FlowIsReal, PTL DEF Spec

\* Likewise NothingInvented, for every number of instructions.
THEOREM NothingInventedHolds ==
    ASSUME ConfinesEach
    PROVE  Spec => []NothingInvented
<1>1. Init => NothingInvented
  BY Zenon DEF Init, NothingInvented
<1>2. NothingInvented /\ [Next]_vars => NothingInvented'
  <2> SUFFICES ASSUME NothingInvented, [Next]_vars PROVE NothingInvented'
    OBVIOUS
  <2>1. CASE UNCHANGED vars
    BY <2>1 DEF vars, NothingInvented
  <2>2. CASE Next
    <3>1. PICK i \in Insns : Execute(i) \/ Exit(i)
      BY <2>2 DEF Next
    <3>2. CASE Exit(i)
      BY <3>2 DEF Exit, NothingInvented
    <3>3. CASE Execute(i)
      <4> SUFFICES ASSUME ~blurred', NEW d \in dirty'
                   PROVE  d # M(clean_source) /\ (d \in Real => d \in flow')
        BY DEF NothingInvented
      <4>1. PICK t \in i.does : dirty' = Apply(t, dirty)
        BY <3>3 DEF Execute
      <4>2. ~blurred /\ i.blur \cap dirty = {} /\ flow' = Apply(i.data, flow) \cap Real /\ i.lacks = {}
        BY <3>3, Zenon DEF Execute
      <4>3. PICK c \in dirty : d \in Apply(t, {c})
        BY <4>1, ApplyEach, Zenon
      <4>4. c # M(clean_source) /\ (c \in Real => c \in flow)
        BY <4>2 DEF NothingInvented
      <4>5. CASE c \in Touched(i) /\ c # NoCell
        <5>1. /\ d # M(clean_source)
              /\ d \in Real => c \in Real /\ d \in Apply(i.data, {c})
          BY <4>2, <4>3, <4>4, <4>5 DEF ConfinesEach, Translatable
        <5>2. c \in Real => Apply(i.data, {c}) \subseteq Apply(i.data, flow)
          BY <4>4, ApplyOne
        <5> QED
          BY <4>2, <5>1, <5>2
      <4>6. CASE c = NoCell
        <5>1. Apply(t, {NoCell}) = {NoCell}
          BY LeftAlone
        <5>2. d = NoCell
          BY <4>3, <4>6, <5>1
        <5> QED
          BY <4>4, <4>6, <5>2, NoCellNotReal
      <4>7. CASE c \notin Touched(i)
        <5>1. Apply(t, {c}) = {c}
          BY <4>7, LeftAlone
        <5>2. d = c
          BY <4>3, <5>1
        <5>3. Apply(i.data, {c}) = {c}
          BY <4>7, Untouched DEF Touched
        <5>4. c \in flow => c \in Apply(i.data, flow)
          BY <5>3, ApplyOne
        <5> QED
          BY <4>2, <4>4, <5>2, <5>4
      <4> QED
        BY <4>5, <4>6, <4>7
    <3> QED
      BY <3>1, <3>2, <3>3
  <2> QED
    BY <2>1, <2>2
<1> QED
  BY <1>1, <1>2, PTL DEF Spec

\* Likewise TmpClean, for every number of instructions.
THEOREM TmpCleanHolds ==
    ASSUME CleansEach
    PROVE  Spec => []TmpClean
<1>1. Init => TmpClean
  BY Zenon DEF Init, TmpClean
<1>2. TmpClean /\ [Next]_vars => TmpClean'
  <2> SUFFICES ASSUME TmpClean, [Next]_vars PROVE TmpClean'
    OBVIOUS
  <2>1. CASE UNCHANGED vars
    BY <2>1 DEF vars, TmpClean
  <2>2. CASE Next
    <3>1. PICK i \in Insns : Execute(i) \/ Exit(i)
      BY <2>2 DEF Next
    <3>2. CASE Exit(i)
      BY <3>2 DEF Exit, TmpClean
    <3>3. CASE Execute(i)
      <4> SUFFICES ASSUME ~leftover', NEW d \in dirty', d \in Tmp PROVE FALSE
        BY DEF TmpClean
      <4>1. PICK t \in i.does : dirty' = Apply(t, dirty)
        BY <3>3 DEF Execute
      <4>2. ~leftover /\ ~i.leaves /\ i.lacks = {}
        BY <3>3, Zenon DEF Execute
      <4>3. PICK c \in dirty : d \in Apply(t, {c})
        BY <4>1, ApplyEach, Zenon
      <4>4. c \notin Tmp
        BY <4>2 DEF TmpClean
      <4>5. CASE c \in Touched(i) /\ c # NoCell
        BY <4>2, <4>3, <4>4, <4>5 DEF CleansEach, Translatable
      <4>6. CASE c \notin Touched(i) \/ c = NoCell
        <5>1. Apply(t, {c}) = {c}
          BY <4>6, LeftAlone
        <5> QED
          BY <4>3, <4>4, <5>1
      <4> QED
        BY <4>5, <4>6
    <3> QED
      BY <3>1, <3>2, <3>3
  <2> QED
    BY <2>1, <2>2
<1> QED
  BY <1>1, <1>2, PTL DEF Spec
=============================================================================
