-------------------------- MODULE TimerHeapProofs --------------------------
(***************************************************************************)
(* Theorems about TimerHeap, for any set of timers and any capacity: the   *)
(* array is a heap, every timer knows its position, and the heap           *)
(* implements the set of timers that TimerManager takes it for.            *)
(***************************************************************************)
EXTENDS TimerHeap, FiniteSetTheorems, TLAPS

Facts == INSTANCE SequenceFacts

\* What the position in an operation says about its locals.
OpInv ==
  /\ pc = "idle" <=> op = "none"
  /\ pc = "idle" => i = 0
  /\ pc = "down" => op = "remove"
  /\ pc # "idle" => count > 0 /\ i < count /\ moving \in Timers
  /\ op = "add" => subject = moving /\ deadline_[moving] \in Deadlines
  /\ op = "remove" => subject \in Timers /\ subject # moving

\* The timers of the operation in progress are nowhere else in the array.
HoleInv ==
  pc # "idle" =>
    \A s \in 0..(count - 1) : s # i =>
      /\ timers_[s] # moving
      /\ op = "remove" => timers_[s] # subject

\* Around the hole the heap is in order: a timer below it is no earlier than
\* the one above it, and the timer on its way fits on the side it comes from.
\* A timer that Add carries up is earlier than all it went past.
AroundHole ==
  /\ pc # "idle" /\ i # 0 =>
       \A s \in 1..(count - 1) : Parent(s) = i => At(Parent(i)) <= At(s)
  /\ pc = "up" =>
       \A s \in 1..(count - 1) : Parent(s) = i => deadline_[moving] <= At(s)
  /\ op = "add" =>
       \A s \in 1..(count - 1) : Parent(s) = i => deadline_[moving] < At(s)
  /\ pc = "down" /\ i # 0 => At(Parent(i)) <= deadline_[moving]

\* Top() as the last operation left it; an Add that has not reached the root
\* leaves it alone.
TopInv ==
  /\ op = "none" => top = IF count = 0 THEN NoTimer ELSE timers_[0]
  /\ op = "add" /\ i # 0 => top = timers_[0]

IInv ==
  /\ TypeOK
  /\ OpInv
  /\ IndexIsPosition
  /\ HoleInv
  /\ HeapOrder
  /\ AroundHole
  /\ TopInv

-----------------------------------------------------------------------------
(* The shape of the tree *)

\* The parent of a slot comes before it, and its children are two.
LEMMA ParentFacts ==
  ASSUME NEW k \in Nat, k # 0
  PROVE  /\ Parent(k) \in Nat
         /\ Parent(k) < k
         /\ \A p \in Nat : Parent(k) = p <=> (k = 2 * p + 1 \/ k = 2 * p + 2)
  BY DEF Parent

\* In an array in which no slot is less than its parent, none is less than the
\* root.
LEMMA RootIsLeast ==
  ASSUME NEW n \in Nat, NEW f, \A s \in 0..(n - 1) : f[s] \in Nat,
         \A s \in 1..(n - 1) : f[Parent(s)] <= f[s]
  PROVE  \A s \in 0..(n - 1) : f[0] <= f[s]
<1> SUFFICES ASSUME NEW r \in 0..(n - 1), f[r] < f[0]
             PROVE  FALSE
  OBVIOUS
<1> DEFINE T == {s \in 0..(n - 1) : f[s] < f[0]}
<1>1. PICK x \in T : \A y \in T : x <= y
  <2>1. T \in SUBSET Nat /\ T # {}
    OBVIOUS
  <2> QED BY <2>1, Facts!LeastNatural
<1>2. x \in 1..(n - 1) /\ x \in Nat /\ x # 0
  OBVIOUS
<1>3. Parent(x) \in Nat /\ Parent(x) < x
  BY <1>2, ParentFacts
<1>4. Parent(x) \in T
  BY <1>2, <1>3
<1> QED BY <1>1, <1>3, <1>4

-----------------------------------------------------------------------------
(* The inductive invariant *)

\* The slots of the heap, and what a timer in one is.
LEMMA SlotFacts ==
  ASSUME TypeOK
  PROVE  /\ Capacity \in Nat \ {0} /\ count \in Nat /\ i \in Nat
         /\ \A s \in 0..(count - 1) : s \in Slots /\ s \in Nat
         /\ \A t \in Timers : deadline_[t] \in Nat
         /\ \A s \in Slots : timers_[s] \in Timers => At(s) \in Nat
<1>1. Capacity \in Nat \ {0} /\ count \in Nat /\ i \in Nat
  BY HeapAssumption DEF TypeOK, Slots
<1>2. \A s \in 0..(count - 1) : s \in Slots /\ s \in Nat
  BY <1>1 DEF TypeOK, Slots
<1>3. \A t \in Timers : deadline_[t] \in Nat
  <2>1. \A t \in Timers : deadline_[t] \in Deadlines \cup {0}
    BY DEF TypeOK
  <2>2. \A d \in Deadlines \cup {0} : d \in Nat
    BY HeapAssumption, SMT
  <2> QED BY <2>1, <2>2, Zenon
<1> QED BY <1>1, <1>2, <1>3 DEF At

LEMMA InitHolds == Init => IInv
<1> SUFFICES ASSUME Init PROVE IInv
  OBVIOUS
<1>1. TypeOK
  <2>1. 0 \in Slots /\ 0 \in 0..Capacity
    BY HeapAssumption DEF Slots
  <2> QED BY <2>1 DEF Init, TypeOK
<1>2. OpInv /\ IndexIsPosition /\ HoleInv /\ HeapOrder /\ AroundHole /\ TopInv
  BY DEF Init, OpInv, IndexIsPosition, HoleInv, HeapOrder, AroundHole, TopInv
<1> QED BY <1>1, <1>2 DEF IInv

LEMMA AddKeeps ==
  ASSUME IInv, NEW t \in Timers, NEW d \in Deadlines, Add(t, d)
  PROVE  IInv'
<1> USE DEF IInv
<1>1. /\ count \in Nat /\ count < Capacity /\ Capacity \in Nat
      /\ pc = "idle" /\ pc' = "up" /\ op' = "add" /\ subject' = t /\ moving' = t
      /\ i' = count /\ count' = count + 1 /\ top' = top
      /\ \A s \in 0..(count - 1) : timers_'[s] = timers_[s] /\ timers_[s] # t
      /\ timers_'[count] = t
      /\ deadline_'[t] = d
      /\ \A u \in Timers : u # t => /\ deadline_'[u] = deadline_[u]
                                    /\ heap_index_'[u] = heap_index_[u]
  BY HeapAssumption DEF Add, NewIndex, TypeOK, Slots, Contains
<1>2. \A s \in 1..count : s \in Nat /\ s # 0 /\ Parent(s) \in 0..(count - 1)
  BY <1>1, ParentFacts
<1>3. TypeOK'
  BY <1>1, HeapAssumption DEF TypeOK, Add, NewIndex, Slots
<1>4. OpInv'
  BY <1>1 DEF OpInv
<1>5. IndexIsPosition'
  BY <1>1 DEF IndexIsPosition
<1>6. HoleInv'
  BY <1>1 DEF HoleInv
<1>7. HeapOrder'
  <2>1. \A s \in 0..(count - 1) : At(s)' = At(s)
    BY <1>1 DEF At, IndexIsPosition
  <2>2. \A s \in 1..(count - 1) : At(Parent(s)) <= At(s)
    BY <1>1 DEF HeapOrder
  <2>3. \A s \in 1..(count - 1) : Parent(s) \in 0..(count - 1)
    BY <1>2, <1>1
  <2> QED BY <1>1, <2>1, <2>2, <2>3 DEF HeapOrder
<1>8. AroundHole'
  BY <1>1, <1>2 DEF AroundHole
<1>9. TopInv'
  BY <1>1 DEF TopInv, OpInv
<1> QED BY <1>3, <1>4, <1>5, <1>6, <1>7, <1>8, <1>9

\* What a turn of either loop does to the array: the timer at p goes into the
\* hole.
LEMMA MoveHoleFacts ==
  ASSUME IInv, pc # "idle", NEW p \in 0..(count - 1), p # i, MoveHole(p),
         op = "add" => i # 0
  PROVE  /\ count' = count /\ pc' = pc /\ op' = op /\ i' = p /\ moving' = moving
         /\ TypeOK' /\ OpInv' /\ IndexIsPosition' /\ HoleInv' /\ TopInv'
         /\ \A s \in 0..(count - 1) : timers_'[s] = timers_[IF s = i THEN p ELSE s]
         /\ \A s \in 0..(count - 1) : At(s)' = At(IF s = i THEN p ELSE s)
         /\ \A s \in 0..(count - 1) : s # i => At(s) \in Nat
         /\ deadline_'[moving] = deadline_[moving] /\ deadline_[moving] \in Nat
<1> USE DEF IInv
<1>1. /\ count' = count /\ pc' = pc /\ op' = op /\ subject' = subject
      /\ moving' = moving /\ i' = p /\ top' = top /\ deadline_' = deadline_
  BY DEF MoveHole
<1>2. /\ count \in Nat /\ i \in 0..(count - 1) /\ moving \in Timers
      /\ \A s \in 0..(count - 1) : s \in Slots
      /\ \A s \in 0..(count - 1) : s # i => timers_[s] \in Timers
      /\ \A s \in 0..(count - 1) : s # i => heap_index_[timers_[s]] = s
  BY SlotFacts DEF OpInv, IndexIsPosition
<1>3. \A s \in 0..(count - 1) : timers_'[s] = timers_[IF s = i THEN p ELSE s]
  BY <1>2 DEF MoveHole, TypeOK
<1>4. \A t \in Timers :
        heap_index_'[t] = IF t = timers_[p] THEN i ELSE heap_index_[t]
  BY <1>2 DEF MoveHole, TypeOK
<1>5. TypeOK'
  BY <1>2 DEF MoveHole, TypeOK
<1>6. OpInv'
  BY <1>1, <1>2 DEF OpInv
<1>7. IndexIsPosition'
  BY <1>1, <1>2, <1>3, <1>4 DEF IndexIsPosition
<1>8. HoleInv'
  BY <1>1, <1>2, <1>3 DEF HoleInv
<1>9. TopInv'
  BY <1>1, <1>2, <1>3 DEF TopInv, OpInv
<1>10. \A s \in 0..(count - 1) : At(s)' = At(IF s = i THEN p ELSE s)
  BY <1>1, <1>3 DEF At
<1>11. \A s \in 0..(count - 1) : s # i => At(s) \in Nat
  BY <1>2, SlotFacts DEF At
<1>12. deadline_[moving] \in Nat
  BY <1>2, SlotFacts
<1> QED BY <1>1, <1>3, <1>5, <1>6, <1>7, <1>8, <1>9, <1>10, <1>11, <1>12

\* At the end of a loop the hole is filled, and the array is whole again.
LEMMA PlaceFacts ==
  ASSUME IInv, pc # "idle", Place
  PROVE  /\ count' = count /\ pc' = "idle" /\ op' = "none" /\ i' = 0
         /\ TypeOK' /\ OpInv' /\ IndexIsPosition' /\ HoleInv' /\ AroundHole' /\ TopInv'
         /\ timers_'[i] = moving
         /\ \A s \in 0..(count - 1) : s # i => timers_'[s] = timers_[s]
         /\ \A s \in 0..(count - 1) : s = i => At(s)' = deadline_[moving]
         /\ \A s \in 0..(count - 1) : s # i => At(s)' = At(s) /\ At(s) \in Nat
         /\ deadline_[moving] \in Nat
         /\ i \in 0..(count - 1) /\ count \in Nat
<1> USE DEF IInv
<1>1. /\ count' = count /\ pc' = "idle" /\ op' = "none" /\ i' = 0
      /\ moving' = NoTimer /\ subject' = NoTimer
      /\ top' = IF count' = 0 THEN NoTimer ELSE timers_'[0]
      /\ first' \in BOOLEAN
  BY DEF Place, Return
<1>2. /\ count \in Nat /\ i \in 0..(count - 1) /\ moving \in Timers
      /\ \A s \in 0..(count - 1) : s \in Slots
      /\ \A s \in 0..(count - 1) : s # i => timers_[s] \in Timers
      /\ \A s \in 0..(count - 1) : s # i => heap_index_[timers_[s]] = s
      /\ \A s \in 0..(count - 1) : s # i => timers_[s] # moving
  BY SlotFacts DEF OpInv, IndexIsPosition, HoleInv
<1>3. /\ timers_'[i] = moving
      /\ \A s \in 0..(count - 1) : s # i => timers_'[s] = timers_[s]
  BY <1>2 DEF Place, TypeOK
<1>4. /\ heap_index_'[moving] = i
      /\ \A t \in Timers : t # moving => heap_index_'[t] = heap_index_[t]
  BY <1>2 DEF Place, TypeOK
<1>5. /\ deadline_' \in [Timers -> Deadlines \cup {0}]
      /\ \A t \in Timers :
           deadline_'[t] = IF op = "remove" /\ t = subject THEN 0 ELSE deadline_[t]
  BY HeapAssumption DEF Place, Return, TypeOK
<1>6. TypeOK'
  <2>1. /\ timers_' \in [Slots -> Timers \cup {NoTimer}]
        /\ heap_index_' \in [Timers -> Slots]
    BY <1>2 DEF Place, TypeOK
  <2>2. 0 \in Slots
    BY HeapAssumption DEF Slots
  <2>3. top' \in Timers \cup {NoTimer}
    BY <1>1, <2>1, <2>2
  <2> QED BY <1>1, <1>5, <2>1, <2>2, <2>3 DEF TypeOK
<1>7. OpInv' /\ HoleInv' /\ AroundHole' /\ TopInv'
  BY <1>1 DEF OpInv, HoleInv, AroundHole, TopInv
<1>8. IndexIsPosition'
  BY <1>1, <1>2, <1>3, <1>4 DEF IndexIsPosition
<1>9. \A s \in 0..(count - 1) : s # i /\ op = "remove" => timers_[s] # subject
  BY <1>2 DEF HoleInv
<1>10. \A s \in 0..(count - 1) : s = i => At(s)' = deadline_[moving]
  BY <1>2, <1>3, <1>5 DEF At, OpInv
<1>11. \A s \in 0..(count - 1) : s # i => At(s)' = At(s)
  BY <1>2, <1>3, <1>5, <1>9 DEF At
<1>12. \A s \in 0..(count - 1) : s # i => At(s) \in Nat
  BY <1>2, SlotFacts DEF At
<1>13. deadline_[moving] \in Nat
  BY <1>2, SlotFacts
<1> QED BY <1>1, <1>2, <1>3, <1>6, <1>7, <1>8, <1>10, <1>11, <1>12, <1>13

LEMMA UpwardsKeeps ==
  ASSUME IInv, AdjustUpwards
  PROVE  IInv'
<1> USE DEF IInv
<1>0. pc = "up" /\ count \in Nat /\ i \in 0..(count - 1)
  BY SlotFacts DEF AdjustUpwards, OpInv
<1>1. CASE GoesUp
  <2>1. i \in Nat /\ i # 0 /\ Parent(i) \in 0..(count - 1) /\ Parent(i) < i
    BY <1>0, <1>1, ParentFacts DEF GoesUp
  <2>2. PICK p \in 0..(count - 1) : Parent(i) = p
    BY <2>1
  <2>3. i # 0 /\ MoveHole(p) /\ At(p) > deadline_[moving]
    BY <1>0, <1>1, <2>1, <2>2 DEF AdjustUpwards, GoesUp
  <2>4. p < i
    BY <2>1, <2>2
  <2>5. /\ count' = count /\ pc' = pc /\ op' = op /\ i' = p /\ moving' = moving
        /\ TypeOK' /\ OpInv' /\ IndexIsPosition' /\ HoleInv' /\ TopInv'
        /\ \A s \in 0..(count - 1) : At(s)' = At(IF s = i THEN p ELSE s)
        /\ \A s \in 0..(count - 1) : s # i => At(s) \in Nat
        /\ deadline_'[moving] = deadline_[moving] /\ deadline_[moving] \in Nat
    BY <1>0, <2>3, <2>4, MoveHoleFacts
  <2>6. \A s \in 1..(count - 1) : s \in Nat /\ s # 0 /\ Parent(s) \in 0..(count - 1)
                                  /\ Parent(s) < s
    BY <1>0, ParentFacts
  <2>7. \A s \in 1..(count - 1) : s # i /\ Parent(s) # i => At(Parent(s)) <= At(s)
    BY <1>0 DEF HeapOrder
  <2>8. \A s \in 1..(count - 1) : Parent(s) = i => At(p) <= At(s)
    BY <1>0, <2>3, <2>2 DEF AroundHole
  <2>9. HeapOrder'
    <3> SUFFICES ASSUME NEW s \in 1..(count - 1), s # p, Parent(s) # p
                 PROVE  At(Parent(s))' <= At(s)'
      BY <1>0, <2>5 DEF HeapOrder
    <3>1. s # i
      BY <2>2
    <3>2. CASE Parent(s) = i
      BY <3>1, <3>2, <2>5, <2>6, <2>8, <1>0
    <3>3. CASE Parent(s) # i
      BY <3>1, <3>3, <2>5, <2>6, <2>7, <1>0
    <3> QED BY <3>2, <3>3
  \* The children of the new hole: the old one, and its sibling.
  <2>10. ASSUME NEW s \in 1..(count - 1), Parent(s) = p
        PROVE  At(s)' \in Nat /\ At(p) <= At(s)'
    <3>1. CASE s = i
      BY <3>1, <2>4, <2>5
    <3>2. CASE s # i
      BY <3>2, <2>4, <2>5, <2>6, <2>7, <2>10
    <3> QED BY <3>1, <3>2
  <2>11. p # 0 => /\ Parent(p) \in 0..(count - 1) /\ Parent(p) < p
                  /\ At(Parent(p)) <= At(p) /\ At(Parent(p))' = At(Parent(p))
    BY <1>0, <2>4, <2>5, <2>6, <2>7
  <2>12. AroundHole'
    <3>1. At(p) \in Nat
      BY <2>4, <2>5
    <3>2. ASSUME NEW s \in 1..(count - 1), Parent(s) = p
          PROVE  /\ deadline_[moving] < At(s)'
                 /\ p # 0 => At(Parent(p))' <= At(s)'
      BY <3>1, <3>2, <2>3, <2>4, <2>5, <2>10, <2>11
    <3> QED BY <1>0, <2>5, <2>10, <3>2 DEF AroundHole
  <2> QED BY <2>5, <2>9, <2>12
<1>2. CASE ~GoesUp
  <2>1. Place /\ (i = 0 \/ ~(At(Parent(i)) > deadline_[moving]))
    BY <1>0, <1>2 DEF AdjustUpwards, GoesUp
  <2>2. /\ count' = count /\ pc' = "idle"
        /\ TypeOK' /\ OpInv' /\ IndexIsPosition' /\ HoleInv' /\ AroundHole' /\ TopInv'
        /\ \A s \in 0..(count - 1) : s = i => At(s)' = deadline_[moving]
        /\ \A s \in 0..(count - 1) : s # i => At(s)' = At(s) /\ At(s) \in Nat
        /\ deadline_[moving] \in Nat
    BY <1>0, <2>1, PlaceFacts
  <2>3. \A s \in 1..(count - 1) : s \in Nat /\ s # 0 /\ Parent(s) \in 0..(count - 1)
                                  /\ Parent(s) < s
    BY <1>0, ParentFacts
  <2>4. HeapOrder'
    <3> SUFFICES ASSUME NEW s \in 1..(count - 1)
                 PROVE  At(Parent(s))' <= At(s)'
      BY <2>2 DEF HeapOrder
    <3>1. CASE s = i
      BY <3>1, <2>1, <2>2, <2>3
    <3>2. CASE Parent(s) = i
      BY <3>2, <1>0, <2>2, <2>3 DEF AroundHole
    <3>3. CASE s # i /\ Parent(s) # i
      BY <3>3, <1>0, <2>2, <2>3 DEF HeapOrder
    <3> QED BY <3>1, <3>2, <3>3
  <2> QED BY <2>2, <2>4
<1> QED BY <1>1, <1>2

LEMMA DownwardsKeeps ==
  ASSUME IInv, AdjustDownwards
  PROVE  IInv'
<1> USE DEF IInv
<1>0. pc = "down" /\ op = "remove" /\ count \in Nat /\ i \in 0..(count - 1)
  BY SlotFacts DEF AdjustDownwards, OpInv
<1>1. \A s \in 1..(count - 1) : s \in Nat /\ s # 0 /\ Parent(s) \in 0..(count - 1)
                                /\ Parent(s) < s
  BY <1>0, ParentFacts
<1>2. CASE GoesDown
  <2>1. /\ NextChild \in 1..(count - 1) /\ Parent(NextChild) = i
        /\ \A s \in 1..(count - 1) : Parent(s) = i => At(NextChild) <= At(s)
    <3>1. \A s \in 0..(count - 1) : s # i => At(s) \in Nat
      BY <1>0, SlotFacts DEF IndexIsPosition
    <3>2. \A s \in 1..(count - 1) : Parent(s) = i <=> s \in {1 + 2 * i, 2 + 2 * i}
      BY <1>0, ParentFacts
    <3> QED BY <1>0, <1>2, <3>1, <3>2 DEF NextChild, GoesDown
  <2>2. PICK c \in 1..(count - 1) : c = NextChild
    BY <2>1
  <2>3. /\ MoveHole(c) /\ Parent(c) = i /\ i < c /\ deadline_[moving] > At(c)
        /\ \A s \in 1..(count - 1) : Parent(s) = i => At(c) <= At(s)
    BY <1>0, <1>1, <1>2, <2>1, <2>2 DEF AdjustDownwards, GoesDown
  <2>4. /\ count' = count /\ pc' = pc /\ op' = op /\ i' = c /\ moving' = moving
        /\ TypeOK' /\ OpInv' /\ IndexIsPosition' /\ HoleInv' /\ TopInv'
        /\ \A s \in 0..(count - 1) : At(s)' = At(IF s = i THEN c ELSE s)
        /\ \A s \in 0..(count - 1) : s # i => At(s) \in Nat
        /\ deadline_'[moving] = deadline_[moving] /\ deadline_[moving] \in Nat
    BY <1>0, <2>3, MoveHoleFacts
  <2>5. \A s \in 1..(count - 1) : s # i /\ Parent(s) # i => At(Parent(s)) <= At(s)
    BY <1>0 DEF HeapOrder
  <2>6. i # 0 => \A s \in 1..(count - 1) : Parent(s) = i => At(Parent(i)) <= At(s)
    BY <1>0 DEF AroundHole
  <2>7. HeapOrder'
    <3> SUFFICES ASSUME NEW s \in 1..(count - 1), s # c, Parent(s) # c
                 PROVE  At(Parent(s))' <= At(s)'
      BY <1>0, <2>4 DEF HeapOrder
    <3>1. CASE s = i
      BY <3>1, <1>0, <1>1, <2>3, <2>4, <2>6
    <3>2. CASE Parent(s) = i
      BY <3>2, <1>0, <1>1, <2>3, <2>4
    <3>3. CASE s # i /\ Parent(s) # i
      BY <3>3, <1>1, <2>4, <2>5
    <3> QED BY <3>1, <3>2, <3>3
  \* The children of the new hole had the timer that went up above them.
  <2>8. \A s \in 1..(count - 1) : Parent(s) = c => At(c) <= At(s)'
    BY <1>0, <1>1, <2>3, <2>4, <2>5
  <2>9. At(Parent(c))' = At(c)
    BY <1>0, <1>1, <2>3, <2>4
  <2>10. AroundHole'
    BY <1>0, <2>3, <2>4, <2>8, <2>9 DEF AroundHole
  <2> QED BY <2>4, <2>7, <2>10
<1>3. CASE ~GoesDown
  <2>1. Place
    BY <1>0, <1>3 DEF AdjustDownwards
  <2>2. /\ count' = count /\ pc' = "idle"
        /\ TypeOK' /\ OpInv' /\ IndexIsPosition' /\ HoleInv' /\ AroundHole' /\ TopInv'
        /\ \A s \in 0..(count - 1) : s = i => At(s)' = deadline_[moving]
        /\ \A s \in 0..(count - 1) : s # i => At(s)' = At(s) /\ At(s) \in Nat
        /\ deadline_[moving] \in Nat
    BY <1>0, <2>1, PlaceFacts
  <2>3. \A s \in 1..(count - 1) : Parent(s) = i => deadline_[moving] <= At(s)
    <3>1. \A s \in 1..(count - 1) : Parent(s) = i <=> s \in {1 + 2 * i, 2 + 2 * i}
      BY <1>0, ParentFacts
    <3> QED BY <1>0, <1>3, <2>2, <3>1 DEF NextChild, GoesDown
  <2>4. HeapOrder'
    <3> SUFFICES ASSUME NEW s \in 1..(count - 1)
                 PROVE  At(Parent(s))' <= At(s)'
      BY <2>2 DEF HeapOrder
    <3>1. CASE s = i
      BY <3>1, <1>0, <1>1, <2>2 DEF AroundHole
    <3>2. CASE Parent(s) = i
      BY <3>2, <1>0, <1>1, <2>2, <2>3
    <3>3. CASE s # i /\ Parent(s) # i
      BY <3>3, <1>0, <1>1, <2>2 DEF HeapOrder
    <3> QED BY <3>1, <3>2, <3>3
  <2> QED BY <2>2, <2>4
<1> QED BY <1>2, <1>3

LEMMA RemoveKeeps ==
  ASSUME IInv, NEW t \in Timers, Remove(t)
  PROVE  IInv'
<1> USE DEF IInv
<1>1. /\ pc = "idle" /\ op = "none" /\ count \in Nat \ {0} /\ count <= Capacity
      /\ Capacity \in Nat /\ heap_index_[t] \in 0..(count - 1)
      /\ timers_[heap_index_[t]] = t /\ count' = count - 1
      /\ \A s \in 0..(count - 1) : s \in Slots
  BY SlotFacts DEF Remove, Contains, IndexIsPosition, OpInv, TypeOK
<1>2. PICK s \in 0..(count - 1) : s = heap_index_[t]
  BY <1>1
<1>3. PICK last \in Timers : last = timers_[count - 1]
  BY <1>1 DEF IndexIsPosition
<1>4. /\ \A r \in 0..(count - 1) : timers_[r] \in Timers /\ heap_index_[timers_[r]] = r
      /\ \A r \in 0..(count - 1) : At(r) \in Nat
      /\ \A r \in 1..(count - 1) : At(Parent(r)) <= At(r)
  BY <1>1, SlotFacts DEF IndexIsPosition, HeapOrder
<1>5. \A r \in 1..(count - 1) : r \in Nat /\ r # 0 /\ Parent(r) \in 0..(count - 1)
                                /\ Parent(r) < r
  BY <1>1, ParentFacts
<1>6. CASE s = count - 1
  <2>1. /\ timers_' = [timers_ EXCEPT ![s] = NoTimer]
        /\ heap_index_' = [heap_index_ EXCEPT ![t] = 0]
        /\ Return(s, t)
    BY <1>1, <1>2, <1>6 DEF Remove
  <2>2. /\ \A r \in 0..(count - 2) : timers_'[r] = timers_[r] /\ timers_[r] # t
        /\ \A u \in Timers : u # t => heap_index_'[u] = heap_index_[u]
    BY <1>1, <1>2, <1>4, <1>6, <2>1 DEF TypeOK
  <2>3. /\ pc' = "idle" /\ op' = "none" /\ i' = 0 /\ moving' = NoTimer
        /\ subject' = NoTimer /\ first' \in BOOLEAN
        /\ top' = IF count' = 0 THEN NoTimer ELSE timers_'[0]
        /\ deadline_' \in [Timers -> Deadlines \cup {0}]
        /\ \A u \in Timers : u # t => deadline_'[u] = deadline_[u]
    BY <2>1 DEF Return, TypeOK
  <2>4. TypeOK'
    <3>1. 0 \in Slots
      BY HeapAssumption DEF Slots
    <3>2. /\ timers_' \in [Slots -> Timers \cup {NoTimer}]
          /\ heap_index_' \in [Timers -> Slots]
      BY <2>1, <3>1 DEF TypeOK
    <3>3. count' \in 0..Capacity
      BY <1>1
    <3> QED BY <2>3, <3>1, <3>2, <3>3 DEF TypeOK
  <2>5. OpInv' /\ HoleInv' /\ AroundHole' /\ TopInv'
    BY <2>3 DEF OpInv, HoleInv, AroundHole, TopInv
  <2>6. IndexIsPosition'
    BY <1>1, <1>4, <2>2 DEF IndexIsPosition
  <2>7. \A r \in 0..(count - 2) : At(r)' = At(r)
    BY <1>1, <1>4, <2>2, <2>3 DEF At
  <2>8. HeapOrder'
    BY <1>1, <1>4, <1>5, <2>7 DEF HeapOrder
  <2> QED BY <2>4, <2>5, <2>6, <2>8
<1>7. CASE s # count - 1
  <2>1. /\ timers_' = [timers_ EXCEPT ![s] = last, ![count - 1] = NoTimer]
        /\ heap_index_' = [heap_index_ EXCEPT ![t] = 0, ![last] = s]
        /\ op' = "remove" /\ subject' = t
        /\ pc' = IF TooEarly(s, last) THEN "up" ELSE "down"
        /\ i' = s /\ moving' = last
        /\ deadline_' = deadline_ /\ first' = first /\ top' = top
    BY <1>1, <1>2, <1>3, <1>7 DEF Remove
  <2>2. /\ last # t
        /\ \A r \in 0..(count - 2) :
             r # s => /\ timers_'[r] = timers_[r]
                      /\ timers_[r] # t /\ timers_[r] # last
        /\ \A u \in Timers : u # t /\ u # last => heap_index_'[u] = heap_index_[u]
    BY <1>1, <1>2, <1>3, <1>4, <1>7, <2>1 DEF TypeOK
  <2>3. TypeOK'
    <3>1. 0 \in Slots /\ s \in Slots
      BY <1>1, HeapAssumption DEF Slots
    <3>2. /\ timers_' \in [Slots -> Timers \cup {NoTimer}]
          /\ heap_index_' \in [Timers -> Slots]
      BY <2>1, <3>1 DEF TypeOK
    <3>3. count' \in 0..Capacity
      BY <1>1
    <3> QED BY <2>1, <3>1, <3>2, <3>3 DEF TypeOK
  <2>4. OpInv'
    BY <1>1, <1>7, <2>1, <2>2 DEF OpInv
  <2>5. IndexIsPosition' /\ HoleInv'
    <3>1. \A r \in 0..(count - 2) : r # s =>
            /\ timers_'[r] \in Timers /\ heap_index_'[timers_'[r]] = r
            /\ timers_'[r] # last /\ timers_'[r] # t
      BY <1>1, <1>4, <2>2
    <3>2. 0..(count' - 1) = 0..(count - 2)
      BY <1>1
    <3> QED BY <2>1, <3>1, <3>2 DEF IndexIsPosition, HoleInv
  <2>6. \A r \in 0..(count - 2) : r # s => At(r)' = At(r)
    BY <1>1, <2>1, <2>2 DEF At
  <2>7. HeapOrder'
    BY <1>1, <1>4, <1>5, <2>1, <2>6 DEF HeapOrder
  <2>8. deadline_[last] \in Nat /\ deadline_'[last] = deadline_[last]
    BY <2>1, SlotFacts
  <2>9. \A r \in 1..(count - 2) : Parent(r) = s => r # s /\ At(s) <= At(r)
    BY <1>1, <1>4, <1>5
  <2>10. s # 0 => /\ Parent(s) \in 0..(count - 2) /\ Parent(s) # s
                  /\ At(Parent(s)) <= At(s) /\ At(Parent(s))' = At(Parent(s))
    BY <1>1, <1>4, <1>5, <1>7, <2>6
  <2>11. AroundHole'
    <3>1. ASSUME NEW r \in 1..(count - 2), Parent(r) = s
          PROVE  /\ s # 0 => At(Parent(s))' <= At(r)'
                 /\ TooEarly(s, last) => deadline_[last] <= At(r)'
      BY <3>1, <1>1, <1>4, <2>6, <2>8, <2>9, <2>10 DEF TooEarly
    <3>2. ~TooEarly(s, last) /\ s # 0 => At(Parent(s))' <= deadline_[last]
      BY <1>1, <1>4, <2>8, <2>10 DEF TooEarly
    <3> QED BY <1>1, <2>1, <2>8, <3>1, <3>2 DEF AroundHole
  <2>12. TopInv'
    BY <2>1 DEF TopInv
  <2> QED BY <2>3, <2>4, <2>5, <2>7, <2>11, <2>12
<1> QED BY <1>6, <1>7

LEMMA NextHolds == IInv /\ [Next]_vars => IInv'
<1> SUFFICES ASSUME IInv, [Next]_vars
             PROVE  IInv'
  OBVIOUS
<1>1. ASSUME NEW t \in Timers, NEW d \in Deadlines, Add(t, d)
      PROVE  IInv'
  BY <1>1, AddKeeps
<1>2. ASSUME NEW t \in Timers, Remove(t)
      PROVE  IInv'
  BY <1>2, RemoveKeeps
<1>3. CASE AdjustUpwards
  BY <1>3, UpwardsKeeps
<1>4. CASE AdjustDownwards
  BY <1>4, DownwardsKeeps
<1>5. CASE UNCHANGED vars
  BY <1>5 DEF vars, IInv, TypeOK, OpInv, IndexIsPosition, HoleInv, HeapOrder,
     AroundHole, TopInv, At
<1> QED BY <1>1, <1>2, <1>3, <1>4, <1>5 DEF Next

LEMMA Invariant == Spec => []IInv
  BY InitHolds, NextHolds, PTL DEF Spec

(***************************************************************************)
(* Every variable keeps its type: no index leaves the array.               *)
(***************************************************************************)
THEOREM TypeCorrect == Spec => []TypeOK
  BY Invariant, PTL DEF IInv

(***************************************************************************)
(* The array is a heap between operations, and around the hole that        *)
(* AdjustUpwards and AdjustDownwards move during one.                      *)
(***************************************************************************)
THEOREM StaysInOrder == Spec => []HeapOrder
  BY Invariant, PTL DEF IInv

(***************************************************************************)
(* heap_index_ of every timer in the heap is its position, so that Remove  *)
(* takes the timer it is given.                                            *)
(***************************************************************************)
THEOREM IndicesAgree == Spec => []IndexIsPosition
  BY Invariant, PTL DEF IInv

-----------------------------------------------------------------------------
(* The heap implements the set of timers *)

\* The refinement mapping, and the timers in all slots but the hole.
Set == {<<t, deadline_[t]>> : t \in Contents}
Others == {timers_[s] : s \in {r \in 0..(count - 1) : r # i}}

\* The abstract heap does not move: neither its timers nor their deadlines
\* change, and nothing is returned.
LEMMA Stutters ==
  ASSUME Contents' = Contents, \A t \in Contents : deadline_'[t] = deadline_[t],
         UNCHANGED <<first, top>>
  PROVE  UNCHANGED <<Set, top, first>>
  BY DEF Set

LEMMA AddStutters ==
  ASSUME IInv, NEW t \in Timers, NEW d \in Deadlines, Add(t, d)
  PROVE  UNCHANGED <<Set, top, first>>
<1>1. /\ count \in Nat /\ op = "none" /\ op' = "add" /\ i' = count
      /\ count' = count + 1 /\ top' = top /\ first' = first
      /\ \A s \in 0..(count - 1) : timers_'[s] = timers_[s]
      /\ \A s \in 0..(count - 1) : timers_[s] # t /\ timers_[s] \in Timers
      /\ \A u \in Timers : u # t => deadline_'[u] = deadline_[u]
  BY HeapAssumption DEF IInv, OpInv, IndexIsPosition, Add, NewIndex, TypeOK, Slots,
     Contains
<1>2. {r \in 0..(count' - 1) : r # i'} = 0..(count - 1)
  BY <1>1
<1>3. Contents = {timers_[s] : s \in 0..(count - 1)}
  BY <1>1 DEF Contents
<1>4. Contents' = {timers_'[s] : s \in 0..(count - 1)}
  BY <1>1, <1>2 DEF Contents
<1>5. Contents' = Contents /\ \A u \in Contents : u \in Timers /\ u # t
  BY <1>1, <1>3, <1>4
<1> QED BY <1>1, <1>5, Stutters

LEMMA MoveHoleStutters ==
  ASSUME IInv, pc # "idle", NEW p \in 0..(count - 1), p # i, MoveHole(p)
  PROVE  UNCHANGED <<Set, top, first>>
<1>1. /\ count \in Nat /\ i \in 0..(count - 1) /\ op \in {"add", "remove"}
      /\ count' = count /\ op' = op /\ subject' = subject /\ moving' = moving
      /\ i' = p /\ top' = top /\ first' = first /\ deadline_' = deadline_
      /\ \A s \in 0..(count - 1) : s \in Slots
  BY SlotFacts DEF MoveHole, IInv, OpInv, TypeOK
<1>2. \A s \in 0..(count - 1) : timers_'[s] = timers_[IF s = i THEN p ELSE s]
  BY <1>1 DEF MoveHole, IInv, TypeOK
<1>3. Others' = Others
  <2>1. \A x \in Others : x \in Others'
    <3> SUFFICES ASSUME NEW s \in 0..(count - 1), s # i
                 PROVE  timers_[s] \in Others'
      BY DEF Others
    <3>1. CASE s = p
      BY <3>1, <1>1, <1>2 DEF Others
    <3>2. CASE s # p
      BY <3>2, <1>1, <1>2 DEF Others
    <3> QED BY <3>1, <3>2
  <2>2. \A x \in Others' : x \in Others
    <3> SUFFICES ASSUME NEW s \in 0..(count - 1), s # p
                 PROVE  timers_'[s] \in Others
      BY <1>1 DEF Others
    <3> QED BY <1>1, <1>2 DEF Others
  <2> QED BY <2>1, <2>2
<1>4. Contents' = Contents
  BY <1>1, <1>3 DEF Contents, Others
<1> QED BY <1>1, <1>4, Stutters

\* The heap at rest holds the root, and every timer is no earlier.
RootOnTop ==
  op = "none" /\ count # 0 =>
    /\ top \in Contents
    /\ \A t \in Contents : deadline_[top] <= deadline_[t]

LEMMA TopIsEarliest == IInv => RootOnTop
<1> SUFFICES ASSUME IInv, op = "none", count # 0
             PROVE  /\ top \in Contents
                    /\ \A t \in Contents : deadline_[top] <= deadline_[t]
  BY DEF RootOnTop
<1>1. /\ count \in Nat /\ pc = "idle" /\ top = timers_[0]
      /\ Contents = {timers_[s] : s \in 0..(count - 1)}
      /\ \A s \in 0..(count - 1) : At(s) \in Nat
      /\ \A s \in 1..(count - 1) : At(Parent(s)) <= At(s)
  BY SlotFacts DEF IInv, OpInv, TopInv, IndexIsPosition, HeapOrder, Contents
<1> DEFINE f == [s \in 0..(count - 1) |-> At(s)]
<1>2. \A s \in 0..(count - 1) : f[0] <= f[s]
  <2>1. \A s \in 0..(count - 1) : f[s] \in Nat
    BY <1>1
  <2>2. \A s \in 1..(count - 1) : f[Parent(s)] <= f[s]
    <3>1. \A s \in 1..(count - 1) : Parent(s) \in 0..(count - 1)
      BY <1>1, ParentFacts
    <3> QED BY <1>1, <3>1
  <2> HIDE DEF f
  <2> QED BY <1>1, <2>1, <2>2, RootIsLeast
<1>3. 0 \in 0..(count - 1)
  BY <1>1
<1>4. \A s \in 0..(count - 1) : At(0) <= At(s)
  BY <1>2, <1>3
<1> QED BY <1>1, <1>3, <1>4 DEF At

\* What Remove returns is what TimerSet says, once the array is at rest.
LEMMA RemovedIs ==
  ASSUME IInv, IInv', NEW t \in Contents, t \in Timers, Contents' = Contents \ {t},
         \A u \in Contents' : deadline_'[u] = deadline_[u],
         op' = "none", first' = FALSE
  PROVE  Abstract!Remove(t)
<1>1. t \in Abstract!Members
  <2>1. <<t, deadline_[t]>> \in Set /\ <<t, deadline_[t]>>[1] = t
    BY DEF Set
  <2>2. t \in {e[1] : e \in Set}
    BY <2>1, Zenon
  <2> QED BY <2>2 DEF Abstract!Members, Set
<1>2. Set' = {e \in Set : e[1] # t}
  BY DEF Set
<1>3. CASE count' = 0
  <2>1. Contents' = {} /\ top' = NoTimer
    BY <1>3 DEF Contents, IInv, TopInv
  <2>2. Set' = {}
    BY <2>1 DEF Set
  <2> QED BY <1>1, <1>2, <2>1, <2>2 DEF Abstract!Remove, Set
<1>4. CASE count' # 0
  <2>1. /\ top' \in Contents'
        /\ \A u \in Contents' : deadline_'[top'] <= deadline_'[u]
    <3>1. RootOnTop'
      BY TopIsEarliest, PTL
    <3> QED BY <1>4, <3>1 DEF RootOnTop
  <2>2. \E e \in Set' : top' = e[1] /\ \A f \in Set' : e[2] <= f[2]
    <3>1. <<top', deadline_'[top']>> \in Set'
      BY <2>1 DEF Set
    <3>2. \A f \in Set' : deadline_'[top'] <= f[2]
      BY <2>1 DEF Set
    <3> WITNESS <<top', deadline_'[top']>> \in Set'
    <3> QED BY <3>2
  <2> QED BY <1>1, <1>2, <2>2 DEF Abstract!Remove, Set
<1> QED BY <1>3, <1>4

\* The end of AdjustUpwards or AdjustDownwards is the step of TimerSet.
LEMMA PlaceRefines ==
  ASSUME IInv, IInv', pc # "idle", Place,
         op = "add" /\ i # 0 => At(Parent(i)) <= deadline_[moving]
  PROVE  Abstract!Next
<1>1. /\ count \in Nat /\ i \in 0..(count - 1) /\ moving \in Timers
      /\ count' = count /\ op' = "none" /\ op \in {"add", "remove"}
      /\ first' = (op = "add" /\ i = 0)
      /\ timers_'[i] = moving
      /\ \A s \in 0..(count - 1) : s # i => timers_'[s] = timers_[s]
      /\ \A s \in 0..(count - 1) : s # i => timers_[s] \in Timers
      /\ \A s \in 0..(count - 1) : s # i => timers_[s] # moving
      /\ \A s \in 0..(count - 1) : s # i /\ op = "remove" => timers_[s] # subject
      /\ \A s \in 0..(count - 1) : s # i => At(s) \in Nat
      /\ deadline_[moving] \in Nat
  BY PlaceFacts, SlotFacts DEF IInv, OpInv, TypeOK, IndexIsPosition, HoleInv, Place,
     Return
<1>2. Contents' = Others \cup {moving} /\ moving \notin Others /\ Others \subseteq Timers
  <2>1. Contents' = {timers_'[s] : s \in 0..(count - 1)}
    BY <1>1 DEF Contents
  <2> QED BY <1>1, <2>1 DEF Others
<1>3. \A t \in Timers : (op = "remove" /\ t = subject) \/ deadline_'[t] = deadline_[t]
  BY HeapAssumption DEF Place, Return
<1>4. CASE op = "remove"
  <2>1. /\ subject \in Timers /\ subject # moving /\ subject \notin Others
        /\ Contents = Others \cup {moving, subject}
    BY <1>1, <1>4 DEF IInv, OpInv, Contents, Others
  <2>2. PICK t \in Timers : t = subject
    BY <2>1
  <2>3. Abstract!Remove(t)
    <3>1. t \in Contents /\ Contents' = Contents \ {t}
      BY <1>2, <2>1, <2>2
    <3>2. \A u \in Contents' : deadline_'[u] = deadline_[u]
      BY <1>1, <1>2, <1>3, <2>1
    <3>3. first' = FALSE
      BY <1>1, <1>4
    <3> QED BY <1>1, <2>2, <3>1, <3>2, <3>3, RemovedIs
  <2> QED BY <2>3 DEF Abstract!Next
<1>5. CASE op = "add"
  <2>1. PICK t \in Timers, d \in Deadlines : t = moving /\ d = deadline_[moving]
    BY <1>1, <1>5 DEF IInv, OpInv
  <2>2. Contents = Others
    BY <1>1, <1>5 DEF Contents, Others
  <2>3. Set' = Set \cup {<<t, d>>}
    <3>1. \A u \in Contents' : deadline_'[u] = deadline_[u]
      BY <1>1, <1>2, <1>3, <1>5
    <3> QED BY <1>2, <2>1, <2>2, <3>1 DEF Set
  <2>4. t \notin Abstract!Members
    <3>1. \A e \in Set : e[1] \in Others
      BY <2>2 DEF Set
    <3> QED BY <1>2, <2>1, <3>1 DEF Abstract!Members, Set
  \* The timer is on top exactly if all others are later.
  <2>5. first' = \A e \in Set : d < e[2]
    <3>1. CASE i = 0
      <4>1. \A s \in 0..(count - 1) : s # 0 => d < At(s)
        <5> DEFINE f == [s \in 0..(count - 1) |-> IF s = 0 THEN d + 1 ELSE At(s)]
        <5>1. \A s \in 0..(count - 1) : f[s] \in Nat
          BY <1>1, <2>1, <3>1
        <5>2. \A s \in 1..(count - 1) : f[Parent(s)] <= f[s]
          <6>1. \A s \in 1..(count - 1) : Parent(s) \in 0..(count - 1)
            BY <1>1, ParentFacts
          <6>2. \A s \in 1..(count - 1) : Parent(s) = 0 => d < At(s)
            BY <1>5, <2>1, <3>1 DEF IInv, AroundHole
          <6>3. \A s \in 1..(count - 1) : Parent(s) # 0 => At(Parent(s)) <= At(s)
            BY <3>1 DEF IInv, HeapOrder
          <6> QED BY <1>1, <2>1, <3>1, <6>1, <6>2, <6>3
        <5> HIDE DEF f
        <5>3. \A s \in 0..(count - 1) : f[0] <= f[s]
          BY <1>1, <5>1, <5>2, RootIsLeast
        <5> QED BY <1>1, <2>1, <3>1, <5>3 DEF f
      <4>2. \A u \in Others : d < deadline_[u]
        BY <3>1, <4>1 DEF Others, At
      <4>3. \A e \in Set : d < e[2]
        BY <2>2, <4>2 DEF Set
      <4> QED BY <1>1, <1>5, <3>1, <4>3
    <3>2. CASE i # 0
      <4>1. i \in Nat /\ Parent(i) \in 0..(count - 1) /\ Parent(i) # i
        BY <1>1, <3>2, ParentFacts
      <4>2. PICK p \in 0..(count - 1) : p = Parent(i) /\ p # i
        BY <4>1
      <4>3. timers_[p] \in Others /\ deadline_[timers_[p]] <= d /\ deadline_[timers_[p]] \in Nat
        BY <1>1, <1>5, <2>1, <3>2, <4>2 DEF Others, At
      <4>4. <<timers_[p], deadline_[timers_[p]]>> \in Set
        BY <2>2, <4>3 DEF Set
      <4>5. ~(d < deadline_[timers_[p]]) 
        BY <1>1, <2>1, <4>3
      <4>6. ~ \A e \in Set : d < e[2]
        BY <4>4, <4>5
      <4> QED BY <1>1, <3>2, <4>6
    <3> QED BY <3>1, <3>2
  <2>6. top' = IF first' THEN t ELSE top
    <3>1. top' = timers_'[0]
      BY <1>1 DEF IInv, TopInv
    <3>2. i # 0 => timers_'[0] = timers_[0] /\ top = timers_[0]
      BY <1>1, <1>5 DEF IInv, TopInv
    <3> QED BY <1>1, <1>5, <2>1, <3>1, <3>2
  <2>7. Abstract!Add(t, d)
    BY <2>3, <2>4, <2>5, <2>6 DEF Abstract!Add, Set
  <2> QED BY <2>7 DEF Abstract!Next
<1> QED BY <1>1, <1>4, <1>5

\* Remove: the last timer of the array leaves it at once, any other when the
\* loop is through.
LEMMA RemoveRefines ==
  ASSUME IInv, IInv', NEW t \in Timers, Remove(t)
  PROVE  Abstract!Next \/ UNCHANGED <<Set, top, first>>
<1>1. /\ op = "none" /\ count \in Nat \ {0} /\ heap_index_[t] \in 0..(count - 1)
      /\ timers_[heap_index_[t]] = t /\ count' = count - 1
      /\ \A s \in 0..(count - 1) : s \in Slots
      /\ \A r \in 0..(count - 1) : timers_[r] \in Timers /\ heap_index_[timers_[r]] = r
  BY SlotFacts DEF Remove, Contains, IInv, IndexIsPosition, OpInv, TypeOK
<1>2. PICK s \in 0..(count - 1) : s = heap_index_[t]
  BY <1>1
<1>3. Contents = {timers_[r] : r \in 0..(count - 1)}
  BY <1>1 DEF Contents
<1>4. CASE s = count - 1
  <2>1. timers_' = [timers_ EXCEPT ![s] = NoTimer] /\ Return(s, t)
    BY <1>1, <1>2, <1>4 DEF Remove
  <2>2. \A r \in 0..(count - 2) : timers_'[r] = timers_[r] /\ timers_[r] # t
    BY <1>1, <1>2, <1>4, <2>1 DEF IInv, TypeOK
  <2>3. op' = "none" /\ first' = FALSE
        /\ \A u \in Timers : u # t => deadline_'[u] = deadline_[u]
    BY <1>1, <2>1 DEF Return
  <2>4. Contents' = {timers_'[r] : r \in 0..(count - 2)}
    BY <1>1, <2>3 DEF Contents
  <2>5. Contents' = Contents \ {t} /\ t \in Contents
    BY <1>1, <1>2, <1>3, <1>4, <2>2, <2>4
  <2>6. \A u \in Contents' : deadline_'[u] = deadline_[u]
    BY <1>1, <1>3, <2>3, <2>5
  <2>7. Abstract!Remove(t)
    BY <2>3, <2>5, <2>6, RemovedIs
  <2> QED BY <2>7 DEF Abstract!Next
<1>5. CASE s # count - 1
  <2>1. PICK last \in Timers : last = timers_[count - 1]
    BY <1>1
  <2>2. /\ timers_' = [timers_ EXCEPT ![s] = last, ![count - 1] = NoTimer]
        /\ op' = "remove" /\ subject' = t /\ i' = s /\ moving' = last
        /\ deadline_' = deadline_ /\ first' = first /\ top' = top
    BY <1>1, <1>2, <1>5, <2>1 DEF Remove
  <2>3. \A r \in 0..(count - 2) : r # s => timers_'[r] = timers_[r]
    BY <1>1, <2>2 DEF IInv, TypeOK
  <2>4. Contents' = {timers_'[r] : r \in {q \in 0..(count - 2) : q # s}} \cup {last, t}
    <3>1. 0..(count' - 1) = 0..(count - 2)
      BY <1>1
    <3> QED BY <2>2, <3>1 DEF Contents
  <2>5. Contents' = Contents
    BY <1>1, <1>2, <1>3, <1>5, <2>1, <2>3, <2>4
  <2> QED BY <2>2, <2>5, Stutters
<1> QED BY <1>4, <1>5

LEMMA InitRefines == Init => Abstract!Init
<1> SUFFICES ASSUME Init PROVE Abstract!Init
  OBVIOUS
<1>1. Contents = {}
  BY DEF Init, Contents
<1> QED BY <1>1 DEF Init, Abstract!Init

LEMMA StepRefines ==
  IInv /\ IInv' /\ [Next]_vars => [Abstract!Next]_(Abstract!vars)
<1> SUFFICES ASSUME IInv, IInv', [Next]_vars
             PROVE  Abstract!Next \/ UNCHANGED <<Set, top, first>>
  BY DEF Abstract!vars, Set
<1>1. ASSUME NEW t \in Timers, NEW d \in Deadlines, Add(t, d)
      PROVE  UNCHANGED <<Set, top, first>>
  BY <1>1, AddStutters
<1>2. ASSUME NEW t \in Timers, Remove(t)
      PROVE  Abstract!Next \/ UNCHANGED <<Set, top, first>>
  BY <1>2, RemoveRefines
<1>3. CASE AdjustUpwards
  <2>1. pc = "up" /\ count \in Nat /\ i \in 0..(count - 1)
    BY <1>3, SlotFacts DEF AdjustUpwards, IInv, OpInv
  <2>2. CASE GoesUp
    <3>1. i \in Nat /\ i # 0 /\ Parent(i) \in 0..(count - 1) /\ Parent(i) # i
      BY <2>1, <2>2, ParentFacts DEF GoesUp
    <3>2. PICK p \in 0..(count - 1) : p = Parent(i) /\ p # i
      BY <3>1
    <3>3. MoveHole(p)
      BY <1>3, <2>2, <3>2 DEF AdjustUpwards
    <3> QED BY <2>1, <3>2, <3>3, MoveHoleStutters
  <2>3. CASE ~GoesUp
    <3>1. Place
      BY <1>3, <2>3 DEF AdjustUpwards
    <3>2. op = "add" /\ i # 0 => At(Parent(i)) <= deadline_[moving]
      <4> HAVE op = "add" /\ i # 0
      <4>1. i \in Nat /\ Parent(i) \in 0..(count - 1) /\ Parent(i) # i
        BY <2>1, ParentFacts
      <4>2. At(Parent(i)) \in Nat /\ deadline_[moving] \in Nat
        BY <2>1, <4>1, SlotFacts DEF IInv, IndexIsPosition, OpInv
      <4> QED BY <2>1, <2>3, <4>2 DEF GoesUp
    <3> QED BY <2>1, <3>1, <3>2, PlaceRefines
  <2> QED BY <2>2, <2>3
<1>4. CASE AdjustDownwards
  <2>1. pc = "down" /\ op = "remove" /\ count \in Nat /\ i \in 0..(count - 1)
    BY <1>4, SlotFacts DEF AdjustDownwards, IInv, OpInv
  <2>2. CASE GoesDown
    <3>1. NextChild \in 0..(count - 1) /\ NextChild # i
      BY <2>1, <2>2 DEF GoesDown, NextChild
    <3>2. PICK c \in 0..(count - 1) : c = NextChild /\ c # i
      BY <3>1
    <3>3. MoveHole(c)
      BY <1>4, <2>2, <3>2 DEF AdjustDownwards
    <3> QED BY <2>1, <3>2, <3>3, MoveHoleStutters
  <2>3. CASE ~GoesDown
    <3>1. Place
      BY <1>4, <2>3 DEF AdjustDownwards
    <3> QED BY <2>1, <3>1, PlaceRefines
  <2> QED BY <2>2, <2>3
<1>5. CASE UNCHANGED vars
  BY <1>5 DEF vars, Set, Contents
<1> QED BY <1>1, <1>2, <1>3, <1>4, <1>5 DEF Next

(***************************************************************************)
(* The heap implements TimerSet: whatever the loops do to the array, Top   *)
(* is a timer with the earliest deadline, Remove takes the timer it was    *)
(* given and no other, and Add returns TRUE exactly when the new timer is  *)
(* earlier than all others.                                                *)
(***************************************************************************)
THEOREM HeapIsTimerSet == Spec => ImplementsTimerSet
<1>1. Spec => []IInv
  BY Invariant
<1>2. Init => Abstract!Init
  BY InitRefines
<1>3. IInv /\ IInv' /\ [Next]_vars => [Abstract!Next]_(Abstract!vars)
  BY StepRefines
<1> QED BY <1>1, <1>2, <1>3, PTL DEF Spec, ImplementsTimerSet, Abstract!Spec
=============================================================================
