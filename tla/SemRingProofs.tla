--------------------------- MODULE SemRingProofs ---------------------------
(***************************************************************************)
(* Proofs about SemRing, for every size of the ring and any number of      *)
(* products.                                                               *)
(***************************************************************************)
EXTENDS SemRing, QueueLemmas, TLAPS

-----------------------------------------------------------------------------
(* The ring's arithmetic *)

\* The cell k places behind cell c, without the remainder.
LEMMA CellFromIs ==
  ASSUME NEW c \in Cells, NEW k \in 0..NUM
  PROVE  /\ CellFrom(c, k) = IF c + k < NUM THEN c + k ELSE c + k - NUM
         /\ CellFrom(c, k) \in Cells
<1>. DEFINE j == c + k
<1>1. j \in 0..(2 * NUM - 1)
  BY RingAssumption DEF Cells
<1>. HIDE DEF j
<1>2. j % NUM = IF j < NUM THEN j ELSE j - NUM
  BY <1>1, ModBelowTwice, RingAssumption
<1>. QED
  BY <1>1, <1>2, RingAssumption DEF CellFrom, Cells, j

\* NextCell moves one place on.
LEMMA NextCellIs ==
  ASSUME NEW c \in Cells
  PROVE  NextCell(c) = CellFrom(c, 1) /\ NextCell(c) \in Cells
<1>1. 1 \in 0..NUM
  BY RingAssumption
<1>. QED
  BY <1>1, CellFromIs DEF NextCell, CellFrom

LEMMA NextOfCellFrom ==
  ASSUME NEW c \in Cells, NEW k \in Cells
  PROVE  /\ NextCell(CellFrom(c, k)) = CellFrom(c, k + 1)
         /\ CellFrom(NextCell(c), k) = CellFrom(c, k + 1)
<1>. DEFINE x == CellFrom(c, k)
            y == NextCell(c)
<1>0. NUM \in Nat \ {0} /\ c \in 0..(NUM - 1) /\ k \in 0..NUM /\ k + 1 \in 0..NUM /\ 1 \in 0..NUM
  BY RingAssumption DEF Cells
<1>1. x \in 0..(NUM - 1) /\ x = IF c + k < NUM THEN c + k ELSE c + k - NUM
  BY <1>0, CellFromIs DEF Cells
<1>2. y \in 0..(NUM - 1) /\ y = IF c + 1 < NUM THEN c + 1 ELSE c + 1 - NUM
  BY <1>0, CellFromIs, NextCellIs DEF Cells
<1>3. CellFrom(c, k + 1) = IF c + (k + 1) < NUM THEN c + (k + 1) ELSE c + (k + 1) - NUM
  BY <1>0, CellFromIs DEF Cells
<1>4. NextCell(x) = IF x + 1 < NUM THEN x + 1 ELSE x + 1 - NUM
  BY <1>0, <1>1, CellFromIs, NextCellIs DEF Cells
<1>5. CellFrom(y, k) = IF y + k < NUM THEN y + k ELSE y + k - NUM
  BY <1>0, <1>2, CellFromIs DEF Cells
<1>. HIDE DEF x, y
<1>6. NextCell(x) = CellFrom(c, k + 1) /\ CellFrom(y, k) = CellFrom(c, k + 1)
  BY <1>0, <1>1, <1>2, <1>3, <1>4, <1>5
<1>. QED
  BY <1>6 DEF x, y

\* Going once round the ring visits every cell once and comes back.
LEMMA CellFromOnce ==
  ASSUME NEW c \in Cells
  PROVE  /\ \A j, k \in Cells : CellFrom(c, j) = CellFrom(c, k) => j = k
         /\ CellFrom(c, 0) = c /\ CellFrom(c, NUM) = c
<1>0. NUM \in Nat \ {0} /\ c \in 0..(NUM - 1) /\ 0 \in 0..NUM /\ NUM \in 0..NUM
  BY RingAssumption DEF Cells
<1>1. ASSUME NEW j \in Cells, NEW k \in Cells, CellFrom(c, j) = CellFrom(c, k) PROVE j = k
  <2>1. j \in 0..NUM /\ k \in 0..NUM
    BY <1>0 DEF Cells
  <2>2. /\ CellFrom(c, j) = IF c + j < NUM THEN c + j ELSE c + j - NUM
        /\ CellFrom(c, k) = IF c + k < NUM THEN c + k ELSE c + k - NUM
    BY <2>1, CellFromIs
  <2>3. j \in 0..(NUM - 1) /\ k \in 0..(NUM - 1)
    BY DEF Cells
  <2>4. (IF c + j < NUM THEN c + j ELSE c + j - NUM) = (IF c + k < NUM THEN c + k ELSE c + k - NUM)
    BY <1>1, <2>2
  <2>. QED
    BY <1>0, <2>3, <2>4
<1>2. CellFrom(c, 0) = c /\ CellFrom(c, NUM) = c
  BY <1>0, CellFromIs
<1>. QED
  BY <1>1, <1>2

\* Filling the cell behind the last full one.
LEMMA RingFills ==
  ASSUME NEW f \in Cells, NEW r \in Cells, NEW n \in Cells,
         NEW q \in [Cells -> Items \cup {0}], NEW v \in Items,
         RingHolds(f, r, n, q)
  PROVE  RingHolds(f, NextCell(r), n + 1, [q EXCEPT ![r] = v]) /\ q[r] = 0
<1>. n \in Nat /\ NUM \in Nat
  BY RingAssumption DEF Cells
<1>1. NextCell(r) = CellFrom(f, n + 1)
  BY NextOfCellFrom DEF RingHolds
<1>2. \A k \in Cells : CellFrom(f, k) \in Cells
  <2>1. \A k \in Cells : k \in 0..NUM
    BY RingAssumption DEF Cells
  <2>. QED
    BY <2>1, CellFromIs
<1>3. ASSUME NEW k \in Cells
      PROVE  [q EXCEPT ![r] = v][CellFrom(f, k)] # 0 <=> k < n + 1
  <2>1. CASE k = n
    BY <1>2, <2>1 DEF RingHolds, Items, Cells
  <2>2. CASE k # n
    <3>1. CellFrom(f, k) # r
      BY <2>2, CellFromOnce DEF RingHolds
    <3>2. [q EXCEPT ![r] = v][CellFrom(f, k)] = q[CellFrom(f, k)]
      BY <1>2, <3>1
    <3>3. k < n <=> k < n + 1
      BY <2>2 DEF Cells
    <3>. QED
      BY <3>2, <3>3 DEF RingHolds
  <2>. QED
    BY <2>1, <2>2
<1>4. q[r] = 0
  BY DEF RingHolds, Cells
<1>. QED
  BY <1>1, <1>3, <1>4 DEF RingHolds

\* Clearing the first full cell.
LEMMA RingEmpties ==
  ASSUME NEW f \in Cells, NEW r \in Cells, NEW n \in 1..NUM,
         NEW q \in [Cells -> Items \cup {0}],
         RingHolds(f, r, n, q)
  PROVE  RingHolds(NextCell(f), r, n - 1, [q EXCEPT ![f] = 0]) /\ q[f] # 0
<1>. n \in Nat /\ NUM \in Nat /\ 0 \in Cells /\ n - 1 \in Cells
  BY RingAssumption DEF Cells
<1>1. r = CellFrom(NextCell(f), n - 1)
  <2>1. CellFrom(NextCell(f), n - 1) = CellFrom(f, (n - 1) + 1)
    BY NextOfCellFrom
  <2>. QED
    BY <2>1 DEF RingHolds
<1>2. \A k \in Cells : CellFrom(f, k) \in Cells
  <2>1. \A k \in Cells : k \in 0..NUM
    BY RingAssumption DEF Cells
  <2>. QED
    BY <2>1, CellFromIs
<1>3. ASSUME NEW k \in Cells
      PROVE  [q EXCEPT ![f] = 0][CellFrom(NextCell(f), k)] # 0 <=> k < n - 1
  <2>1. CellFrom(NextCell(f), k) = CellFrom(f, k + 1)
    BY NextOfCellFrom
  <2>2. CASE k + 1 = NUM
    <3>1. CellFrom(NextCell(f), k) = f
      BY <2>1, <2>2, CellFromOnce
    <3>2. ~(k < n - 1)
      BY <2>2 DEF Cells
    <3>. QED
      BY <3>1, <3>2
  <2>3. CASE k + 1 # NUM
    <3>1. k + 1 \in Cells /\ k + 1 # 0
      BY <2>3 DEF Cells
    <3>2. CellFrom(f, k + 1) # f /\ CellFrom(f, k + 1) \in Cells
      BY <1>2, <3>1, CellFromOnce
    <3>3. [q EXCEPT ![f] = 0][CellFrom(f, k + 1)] = q[CellFrom(f, k + 1)]
      BY <3>2
    <3>4. q[CellFrom(f, k + 1)] # 0 <=> k + 1 < n
      BY <3>1 DEF RingHolds
    <3>5. k + 1 < n <=> k < n - 1
      BY DEF Cells
    <3>. QED
      BY <2>1, <3>3, <3>4, <3>5
  <2>. QED
    BY <2>2, <2>3
<1>4. q[f] # 0
  BY CellFromOnce DEF RingHolds, Cells
<1>. QED
  BY <1>1, <1>3, <1>4 DEF RingHolds

-----------------------------------------------------------------------------
(* The invariant: the semaphores and the indices describe the same ring    *)

\* A product being made is within the bound; one being consumed is a product.
SeenHeld ==
  /\ ppc = "write" => made < NumItems
  /\ cpc = "clear" => seen \in Items

Inv == TypeOK /\ SeenHeld /\ CellsAccounted /\ RingConsistent

LEMMA InitInv == Init => Inv
<1>. SUFFICES ASSUME Init PROVE Inv
  OBVIOUS
<1>0. NUM \in Nat \ {0} /\ 0 \in Cells /\ NumItems \in Nat
  BY RingAssumption DEF Cells
<1>1. TypeOK /\ SeenHeld
  BY <1>0 DEF Init, TypeOK, SeenHeld
<1>2. CellsAccounted
  BY <1>0 DEF Init, CellsAccounted, Producing, Consuming
<1>3. First = 0 /\ Free = 0 /\ Full = 0
  BY DEF Init, First, Free, Full
<1>4. CellFrom(0, 0) = 0 /\ \A k \in Cells : CellFrom(0, k) \in Cells
  <2>1. \A k \in Cells : k \in 0..NUM
    BY <1>0 DEF Cells
  <2>. QED
    BY <1>0, <2>1, CellFromIs, CellFromOnce
<1>5. \A k \in Cells : queue[CellFrom(0, k)] # 0 <=> k < 0
  BY <1>0, <1>4 DEF Init, Cells
<1>. QED
  BY <1>1, <1>2, <1>3, <1>4, <1>5 DEF Inv, RingConsistent, RingHolds

\* In a state of the invariant the next cell to fill or to empty is a cell.
LEMMA PlacesTyped ==
  ASSUME Inv
  PROVE  First \in Cells /\ Free \in Cells /\ Full \in 0..NUM /\ NUM \in Nat \ {0}
<1>1. First \in Cells /\ Free \in Cells
  BY NextCellIs DEF Inv, TypeOK, First, Free
<1>2. Full \in 0..NUM
  BY RingAssumption DEF Inv, TypeOK, CellsAccounted, Producing, Consuming, Full
<1>. QED
  BY <1>1, <1>2, RingAssumption

\* The producer between its semaphores works on the first blank cell.
LEMMA ProducerCell ==
  ASSUME Inv, ppc = "write"
  PROVE  queue[pi] = 0 /\ Full \in Cells /\ Free = pi
<1>1. Full \in Cells
  BY RingAssumption DEF Inv, TypeOK, CellsAccounted, Producing, Consuming, Full, Cells
<1>2. Free = pi
  BY DEF Free
<1>3. \A k \in Cells : k = Full => queue[CellFrom(First, k)] = 0
  BY <1>1 DEF Inv, RingConsistent, RingHolds, Cells
<1>. QED
  BY <1>1, <1>2, <1>3 DEF Inv, RingConsistent, RingHolds

\* The consumer between its semaphores works on the first full cell.
LEMMA ConsumerCell ==
  ASSUME Inv, cpc \in {"read", "clear"}
  PROVE  queue[ci] \in Items /\ Full \in 1..NUM /\ First = ci
<1>1. Full \in 1..NUM
  BY RingAssumption DEF Inv, TypeOK, CellsAccounted, Producing, Consuming, Full
<1>2. First = ci /\ ci \in Cells /\ queue \in [Cells -> Items \cup {0}]
  BY DEF First, Inv, TypeOK
<1>3. queue[ci] # 0
  <2>1. 0 \in Cells /\ CellFrom(ci, 0) = ci /\ 0 < Full
    BY <1>1, <1>2, CellFromOnce, RingAssumption DEF Cells
  <2>. QED
    BY <1>2, <2>1 DEF Inv, RingConsistent, RingHolds
<1>. QED
  BY <1>1, <1>2, <1>3

LEMMA NextKeepsInv == Inv /\ [Next]_vars => Inv'
<1>. SUFFICES ASSUME Inv, [Next]_vars PROVE Inv'
  OBVIOUS
<1>. USE RingAssumption
<1>0. First \in Cells /\ Free \in Cells /\ Full \in 0..NUM
  BY PlacesTyped
<1>1. CASE UNCHANGED vars
  BY <1>1 DEF vars, Inv, TypeOK, SeenHeld, CellsAccounted, Producing, Consuming,
     RingConsistent, First, Free, Full
<1>2. CASE WaitBlank
  <2>1. First' = First /\ Free' = Free /\ Full' = Full
    BY <1>2 DEF WaitBlank, First, Free, Full
  <2>2. TypeOK' /\ SeenHeld' /\ CellsAccounted'
    BY <1>2 DEF WaitBlank, Inv, TypeOK, SeenHeld, CellsAccounted, Producing, Consuming
  <2>. QED
    BY <1>2, <2>1, <2>2 DEF WaitBlank, Inv, RingConsistent
<1>3. CASE Write
  <2>1. queue[pi] = 0 /\ Full \in Cells /\ Free = pi /\ pi \in Cells /\ ppc = "write"
    BY <1>3, ProducerCell DEF Write, Inv, TypeOK
  <2>2. First' = First /\ Free' = NextCell(pi) /\ Full' = Full + 1
    BY <1>3, <2>1 DEF Write, First, Free, Full, Inv, TypeOK
  <2>3. made + 1 \in Items /\ made + 1 \in 0..NumItems
    BY <2>1 DEF Inv, TypeOK, SeenHeld, Items
  <2>4. RingHolds(First, NextCell(pi), Full + 1, [queue EXCEPT ![pi] = made + 1])
    BY <1>0, <2>1, <2>3, RingFills DEF Inv, TypeOK, RingConsistent
  <2>5. RingConsistent'
    BY <1>3, <2>2, <2>4 DEF Write, RingConsistent
  <2>6. TypeOK' /\ SeenHeld' /\ CellsAccounted'
    BY <1>3, <2>3 DEF Write, Inv, TypeOK, SeenHeld, CellsAccounted, Producing, Consuming
  <2>. QED
    BY <2>5, <2>6 DEF Inv
<1>4. CASE PostProduct
  <2>1. First' = First /\ Free' = Free
    BY <1>4 DEF PostProduct, First, Free
  <2>2. Full' = Full
    BY <1>4 DEF PostProduct, Full, Inv, TypeOK
  <2>3. producer_number + 1 \in 0..NUM /\ NextCell(pi) \in Cells
    BY <1>4, NextCellIs DEF PostProduct, Inv, TypeOK, CellsAccounted, Producing, Consuming
  <2>4. TypeOK' /\ SeenHeld' /\ CellsAccounted'
    BY <1>4, <2>3 DEF PostProduct, Inv, TypeOK, SeenHeld, CellsAccounted, Producing, Consuming
  <2>. QED
    BY <1>4, <2>1, <2>2, <2>4 DEF PostProduct, Inv, RingConsistent
<1>5. CASE WaitProduct
  <2>1. First' = First /\ Free' = Free
    BY <1>5 DEF WaitProduct, First, Free
  <2>2. Full' = Full
    BY <1>5 DEF WaitProduct, Full, Inv, TypeOK
  <2>3. TypeOK' /\ SeenHeld' /\ CellsAccounted'
    BY <1>5 DEF WaitProduct, Inv, TypeOK, SeenHeld, CellsAccounted, Producing, Consuming
  <2>. QED
    BY <1>5, <2>1, <2>2, <2>3 DEF WaitProduct, Inv, RingConsistent
<1>6. CASE Read
  <2>1. First' = First /\ Free' = Free /\ Full' = Full
    BY <1>6 DEF Read, First, Free, Full
  <2>2. queue[ci] \in Items
    BY <1>6, ConsumerCell DEF Read
  <2>3. TypeOK' /\ SeenHeld' /\ CellsAccounted'
    BY <1>6, <2>2 DEF Read, Inv, TypeOK, SeenHeld, CellsAccounted, Producing, Consuming
  <2>. QED
    BY <1>6, <2>1, <2>3 DEF Read, Inv, RingConsistent
<1>7. CASE Clear
  <2>1. Full \in 1..NUM /\ First = ci /\ ci \in Cells
    BY <1>7, ConsumerCell DEF Clear, Inv, TypeOK
  <2>2. First' = NextCell(ci) /\ Free' = Free
    BY <1>7 DEF Clear, First, Free
  <2>3. Full' = Full - 1
    BY <1>7 DEF Clear, Full, Inv, TypeOK
  <2>4. RingHolds(NextCell(ci), Free, Full - 1, [queue EXCEPT ![ci] = 0])
    BY <1>0, <2>1, RingEmpties DEF Inv, TypeOK, RingConsistent
  <2>5. RingConsistent'
    BY <1>7, <2>2, <2>3, <2>4 DEF Clear, RingConsistent
  <2>6. TypeOK' /\ SeenHeld' /\ CellsAccounted'
    BY <1>7 DEF Clear, Inv, TypeOK, SeenHeld, CellsAccounted, Producing, Consuming
  <2>. QED
    BY <2>5, <2>6 DEF Inv
<1>8. CASE PostBlank
  <2>1. First' = First /\ Free' = Free
    BY <1>8 DEF PostBlank, First, Free
  <2>2. Full' = Full
    BY <1>8 DEF PostBlank, Full
  <2>3. blank_number + 1 \in 0..NUM /\ NextCell(ci) \in Cells
    BY <1>8, NextCellIs DEF PostBlank, Inv, TypeOK, CellsAccounted, Producing, Consuming
  <2>4. TypeOK' /\ SeenHeld' /\ CellsAccounted'
    BY <1>8, <2>3 DEF PostBlank, Inv, TypeOK, SeenHeld, CellsAccounted, Producing, Consuming
  <2>. QED
    BY <1>8, <2>1, <2>2, <2>4 DEF PostBlank, Inv, RingConsistent
<1>. QED
  BY <1>1, <1>2, <1>3, <1>4, <1>5, <1>6, <1>7, <1>8 DEF Next, Producer, Consumer

LEMMA Invariant == Spec => []Inv
  BY InitInv, NextKeepsInv, PTL DEF Spec

\* Every variable keeps its type.
THEOREM TypeCorrect == Spec => []TypeOK
<1>1. Inv => TypeOK
  BY DEF Inv
<1>. QED
  BY Invariant, <1>1, PTL

\* The full cells are those between the consumer's and the producer's private indices,
\* as many as the semaphores say.
THEOREM RingKept == Spec => []RingConsistent
<1>1. Inv => RingConsistent
  BY DEF Inv
<1>. QED
  BY Invariant, <1>1, PTL

\* No product is overwritten before it is read, and no blank cell is read.
THEOREM NoClash == Spec => []NoCellClash
<1>1. Inv => NoCellClash
  <2>. SUFFICES ASSUME Inv PROVE NoCellClash
    OBVIOUS
  <2>1. ppc = "write" => queue[pi] = 0
    BY ProducerCell
  <2>2. cpc \in {"read", "clear"} => queue[ci] # 0
    <3>1. cpc \in {"read", "clear"} => queue[ci] \in Items
      BY ConsumerCell
    <3>. QED
      BY <3>1 DEF Items
  <2>. QED
    BY <2>1, <2>2 DEF NoCellClash
<1>. QED
  BY Invariant, <1>1, PTL

\* Each cell is counted by one of the semaphores or held by one of the threads.
THEOREM CellsKept == Spec => []CellsAccounted
<1>1. Inv => CellsAccounted
  BY DEF Inv
<1>. QED
  BY Invariant, <1>1, PTL

-----------------------------------------------------------------------------
(* The ring is a first-in first-out queue *)

\* Products are numbered as they are made, so that one that is yet to be made is nowhere;
\* only the consumer between its read and its clearing has one in hand.
Numbered ==
  /\ \A c \in Cells : queue[c] <= made
  /\ \A x \in done : x <= made
  /\ seen <= made
  /\ cpc # "clear" => seen = 0
  /\ cpc = "clear" => seen = queue[ci]

LEMMA InitNumbered == Init => Numbered
  BY DEF Init, Numbered

LEMMA NextKeepsNumbered == Inv /\ Numbered /\ [Next]_vars => Numbered'
<1>. SUFFICES ASSUME Inv, Numbered, [Next]_vars PROVE Numbered'
  OBVIOUS
<1>0. /\ queue \in [Cells -> Items \cup {0}] /\ made \in Nat /\ pi \in Cells /\ ci \in Cells
      /\ seen \in Items \cup {0} /\ done \subseteq Items
      /\ Items \subseteq Nat
  BY RingAssumption DEF Inv, TypeOK, Items
<1>9. \A c \in Cells : queue[c] \in Nat
  BY RingAssumption DEF Inv, TypeOK, Items
<1>1. CASE UNCHANGED vars \/ WaitBlank \/ PostProduct \/ WaitProduct \/ PostBlank
  BY <1>1 DEF vars, WaitBlank, PostProduct, WaitProduct, PostBlank, Numbered
<1>2. CASE Write
  <2>1. cpc = "clear" => pi # ci
    BY <1>2, ProducerCell, ConsumerCell DEF Write, Items
  <2>2. made' = made + 1 /\ queue' = [queue EXCEPT ![pi] = made + 1]
        /\ UNCHANGED <<cpc, ci, seen, done>>
    BY <1>2 DEF Write
  <2>3. /\ \A c \in Cells : [queue EXCEPT ![pi] = made + 1][c] <= made + 1
        /\ \A x \in done : x <= made + 1
        /\ seen <= made + 1
    <3>1. \A x \in Nat : x <= made => x <= made + 1
      BY <1>0
    <3>. QED
      BY <1>0, <1>9, <3>1 DEF Numbered
  <2>4. cpc = "clear" => seen = [queue EXCEPT ![pi] = made + 1][ci]
    BY <1>0, <2>1 DEF Numbered
  <2>5. cpc # "clear" => seen = 0
    BY DEF Numbered
  <2>. QED
    BY <2>2, <2>3, <2>4, <2>5 DEF Numbered
<1>3. CASE Read
  BY <1>0, <1>3 DEF Read, Numbered
<1>4. CASE Clear
  BY <1>0, <1>4 DEF Clear, Numbered
<1>. QED
  BY <1>1, <1>2, <1>3, <1>4 DEF Next, Producer, Consumer

\* The products that have not been printed are where the mapping looks for them.
Skip == IF cpc = "clear" THEN 1 ELSE 0
Waiting == Full - Skip

LEMMA UnreadIs ==
  ASSUME Inv
  PROVE  /\ Waiting \in 0..NUM /\ Waiting + Skip = Full /\ Skip \in {0, 1}
         /\ Unread = [k \in 1..Waiting |-> queue[CellFrom(First, k - 1 + Skip)]]
         /\ Unread \in [1..Waiting -> Items]
         /\ \A k \in 1..Waiting : CellFrom(First, k - 1 + Skip) \in Cells
<1>1. First \in Cells /\ Full \in 0..NUM /\ NUM \in Nat \ {0}
  BY PlacesTyped
<1>2. cpc = "clear" => Full \in 1..NUM
  BY ConsumerCell
<1>3. Waiting \in 0..NUM /\ Waiting + Skip = Full /\ Skip \in {0, 1}
  BY <1>1, <1>2 DEF Waiting, Skip
<1>4. Unread = [k \in 1..Waiting |-> queue[CellFrom(First, k - 1 + Skip)]]
  BY DEF Unread, Waiting, Skip
<1>5. ASSUME NEW k \in 1..Waiting
      PROVE  CellFrom(First, k - 1 + Skip) \in Cells /\ queue[CellFrom(First, k - 1 + Skip)] \in Items
  <2>1. k - 1 + Skip \in Cells /\ k - 1 + Skip \in 0..NUM /\ k - 1 + Skip < Full
    BY <1>1, <1>3 DEF Cells
  <2>2. CellFrom(First, k - 1 + Skip) \in Cells
    BY <1>1, <2>1, CellFromIs
  <2>3. queue[CellFrom(First, k - 1 + Skip)] # 0
    BY <2>1 DEF Inv, RingConsistent, RingHolds
  <2>. QED
    BY <2>2, <2>3 DEF Inv, TypeOK
<1>. QED
  BY <1>3, <1>4, <1>5

\* What a step leaves alone, the queue does not see.
LEMMA UnreadKept ==
  ASSUME First' = First, Full' = Full, Skip' = Skip, queue' = queue
  PROVE  Unread' = Unread
<1>1. Unread = [k \in 1..(Full - Skip) |-> queue[CellFrom(First, k - 1 + Skip)]]
  BY DEF Unread, Skip
<1>2. Unread' = [k \in 1..(Full' - Skip') |-> queue'[CellFrom(First', k - 1 + Skip')]]
  BY DEF Unread, Skip, CellFrom
<1>. QED
  BY <1>1, <1>2

\* The producer's write is the arrival of a new product.
LEMMA WriteAdds ==
  ASSUME Inv, Numbered, Write
  PROVE  Promise!Add(made + 1)
<1>1. /\ Full \in Cells /\ Free = pi /\ pi \in Cells /\ queue[pi] = 0
      /\ First \in Cells /\ NUM \in Nat \ {0} /\ made \in Nat
  BY ProducerCell, PlacesTyped, RingAssumption DEF Write, Inv, TypeOK
<1>2. First' = First /\ Full' = Full + 1 /\ Skip' = Skip
  BY <1>1 DEF Write, First, Full, Skip, Inv, TypeOK
<1>3. Waiting \in 0..NUM /\ Skip \in {0, 1} /\ Waiting + Skip = Full /\ Waiting < NUM
  BY <1>1, UnreadIs DEF Cells
<1>4. Waiting' = Waiting + 1
  BY <1>1, <1>2, <1>3 DEF Waiting, Cells
<1>5. Unread \in [1..Waiting -> Items]
  BY UnreadIs
<1>6. Unread' = [k \in 1..(Waiting + 1) |-> [queue EXCEPT ![pi] = made + 1][CellFrom(First, k - 1 + Skip)]]
  <2>1. Unread' = [k \in 1..Waiting' |-> queue'[CellFrom(First', k - 1 + Skip')]]
    BY DEF Unread, Waiting, Skip, CellFrom
  <2>. QED
    BY <1>2, <1>4, <2>1 DEF Write
<1>7. Unread'[Waiting + 1] = made + 1
  <2>1. CellFrom(First, (Waiting + 1) - 1 + Skip) = pi
    <3>1. (Waiting + 1) - 1 + Skip = Full
      BY <1>3
    <3>. QED
      BY <1>1, <3>1 DEF Inv, RingConsistent, RingHolds
  <2>. QED
    BY <1>1, <1>3, <1>6, <2>1 DEF Inv, TypeOK
<1>8. ASSUME NEW k \in 1..Waiting PROVE Unread'[k] = Unread[k]
  <2>1. CellFrom(First, k - 1 + Skip) # pi
    <3>1. queue[CellFrom(First, k - 1 + Skip)] = Unread[k] /\ Unread[k] \in Items
      BY <1>5, UnreadIs
    <3>. QED
      BY <1>1, <3>1 DEF Items
  <2>2. CellFrom(First, k - 1 + Skip) \in Cells /\ Unread[k] = queue[CellFrom(First, k - 1 + Skip)]
    BY UnreadIs
  <2>. QED
    BY <1>3, <1>6, <2>1, <2>2 DEF Inv, TypeOK
<1>9. Unread' = Append(Unread, made + 1)
  <2>1. made + 1 \in Items
    BY RingAssumption DEF Write, Inv, TypeOK, SeenHeld, Items
  <2>2. \A k \in 1..(Waiting + 1) : Unread'[k] \in Items
    BY <1>3, <1>5, <1>7, <1>8, <2>1
  <2>3. Unread' \in [1..(Waiting + 1) -> Items]
    BY <1>6, <2>2
  <2>. QED
    BY <1>3, <1>5, <1>7, <1>8, <2>3, AppendIs
<1>10. Len(Unread) = Waiting
  BY <1>3, <1>5, FunctionIsSeq
<1>11. made + 1 \notin {Unread[k] : k \in 1..Len(Unread)} \cup ({seen} \ {0}) \cup done
  <2>1. \A k \in 1..Waiting : Unread[k] <= made
    BY UnreadIs DEF Numbered
  <2>2. seen <= made /\ \A x \in done : x <= made
    BY DEF Numbered
  <2>. QED
    BY <1>1, <1>10, <2>1, <2>2
<1>. QED
  BY <1>3, <1>9, <1>10, <1>11 DEF Write, Promise!Add, Promise!Queued

\* The consumer's read starts the product at the head.
LEMMA ReadStarts ==
  ASSUME Inv, Numbered, Read
  PROVE  Promise!Start
<1>1. queue[ci] \in Items /\ Full \in 1..NUM /\ First = ci /\ NUM \in Nat \ {0} /\ ci \in Cells
  BY ConsumerCell, PlacesTyped DEF Read, Inv, TypeOK
<1>2. First' = First /\ Full' = Full /\ Skip = 0 /\ Skip' = 1
  BY DEF Read, First, Full, Skip
<1>3. Waiting = Full /\ Waiting' = Full - 1
  BY <1>1, <1>2 DEF Waiting
<1>4. Unread \in [1..Full -> Items]
  BY <1>3, UnreadIs
<1>5. /\ Unread = [k \in 1..Full |-> queue[CellFrom(First, k - 1 + 0)]]
      /\ Unread' = [k \in 1..(Full - 1) |-> queue[CellFrom(First, k - 1 + 1)]]
  <2>1. Unread' = [k \in 1..Waiting' |-> queue'[CellFrom(First', k - 1 + Skip')]]
    BY DEF Unread, Waiting, Skip, CellFrom
  <2>. QED
    BY <1>2, <1>3, <2>1, UnreadIs DEF Read
<1>6. ASSUME NEW k \in 1..(Full - 1) PROVE Unread'[k] = Unread[k + 1]
  <2>1. k + 1 \in 1..Full /\ k - 1 + 1 = (k + 1) - 1 + 0
    BY <1>1
  <2>. QED
    BY <1>5, <2>1
<1>7. Unread # <<>> /\ Head(Unread) = Unread[1] /\ Unread' = Tail(Unread)
  <2>1. Full \in Nat \ {0}
    BY <1>1
  <2>2. \A k \in 1..(Full - 1) : Unread'[k] \in Items
    BY <1>1, <1>4, <1>6
  <2>3. Unread' \in [1..(Full - 1) -> Items]
    BY <1>5, <2>2
  <2>. QED
    BY <1>4, <1>6, <2>1, <2>3, TailIs
<1>8. Unread[1] = queue[ci]
  <2>1. CellFrom(ci, 0) = ci /\ 1 \in 1..Full /\ 1 - 1 + 0 = 0
    BY <1>1, CellFromOnce
  <2>. QED
    BY <1>1, <1>5, <2>1
<1>9. seen = 0 /\ seen' = queue[ci] /\ done' = done
  BY DEF Read, Numbered
<1>10. {seen'} \ {0} = ({seen} \ {0}) \cup {Head(Unread)}
  BY <1>1, <1>7, <1>8, <1>9 DEF Items
<1>. QED
  BY <1>7, <1>9, <1>10 DEF Promise!Start

\* Clearing the cell finishes the product that was printed.
LEMMA ClearFinishes ==
  ASSUME Inv, Clear
  PROVE  Promise!Finish(seen)
<1>1. Full \in 1..NUM /\ First = ci /\ NUM \in Nat \ {0} /\ ci \in Cells
  BY ConsumerCell, PlacesTyped DEF Clear, Inv, TypeOK
<1>2. First' = NextCell(ci) /\ Full' = Full - 1 /\ Skip = 1 /\ Skip' = 0
  BY DEF Clear, First, Full, Skip, Inv, TypeOK
<1>3. Waiting = Full - 1 /\ Waiting' = Full - 1
  BY <1>1, <1>2 DEF Waiting
<1>4. /\ Unread = [k \in 1..(Full - 1) |-> queue[CellFrom(ci, k - 1 + 1)]]
      /\ Unread' = [k \in 1..(Full - 1) |-> [queue EXCEPT ![ci] = 0][CellFrom(NextCell(ci), k - 1 + 0)]]
  <2>1. Unread' = [k \in 1..Waiting' |-> queue'[CellFrom(First', k - 1 + Skip')]]
    BY DEF Unread, Waiting, Skip, CellFrom
  <2>. QED
    BY <1>1, <1>2, <1>3, <2>1, UnreadIs DEF Clear
<1>5. ASSUME NEW k \in 1..(Full - 1)
      PROVE  [queue EXCEPT ![ci] = 0][CellFrom(NextCell(ci), k - 1 + 0)] = queue[CellFrom(ci, k - 1 + 1)]
  <2>1. k - 1 \in Cells /\ k \in Cells /\ 0 \in Cells /\ k # 0 /\ k - 1 + 0 = k - 1 /\ k - 1 + 1 = k
        /\ (k - 1) + 1 = k
    BY <1>1 DEF Cells
  <2>2. CellFrom(NextCell(ci), k - 1) = CellFrom(ci, k)
    BY <1>1, <2>1, NextOfCellFrom
  <2>3. CellFrom(ci, k) # ci
    BY <1>1, <2>1, CellFromOnce
  <2>4. CellFrom(ci, k) \in Cells
    BY <1>1, <2>1, CellFromIs DEF Cells
  <2>. QED
    BY <2>1, <2>2, <2>3, <2>4 DEF Inv, TypeOK
<1>6. Unread' = Unread
  BY <1>4, <1>5
<1>7. seen \in Items /\ seen' = 0 /\ done' = done \cup {seen}
  BY DEF Clear, Inv, SeenHeld
<1>. QED
  BY <1>6, <1>7 DEF Promise!Finish, Items

\* The ring, its semaphores and the two private indices implement a bounded queue from
\* which each product is taken once, in the order in which they were made.
THEOREM Implementation == Spec => ImplementsQueue
<1>1. Init => Promise!Init
  <2>. SUFFICES ASSUME Init PROVE Promise!Init
    OBVIOUS
  <2>1. Waiting = 0
    BY DEF Init, Waiting, Skip, Full
  <2>2. Unread = <<>>
    BY InitInv, UnreadIs, <2>1
  <2>. QED
    BY <2>2 DEF Init, Promise!Init
<1>2. Inv /\ Numbered /\ [Next]_vars => [Promise!Next]_(Promise!vars)
  <2>. SUFFICES ASSUME Inv, Numbered, [Next]_vars PROVE [Promise!Next]_(Promise!vars)
    OBVIOUS
  <2>1. CASE UNCHANGED vars \/ WaitBlank \/ PostProduct \/ WaitProduct \/ PostBlank
    <3>1. First' = First /\ Skip' = Skip /\ queue' = queue /\ UNCHANGED <<seen, done>>
      BY <2>1 DEF vars, WaitBlank, PostProduct, WaitProduct, PostBlank, First, Skip
    <3>2. Full' = Full
      <4>1. CASE PostProduct
        BY <4>1 DEF PostProduct, Full, Inv, TypeOK
      <4>2. CASE WaitProduct
        BY <4>2 DEF WaitProduct, Full, Inv, TypeOK
      <4>. QED
        BY <2>1, <4>1, <4>2 DEF vars, WaitBlank, PostBlank, Full
    <3>. QED
      BY <3>1, <3>2, UnreadKept DEF Promise!vars
  <2>2. CASE Write
    <3>1. made + 1 \in Items
      BY <2>2, RingAssumption DEF Write, Inv, TypeOK, SeenHeld, Items
    <3>. QED
      BY <2>2, <3>1, WriteAdds DEF Promise!Next
  <2>3. CASE Read
    BY <2>3, ReadStarts DEF Promise!Next
  <2>4. CASE Clear
    <3>1. seen \in {seen} \ {0}
      BY <2>4 DEF Clear, Inv, SeenHeld, Items
    <3>. QED
      BY <2>4, <3>1, ClearFinishes DEF Promise!Next
  <2>. QED
    BY <2>1, <2>2, <2>3, <2>4 DEF Next, Producer, Consumer
<1>3. Spec => []Numbered
  BY InitNumbered, Invariant, NextKeepsNumbered, PTL DEF Spec
<1>. QED
  BY <1>1, <1>2, <1>3, Invariant, PTL DEF Spec, ImplementsQueue, Promise!Spec

=============================================================================
