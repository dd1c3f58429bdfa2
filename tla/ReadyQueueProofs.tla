-------------------------- MODULE ReadyQueueProofs --------------------------
(***************************************************************************)
(* Proofs about ReadyQueue, for any number of takers, any capacity and any *)
(* number of generations.                                                  *)
(***************************************************************************)
EXTENDS ReadyQueue, FiniteSetTheorems, TLAPS

(* Where the publisher is, against what the shared words say. *)
PubInv ==
    /\ ppc \in {"write", "count", "flip"} =>
         target # active /\ gen[target] = epoch + 1 /\ epoch < MaxGen
    /\ ppc = "reset" => target = active /\ epoch < MaxGen
    /\ ppc = "write" => written[target] < size
    /\ ppc \in {"count", "flip"} => written[target] = size
    /\ ppc = "flip" => count[target] = size

(* What a take has read, while it is one of the current generation. *)
Current(w) == began[w] = epoch /\ ppc # "reset"

TakeInv ==
    \A w \in Workers :
        /\ began[w] <= epoch
        /\ tpc[w] # "idle" => left[w] > 0
        /\ tpc[w] \in {"count", "read"} /\ Current(w) => slot[w] = active
        /\ tpc[w] = "read" /\ Current(w) => index[w] < count[active]
        /\ tpc[w] = "read" => index[w] < Cap
        /\ tpc[w] = "clamp" => limit[w] <= index[w]

(* A cursor past the capacity belongs to a take that is about to clamp it. *)
CursorOwned ==
    cursor > Cap =>
        \E w \in Workers : tpc[w] \in {"slot", "count", "clamp"} /\ index[w] + 1 = cursor

IInv == TypeOK /\ PubInv /\ ActiveSetWhole /\ TakeInv /\ NeverSkipped /\ CursorOwned

-----------------------------------------------------------------------------

(* How many workers are taking is a number. *)
LEMMA InTakeCount == Cardinality({w \in Workers : InTake(w)}) \in Nat
BY FS_Subset, FS_CardinalityType, ReadyAssumption

(* What one take's locals are known to be. *)
Locals(w) ==
    /\ left[w] \in 0 .. Batch /\ index[w] \in Nat /\ slot[w] \in Slots
    /\ limit[w] \in 0 .. Cap /\ began[w] \in 0 .. MaxGen
    /\ count[slot[w]] \in 0 .. Cap /\ written[slot[w]] \in 0 .. Cap
    /\ began[w] <= epoch
    /\ tpc[w] # "idle" => left[w] > 0
    /\ tpc[w] \in {"count", "read"} /\ Current(w) => slot[w] = active
    /\ tpc[w] = "read" /\ Current(w) => index[w] < count[active]
    /\ tpc[w] = "read" => index[w] < Cap
    /\ tpc[w] = "clamp" => limit[w] <= index[w]

(* The invariant gives every worker's locals their bounds. *)
LEMMA TakeLocals == ASSUME IInv PROVE \A w \in Workers : Locals(w)
BY DEF IInv, TypeOK, TakeInv, Locals

(* A worker about to read an entry is within the slot it chose. *)
LEMMA ReadLocals ==
    ASSUME IInv, NEW w \in Workers, tpc[w] = "read"
    PROVE  index[w] \in Index /\ slot[w] \in Slots /\ left[w] - 1 \in 0 .. Batch
BY TakeLocals, ReadyAssumption DEF Locals, Index

(* The empty ready set satisfies the invariant. *)
LEMMA InitIInv == ASSUME Init PROVE IInv
<1> USE ReadyAssumption DEF Slots, Index
<1>1. TypeOK
  BY DEF Init, TypeOK
<1>2. PubInv /\ ActiveSetWhole
  BY DEF Init, PubInv, ActiveSetWhole
<1>3. TakeInv /\ CursorOwned
  BY DEF Init, TakeInv, CursorOwned, Current
<1>4. NeverSkipped
  BY DEF Init, NeverSkipped
<1> QED
  BY <1>1, <1>2, <1>3, <1>4 DEF IInv

(* Type correctness. *)
LEMMA TypeStep == ASSUME IInv, [Next]_vars PROVE TypeOK'
<1>0. \A w \in Workers : Locals(w)
  BY TakeLocals
<1>r. ASSUME NEW w \in Workers, tpc[w] = "read"
      PROVE  index[w] \in Index /\ slot[w] \in Slots /\ left[w] - 1 \in 0 .. Batch
  BY <1>r, ReadLocals
<1> USE ReadyAssumption DEF IInv, TypeOK
<1>1. ASSUME NEW n \in 0 .. Cap, PublishStart(n) PROVE TypeOK'
  <2>1. handed' \in [Slots -> [Index -> Nat]]
    BY <1>1 DEF PublishStart
  <2>2. /\ target' \in Slots /\ size' \in 0 .. Cap
        /\ gen' \in [Slots -> 0 .. MaxGen] /\ written' \in [Slots -> 0 .. Cap]
    BY <1>1 DEF PublishStart, Slots
  <2> QED
    BY <1>1, <2>1, <2>2 DEF PublishStart, take
<1>2. CASE PublishEntry
  BY <1>2 DEF PublishEntry, PubInv, Slots, history, take
<1>3. CASE PublishCount
  BY <1>3 DEF PublishCount, Slots, history, take
<1>4. CASE PublishFlip
  BY <1>4 DEF PublishFlip, history, take
<1>5. CASE PublishReset
  BY <1>5, InTakeCount DEF PublishReset, PubInv, take
<1>6. ASSUME NEW w \in Workers, TakeStep(w) PROVE TypeOK'
  <2>1. CASE TakeAdd(w)
    BY <2>1 DEF TakeAdd, history, pub
  <2>2. CASE TakeSlot(w)
    BY <2>2 DEF TakeSlot, shared, history, pub
  <2>3. CASE TakeCount(w)
    BY <2>3 DEF TakeCount, shared, history, pub
  <2>4. CASE TakeClamp(w)
    BY <2>4 DEF TakeClamp, EndRound, history, pub, Slots
  <2>5. CASE TakeEntry(w)
    <3>1. index[w] \in Index /\ left[w] - 1 \in 0 .. Batch
      <4>1. tpc[w] = "read"
        BY <2>5 DEF TakeEntry
      <4> QED
        BY <4>1, <1>r
    <3>2. handed' \in [Slots -> [Index -> Nat]]
      BY <2>5, <3>1 DEF TakeEntry
    <3> QED
      BY <2>5, <3>1, <3>2 DEF TakeEntry, EndRound, shared, pub, Slots
  <2>6. CASE TakeTorn(w)
    BY <2>6 DEF TakeTorn, EndRound, TakeInv, shared, history, pub, Slots
  <2> QED
    BY <1>6, <2>1, <2>2, <2>3, <2>4, <2>5, <2>6 DEF TakeStep
<1>7. CASE UNCHANGED vars
  BY <1>7 DEF vars, shared, pub, take, history
<1> QED
  BY <1>1, <1>2, <1>3, <1>4, <1>5, <1>6, <1>7 DEF Next, PublishStep

(* The publisher's bookkeeping, and with it the wholeness of the active slot: *)
(* only PublishFlip moves the readers, and it moves them to a finished slot.  *)
LEMMA PubStep ==
    ASSUME IInv, [Next]_vars PROVE PubInv' /\ ActiveSetWhole'
<1> USE ReadyAssumption DEF IInv, PubInv, ActiveSetWhole
<1>1. ASSUME NEW n \in 0 .. Cap, PublishStart(n) PROVE PubInv' /\ ActiveSetWhole'
  BY <1>1 DEF TypeOK, PublishStart, Slots
<1>2. CASE PublishEntry
  BY <1>2 DEF TypeOK, PublishEntry, Slots, history
<1>3. CASE PublishCount
  BY <1>3 DEF TypeOK, PublishCount, Slots, history
<1>4. CASE PublishFlip
  BY <1>4 DEF TypeOK, PublishFlip, Slots, history
<1>5. CASE PublishReset
  BY <1>5 DEF TypeOK, PublishReset, Slots
<1>6. ASSUME NEW w \in Workers, TakeStep(w) PROVE PubInv' /\ ActiveSetWhole'
  BY <1>6 DEF TakeStep, TakeAdd, TakeSlot, TakeCount, TakeClamp, TakeEntry, TakeTorn,
              shared, pub, history
<1>7. CASE UNCHANGED vars
  BY <1>7 DEF vars, shared, pub, history
<1> QED
  BY <1>1, <1>2, <1>3, <1>4, <1>5, <1>6, <1>7 DEF Next, PublishStep

(* Every step keeps what a take in progress has read. *)
LEMMA TakeInvStep ==
    ASSUME IInv, [Next]_vars PROVE TakeInv'
<1>0. \A w \in Workers : Locals(w)
  BY TakeLocals
<1>r. ASSUME NEW w \in Workers, tpc[w] = "read"
      PROVE  index[w] \in Index /\ slot[w] \in Slots /\ left[w] - 1 \in 0 .. Batch
  BY <1>r, ReadLocals
<1> USE ReadyAssumption DEF IInv, TakeInv, TypeOK
<1>1. ASSUME NEW n \in 0 .. Cap, PublishStart(n) PROVE TakeInv'
  BY <1>1 DEF PublishStart, Current, take
<1>2. CASE PublishEntry
  BY <1>2 DEF PublishEntry, Current, take, history
<1>3. CASE PublishCount
  BY <1>3 DEF PublishCount, PubInv, Current, take, history
<1>4. CASE PublishFlip
  BY <1>4 DEF PublishFlip, Current, take, history
<1>5. CASE PublishReset
  BY <1>5 DEF PublishReset, Current, take
<1>6. ASSUME NEW w \in Workers, TakeStep(w) PROVE TakeInv'
  <2>0. ppc' = ppc /\ epoch' = epoch /\ active' = active /\ count' = count
    BY <1>6 DEF TakeStep, TakeAdd, TakeSlot, TakeCount, TakeClamp, TakeEntry, TakeTorn,
                shared, pub, history
  <2>1. CASE TakeAdd(w)
    BY <2>0, <2>1 DEF TakeAdd, Current
  <2>2. CASE TakeSlot(w)
    BY <2>0, <2>2 DEF TakeSlot, Current
  <2>3. CASE TakeCount(w)
    <3>1. count[slot[w]] \in 0 .. Cap
      OBVIOUS
    <3> QED
      BY <2>0, <2>3, <3>1 DEF TakeCount, Current
  <2>4. CASE TakeClamp(w) \/ TakeEntry(w) \/ TakeTorn(w)
    <3>1. PICK rounds \in {0, left[w] - 1} : EndRound(w, rounds)
      BY <2>4 DEF TakeClamp, TakeEntry, TakeTorn
    <3>2. tpc'[w] \in {"idle", "add"} /\ (tpc'[w] # "idle" => left'[w] > 0) /\ began'[w] = 0
      <4>1. CASE rounds = 0
        BY <3>1, <4>1 DEF EndRound
      <4>2. CASE rounds = left[w] - 1
        <5>1. left[w] \in 0 .. Batch /\ left[w] > 0
          BY <2>4, <1>0 DEF Locals, TakeClamp, TakeEntry, TakeTorn
        <5> QED
          BY <3>1, <4>2, <5>1 DEF EndRound
      <4> QED
        BY <4>1, <4>2
    <3>3. ASSUME NEW v \in Workers, v # w
          PROVE  UNCHANGED <<tpc[v], left[v], index[v], slot[v], limit[v], began[v]>>
      BY <3>1, <3>3 DEF EndRound
    <3> QED
      BY <2>0, <3>2, <3>3 DEF Current
  <2> QED
    BY <1>6, <2>1, <2>2, <2>3, <2>4 DEF TakeStep
<1>7. CASE UNCHANGED vars
  BY <1>7 DEF vars, shared, pub, take, history, Current
<1> QED
  BY <1>1, <1>2, <1>3, <1>4, <1>5, <1>6, <1>7 DEF Next, PublishStep

(* An entry of the current generation leaves Pending only by being handed out:  *)
(* its take reads the active slot, where the entry is whole.                    *)
LEMMA NeverSkippedStep ==
    ASSUME IInv, [Next]_vars, TypeOK', PubInv', ActiveSetWhole' PROVE NeverSkipped'
<1>0. \A w \in Workers : Locals(w)
  BY TakeLocals
<1>t. /\ cursor \in Nat /\ active \in Slots /\ count[active] \in 0 .. Cap /\ epoch \in Nat
      /\ tpc \in [Workers -> {"idle", "add", "slot", "count", "read", "clamp"}]
      /\ index \in [Workers -> Nat] /\ began \in [Workers -> 0 .. MaxGen]
      /\ slot \in [Workers -> Slots] /\ handed \in [Slots -> [Index -> Nat]]
  BY ReadyAssumption DEF IInv, TypeOK
<1>i. \A i \in Index : i \in Nat
  BY ReadyAssumption DEF Index
<1>n. NeverSkipped /\ (ppc # "reset" => gen[active] = epoch) /\ written[active] = count[active]
  BY DEF IInv, ActiveSetWhole
<1>1. ASSUME NEW n \in 0 .. Cap, PublishStart(n) PROVE NeverSkipped'
  BY <1>1, <1>t, <1>n DEF PublishStart, NeverSkipped, Pending, take, Slots
<1>2. CASE PublishEntry
  BY <1>2, <1>n DEF PublishEntry, NeverSkipped, Pending, take, history
<1>3. CASE PublishCount
  BY <1>3, <1>t, <1>n DEF PublishCount, IInv, PubInv, TypeOK, NeverSkipped, Pending, take, history
<1>4. CASE PublishFlip
  BY <1>4 DEF PublishFlip, NeverSkipped
<1>5. CASE PublishReset
  BY <1>5, <1>t, <1>i DEF PublishReset, NeverSkipped
<1>6. ASSUME NEW w \in Workers, TakeStep(w) PROVE NeverSkipped'
  <2> SUFFICES ASSUME ppc' # "reset", NEW i \in Index, i < cursor', i < count[active]'
               PROVE  handed'[active'][i] > 0 \/ Pending(i)'
    BY DEF NeverSkipped
  <2>0. ppc' = ppc /\ epoch' = epoch /\ active' = active /\ count' = count
    BY <1>6 DEF TakeStep, TakeAdd, TakeSlot, TakeCount, TakeClamp, TakeEntry, TakeTorn,
                shared, pub, history
  <2>a. i < cursor => handed[active][i] > 0 \/ Pending(i)
    BY <2>0, <1>n DEF NeverSkipped
  <2>l. Locals(w)
    BY <1>0
  <2>1. CASE TakeAdd(w)
    <3>1. CASE i = cursor
      <4>1. tpc'[w] = "slot" /\ began'[w] = epoch /\ index'[w] = i
        BY <2>1, <3>1, <1>t DEF TakeAdd
      <4> QED
        BY <2>0, <4>1 DEF Pending
    <3>2. CASE i # cursor
      <4>1. i < cursor
        <5>1. cursor' = cursor + 1 /\ i \in Nat /\ cursor \in Nat
          BY <2>1, <1>t, <1>i DEF TakeAdd
        <5> QED
          BY <3>2, <5>1
      <4>2. Pending(i) => Pending(i)'
        BY <2>0, <2>1, <1>t DEF TakeAdd, Pending
      <4>3. handed' = handed
        BY <2>1 DEF TakeAdd, history
      <4> QED
        BY <2>0, <2>a, <4>1, <4>2, <4>3
    <3> QED
      BY <3>1, <3>2
  <2>2. CASE TakeSlot(w)
    <3>1. cursor' = cursor /\ handed' = handed
      BY <2>2 DEF TakeSlot, shared, history
    <3>2. Pending(i) => Pending(i)'
      BY <2>0, <2>2, <1>t DEF TakeSlot, Pending
    <3> QED
      BY <2>0, <2>a, <3>1, <3>2
  <2>3. CASE TakeCount(w)
    <3>1. cursor' = cursor /\ handed' = handed /\ began' = began /\ index' = index
      BY <2>3 DEF TakeCount, shared, history
    <3>2. ASSUME began[w] = epoch, index[w] = i PROVE tpc'[w] = "read"
      <4>1. slot[w] = active /\ i < count[active] /\ i \in Nat
        BY <2>0, <2>3, <2>l, <3>2, <1>t, <1>i DEF TakeCount, Locals, Current
      <4>2. ~(index[w] >= count[slot[w]])
        BY <4>1, <3>2, <1>t
      <4> QED
        BY <2>3, <4>2, <1>t DEF TakeCount
    <3>3. Pending(i) => Pending(i)'
      BY <2>0, <2>3, <3>1, <3>2, <1>t DEF TakeCount, Pending
    <3> QED
      BY <2>0, <2>a, <3>1, <3>3
  <2>4. CASE TakeClamp(w)
    <3>1. i < cursor
      <4>1. cursor' = cursor \/ (cursor' = limit[w] /\ cursor = index[w] + 1)
        BY <2>4 DEF TakeClamp
      <4>2. limit[w] <= index[w] /\ limit[w] \in Nat /\ index[w] \in Nat
        BY <2>4, <2>l, ReadyAssumption DEF TakeClamp, Locals
      <4>3. i \in Nat /\ cursor \in Nat /\ i < cursor'
        BY <1>t, <1>i
      <4>4. CASE cursor' = limit[w] /\ cursor = index[w] + 1
        BY <4>2, <4>3, <4>4
      <4> QED
        BY <4>1, <4>3, <4>4
    <3>2. handed' = handed
      BY <2>4 DEF TakeClamp, history
    <3>3. Pending(i) => Pending(i)'
      BY <2>0, <2>4, <1>t DEF TakeClamp, EndRound, Pending
    <3> QED
      BY <2>0, <2>a, <3>1, <3>2, <3>3
  <2>5. CASE TakeEntry(w)
    <3>1. cursor' = cursor /\ tpc[w] = "read"
      BY <2>5 DEF TakeEntry, shared
    <3>2. slot[w] \in Slots /\ index[w] \in Index
      BY <3>1, ReadLocals
    <3>3. handed[active][i] > 0 => handed'[active][i] > 0
      BY <2>5, <3>2, <1>t DEF TakeEntry
    <3>4. CASE began[w] = epoch /\ index[w] = i
      <4>1. slot[w] = active /\ began[w] >= gen[active]
        BY <2>0, <2>l, <3>1, <3>4, <1>n, <1>t DEF Locals, Current
      <4>2. handed'[active][i] = handed[active][i] + 1
        BY <2>5, <3>2, <3>4, <4>1, <1>t DEF TakeEntry
      <4> QED
        BY <2>0, <4>2, <1>t
    <3>5. CASE ~(began[w] = epoch /\ index[w] = i)
      <4>1. Pending(i) => Pending(i)'
        BY <2>0, <2>5, <3>5, <1>t DEF TakeEntry, EndRound, Pending
      <4> QED
        BY <2>0, <2>a, <3>1, <3>3, <4>1
    <3> QED
      BY <3>4, <3>5
  <2>6. CASE TakeTorn(w)
    <3>1. cursor' = cursor /\ handed' = handed /\ tpc[w] = "read" /\ index[w] >= written[slot[w]]
      BY <2>6 DEF TakeTorn, shared, history
    <3>2. ~(began[w] = epoch /\ index[w] = i)
      BY <2>0, <2>l, <3>1, <1>n, <1>t, ReadyAssumption DEF Locals, Current
    <3>3. Pending(i) => Pending(i)'
      BY <2>0, <2>6, <3>2, <1>t DEF TakeTorn, EndRound, Pending
    <3> QED
      BY <2>0, <2>a, <3>1, <3>3
  <2> QED
    BY <1>6, <2>1, <2>2, <2>3, <2>4, <2>5, <2>6 DEF TakeStep
<1>7. CASE UNCHANGED vars
  BY <1>7, <1>n DEF vars, shared, pub, take, history, NeverSkipped, Pending
<1> QED
  BY <1>1, <1>2, <1>3, <1>4, <1>5, <1>6, <1>7 DEF Next, PublishStep

(* A take past the capacity cannot be reading: it clamps, whatever count it read. *)
LEMMA CursorOwnedStep ==
    ASSUME IInv, [Next]_vars PROVE CursorOwned'
<1> USE ReadyAssumption DEF IInv, CursorOwned, TypeOK
<1>1. ASSUME NEW n \in 0 .. Cap, PublishStart(n) PROVE CursorOwned'
  BY <1>1 DEF PublishStart, take
<1>2. CASE PublishEntry \/ PublishCount \/ PublishFlip
  BY <1>2 DEF PublishEntry, PublishCount, PublishFlip, take
<1>3. CASE PublishReset
  BY <1>3 DEF PublishReset
<1>4. ASSUME NEW w \in Workers, TakeStep(w) PROVE CursorOwned'
  <2>1. CASE TakeAdd(w)
    BY <2>1 DEF TakeAdd
  <2>2. CASE TakeSlot(w)
    BY <2>2 DEF TakeSlot, shared
  <2>3. CASE TakeCount(w)
    <3>1. count[slot[w]] \in 0 .. Cap
      OBVIOUS
    <3> QED
      BY <2>3, <3>1 DEF TakeCount, shared
  <2>4. CASE TakeClamp(w)
    BY <2>4 DEF TakeClamp, EndRound
  <2>5. CASE TakeEntry(w) \/ TakeTorn(w)
    BY <2>5 DEF TakeEntry, TakeTorn, EndRound, shared
  <2> QED
    BY <1>4, <2>1, <2>2, <2>3, <2>4, <2>5 DEF TakeStep
<1>5. CASE UNCHANGED vars
  BY <1>5 DEF vars, shared, take
<1> QED
  BY <1>1, <1>2, <1>3, <1>4, <1>5 DEF Next, PublishStep

-----------------------------------------------------------------------------

(* The invariant holds throughout. *)
LEMMA Invariance == Spec => []IInv
<1>1. Init => IInv
  BY InitIInv
<1>2. IInv /\ [Next]_vars => IInv'
  BY TypeStep, PubStep, TakeInvStep, NeverSkippedStep, CursorOwnedStep DEF IInv
<1> QED
  BY <1>1, <1>2, PTL DEF Spec

(* Every variable keeps its type; no slot overflows, whatever is offered.     *)
THEOREM ReadyTypeCorrect == Spec => []TypeOK
<1>1. IInv => TypeOK
  BY DEF IInv
<1> QED
  BY <1>1, Invariance, PTL

(* The slot readers are pointed at is always one complete generation.         *)
THEOREM ReadySetWhole == Spec => []ActiveSetWhole
<1>1. IInv => ActiveSetWhole
  BY DEF IInv
<1> QED
  BY <1>1, Invariance, PTL

(* No interleaving of a publish with any number of takes skips an entry.      *)
THEOREM ReadyNeverSkips == Spec => []NeverSkipped
<1>1. IInv => NeverSkipped
  BY DEF IInv
<1> QED
  BY <1>1, Invariance, PTL

(* The cursor comes back within the capacity whenever no call is in progress. *)
THEOREM ReadyCursorBounded == Spec => []CursorBounded
<1>1. IInv => CursorBounded
  BY ReadyAssumption DEF IInv, CursorOwned, CursorBounded, InTake, TypeOK
<1> QED
  BY <1>1, Invariance, PTL

-----------------------------------------------------------------------------
(* How often an entry is handed out: a count of takes against a count of takes, *)
(* over what is invariant already.                                              *)

(* Takes of the current generation that hold index i and have not yet handed   *)
(* it out; takes in progress since before its reset; takes that have chosen    *)
(* entry i of slot s and whose handing it out will be counted.                 *)
Holding(i) ==
    {w \in Workers : tpc[w] \in {"slot", "count", "read"} /\ began[w] = epoch /\ index[w] = i}
Straddling == {w \in Workers : InTake(w) /\ began[w] < epoch}
Choosing(s, i) ==
    {w \in Workers : /\ tpc[w] = "read" \/ (tpc[w] = "count" /\ i < count[s])
                     /\ slot[w] = s /\ index[w] = i /\ began[w] >= gen[s]}

(* The cursor hands an index out once; only a straddling take can put it back  *)
(* below an entry, by its one clamp.                                           *)
Unpassed(i) == IF cursor <= i THEN 1 ELSE 0
Budget(i) ==
    IF i < count[active]
    THEN handed[active][i] + Cardinality(Holding(i)) + Unpassed(i) + Cardinality(Straddling)
             <= 1 + straddlers[active]
    ELSE handed[active][i] = 0
CurrentInv == ppc # "reset" => \A i \in Index : Budget(i)

(* Either slot, once its generation is no longer the one being taken, or not yet. *)
SlotBudget(s, i) == handed[s][i] + Cardinality(Choosing(s, i)) <= 1 + straddlers[s]
EitherSlotInv == \A s \in Slots, i \in Index : SlotBudget(s, i)

(* Nothing of a generation is handed out before its reset. *)
UnpublishedInv ==
    ppc # "idle" => \A i \in Index : handed[target][i] = 0

(* A take of the current generation clamps to the count of its slot. *)
ClampInv ==
    \A w \in Workers : tpc[w] = "clamp" /\ Current(w) => limit[w] = count[active]

DupInv == CurrentInv /\ EitherSlotInv /\ UnpublishedInv /\ ClampInv

(* Takes are finite in number, and one more or one less of them counts as one. *)
LEMMA CountMoves ==
    ASSUME NEW A \in SUBSET Workers, NEW w \in Workers
    PROVE  /\ Cardinality(A) \in Nat
           /\ Cardinality(A \cup {w}) = IF w \in A THEN Cardinality(A) ELSE Cardinality(A) + 1
           /\ Cardinality(A \ {w}) = IF w \in A THEN Cardinality(A) - 1 ELSE Cardinality(A)
           /\ \A B \in SUBSET A : Cardinality(B) <= Cardinality(A)
<1>1. IsFiniteSet(A)
  BY FS_Subset, ReadyAssumption
<1> QED
  BY <1>1, FS_CardinalityType, FS_AddElement, FS_RemoveElement, FS_Subset

(* The end of a round takes its worker out of every count, and no other worker. *)
LEMMA RoundEnds ==
    ASSUME TypeOK, NEW w \in Workers, TakeClamp(w) \/ TakeEntry(w) \/ TakeTorn(w)
    PROVE  /\ tpc'[w] \in {"idle", "add"}
           /\ \A v \in Workers \ {w} :
                UNCHANGED <<tpc[v], index[v], slot[v], began[v], limit[v]>>
<1>1. PICK rounds : EndRound(w, rounds)
  BY DEF TakeClamp, TakeEntry, TakeTorn
<1> QED
  BY <1>1 DEF EndRound, TypeOK

(* What no take ever writes. *)
LEMMA TakeFrame ==
    ASSUME NEW w \in Workers, TakeStep(w)
    PROVE  UNCHANGED <<active, count, written, gen, ppc, target, size, epoch, straddlers>>
BY DEF TakeStep, TakeAdd, TakeSlot, TakeCount, TakeClamp, TakeEntry, TakeTorn,
       shared, pub, history

(* In the current generation, the budget of the slot readers are pointed at is  *)
(* what is left of the budget of the cursor.                                    *)
LEMMA ActiveWithinBudget ==
    ASSUME IInv, CurrentInv, ppc # "reset"
    PROVE  \A i \in Index : SlotBudget(active, i)
<1> SUFFICES ASSUME NEW i \in Index PROVE SlotBudget(active, i)
  OBVIOUS
<1>0. \A w \in Workers : Locals(w)
  BY TakeLocals
<1>1. /\ active \in Slots /\ epoch \in Nat /\ gen[active] = epoch /\ count[active] \in Nat
      /\ began \in [Workers -> 0 .. MaxGen] /\ handed[active][i] \in Nat /\ i \in Nat
      /\ straddlers[active] \in Nat /\ Budget(i)
  BY ReadyAssumption DEF IInv, TypeOK, ActiveSetWhole, CurrentInv, Index
<1>2. \A w \in Choosing(active, i) : w \in Workers /\ began[w] = epoch
  BY <1>0, <1>1, ReadyAssumption DEF Choosing, Locals
<1>3. CASE i < count[active]
  <2>1. Choosing(active, i) \in SUBSET Holding(i) /\ Holding(i) \in SUBSET Workers
    BY <1>2 DEF Choosing, Holding
  <2>2. Straddling \in SUBSET Workers
    BY DEF Straddling
  <2>3. /\ Cardinality(Choosing(active, i)) <= Cardinality(Holding(i))
        /\ Cardinality(Holding(i)) \in Nat /\ Cardinality(Straddling) \in Nat
        /\ Cardinality(Choosing(active, i)) \in Nat
    <3>1. CASE Workers = {}
      BY <2>1, <2>2, <3>1, FS_EmptySet
    <3>2. CASE Workers # {}
      <4>1. PICK w : w \in Workers
        BY <3>2
      <4> QED
        BY <2>1, <2>2, <4>1, CountMoves
    <3> QED
      BY <3>1, <3>2
  <2>4. Unpassed(i) \in {0, 1}
    BY DEF Unpassed
  <2> QED
    BY <1>1, <1>3, <2>3, <2>4 DEF Budget, SlotBudget
<1>4. CASE ~(i < count[active])
  <2>1. Choosing(active, i) = {}
    BY <1>0, <1>2, <1>4 DEF Choosing, Locals, Current
  <2>2. Cardinality(Choosing(active, i)) = 0
    BY <2>1, FS_EmptySet
  <2> QED
    BY <1>1, <1>4, <2>2 DEF Budget, SlotBudget
<1> QED
  BY <1>3, <1>4

(* The variables the counts are over, typed. *)
LEMMA CountTypes ==
    ASSUME IInv
    PROVE  /\ active \in Slots /\ target \in Slots /\ cursor \in Nat /\ epoch \in Nat
           /\ count \in [Slots -> 0 .. Cap] /\ Cap \in Nat
           /\ gen \in [Slots -> 0 .. MaxGen] /\ MaxGen \in Nat
           /\ tpc \in [Workers -> {"idle", "add", "slot", "count", "read", "clamp"}]
           /\ index \in [Workers -> Nat] /\ began \in [Workers -> 0 .. MaxGen]
           /\ slot \in [Workers -> Slots] /\ limit \in [Workers -> 0 .. Cap]
           /\ handed \in [Slots -> [Index -> Nat]] /\ straddlers \in [Slots -> Nat]
           /\ \A i \in Index : i \in Nat
<1>1. \A i \in Index : i \in Nat
  BY ReadyAssumption DEF Index
<1>2. 0 .. MaxGen \subseteq Nat /\ Cap \in Nat /\ MaxGen \in Nat
  BY ReadyAssumption
<1> QED
  BY <1>1, <1>2 DEF IInv, TypeOK

(* Publishing leaves the budget alone until it moves the readers; its reset     *)
(* gives the new generation a budget of its own.                                *)
LEMMA CurrentPublish ==
    ASSUME IInv, DupInv, (\E n \in 0 .. Cap : PublishStart(n)) \/ PublishStep
    PROVE  CurrentInv'
<1>t. /\ active \in Slots /\ target \in Slots /\ epoch \in Nat
      /\ count \in [Slots -> 0 .. Cap] /\ handed \in [Slots -> [Index -> Nat]]
      /\ began \in [Workers -> 0 .. MaxGen] /\ straddlers \in [Slots -> Nat]
      /\ \A i \in Index : i \in Nat
  BY CountTypes
<1>1. CASE (\E n \in 0 .. Cap : PublishStart(n)) \/ PublishEntry \/ PublishCount
  <2>1. /\ ppc # "reset" /\ active' = active /\ cursor' = cursor /\ straddlers' = straddlers
        /\ epoch' = epoch /\ UNCHANGED <<tpc, began, index>>
        /\ handed'[active] = handed[active] /\ count'[active] = count[active]
    BY <1>t, <1>1 DEF IInv, PubInv, PublishStart, PublishEntry, PublishCount, take, history, Slots
  <2>2. ASSUME NEW i \in Index PROVE Budget(i)'
    <3>1. Holding(i)' = Holding(i) /\ Straddling' = Straddling /\ Unpassed(i)' = Unpassed(i)
      BY <2>1 DEF Holding, Straddling, InTake, Unpassed
    <3>2. Budget(i)
      BY <2>1, <2>2 DEF DupInv, CurrentInv
    <3> QED
      BY <2>1, <3>1, <3>2 DEF Budget
  <2> QED
    BY <2>2 DEF CurrentInv
<1>2. CASE PublishFlip
  BY <1>2 DEF PublishFlip, CurrentInv
<1>3. CASE PublishReset
  <2>1. /\ active' = active /\ target = active /\ cursor' = 0 /\ epoch' = epoch + 1
        /\ handed' = handed /\ UNCHANGED <<tpc, began, index>>
        /\ straddlers'[active] = Cardinality({w \in Workers : InTake(w)})
        /\ \A i \in Index : handed[active][i] = 0
    BY <1>t, <1>3 DEF IInv, PubInv, DupInv, UnpublishedInv, PublishReset, take
  <2>2. \A w \in Workers : began[w] < epoch'
    BY <2>1, <1>t, CountTypes DEF IInv, TakeInv
  <2>3. ASSUME NEW i \in Index PROVE Budget(i)'
    <3>1. Holding(i)' = {}
      BY <2>1, <2>2, <1>t DEF Holding
    <3>2. Cardinality(Holding(i)') = 0
      BY <3>1, FS_EmptySet
    <3>3. Straddling' = {w \in Workers : InTake(w)}
      BY <2>1, <2>2 DEF Straddling, InTake
    <3>4. Cardinality(Straddling)' = straddlers'[active] /\ Unpassed(i)' = 1
      BY <2>1, <3>3, <1>t DEF Unpassed
    <3>5. Cardinality(Straddling)' \in Nat
      BY <3>3, InTakeCount
    <3> QED
      BY <2>1, <3>2, <3>4, <3>5, <1>t DEF Budget
  <2> QED
    BY <2>3 DEF CurrentInv
<1> QED
  BY <1>1, <1>2, <1>3 DEF PublishStep

(* A take moves one unit of the budget at most from one count to another: from  *)
(* the cursor to itself, from itself to the entry, and - a straddler's clamp -  *)
(* from itself to the cursor.                                                   *)
LEMMA CurrentTake ==
    ASSUME IInv, DupInv, NEW w \in Workers, TakeStep(w), ppc # "reset", NEW i \in Index
    PROVE  Budget(i)'
<1>t. /\ active \in Slots /\ cursor \in Nat /\ epoch \in Nat
      /\ tpc \in [Workers -> {"idle", "add", "slot", "count", "read", "clamp"}]
      /\ index \in [Workers -> Nat] /\ began \in [Workers -> 0 .. MaxGen]
      /\ slot \in [Workers -> Slots] /\ limit \in [Workers -> 0 .. Cap]
      /\ handed \in [Slots -> [Index -> Nat]] /\ straddlers[active] \in Nat
      /\ count[active] \in Nat /\ MaxGen \in Nat /\ i \in Nat
      /\ gen[active] = epoch
  <2>1. gen[active] = epoch
    BY DEF IInv, ActiveSetWhole
  <2>2. count[active] \in 0 .. Cap /\ Cap \in Nat
    BY CountTypes
  <2> QED
    BY CountTypes, <2>1, <2>2
<1>f. UNCHANGED <<active, count, epoch, straddlers>>
  BY TakeFrame
<1>l. Locals(w) /\ Budget(i)
  BY TakeLocals DEF DupInv, CurrentInv
<1>c. /\ Holding(i) \in SUBSET Workers /\ Straddling \in SUBSET Workers
      /\ Cardinality(Holding(i)) \in Nat /\ Cardinality(Straddling) \in Nat
  <2>1. Holding(i) \in SUBSET Workers /\ Straddling \in SUBSET Workers
    BY DEF Holding, Straddling
  <2> QED
    BY <2>1, CountMoves
<1>h. handed[active][i] \in Nat /\ Unpassed(i) \in {0, 1} /\ Unpassed(i)' \in {0, 1}
  BY <1>t DEF Unpassed
<1>w. /\ began[w] \in Nat /\ began[w] <= epoch /\ index[w] \in Nat
      /\ epoch \in Nat /\ gen[active] = epoch
  BY <1>t, <1>l DEF Locals
\* A step that leaves the entry alone fits the budget if the counts do.
<1>b. ASSUME handed'[active][i] = handed[active][i],
             Cardinality(Holding(i))' + Unpassed(i)' + Cardinality(Straddling)'
                 <= Cardinality(Holding(i)) + Unpassed(i) + Cardinality(Straddling),
             Cardinality(Holding(i))' \in Nat, Cardinality(Straddling)' \in Nat
      PROVE  Budget(i)'
  BY <1>b, <1>f, <1>l, <1>c, <1>h, <1>t DEF Budget
<1>1. CASE TakeAdd(w)
  <2>1. /\ tpc[w] \in {"idle", "add"} /\ cursor' = cursor + 1 /\ handed' = handed
        /\ tpc' = [tpc EXCEPT ![w] = "slot"] /\ index' = [index EXCEPT ![w] = cursor]
        /\ began' = [began EXCEPT ![w] = epoch]
    BY <1>1 DEF TakeAdd, history
  <2>2. Straddling' = Straddling
    BY <2>1, <1>t, <1>f DEF Straddling, InTake
  <2>3. w \notin Holding(i)
    BY <2>1 DEF Holding
  <2>4. CASE cursor = i
    <3>1. Holding(i)' = Holding(i) \cup {w}
      BY <2>1, <2>4, <1>t, <1>f DEF Holding
    <3>2. Cardinality(Holding(i))' = Cardinality(Holding(i)) + 1
      BY <2>3, <3>1, <1>c, CountMoves
    <3>3. Unpassed(i) = 1 /\ Unpassed(i)' = 0
      BY <2>1, <2>4, <1>t DEF Unpassed
    <3> QED
      BY <1>b, <2>1, <2>2, <3>2, <3>3, <1>c
  <2>5. CASE cursor # i
    <3>1. Holding(i)' = Holding(i)
      BY <2>1, <2>5, <1>t, <1>f DEF Holding
    <3>2. Unpassed(i)' <= Unpassed(i)
      BY <2>1, <1>t DEF Unpassed
    <3> QED
      BY <1>b, <2>1, <2>2, <3>1, <3>2, <1>c, <1>h
  <2> QED
    BY <2>4, <2>5
<1>2. CASE TakeSlot(w)
  <2>1. /\ tpc[w] = "slot" /\ tpc' = [tpc EXCEPT ![w] = "count"]
        /\ UNCHANGED <<cursor, handed, index, began>>
    BY <1>2 DEF TakeSlot, shared, history
  <2>2. Holding(i)' = Holding(i) /\ Straddling' = Straddling /\ Unpassed(i)' = Unpassed(i)
    BY <2>1, <1>t, <1>f DEF Holding, Straddling, InTake, Unpassed
  <2> QED
    BY <1>b, <2>1, <2>2, <1>c, <1>h
<1>3. CASE TakeCount(w)
  <2>1. /\ tpc[w] = "count" /\ UNCHANGED <<cursor, handed, index, began>>
        /\ tpc' = [tpc EXCEPT ![w] = IF index[w] >= count[slot[w]] THEN "clamp" ELSE "read"]
    BY <1>3 DEF TakeCount, shared, history
  <2>2. Straddling' = Straddling /\ Unpassed(i)' = Unpassed(i)
    BY <2>1, <1>t, <1>f DEF Straddling, InTake, Unpassed
  <2>3. Holding(i)' \in SUBSET Holding(i)
    BY <2>1, <1>t, <1>f DEF Holding
  <2>4. Cardinality(Holding(i))' <= Cardinality(Holding(i)) /\ Cardinality(Holding(i))' \in Nat
    <3>1. Holding(i)' \in SUBSET Workers
      BY <2>3, <1>c
    <3>2. Cardinality(Holding(i)') <= Cardinality(Holding(i)) /\ Cardinality(Holding(i)') \in Nat
      BY <2>3, <3>1, <1>c, CountMoves
    <3> QED
      BY <3>2
  <2> QED
    BY <1>b, <2>1, <2>2, <2>4, <1>c, <1>h
<1>4. CASE TakeClamp(w)
  <2>1. /\ tpc[w] = "clamp" /\ handed' = handed
        /\ cursor' = IF cursor = index[w] + 1 THEN limit[w] ELSE cursor
    BY <1>4 DEF TakeClamp, history
  <2>2. /\ tpc'[w] \in {"idle", "add"}
        /\ \A v \in Workers \ {w} : UNCHANGED <<tpc[v], index[v], slot[v], began[v]>>
    BY <1>4, RoundEnds DEF IInv
  <2>3. Holding(i)' = Holding(i)
    BY <2>1, <2>2, <1>f DEF Holding
  <2>4. Straddling' = Straddling \ {w}
    BY <2>2, <1>f DEF Straddling, InTake
  <2>5. CASE began[w] < epoch
    <3>1. w \in Straddling
      BY <2>1, <2>5 DEF Straddling, InTake
    <3>2. Cardinality(Straddling)' = Cardinality(Straddling) - 1
      BY <2>4, <3>1, <1>c, CountMoves
    <3>3. Cardinality(Straddling)' \in Nat
      BY <2>4, <1>c, CountMoves
    <3> QED
      BY <1>b, <2>1, <2>3, <3>2, <3>3, <1>c, <1>h
  <2>6. CASE ~(began[w] < epoch)
    <3>1. Straddling' = Straddling
      BY <2>4, <2>6 DEF Straddling
    <3>2. limit[w] = count[active]
      <4>1. began[w] = epoch
        BY <2>6, <1>w
      <4> QED
        BY <2>1, <4>1 DEF DupInv, ClampInv, Current
    <3>3. limit[w] <= index[w]
      BY <2>1, <1>l DEF Locals
    <3>4. i < count[active] => Unpassed(i)' <= Unpassed(i)
      BY <2>1, <3>2, <3>3, <1>w, <1>t DEF Unpassed
    <3>5. CASE i < count[active]
      BY <1>b, <2>1, <2>3, <3>1, <3>4, <3>5, <1>c, <1>h
    <3>6. CASE ~(i < count[active])
      BY <2>1, <3>6, <1>f, <1>l DEF Budget
    <3> QED
      BY <3>5, <3>6
  <2> QED
    BY <2>5, <2>6
<1>5. CASE TakeEntry(w) \/ TakeTorn(w)
  <2>1. /\ tpc[w] = "read" /\ cursor' = cursor
        /\ slot[w] \in Slots /\ index[w] \in Index
    BY <1>5, ReadLocals DEF TakeEntry, TakeTorn, shared
  <2>2. /\ tpc'[w] \in {"idle", "add"}
        /\ \A v \in Workers \ {w} : UNCHANGED <<tpc[v], index[v], slot[v], began[v]>>
    BY <1>5, RoundEnds DEF IInv
  <2>3. Holding(i)' = Holding(i) \ {w} /\ Straddling' = Straddling \ {w}
    BY <2>2, <1>f DEF Holding, Straddling, InTake
  <2>4. /\ Cardinality(Holding(i))' =
             IF w \in Holding(i) THEN Cardinality(Holding(i)) - 1 ELSE Cardinality(Holding(i))
        /\ Cardinality(Straddling)' <= Cardinality(Straddling)
        /\ Cardinality(Straddling)' \in Nat /\ Cardinality(Holding(i))' \in Nat
    <3>1. Holding(i) \ {w} \in SUBSET Workers /\ Straddling \ {w} \in SUBSET Workers
      BY <1>c
    <3>2. /\ Cardinality(Holding(i) \ {w}) =
             IF w \in Holding(i) THEN Cardinality(Holding(i)) - 1 ELSE Cardinality(Holding(i))
          /\ Cardinality(Straddling \ {w}) <= Cardinality(Straddling)
      BY <1>c, CountMoves
    <3>3. Cardinality(Straddling \ {w}) \in Nat /\ Cardinality(Holding(i) \ {w}) \in Nat
      BY <3>1, CountMoves
    <3> QED
      BY <2>3, <3>2, <3>3
  <2>5. Unpassed(i)' = Unpassed(i)
    BY <2>1 DEF Unpassed
  <2>6. CASE handed'[active][i] = handed[active][i]
    BY <1>b, <2>4, <2>5, <2>6, <1>c, <1>h
  <2>7. CASE handed'[active][i] # handed[active][i]
    <3>1. /\ slot[w] = active /\ index[w] = i /\ began[w] >= gen[active]
          /\ handed'[active][i] = handed[active][i] + 1
      <4>1. TakeEntry(w)
        BY <1>5, <2>7 DEF TakeTorn, history
      <4>2. handed' = IF began[w] >= gen[slot[w]]
                      THEN [handed EXCEPT ![slot[w]][index[w]] = @ + 1] ELSE handed
        BY <4>1 DEF TakeEntry
      <4> QED
        BY <2>1, <2>7, <4>2, <1>t
    <3>2. began[w] = epoch
      BY <3>1, <1>w
    <3>3. i < count[active]
      BY <2>1, <3>1, <3>2, <1>l DEF Locals, Current
    <3>4. w \in Holding(i)
      BY <2>1, <3>1, <3>2 DEF Holding
    <3> QED
      BY <2>4, <2>5, <3>1, <3>3, <3>4, <1>f, <1>l, <1>c, <1>h, <1>t DEF Budget
  <2> QED
    BY <2>6, <2>7
<1> QED
  BY <1>1, <1>2, <1>3, <1>4, <1>5 DEF TakeStep

(* The cursor's budget is kept by every step. *)
LEMMA CurrentStep == ASSUME IInv, DupInv, [Next]_vars PROVE CurrentInv'
<1>1. CASE (\E n \in 0 .. Cap : PublishStart(n)) \/ PublishStep
  BY <1>1, CurrentPublish
<1>2. ASSUME NEW w \in Workers, TakeStep(w) PROVE CurrentInv'
  <2>1. ppc' = ppc
    BY <1>2, TakeFrame
  <2>2. Index' = Index
    BY DEF Index
  <2> QED
    BY <1>2, <2>1, <2>2, CurrentTake DEF CurrentInv
<1>3. CASE UNCHANGED vars
  BY <1>3 DEF vars, shared, pub, take, history, DupInv, CurrentInv, Budget, Holding, Straddling,
              Unpassed, InTake
<1> QED
  BY <1>1, <1>2, <1>3 DEF Next

(* Nothing of a generation is handed out before its reset: a take is counted    *)
(* for a generation only if it began after it.                                  *)
LEMMA UnpublishedStep == ASSUME IInv, DupInv, [Next]_vars PROVE UnpublishedInv'
<1>t. /\ target \in Slots /\ active \in Slots /\ epoch \in Nat
      /\ handed \in [Slots -> [Index -> Nat]] /\ gen \in [Slots -> 0 .. MaxGen]
  BY CountTypes
<1>1. ASSUME NEW n \in 0 .. Cap, PublishStart(n) PROVE UnpublishedInv'
  BY <1>1, <1>t DEF PublishStart, UnpublishedInv, Slots
<1>2. CASE PublishEntry \/ PublishCount \/ PublishFlip \/ PublishReset
  BY <1>2 DEF PublishEntry, PublishCount, PublishFlip, PublishReset, history, DupInv, UnpublishedInv
<1>3. ASSUME NEW w \in Workers, TakeStep(w) PROVE UnpublishedInv'
  <2>1. ppc' = ppc /\ target' = target
    BY <1>3, TakeFrame
  <2>2. CASE TakeEntry(w)
    <3>1. slot[w] \in Slots /\ index[w] \in Index
      BY <2>2, ReadLocals DEF TakeEntry
    <3>2. ppc # "idle" => gen[target] = epoch + 1
      BY <1>t DEF IInv, TypeOK, PubInv, ActiveSetWhole
    <3>3. began[w] <= epoch /\ began[w] \in Nat
      BY TakeLocals, ReadyAssumption DEF Locals
    <3>4. handed' = IF began[w] >= gen[slot[w]]
                    THEN [handed EXCEPT ![slot[w]][index[w]] = @ + 1] ELSE handed
      BY <2>2 DEF TakeEntry
    <3>5. ppc # "idle" => handed'[target] = handed[target]
      <4>1. CASE slot[w] = target
        <5>1. ppc # "idle" => ~(began[w] >= gen[slot[w]])
          BY <3>2, <3>3, <4>1, <1>t
        <5> QED
          BY <3>4, <5>1
      <4>2. CASE slot[w] # target
        BY <3>4, <4>2, <1>t
      <4> QED
        BY <4>1, <4>2
    <3> QED
      BY <2>1, <3>5 DEF DupInv, UnpublishedInv
  <2>3. CASE ~TakeEntry(w)
    <3>1. handed' = handed
      BY <1>3, <2>3 DEF TakeStep, TakeAdd, TakeSlot, TakeCount, TakeClamp, TakeTorn, history
    <3> QED
      BY <2>1, <3>1 DEF DupInv, UnpublishedInv
  <2> QED
    BY <2>2, <2>3
<1>4. CASE UNCHANGED vars
  BY <1>4 DEF vars, pub, history, DupInv, UnpublishedInv
<1> QED
  BY <1>1, <1>2, <1>3, <1>4 DEF Next, PublishStep

(* What a take of the current generation clamps to stays the active count. *)
LEMMA ClampStep == ASSUME IInv, DupInv, [Next]_vars PROVE ClampInv'
<1>t. /\ target \in Slots /\ active \in Slots /\ epoch \in Nat /\ count \in [Slots -> 0 .. Cap]
      /\ tpc \in [Workers -> {"idle", "add", "slot", "count", "read", "clamp"}]
      /\ limit \in [Workers -> 0 .. Cap] /\ began \in [Workers -> 0 .. MaxGen]
  BY CountTypes
<1>c. ClampInv
  BY DEF DupInv
<1>1. ASSUME NEW n \in 0 .. Cap, PublishStart(n) PROVE ClampInv'
  BY <1>1, <1>c DEF PublishStart, take, ClampInv, Current
<1>2. CASE PublishEntry
  BY <1>2, <1>c DEF PublishEntry, take, history, ClampInv, Current
<1>3. CASE PublishCount
  BY <1>3, <1>c, <1>t DEF PublishCount, IInv, PubInv, take, history, ClampInv, Current
<1>4. CASE PublishFlip
  BY <1>4 DEF PublishFlip, ClampInv, Current
<1>5. CASE PublishReset
  <2>1. \A w \in Workers : began'[w] # epoch'
    BY <1>5, <1>t, CountTypes DEF PublishReset, take, IInv, TakeInv
  <2> QED
    BY <2>1 DEF ClampInv, Current
<1>6. ASSUME NEW w \in Workers, TakeStep(w) PROVE ClampInv'
  <2>1. UNCHANGED <<active, count, ppc, epoch>>
    BY <1>6, TakeFrame
  <2>2. \A v \in Workers \ {w} : UNCHANGED <<tpc[v], limit[v], began[v]>>
    <3>1. CASE TakeClamp(w) \/ TakeEntry(w) \/ TakeTorn(w)
      BY <3>1, RoundEnds DEF IInv
    <3>2. CASE TakeAdd(w) \/ TakeSlot(w) \/ TakeCount(w)
      BY <3>2, <1>t DEF TakeAdd, TakeSlot, TakeCount
    <3> QED
      BY <1>6, <3>1, <3>2 DEF TakeStep
  <2>3. tpc'[w] = "clamp" /\ Current(w)' => limit'[w] = count'[active']
    <3>1. CASE TakeCount(w)
      <4>1. /\ tpc[w] = "count" /\ began' = began
            /\ tpc'[w] = "clamp" => limit'[w] = count[slot[w]]
        BY <3>1, <1>t DEF TakeCount
      <4>2. Current(w) => slot[w] = active
        BY <4>1, TakeLocals DEF Locals
      <4> QED
        BY <2>1, <4>1, <4>2 DEF Current
    <3>2. CASE TakeAdd(w) \/ TakeSlot(w)
      BY <3>2, <1>t DEF TakeAdd, TakeSlot
    <3>3. CASE TakeClamp(w) \/ TakeEntry(w) \/ TakeTorn(w)
      BY <3>3, RoundEnds DEF IInv
    <3> QED
      BY <1>6, <3>1, <3>2, <3>3 DEF TakeStep
  <2> QED
    BY <1>c, <2>1, <2>2, <2>3 DEF ClampInv, Current
<1>7. CASE UNCHANGED vars
  BY <1>7, <1>c DEF vars, shared, pub, take, history, ClampInv, Current
<1> QED
  BY <1>1, <1>2, <1>3, <1>4, <1>5, <1>6, <1>7 DEF Next, PublishStep

(* A step that takes nothing into the takes counted for a slot, and hands       *)
(* nothing of it out, keeps the slot's budget.                                  *)
LEMMA SlotKept ==
    ASSUME IInv, NEW s \in Slots, NEW i \in Index, SlotBudget(s, i),
           handed'[s][i] = handed[s][i], straddlers'[s] = straddlers[s],
           Choosing(s, i)' \in SUBSET Choosing(s, i)
    PROVE  SlotBudget(s, i)'
<1>1. Choosing(s, i) \in SUBSET Workers
  BY DEF Choosing
<1>2. IsFiniteSet(Choosing(s, i))
  BY <1>1, FS_Subset, ReadyAssumption
<1>3. Cardinality(Choosing(s, i)) \in Nat /\ IsFiniteSet(Choosing(s, i)')
      /\ Cardinality(Choosing(s, i)') <= Cardinality(Choosing(s, i))
  BY <1>2, FS_Subset, FS_CardinalityType
<1>4. Cardinality(Choosing(s, i)') \in Nat
  BY <1>3, FS_CardinalityType
<1>5. handed[s][i] \in Nat /\ straddlers[s] \in Nat
  BY CountTypes
<1> QED
  BY <1>3, <1>4, <1>5 DEF SlotBudget

(* A slot to which no take is counted yet has its budget whole. *)
LEMMA SlotFresh ==
    ASSUME NEW s \in Slots, NEW i \in Index,
           handed'[s][i] = 0, straddlers'[s] \in Nat, Choosing(s, i)' = {}
    PROVE  SlotBudget(s, i)'
<1>1. Cardinality(Choosing(s, i)') = 0
  BY FS_EmptySet
<1> QED
  BY <1>1 DEF SlotBudget

(* Publishing keeps the budget of either slot: the one it rewrites starts anew. *)
LEMMA SlotPublish ==
    ASSUME IInv, DupInv, (\E n \in 0 .. Cap : PublishStart(n)) \/ PublishStep,
           NEW s \in Slots, NEW i \in Index, s # active' \/ ppc' = "reset"
    PROVE  SlotBudget(s, i)'
<1>t. /\ active \in Slots /\ target \in Slots /\ epoch \in Nat /\ MaxGen \in Nat
      /\ count \in [Slots -> 0 .. Cap] /\ handed \in [Slots -> [Index -> Nat]]
      /\ gen \in [Slots -> 0 .. MaxGen]
      /\ began \in [Workers -> 0 .. MaxGen] /\ straddlers \in [Slots -> Nat]
  BY CountTypes
<1>b. SlotBudget(s, i)
  BY DEF DupInv, EitherSlotInv
<1>w. \A w \in Workers : began[w] \in Nat /\ began[w] <= epoch
  BY <1>t DEF IInv, TakeInv
<1>1. ASSUME NEW n \in 0 .. Cap, PublishStart(n) PROVE SlotBudget(s, i)'
  <2>1. s = 1 - active
    BY <1>1, <1>t DEF PublishStart, Slots
  <2>2. /\ gen'[s] = epoch + 1 /\ handed'[s][i] = 0 /\ straddlers' = straddlers
        /\ began' = began
    BY <1>1, <2>1, <1>t DEF PublishStart, Slots, take
  <2>3. Choosing(s, i)' = {}
    BY <2>2, <1>w, <1>t DEF Choosing
  <2> QED
    BY <2>2, <2>3, <1>t, SlotFresh
<1>2. CASE PublishCount
  <2>1. /\ ppc = "count" /\ count' = [count EXCEPT ![target] = size]
        /\ UNCHANGED <<active, gen, handed, straddlers, tpc, slot, index, began>>
    BY <1>2 DEF PublishCount, take, history
  <2>2. gen[target] = epoch + 1 /\ handed[target][i] = 0
    BY <2>1 DEF IInv, PubInv, DupInv, UnpublishedInv
  <2>3. CASE s = target
    <3>1. Choosing(s, i)' = {}
      BY <2>1, <2>2, <2>3, <1>w, <1>t DEF Choosing
    <3> QED
      BY <2>1, <2>2, <2>3, <3>1, <1>t, SlotFresh
  <2>4. CASE s # target
    <3>1. Choosing(s, i)' = Choosing(s, i)
      BY <2>1, <2>4, <1>t DEF Choosing
    <3> QED
      BY <2>1, <3>1, <1>b, SlotKept
  <2> QED
    BY <2>3, <2>4
<1>3. CASE PublishEntry \/ PublishFlip \/ PublishReset
  <2>1. UNCHANGED <<count, gen, handed, tpc, slot, index, began>>
    BY <1>3 DEF PublishEntry, PublishFlip, PublishReset, take, history
  <2>2. straddlers'[s] = straddlers[s]
    BY <1>3, <1>t DEF PublishEntry, PublishFlip, PublishReset, history, IInv, PubInv
  <2>3. Choosing(s, i)' = Choosing(s, i)
    BY <2>1 DEF Choosing
  <2> QED
    BY <2>1, <2>2, <2>3, <1>b, SlotKept
<1> QED
  BY <1>1, <1>2, <1>3 DEF PublishStep

(* A take that chooses an entry of the slot readers have left, or have not been *)
(* counted for, does not count; one that hands an entry out was counted before. *)
LEMMA SlotTake ==
    ASSUME IInv, DupInv, NEW w \in Workers, TakeStep(w),
           NEW s \in Slots, NEW i \in Index, s # active' \/ ppc' = "reset"
    PROVE  SlotBudget(s, i)'
<1>t. /\ active \in Slots /\ epoch \in Nat /\ MaxGen \in Nat /\ gen[s] \in Nat
      /\ tpc \in [Workers -> {"idle", "add", "slot", "count", "read", "clamp"}]
      /\ index \in [Workers -> Nat] /\ began \in [Workers -> 0 .. MaxGen]
      /\ slot \in [Workers -> Slots] /\ i \in Nat /\ count[s] \in Nat
      /\ handed \in [Slots -> [Index -> Nat]] /\ straddlers[s] \in Nat
  <2>1. gen[s] \in 0 .. MaxGen /\ count[s] \in 0 .. Cap /\ Cap \in Nat /\ MaxGen \in Nat
    BY CountTypes
  <2> QED
    BY <2>1, CountTypes
<1>f. UNCHANGED <<active, count, gen, ppc, epoch, straddlers>>
  BY TakeFrame
<1>b. SlotBudget(s, i)
  BY DEF DupInv, EitherSlotInv
<1>w. began[w] \in Nat /\ began[w] <= epoch
  BY <1>t, TakeLocals DEF Locals
<1>1. CASE TakeAdd(w)
  <2>1. /\ tpc[w] \in {"idle", "add"} /\ handed' = handed /\ slot' = slot
        /\ tpc' = [tpc EXCEPT ![w] = "slot"] /\ index' = [index EXCEPT ![w] = cursor]
        /\ began' = [began EXCEPT ![w] = epoch]
    BY <1>1 DEF TakeAdd, history
  <2>2. Choosing(s, i)' = Choosing(s, i)
    BY <2>1, <1>f, <1>t DEF Choosing
  <2> QED
    BY <2>1, <2>2, <1>f, <1>b, SlotKept
<1>2. CASE TakeSlot(w)
  <2>1. /\ handed' = handed /\ UNCHANGED <<index, began>> /\ tpc[w] = "slot"
        /\ tpc' = [tpc EXCEPT ![w] = "count"] /\ slot' = [slot EXCEPT ![w] = active]
    BY <1>2 DEF TakeSlot, shared, history
  <2>2. s = active => gen[s] = epoch + 1
    BY <1>f DEF IInv, ActiveSetWhole
  <2>3. w \notin Choosing(s, i)'
    BY <2>1, <2>2, <1>f, <1>w, <1>t DEF Choosing
  <2>4. Choosing(s, i)' \in SUBSET Choosing(s, i)
    BY <2>1, <2>3, <1>f, <1>t DEF Choosing
  <2> QED
    BY <2>1, <2>4, <1>f, <1>b, SlotKept
<1>3. CASE TakeCount(w)
  <2>1. /\ handed' = handed /\ UNCHANGED <<index, began, slot>> /\ tpc[w] = "count"
        /\ tpc' = [tpc EXCEPT ![w] = IF index[w] >= count[slot[w]] THEN "clamp" ELSE "read"]
    BY <1>3 DEF TakeCount, shared, history
  <2>2. w \in Choosing(s, i)' => w \in Choosing(s, i)
    BY <2>1, <1>f, <1>t DEF Choosing
  <2>3. Choosing(s, i)' \in SUBSET Choosing(s, i)
    BY <2>1, <2>2, <1>f, <1>t DEF Choosing
  <2> QED
    BY <2>1, <2>3, <1>f, <1>b, SlotKept
<1>4. CASE TakeClamp(w) \/ TakeEntry(w) \/ TakeTorn(w)
  <2>1. /\ tpc'[w] \in {"idle", "add"}
        /\ \A v \in Workers \ {w} : UNCHANGED <<tpc[v], index[v], slot[v], began[v]>>
    BY <1>4, RoundEnds DEF IInv
  <2>2. Choosing(s, i)' = Choosing(s, i) \ {w}
    BY <2>1, <1>f DEF Choosing
  <2>3. CASE handed'[s][i] = handed[s][i]
    BY <2>2, <2>3, <1>f, <1>b, SlotKept
  <2>4. CASE handed'[s][i] # handed[s][i]
    <3>1. TakeEntry(w)
      BY <1>4, <2>4 DEF TakeClamp, TakeTorn, history
    <3>2. /\ tpc[w] = "read"
          /\ handed' = IF began[w] >= gen[slot[w]]
                       THEN [handed EXCEPT ![slot[w]][index[w]] = @ + 1] ELSE handed
      BY <3>1 DEF TakeEntry
    <3>3. slot[w] \in Slots /\ index[w] \in Index
      BY <3>2, ReadLocals
    <3>4. /\ slot[w] = s /\ index[w] = i /\ began[w] >= gen[s]
          /\ handed'[s][i] = handed[s][i] + 1
      BY <2>4, <3>2, <3>3, <1>t
    <3>5. w \in Choosing(s, i)
      BY <3>2, <3>4 DEF Choosing
    <3>6. Choosing(s, i) \in SUBSET Workers
      BY DEF Choosing
    <3>7. /\ Cardinality(Choosing(s, i) \ {w}) = Cardinality(Choosing(s, i)) - 1
          /\ Cardinality(Choosing(s, i)) \in Nat
      BY <3>5, <3>6, CountMoves
    <3>8. handed[s][i] \in Nat
      BY <1>t
    <3> QED
      BY <2>2, <3>4, <3>7, <3>8, <1>f, <1>b, <1>t DEF SlotBudget
  <2> QED
    BY <2>3, <2>4
<1> QED
  BY <1>1, <1>2, <1>3, <1>4 DEF TakeStep

(* What ActiveWithinBudget says of a state, as a formula of that state. *)
ActiveServed ==
    IInv /\ CurrentInv /\ ppc # "reset" => \A i \in Index : SlotBudget(active, i)

(* Either slot keeps its budget: the active one out of the cursor's. *)
LEMMA EitherSlotStep ==
    ASSUME IInv, DupInv, [Next]_vars, IInv', CurrentInv', ActiveServed' PROVE EitherSlotInv'
<1> SUFFICES ASSUME NEW s \in Slots, NEW i \in Index PROVE SlotBudget(s, i)'
  BY DEF EitherSlotInv, Slots, Index
<1>1. CASE s = active' /\ ppc' # "reset"
  <2>1. \A j \in Index : SlotBudget(active, j)'
    BY <1>1 DEF ActiveServed, Index
  <2> QED
    BY <1>1, <2>1 DEF SlotBudget, Choosing
<1>2. CASE ~(s = active' /\ ppc' # "reset")
  <2>1. CASE (\E n \in 0 .. Cap : PublishStart(n)) \/ PublishStep
    BY <1>2, <2>1, SlotPublish
  <2>2. ASSUME NEW w \in Workers, TakeStep(w) PROVE SlotBudget(s, i)'
    BY <1>2, <2>2, SlotTake
  <2>3. CASE UNCHANGED vars
    BY <2>3 DEF vars, shared, take, history, DupInv, EitherSlotInv, SlotBudget, Choosing
  <2> QED
    BY <2>1, <2>2, <2>3 DEF Next
<1> QED
  BY <1>1, <1>2

(* The empty ready set has handed nothing out. *)
LEMMA InitDupInv == ASSUME Init PROVE DupInv
<1>1. CurrentInv
  BY ReadyAssumption DEF Init, CurrentInv, Budget, Slots, Index
<1>2. EitherSlotInv
  <2> SUFFICES ASSUME NEW s \in Slots, NEW i \in Index PROVE SlotBudget(s, i)
    BY DEF EitherSlotInv
  <2>1. Choosing(s, i) = {} /\ handed[s][i] = 0 /\ straddlers[s] = 0
    BY DEF Init, Choosing
  <2>2. Cardinality(Choosing(s, i)) = 0
    BY <2>1, FS_EmptySet
  <2> QED
    BY <2>1, <2>2 DEF SlotBudget
<1>3. UnpublishedInv /\ ClampInv
  BY DEF Init, UnpublishedInv, ClampInv
<1> QED
  BY <1>1, <1>2, <1>3 DEF DupInv

(* A take of the current generation is handed an entry another has had only on  *)
(* account of a take that was in progress at the reset, at most once for each,  *)
(* however many takers and publishes interleave.                                *)
THEOREM ReadyDuplicatesBounded == Spec => []DuplicatesFromStraddlers
<1>1. ActiveServed
  BY ActiveWithinBudget DEF ActiveServed
<1>2. Init => DupInv
  BY InitDupInv
<1>3. IInv /\ IInv' /\ ActiveServed' /\ DupInv /\ [Next]_vars => DupInv'
  <2> SUFFICES ASSUME IInv, IInv', ActiveServed', DupInv, [Next]_vars PROVE DupInv'
    OBVIOUS
  <2>1. CurrentInv'
    BY CurrentStep
  <2> QED
    BY <2>1, EitherSlotStep, UnpublishedStep, ClampStep DEF DupInv
<1>4. IInv /\ DupInv => DuplicatesFromStraddlers
  <2> SUFFICES ASSUME IInv, DupInv, NEW s \in Slots, NEW i \in Index
               PROVE  handed[s][i] <= 1 + straddlers[s]
    BY DEF DuplicatesFromStraddlers
  <2>1. SlotBudget(s, i)
    BY DEF DupInv, EitherSlotInv
  <2>2. Choosing(s, i) \in SUBSET Workers
    BY DEF Choosing
  <2>3. IsFiniteSet(Choosing(s, i))
    BY <2>2, FS_Subset, ReadyAssumption
  <2>4. Cardinality(Choosing(s, i)) \in Nat
    BY <2>3, FS_CardinalityType
  <2>5. handed[s][i] \in Nat /\ straddlers[s] \in Nat
    BY CountTypes
  <2> QED
    BY <2>1, <2>4, <2>5 DEF SlotBudget
<1>5. Spec => []IInv
  BY Invariance
<1> QED
  BY <1>1, <1>2, <1>3, <1>4, <1>5, PTL DEF Spec

=============================================================================
