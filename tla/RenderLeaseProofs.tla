-------------------------- MODULE RenderLeaseProofs --------------------------
(* Proofs about RenderLease.  First: every word of the table, and everything *)
(* a worker carries from one atomic step of an operation to the next, is in  *)
(* its range.  Then, for a table that one key uses: the key's leases are in  *)
(* one slot, in an order and at distances that make a grant exclusive and    *)
(* that keep a release from shortening a later lease.                        *)
EXTENDS RenderLease, TLAPS

\* What a worker is in the middle of, by step.
Words      == Keys \cup {OtherKey, NoKey}
DueWords   == Minutes \cup {0, Released, Held}
GrantCalls == [key : Keys, now : 1 .. MaxClock, minute : Minutes, held : BOOLEAN, blocked : BOOLEAN]
Calls      == [key : Keys, now : 1 .. MaxClock, stamp : 1 .. MaxClock]

IdleOps    == [pc : {"idle"}]
ProbeOps   == [pc : {"probe"}, probe : Slots, free : Slots \cup {NoSlot}, call : GrantCalls]
SlotOps    == [pc : {"read", "freshLo", "elsewhere", "giveBack"}, call : GrantCalls, slot : Slots]
StoreOps   == [pc : {"storeDue", "storeStamp", "casExpires"}, call : GrantCalls, slot : Slots,
               observed : Nat]
FreshOps   == [pc : {"freshHi", "freshExpires", "freshPayload", "casLo"}, call : GrantCalls,
               slot : Slots, observed : Words]
GrantedOps == [pc : {"granted"}, call : GrantCalls, slot : Slots, fresh : BOOLEAN]
FoundOps   == [pc : {"relExpires"}, call : Calls, slot : Slots]
OwnOps     == [pc : {"relCheck", "relDue"}, call : Calls, slot : Slots, observed : Nat]
ClaimOps   == [pc : {"relCasDue"}, call : Calls, slot : Slots, observed : Nat, due : DueWords,
               counted : BOOLEAN]
ShortenOps == [pc : {"relCasExpires"}, call : Calls, slot : Slots, observed : Nat, counted : BOOLEAN]
CountOps   == [pc : {"relCount"}, call : Calls]
ScanOps    == [pc : {"scan"}, call : [now : 1 .. MaxClock], slot : 0 .. NumSlots, count : Nat]

Ops == IdleOps \cup ProbeOps \cup SlotOps \cup StoreOps \cup FreshOps \cup GrantedOps \cup FoundOps
         \cup OwnOps \cup ClaimOps \cup ShortenOps \cup CountOps \cup ScanOps

\* An operation began at a tick that has come.
Begun(o) == o.pc # "idle" => o.call.now <= clock

OpsOK == op \in [Workers -> Ops] /\ \A w \in Workers : Begun(op[w])

WordsOK ==
    /\ clock \in 1 .. MaxClock
    /\ lo \in [Slots -> Words]
    /\ hi \in [Slots -> Words]
    /\ expires \in [Slots -> 0 .. (clock + HoldTicks)]
    /\ due \in [Slots -> DueWords]
    /\ granted \in [Slots -> 0 .. clock]
    /\ occupancy \in Int

TypeInv == WordsOK /\ OpsOK

\* The record a worker carries at each step has that step's fields.
LEMMA OpShapes ==
    ASSUME NEW o \in Ops
    PROVE  /\ o.pc = "idle" => o \in IdleOps
           /\ o.pc = "probe" => o \in ProbeOps
           /\ o.pc \in {"read", "freshLo", "elsewhere", "giveBack"} => o \in SlotOps
           /\ o.pc \in {"storeDue", "storeStamp", "casExpires"} => o \in StoreOps
           /\ o.pc \in {"freshHi", "freshExpires", "freshPayload", "casLo"} => o \in FreshOps
           /\ o.pc = "granted" => o \in GrantedOps
           /\ o.pc = "relExpires" => o \in FoundOps
           /\ o.pc \in {"relCheck", "relDue"} => o \in OwnOps
           /\ o.pc = "relCasDue" => o \in ClaimOps
           /\ o.pc = "relCasExpires" => o \in ShortenOps
           /\ o.pc = "relCount" => o \in CountOps
           /\ o.pc = "scan" => o \in ScanOps
  BY SMTT(60) DEF Ops, IdleOps, ProbeOps, SlotOps, StoreOps, FreshOps, GrantedOps, FoundOps, OwnOps,
     ClaimOps, ShortenOps, CountOps, ScanOps

\* A worker that goes on to a record of some step's shape, begun at a tick that
\* has come, leaves what every worker carries in range.
LEMMA GoneTo ==
    ASSUME OpsOK, NEW w \in Workers, NEW o \in Ops, Begun(o), Goto(w, o), clock' = clock
    PROVE  OpsOK'
<1>1. op' \in [Workers -> Ops]
  BY DEF OpsOK, Goto
<1>2. ASSUME NEW v \in Workers PROVE Begun(op[v])'
  <2>1. CASE v = w
    <3>1. op'[v] = o BY <2>1 DEF OpsOK, Goto
    <3> QED BY <3>1 DEF Begun
  <2>2. CASE v # w
    <3>1. op'[v] = op[v] BY <2>2 DEF OpsOK, Goto
    <3> QED BY <3>1 DEF Begun, OpsOK
  <2> QED BY <2>1, <2>2
<1> QED BY <1>1, <1>2 DEF OpsOK

\* The idle record, and that slots are numbers.
LEMMA IdleOK == Idle \in Ops /\ Begun(Idle) /\ Idle.pc = "idle"
  BY DEF Idle, Ops, IdleOps, Begun

\* The slot a probe looks at is a slot, for the table sizes of LeaseAssumption.
LEMMA ProbeOK ==
    ASSUME NEW k \in Keys, NEW n \in Nat
    PROVE  ProbeSlot(k, n) \in Slots
<1>1. StartOf[k] + n \in Int
  BY LeaseAssumption DEF Slots
<1>2. ASSUME NEW i \in Int, NEW m \in 1 .. 8 PROVE i % m \in 0 .. (m - 1)
  <2>1. m = 1 \/ m = 2 \/ m = 3 \/ m = 4 \/ m = 5 \/ m = 6 \/ m = 7 \/ m = 8 OBVIOUS
  <2> QED BY <2>1
<1> QED BY <1>1, <1>2, LeaseAssumption DEF ProbeSlot, Slots

\* The slot locate finds is a slot.
LEMMA FoundOK ==
    ASSUME NEW k \in Keys, Found(k) # NoSlot
    PROVE  Found(k) \in Slots
<1> DEFINE at == {n \in Slots : Holds(ProbeSlot(k, n), k)}
           first == CHOOSE n \in at : \A m \in at : n <= m
<1>1. Found(k) = IF at = {} THEN NoSlot ELSE ProbeSlot(k, first)
  BY DEF Found
<1>2. at # {}
  BY <1>1
<1>3. at \subseteq 0 .. 7
  BY LeaseAssumption DEF Slots
<1>4. \E n \in at : \A m \in at : n <= m
  <2> HIDE DEF at
  <2> SUFFICES ASSUME \A n \in at : \E m \in at : m < n PROVE FALSE
    BY <1>3
  <2>1. 0 \notin at BY <1>3
  <2>2. 1 \notin at BY <1>3, <2>1
  <2>3. 2 \notin at BY <1>3, <2>1, <2>2
  <2>4. 3 \notin at BY <1>3, <2>1, <2>2, <2>3
  <2>5. 4 \notin at BY <1>3, <2>1, <2>2, <2>3, <2>4
  <2>6. 5 \notin at BY <1>3, <2>1, <2>2, <2>3, <2>4, <2>5
  <2>7. 6 \notin at BY <1>3, <2>1, <2>2, <2>3, <2>4, <2>5, <2>6
  <2>8. 7 \notin at BY <1>3, <2>1, <2>2, <2>3, <2>4, <2>5, <2>6, <2>7
  <2>9. PICK x \in at : TRUE BY <1>2
  <2>10. x \in 0 .. 7 BY <1>3
  <2> QED BY <2>1, <2>2, <2>3, <2>4, <2>5, <2>6, <2>7, <2>8, <2>9, <2>10
<1>5. first \in at
  BY <1>4
<1>6. first \in Nat
  BY <1>5, LeaseAssumption DEF Slots
<1> HIDE DEF first
<1> QED
  BY <1>1, <1>2, <1>6, ProbeOK

\* The initial table is in range, and no worker is in an operation.
LEMMA TypeInit == Init => TypeInv
<1> SUFFICES ASSUME Init PROVE TypeInv OBVIOUS
<1>1. WordsOK
  BY LeaseAssumption DEF Init, WordsOK, Words, DueWords, Slots
<1>2. OpsOK
  <2>1. op = [w \in Workers |-> Idle] BY DEF Init
  <2> QED BY <2>1, IdleOK DEF OpsOK
<1> QED BY <1>1, <1>2 DEF TypeInv

\* What an operation that begins carries.
LEMMA TypeBegins ==
    ASSUME TypeInv, NEW w \in Workers,
           \/ \E k \in Keys, minute \in Minutes, held \in BOOLEAN : GrantBegin(w, k, minute, held)
           \/ \E k \in Keys, stamp \in 1 .. MaxClock : ReleaseBegin(w, k, stamp)
           \/ ScanBegin(w)
    PROVE  TypeInv'
<1>1. clock \in 1 .. MaxClock /\ OpsOK BY DEF TypeInv, WordsOK
<1>2. ASSUME NEW k \in Keys, NEW minute \in Minutes, NEW held \in BOOLEAN,
             GrantBegin(w, k, minute, held)
      PROVE  TypeInv'
  <2> DEFINE blocked == \E l \in leases : l.key = k /\ InFlight(l)
             call == [key |-> k, now |-> clock, minute |-> minute, held |-> held, blocked |-> blocked]
             o == [pc |-> "probe", probe |-> 0, free |-> NoSlot, call |-> call]
  <2>1. blocked \in BOOLEAN OBVIOUS
  <2> HIDE DEF blocked
  <2>2. call \in GrantCalls /\ call.now = clock BY <1>1, <2>1 DEF GrantCalls
  <2> HIDE DEF call
  <2>3. o \in ProbeOps
    BY <2>2, LeaseAssumption DEF ProbeOps, Slots
  <2>4. o \in Ops /\ Begun(o)
    <3>1. o \in Ops BY <2>3 DEF Ops
    <3>2. o.call = call OBVIOUS
    <3> HIDE DEF o
    <3> QED BY <1>1, <2>2, <3>1, <3>2 DEF Begun
  <2>5. Goto(w, o) /\ UNCHANGED <<clock, slotVars, occupancy>>
    BY <1>2 DEF GrantBegin, o, call, blocked
  <2> HIDE DEF o
  <2>6. OpsOK' BY <1>1, <2>4, <2>5, GoneTo
  <2> QED BY <2>5, <2>6 DEF TypeInv, WordsOK, slotVars
<1>3. ASSUME NEW k \in Keys, NEW stamp \in 1 .. MaxClock, ReleaseBegin(w, k, stamp)
      PROVE  TypeInv'
  <2> DEFINE call == [key |-> k, now |-> clock, stamp |-> stamp]
             o == [pc |-> "relExpires", slot |-> Found(k), call |-> call]
  <2>1. Found(k) \in Slots
    BY <1>3, FoundOK DEF ReleaseBegin
  <2>2. call \in Calls /\ call.now = clock
    BY <1>1 DEF Calls
  <2> HIDE DEF call
  <2>3. o \in FoundOps /\ o.call = call
    BY <2>1, <2>2 DEF FoundOps
  <2>4. Goto(w, o) /\ UNCHANGED <<clock, slotVars, occupancy>>
    BY <1>3 DEF ReleaseBegin, o, call
  <2> HIDE DEF o
  <2>5. o \in Ops /\ Begun(o)
    BY <1>1, <2>2, <2>3 DEF Begun, Ops
  <2>6. OpsOK' BY <1>1, <2>4, <2>5, GoneTo
  <2> QED BY <2>4, <2>6 DEF TypeInv, WordsOK, slotVars
<1>4. ASSUME ScanBegin(w) PROVE TypeInv'
  <2> DEFINE o == [pc |-> "scan", call |-> [now |-> clock], slot |-> 0, count |-> 0]
  <2>1. o \in ScanOps /\ o.call.now = clock
    BY <1>1, LeaseAssumption DEF ScanOps
  <2>2. Goto(w, o) /\ UNCHANGED <<clock, slotVars, occupancy>>
    BY <1>4 DEF ScanBegin
  <2> HIDE DEF o
  <2>3. o \in Ops /\ Begun(o)
    BY <1>1, <2>1 DEF Begun, Ops
  <2>4. OpsOK' BY <1>1, <2>2, <2>3, GoneTo
  <2> QED BY <2>2, <2>4 DEF TypeInv, WordsOK, slotVars
<1> QED BY <1>2, <1>3, <1>4

\* A step of a grant leaves every word of the table and every operation in range.
LEMMA TypeGrants ==
    ASSUME TypeInv, NEW w \in Workers, GrantStep(w)
    PROVE  TypeInv'
<1> DEFINE o == op[w]
<1>1. o \in Ops /\ Begun(o) /\ OpsOK /\ clock \in 1 .. MaxClock
  BY DEF TypeInv, OpsOK, WordsOK
<1>2. Idle \in Ops /\ Begun(Idle)
  BY IdleOK
<1>3. WordsOK /\ LeaseTicks \in Nat \ {0} /\ HoldTicks \in Nat /\ LeaseTicks <= HoldTicks
  BY LeaseAssumption DEF TypeInv
<1>4. ASSUME NEW n \in Ops, Begun(n), Goto(w, n), UNCHANGED <<clock, slotVars, occupancy>>
      PROVE  TypeInv'
  BY <1>1, <1>3, <1>4, GoneTo DEF TypeInv, WordsOK, slotVars
<1>5. ASSUME NEW call \in GrantCalls, call.now <= clock
      PROVE  /\ ExpiresAt(call) \in 0 .. (clock + HoldTicks)
             /\ DueWord(call) \in DueWords
             /\ call.now \in 0 .. clock
  BY <1>1, <1>3, <1>5 DEF GrantCalls, ExpiresAt, DueWord, DueWords
<1>6. CASE GrantProbe(w)
  <2> DEFINE s == ProbeSlot(o.call.key, o.probe)
             free == IF o.free = NoSlot /\ (lo[s] = NoKey \/ ~IsLive(expires[s], o.call.now))
                     THEN s ELSE o.free
  <2>1. o \in ProbeOps BY <1>1, <1>6, OpShapes DEF GrantProbe
  <2>2. o.probe \in Slots /\ o.free \in Slots \cup {NoSlot} /\ o.call \in GrantCalls
        /\ o.call.key \in Keys
    BY <2>1 DEF ProbeOps, GrantCalls
  <2>3. s \in Slots BY <2>2, ProbeOK DEF Slots
  <2>4. free \in Slots \cup {NoSlot} BY <2>2, <2>3
  <2>5. o.call.now <= clock BY <1>1, <1>6 DEF GrantProbe, Begun
  <2> DEFINE read == [pc |-> "read", call |-> o.call, slot |-> s]
             next == [o EXCEPT !.probe = @ + 1, !.free = free]
             fresh == [pc |-> "freshLo", call |-> o.call, slot |-> free]
  <2>6. Goto(w, IF Holds(s, o.call.key) THEN read
                ELSE IF o.probe < NumSlots - 1 THEN next
                ELSE IF free # NoSlot THEN fresh ELSE Idle)
        /\ UNCHANGED <<clock, slotVars, occupancy>>
    BY <1>6 DEF GrantProbe
  <2>7. read \in Ops /\ Begun(read)
    <3>1. read \in SlotOps /\ read.call = o.call BY <2>2, <2>3 DEF SlotOps
    <3> HIDE DEF read, s
    <3> QED BY <2>5, <3>1 DEF Ops, Begun
  <2>8. ASSUME o.probe < NumSlots - 1 PROVE next \in Ops /\ Begun(next)
    <3>1. o.probe + 1 \in Slots BY <2>2, <2>8, LeaseAssumption DEF Slots
    <3> HIDE DEF s, free
    <3>2. next \in ProbeOps /\ next.call = o.call BY <2>1, <2>4, <3>1 DEF ProbeOps
    <3> HIDE DEF next
    <3> QED BY <2>5, <3>2 DEF Ops, Begun
  <2>9. ASSUME free # NoSlot PROVE fresh \in Ops /\ Begun(fresh)
    <3> HIDE DEF s, free
    <3>1. fresh \in SlotOps /\ fresh.call = o.call BY <2>2, <2>4, <2>9 DEF SlotOps
    <3> HIDE DEF fresh
    <3> QED BY <2>5, <3>1 DEF Ops, Begun
  <2> HIDE DEF s, free, read, next, fresh
  <2> QED BY <1>2, <1>4, <2>6, <2>7, <2>8, <2>9
<1>7. CASE GrantRead(w)
  <2> DEFINE n == [pc |-> "storeDue", call |-> o.call, slot |-> o.slot, observed |-> expires[o.slot]]
  <2>1. o \in SlotOps /\ o.call.now <= clock
    BY <1>1, <1>7, OpShapes DEF GrantRead, Begun
  <2>2. o.slot \in Slots /\ o.call \in GrantCalls BY <2>1 DEF SlotOps
  <2>3. expires[o.slot] \in Nat BY <1>1, <1>3, <2>2 DEF WordsOK
  <2>4. n \in StoreOps /\ n.call = o.call BY <2>2, <2>3 DEF StoreOps
  <2>5. Goto(w, IF IsLive(expires[o.slot], o.call.now) THEN Idle ELSE n)
        /\ UNCHANGED <<clock, slotVars, occupancy>>
    BY <1>7 DEF GrantRead
  <2> HIDE DEF n
  <2>6. n \in Ops /\ Begun(n) BY <2>1, <2>4 DEF Ops, Begun
  <2> QED BY <1>2, <1>4, <2>5, <2>6
<1>8. CASE GrantStoreDue(w)
  <2> DEFINE n == [o EXCEPT !.pc = IF o.call.held THEN "casExpires" ELSE "storeStamp"]
  <2>1. o \in StoreOps /\ o.call.now <= clock
    BY <1>1, <1>8, OpShapes DEF GrantStoreDue, Begun
  <2>2. o.slot \in Slots /\ o.call \in GrantCalls BY <2>1 DEF StoreOps
  <2>3. n \in StoreOps /\ n.call = o.call BY <2>1 DEF StoreOps
  <2>4. Goto(w, n) /\ clock' = clock /\ due' = [due EXCEPT ![o.slot] = DueWord(o.call)]
        /\ UNCHANGED <<lo, hi, expires, granted, occupancy>>
    BY <1>8 DEF GrantStoreDue
  <2> HIDE DEF n
  <2>5. n \in Ops /\ Begun(n) BY <2>1, <2>3 DEF Ops, Begun
  <2>6. OpsOK' BY <1>1, <2>4, <2>5, GoneTo
  <2>7. WordsOK'
    <3>1. DueWord(o.call) \in DueWords BY <1>5, <2>1, <2>2
    <3> HIDE DEF o
    <3>2. due' \in [Slots -> DueWords] BY <1>3, <2>2, <2>4, <3>1 DEF WordsOK
    <3> QED BY <1>3, <2>4, <3>2 DEF WordsOK
  <2> QED BY <2>6, <2>7 DEF TypeInv
<1>9. CASE GrantStoreStamp(w)
  <2> DEFINE n == [o EXCEPT !.pc = "casExpires"]
  <2>1. o \in StoreOps /\ o.call.now <= clock
    BY <1>1, <1>9, OpShapes DEF GrantStoreStamp, Begun
  <2>2. o.slot \in Slots /\ o.call \in GrantCalls BY <2>1 DEF StoreOps
  <2>3. n \in StoreOps /\ n.call = o.call BY <2>1 DEF StoreOps
  <2>4. Goto(w, n) /\ clock' = clock /\ granted' = [granted EXCEPT ![o.slot] = o.call.now]
        /\ UNCHANGED <<lo, hi, expires, due, occupancy>>
    BY <1>9 DEF GrantStoreStamp
  <2> HIDE DEF n
  <2>5. n \in Ops /\ Begun(n) BY <2>1, <2>3 DEF Ops, Begun
  <2>6. OpsOK' BY <1>1, <2>4, <2>5, GoneTo
  <2>7. WordsOK'
    <3>1. o.call.now \in 0 .. clock BY <1>5, <2>1, <2>2
    <3> HIDE DEF o
    <3>2. granted' \in [Slots -> 0 .. clock'] BY <1>3, <2>2, <2>4, <3>1 DEF WordsOK
    <3> QED BY <1>3, <2>4, <3>2 DEF WordsOK
  <2> QED BY <2>6, <2>7 DEF TypeInv
<1>10. ASSUME NEW call \in GrantCalls, call.now <= clock, NEW s \in Slots, NEW fresh \in BOOLEAN
       PROVE  Granted(call, s, fresh) \in Ops /\ Begun(Granted(call, s, fresh))
  <2> DEFINE n == Granted(call, s, fresh)
  <2>1. n \in GrantedOps /\ n.call = call BY <1>10 DEF Granted, GrantedOps
  <2> HIDE DEF n
  <2>2. n \in Ops /\ Begun(n) BY <1>10, <2>1 DEF Ops, Begun
  <2> QED BY <2>2 DEF n
<1>11. CASE GrantCasExpires(w)
  <2>1. o \in StoreOps /\ o.call.now <= clock
    BY <1>1, <1>11, OpShapes DEF GrantCasExpires, Begun
  <2>2. o.slot \in Slots /\ o.call \in GrantCalls BY <2>1 DEF StoreOps
  <2>3. Granted(o.call, o.slot, FALSE) \in Ops /\ Begun(Granted(o.call, o.slot, FALSE))
    BY <1>10, <2>1, <2>2
  <2>4. /\ Goto(w, Granted(o.call, o.slot, FALSE)) \/ Goto(w, Idle)
        /\ clock' = clock /\ UNCHANGED <<lo, hi, due, granted, occupancy>>
        /\ expires' \in {expires, [expires EXCEPT ![o.slot] = ExpiresAt(o.call)]}
    BY <1>11 DEF GrantCasExpires
  <2>5. OpsOK' BY <1>1, <1>2, <2>3, <2>4, GoneTo
  <2>6. WordsOK'
    <3>1. ExpiresAt(o.call) \in 0 .. (clock + HoldTicks) BY <1>5, <2>1, <2>2
    <3> HIDE DEF o
    <3>2. expires' \in [Slots -> 0 .. (clock' + HoldTicks)] BY <1>3, <2>2, <2>4, <3>1 DEF WordsOK
    <3> QED BY <1>3, <2>4, <3>2 DEF WordsOK
  <2> QED BY <2>5, <2>6 DEF TypeInv
<1>12. CASE GrantFreshLo(w)
  <2> DEFINE n == [pc |-> "freshHi", call |-> o.call, slot |-> o.slot, observed |-> lo[o.slot]]
  <2>1. o \in SlotOps /\ o.call.now <= clock
    BY <1>1, <1>12, OpShapes DEF GrantFreshLo, Begun
  <2>2. o.slot \in Slots /\ o.call \in GrantCalls BY <2>1 DEF SlotOps
  <2>3. lo[o.slot] \in Words BY <1>3, <2>2 DEF WordsOK
  <2>4. n \in FreshOps /\ n.call = o.call BY <2>2, <2>3 DEF FreshOps
  <2>5. Goto(w, n) /\ UNCHANGED <<clock, slotVars, occupancy>>
    BY <1>12 DEF GrantFreshLo
  <2> HIDE DEF n
  <2>6. n \in Ops /\ Begun(n) BY <2>1, <2>4 DEF Ops, Begun
  <2> QED BY <1>4, <2>5, <2>6
<1>13. CASE GrantFreshHi(w)
  <2> DEFINE n == [o EXCEPT !.pc = "freshExpires"]
  <2>1. o \in FreshOps /\ o.call.now <= clock
    BY <1>1, <1>13, OpShapes DEF GrantFreshHi, Begun
  <2>2. o.slot \in Slots /\ o.call \in GrantCalls BY <2>1 DEF FreshOps
  <2>3. n \in FreshOps /\ n.call = o.call BY <2>1 DEF FreshOps
  <2>4. Goto(w, n) /\ clock' = clock /\ hi' = [hi EXCEPT ![o.slot] = o.call.key]
        /\ UNCHANGED <<lo, expires, due, granted, occupancy>>
    BY <1>13 DEF GrantFreshHi
  <2> HIDE DEF n
  <2>5. n \in Ops /\ Begun(n) BY <2>1, <2>3 DEF Ops, Begun
  <2>6. OpsOK' BY <1>1, <2>4, <2>5, GoneTo
  <2>7. WordsOK'
    <3>1. o.call.key \in Words BY <2>2 DEF GrantCalls, Words
    <3> HIDE DEF o
    <3>2. hi' \in [Slots -> Words] BY <1>3, <2>2, <2>4, <3>1 DEF WordsOK
    <3> QED BY <1>3, <2>4, <3>2 DEF WordsOK
  <2> QED BY <2>6, <2>7 DEF TypeInv
<1>14. CASE GrantFreshExpires(w)
  <2> DEFINE n == [o EXCEPT !.pc = "freshPayload"]
  <2>1. o \in FreshOps /\ o.call.now <= clock
    BY <1>1, <1>14, OpShapes DEF GrantFreshExpires, Begun
  <2>2. o.slot \in Slots /\ o.call \in GrantCalls BY <2>1 DEF FreshOps
  <2>3. n \in FreshOps /\ n.call = o.call BY <2>1 DEF FreshOps
  <2>4. Goto(w, n) /\ clock' = clock /\ expires' = [expires EXCEPT ![o.slot] = ExpiresAt(o.call)]
        /\ UNCHANGED <<lo, hi, due, granted, occupancy>>
    BY <1>14 DEF GrantFreshExpires
  <2> HIDE DEF n
  <2>5. n \in Ops /\ Begun(n) BY <2>1, <2>3 DEF Ops, Begun
  <2>6. OpsOK' BY <1>1, <2>4, <2>5, GoneTo
  <2>7. WordsOK'
    <3>1. ExpiresAt(o.call) \in 0 .. (clock + HoldTicks) BY <1>5, <2>1, <2>2
    <3> HIDE DEF o
    <3>2. expires' \in [Slots -> 0 .. (clock' + HoldTicks)] BY <1>3, <2>2, <2>4, <3>1 DEF WordsOK
    <3> QED BY <1>3, <2>4, <3>2 DEF WordsOK
  <2> QED BY <2>6, <2>7 DEF TypeInv
<1>15. CASE GrantFreshPayload(w)
  <2> DEFINE n == [o EXCEPT !.pc = "casLo"]
             stamp == IF o.call.held THEN 0 ELSE o.call.now
  <2>1. o \in FreshOps /\ o.call.now <= clock
    BY <1>1, <1>15, OpShapes DEF GrantFreshPayload, Begun
  <2>2. o.slot \in Slots /\ o.call \in GrantCalls BY <2>1 DEF FreshOps
  <2>3. n \in FreshOps /\ n.call = o.call BY <2>1 DEF FreshOps
  <2>4. Goto(w, n) /\ clock' = clock /\ due' = [due EXCEPT ![o.slot] = DueWord(o.call)]
        /\ granted' = [granted EXCEPT ![o.slot] = stamp]
        /\ UNCHANGED <<lo, hi, expires, occupancy>>
    BY <1>15 DEF GrantFreshPayload
  <2> HIDE DEF n
  <2>5. n \in Ops /\ Begun(n) BY <2>1, <2>3 DEF Ops, Begun
  <2>6. OpsOK' BY <1>1, <2>4, <2>5, GoneTo
  <2>7. WordsOK'
    <3>1. DueWord(o.call) \in DueWords /\ stamp \in 0 .. clock BY <1>1, <1>5, <2>1, <2>2
    <3> HIDE DEF o, stamp
    <3>2. due' \in [Slots -> DueWords] BY <1>3, <2>2, <2>4, <3>1 DEF WordsOK
    <3>3. granted' \in [Slots -> 0 .. clock'] BY <1>3, <2>2, <2>4, <3>1 DEF WordsOK
    <3> QED BY <1>3, <2>4, <3>2, <3>3 DEF WordsOK
  <2> QED BY <2>6, <2>7 DEF TypeInv
<1>16. CASE GrantCasLo(w)
  <2> DEFINE n == [pc |-> "elsewhere", call |-> o.call, slot |-> o.slot]
  <2>1. o \in FreshOps /\ o.call.now <= clock
    BY <1>1, <1>16, OpShapes DEF GrantCasLo, Begun
  <2>2. o.slot \in Slots /\ o.call \in GrantCalls BY <2>1 DEF FreshOps
  <2>3. n \in SlotOps /\ n.call = o.call BY <2>2 DEF SlotOps
  <2>4. /\ Goto(w, n) \/ Goto(w, Idle)
        /\ clock' = clock /\ UNCHANGED <<hi, expires, due, granted, occupancy>>
        /\ lo' \in {lo, [lo EXCEPT ![o.slot] = o.call.key]}
    BY <1>16 DEF GrantCasLo
  <2> HIDE DEF n
  <2>5. n \in Ops /\ Begun(n) BY <2>1, <2>3 DEF Ops, Begun
  <2>6. OpsOK' BY <1>1, <1>2, <2>4, <2>5, GoneTo
  <2>7. WordsOK'
    <3>1. o.call.key \in Words BY <2>2 DEF GrantCalls, Words
    <3> HIDE DEF o
    <3>2. lo' \in [Slots -> Words] BY <1>3, <2>2, <2>4, <3>1 DEF WordsOK
    <3> QED BY <1>3, <2>4, <3>2 DEF WordsOK
  <2> QED BY <2>6, <2>7 DEF TypeInv
<1>17. CASE GrantElsewhere(w)
  <2> DEFINE n == [o EXCEPT !.pc = "giveBack"]
  <2>1. o \in SlotOps /\ o.call.now <= clock
    BY <1>1, <1>17, OpShapes DEF GrantElsewhere, Begun
  <2>2. o.slot \in Slots /\ o.call \in GrantCalls BY <2>1 DEF SlotOps
  <2>3. n \in SlotOps /\ n.call = o.call BY <2>1 DEF SlotOps
  <2>4. Goto(w, IF LiveElsewhere(o) THEN n ELSE Granted(o.call, o.slot, TRUE))
        /\ UNCHANGED <<clock, slotVars, occupancy>>
    BY <1>17 DEF GrantElsewhere
  <2> HIDE DEF n
  <2>5. n \in Ops /\ Begun(n) BY <2>1, <2>3 DEF Ops, Begun
  <2>6. Granted(o.call, o.slot, TRUE) \in Ops /\ Begun(Granted(o.call, o.slot, TRUE))
    BY <1>10, <2>1, <2>2
  <2> QED BY <1>4, <2>4, <2>5, <2>6
<1>18. CASE GrantGiveBack(w)
  <2>1. o \in SlotOps BY <1>1, <1>18, OpShapes DEF GrantGiveBack
  <2>2. o.slot \in Slots /\ o.call \in GrantCalls BY <2>1 DEF SlotOps
  <2>3. /\ Goto(w, Idle) /\ clock' = clock /\ UNCHANGED <<hi, expires, due, granted, occupancy>>
        /\ lo' = [lo EXCEPT ![o.slot] = IF @ = o.call.key THEN NoKey ELSE @]
    BY <1>18 DEF GrantGiveBack
  <2>4. OpsOK' BY <1>1, <1>2, <2>3, GoneTo
  <2>5. WordsOK'
    <3> HIDE DEF o
    <3>1. lo' \in [Slots -> Words] BY <1>3, <2>2, <2>3 DEF WordsOK, Words
    <3> QED BY <1>3, <2>3, <3>1 DEF WordsOK
  <2> QED BY <2>4, <2>5 DEF TypeInv
<1>19. CASE GrantReturn(w)
  <2>1. /\ Goto(w, Idle) /\ UNCHANGED <<clock, slotVars>>
        /\ occupancy' \in {occupancy, occupancy + 1}
    BY <1>19 DEF GrantReturn
  <2>2. OpsOK' BY <1>1, <1>2, <2>1, GoneTo
  <2>3. WordsOK' BY <1>3, <2>1 DEF WordsOK, slotVars
  <2> QED BY <2>2, <2>3 DEF TypeInv
<1> QED
  BY <1>6, <1>7, <1>8, <1>9, <1>11, <1>12, <1>13, <1>14, <1>15, <1>16, <1>17, <1>18, <1>19
  DEF GrantStep

\* A step of a release leaves every word of the table and every operation in range.
LEMMA TypeReleases ==
    ASSUME TypeInv, NEW w \in Workers, ReleaseStep(w)
    PROVE  TypeInv'
<1> DEFINE o == op[w]
<1>1. o \in Ops /\ Begun(o) /\ OpsOK /\ clock \in 1 .. MaxClock
  BY DEF TypeInv, OpsOK, WordsOK
<1>2. Idle \in Ops /\ Begun(Idle)
  BY IdleOK
<1>3. WordsOK /\ HoldTicks \in Nat /\ GraceTicks \in Nat \ {0}
  BY LeaseAssumption DEF TypeInv
<1>4. ASSUME NEW n \in Ops, Begun(n), Goto(w, n), UNCHANGED <<clock, slotVars, occupancy>>
      PROVE  TypeInv'
  BY <1>1, <1>3, <1>4, GoneTo DEF TypeInv, WordsOK, slotVars
<1>5. CASE ReleaseExpires(w)
  <2> DEFINE n == [pc |-> "relCheck", call |-> o.call, slot |-> o.slot, observed |-> expires[o.slot]]
  <2>1. o \in FoundOps /\ o.call.now <= clock
    BY <1>1, <1>5, OpShapes DEF ReleaseExpires, Begun
  <2>2. o.slot \in Slots /\ o.call \in Calls BY <2>1 DEF FoundOps
  <2>3. expires[o.slot] \in Nat BY <1>1, <1>3, <2>2 DEF WordsOK
  <2>4. n \in OwnOps /\ n.call = o.call BY <2>2, <2>3 DEF OwnOps
  <2>5. Goto(w, n) /\ UNCHANGED <<clock, slotVars, occupancy>>
    BY <1>5 DEF ReleaseExpires
  <2> HIDE DEF n
  <2>6. n \in Ops /\ Begun(n) BY <2>1, <2>4 DEF Ops, Begun
  <2> QED BY <1>4, <2>5, <2>6
<1>6. CASE ReleaseCheck(w)
  <2> DEFINE n == [o EXCEPT !.pc = "relDue"]
  <2>1. o \in OwnOps /\ o.call.now <= clock
    BY <1>1, <1>6, OpShapes DEF ReleaseCheck, Begun
  <2>2. n \in OwnOps /\ n.call = o.call BY <2>1 DEF OwnOps
  <2>3. /\ Goto(w, n) \/ Goto(w, Idle)
        /\ UNCHANGED <<clock, slotVars, occupancy>>
    BY <1>6 DEF ReleaseCheck
  <2> HIDE DEF n
  <2>4. n \in Ops /\ Begun(n) BY <2>1, <2>2 DEF Ops, Begun
  <2> QED BY <1>2, <1>4, <2>3, <2>4
<1>7. CASE ReleaseDue(w)
  <2> DEFINE counted == Counted(o.slot, o.call.now)
             n == [pc |-> "relCasDue", call |-> o.call, slot |-> o.slot,
                   observed |-> o.observed, due |-> due[o.slot], counted |-> counted]
  <2>1. o \in OwnOps /\ o.call.now <= clock
    BY <1>1, <1>7, OpShapes DEF ReleaseDue, Begun
  <2>2. o.slot \in Slots /\ o.call \in Calls /\ o.observed \in Nat BY <2>1 DEF OwnOps
  <2>3. due[o.slot] \in DueWords BY <1>3, <2>2 DEF WordsOK
  <2>4. counted \in BOOLEAN BY DEF Counted
  <2>5. /\ Goto(w, n) \/ Goto(w, Idle)
        /\ UNCHANGED <<clock, slotVars, occupancy>>
    BY <1>7 DEF ReleaseDue
  <2> HIDE DEF counted
  <2>6. n \in ClaimOps /\ n.call = o.call BY <2>2, <2>3, <2>4 DEF ClaimOps
  <2> HIDE DEF n
  <2>7. n \in Ops /\ Begun(n) BY <2>1, <2>6 DEF Ops, Begun
  <2> QED BY <1>2, <1>4, <2>5, <2>7
<1>8. CASE ReleaseCasDue(w)
  <2> DEFINE n == [pc |-> "relCasExpires", call |-> o.call, slot |-> o.slot,
                   observed |-> o.observed, counted |-> o.counted]
  <2>1. o \in ClaimOps /\ o.call.now <= clock
    BY <1>1, <1>8, OpShapes DEF ReleaseCasDue, Begun
  <2>2. o.slot \in Slots /\ o.call \in Calls /\ o.observed \in Nat /\ o.counted \in BOOLEAN
    BY <2>1 DEF ClaimOps
  <2>3. n \in ShortenOps /\ n.call = o.call BY <2>2 DEF ShortenOps
  <2>4. /\ Goto(w, n) \/ Goto(w, Idle)
        /\ clock' = clock /\ UNCHANGED <<lo, hi, expires, granted, occupancy>>
        /\ due' \in {due, [due EXCEPT ![o.slot] = Released]}
    BY <1>8 DEF ReleaseCasDue
  <2> HIDE DEF n
  <2>5. n \in Ops /\ Begun(n) BY <2>1, <2>3 DEF Ops, Begun
  <2>6. OpsOK' BY <1>1, <1>2, <2>4, <2>5, GoneTo
  <2>7. WordsOK'
    <3> HIDE DEF o
    <3>1. due' \in [Slots -> DueWords] BY <1>3, <2>2, <2>4 DEF WordsOK, DueWords
    <3> QED BY <1>3, <2>4, <3>1 DEF WordsOK
  <2> QED BY <2>6, <2>7 DEF TypeInv
<1>9. CASE ReleaseCasExpires(w)
  <2> DEFINE n == [pc |-> "relCount", call |-> o.call]
             grace == clock + GraceTicks
  <2>1. o \in ShortenOps /\ o.call.now <= clock
    BY <1>1, <1>9, OpShapes DEF ReleaseCasExpires, Begun
  <2>2. o.slot \in Slots /\ o.call \in Calls /\ o.observed \in Nat BY <2>1 DEF ShortenOps
  <2>3. n \in CountOps /\ n.call = o.call BY <2>2 DEF CountOps
  <2>4. /\ Goto(w, n) \/ Goto(w, Idle)
        /\ clock' = clock /\ UNCHANGED <<lo, hi, due, granted, occupancy>>
        /\ expires' = [expires EXCEPT ![o.slot] =
                         IF grace < o.observed /\ @ = o.observed THEN grace ELSE @]
    BY <1>9 DEF ReleaseCasExpires
  <2> HIDE DEF n
  <2>5. n \in Ops /\ Begun(n) BY <2>1, <2>3 DEF Ops, Begun
  <2>6. OpsOK' BY <1>1, <1>2, <2>4, <2>5, GoneTo
  <2>7. WordsOK'
    <3>1. expires[o.slot] \in 0 .. (clock + HoldTicks) BY <1>3, <2>2 DEF WordsOK
    <3>2. grace < o.observed /\ expires[o.slot] = o.observed => grace \in 0 .. (clock + HoldTicks)
      BY <1>1, <1>3, <2>2, <3>1
    <3> HIDE DEF o, grace
    <3>3. expires' \in [Slots -> 0 .. (clock' + HoldTicks)]
      BY <1>3, <2>2, <2>4, <3>2 DEF WordsOK
    <3> QED BY <1>3, <2>4, <3>3 DEF WordsOK
  <2> QED BY <2>6, <2>7 DEF TypeInv
<1>10. CASE ReleaseCount(w)
  <2>1. /\ Goto(w, Idle) /\ UNCHANGED <<clock, slotVars>>
        /\ occupancy' = occupancy - 1
    BY <1>10 DEF ReleaseCount
  <2>2. OpsOK' BY <1>1, <1>2, <2>1, GoneTo
  <2>3. WordsOK' BY <1>3, <2>1 DEF WordsOK, slotVars
  <2> QED BY <2>2, <2>3 DEF TypeInv
<1> QED
  BY <1>5, <1>6, <1>7, <1>8, <1>9, <1>10 DEF ReleaseStep

\* A walk of the slots, and the clock, leave every word and every operation in range.
LEMMA TypeScansAndTicks ==
    ASSUME TypeInv, Tick \/ \E w \in Workers : ScanSlot(w) \/ ScanStore(w)
    PROVE  TypeInv'
<1>1. OpsOK /\ WordsOK /\ clock \in 1 .. MaxClock
  BY DEF TypeInv, WordsOK
<1>2. HoldTicks \in Nat /\ MaxClock \in Nat \ {0} /\ NumSlots \in 1 .. 8
  BY LeaseAssumption
<1>3. CASE Tick
  <2>1. clock' = clock + 1 /\ clock < MaxClock /\ UNCHANGED <<slotVars, occupancy, op>>
    BY <1>3 DEF Tick
  <2>2. OpsOK'
    <3>1. ASSUME NEW w \in Workers PROVE Begun(op[w])'
      <4>1. op[w] \in Ops /\ Begun(op[w]) BY <1>1 DEF OpsOK
      <4>2. op[w].pc # "idle" => op[w].call.now \in Int
        BY <4>1, SMTT(60) DEF Ops, IdleOps, ProbeOps, SlotOps, StoreOps, FreshOps, GrantedOps, FoundOps,
           OwnOps, ClaimOps, ShortenOps, CountOps, ScanOps, GrantCalls, Calls
      <4> QED BY <1>1, <2>1, <4>1, <4>2 DEF Begun
    <3> QED BY <1>1, <2>1, <3>1 DEF OpsOK
  <2>3. WordsOK' BY <1>1, <1>2, <2>1 DEF WordsOK, slotVars
  <2> QED BY <2>2, <2>3 DEF TypeInv
<1>4. ASSUME NEW w \in Workers, ScanSlot(w) PROVE TypeInv'
  <2> DEFINE o == op[w]
             count == IF Counted(o.slot, o.call.now) THEN o.count + 1 ELSE o.count
             n == [o EXCEPT !.slot = @ + 1, !.count = count]
  <2>1. o \in Ops /\ Begun(o) BY <1>1 DEF OpsOK
  <2>2. o \in ScanOps /\ o.call.now <= clock
    BY <1>4, <2>1, OpShapes DEF ScanSlot, Begun
  <2>3. o.slot \in 0 .. NumSlots /\ o.count \in Nat BY <2>2 DEF ScanOps
  <2>4. o.slot + 1 \in 0 .. NumSlots /\ count \in Nat
    <3>1. o.slot < NumSlots BY <1>4 DEF ScanSlot
    <3>2. count \in Nat
      <4>1. o.count + 1 \in Nat BY <2>3
      <4> QED BY <2>3, <4>1, Zenon
    <3> HIDE DEF o
    <3> QED BY <1>2, <2>3, <3>1, <3>2
  <2>5. Goto(w, n) /\ UNCHANGED <<clock, slotVars, occupancy>>
    BY <1>4 DEF ScanSlot
  <2> HIDE DEF count
  <2>6. n \in ScanOps /\ n.call = o.call BY <2>2, <2>4 DEF ScanOps
  <2> HIDE DEF n
  <2>7. n \in Ops /\ Begun(n) BY <2>2, <2>6 DEF Ops, Begun
  <2>8. OpsOK' BY <1>1, <2>5, <2>7, GoneTo
  <2> QED BY <1>1, <2>5, <2>8 DEF TypeInv, WordsOK, slotVars
<1>5. ASSUME NEW w \in Workers, ScanStore(w) PROVE TypeInv'
  <2>1. op[w] \in ScanOps BY <1>1, <1>5, OpShapes DEF OpsOK, ScanStore
  <2>2. op[w].count \in Int BY <2>1 DEF ScanOps
  <2>3. Goto(w, Idle) /\ UNCHANGED <<clock, slotVars>> /\ occupancy' = op[w].count
    BY <1>5 DEF ScanStore
  <2>4. OpsOK' BY <1>1, <2>3, IdleOK, GoneTo
  <2> QED BY <1>1, <2>2, <2>3, <2>4 DEF TypeInv, WordsOK, slotVars
<1> QED BY <1>3, <1>4, <1>5

\* Every step of the table leaves every word and every operation in range.
LEMMA TypeInductive == TypeInv /\ [Next]_vars => TypeInv'
<1> SUFFICES ASSUME TypeInv, [Next]_vars PROVE TypeInv' OBVIOUS
<1>1. CASE UNCHANGED vars
  BY <1>1 DEF vars, slotVars, TypeInv, WordsOK, OpsOK, Begun
<1>2. CASE Next
  BY <1>2, TypeBegins, TypeGrants, TypeReleases, TypeScansAndTicks DEF Next
<1> QED BY <1>1, <1>2

\* In every reachable state the words of the table are in their ranges (no expiry
\* is further off than a hold, no grant stamp is in the future) and every
\* operation under way carries what its next step uses.
THEOREM LeaseInvariant == Spec => []TypeInv
  BY TypeInit, TypeInductive, PTL DEF Spec

\* TypeOK of the runs, for every table and any number of workers and leases.
THEOREM LeaseTypeCorrect == Spec => []TypeOK
<1>1. TypeInv => TypeOK
  <2> SUFFICES ASSUME TypeInv PROVE TypeOK OBVIOUS
  <2>1. WordsOK /\ OpsOK BY DEF TypeInv
  <2>2. ASSUME NEW w \in Busy PROVE op[w].call.now \in 1 .. clock
    <3>1. w \in Workers /\ op[w].pc # "idle" BY DEF Busy
    <3>2. op[w] \in Ops /\ op[w].call.now <= clock BY <2>1, <3>1 DEF OpsOK, Begun
    <3>3. op[w].call.now \in 1 .. MaxClock
      BY <3>1, <3>2, SMTT(60) DEF Ops, IdleOps, ProbeOps, SlotOps, StoreOps, FreshOps, GrantedOps,
         FoundOps, OwnOps, ClaimOps, ShortenOps, CountOps, ScanOps, GrantCalls, Calls
    <3>4. clock \in 1 .. MaxClock BY <2>1 DEF WordsOK
    <3> QED BY <3>2, <3>3, <3>4
  <2> QED BY <2>1, <2>2 DEF TypeOK, WordsOK, Words, DueWords
<1> QED BY <1>1, LeaseInvariant, PTL

-----------------------------------------------------------------------------
(* What one step of a worker does, by the step it comes to: all that the      *)
(* proofs below use of the actions                                            *)

\* The steps of an operation that is at a slot, that has read the slot's expiry, that
\* takes a fresh slot, that grants the key's own slot, that releases a slot it has checked.
SlotPcs == {"read", "storeDue", "storeStamp", "casExpires", "freshLo", "freshHi", "freshExpires",
            "freshPayload", "casLo", "elsewhere", "giveBack", "granted", "relExpires", "relCheck",
            "relDue", "relCasDue", "relCasExpires"}
SeenPcs == {"storeDue", "storeStamp", "casExpires", "relCheck", "relDue", "relCasDue", "relCasExpires"}
FreshPcs == {"freshLo", "freshHi", "freshExpires", "freshPayload", "casLo", "elsewhere", "giveBack"}
OwnPcs == {"storeDue", "storeStamp", "casExpires"}
RelOwnPcs == {"relDue", "relCasDue", "relCasExpires"}

\* What later steps use of the record of an operation under way.
LEMMA OpFields ==
    ASSUME NEW o \in Ops
    PROVE  /\ o.pc # "idle" => o.call.now \in Nat
           /\ o.pc \in SlotPcs => o.slot \in Slots
           /\ o.pc \in SlotPcs \cup {"probe"} => o.call.key \in Keys
           /\ o.pc \in SeenPcs => o.observed \in Nat
           /\ o.pc = "probe" => o.probe \in Slots
           /\ o.pc \in GrantPcs => o.call \in GrantCalls
           /\ o.pc = "granted" => o.fresh \in BOOLEAN
           /\ o.pc \in {"relExpires", "relCheck", "relDue", "relCasDue", "relCasExpires"} => o.call.stamp \in 1 .. MaxClock
<1>1. o.pc = "idle" \/ o \in ProbeOps \/ o \in SlotOps \/ o \in StoreOps \/ o \in FreshOps \/ o \in GrantedOps
      \/ o \in FoundOps \/ o \in OwnOps \/ o \in ClaimOps \/ o \in ShortenOps \/ o \in CountOps \/ o \in ScanOps
  BY DEF Ops, IdleOps
<1>2. CASE o.pc = "idle"
  BY <1>2 DEF SlotPcs, SeenPcs, GrantPcs
<1>3. CASE o \in ProbeOps
  BY <1>3 DEF SlotPcs, SeenPcs, GrantPcs, ProbeOps, GrantCalls
<1>4. CASE o \in SlotOps
  BY <1>4 DEF SlotPcs, SeenPcs, GrantPcs, SlotOps, GrantCalls
<1>5. CASE o \in StoreOps
  BY <1>5 DEF SlotPcs, SeenPcs, GrantPcs, StoreOps, GrantCalls
<1>6. CASE o \in FreshOps
  BY <1>6 DEF SlotPcs, SeenPcs, GrantPcs, FreshOps, GrantCalls
<1>7. CASE o \in GrantedOps
  BY <1>7 DEF SlotPcs, SeenPcs, GrantPcs, GrantedOps, GrantCalls
<1>8. CASE o \in FoundOps
  BY <1>8 DEF SlotPcs, SeenPcs, GrantPcs, FoundOps, Calls
<1>9. CASE o \in OwnOps
  BY <1>9 DEF SlotPcs, SeenPcs, GrantPcs, OwnOps, Calls
<1>10. CASE o \in ClaimOps
  BY <1>10 DEF SlotPcs, SeenPcs, GrantPcs, ClaimOps, Calls
<1>11. CASE o \in ShortenOps
  BY <1>11 DEF SlotPcs, SeenPcs, GrantPcs, ShortenOps, Calls
<1>12. CASE o \in CountOps
  BY <1>12 DEF SlotPcs, SeenPcs, GrantPcs, CountOps, Calls
<1>13. CASE o \in ScanOps
  BY <1>13 DEF SlotPcs, SeenPcs, GrantPcs, ScanOps
<1> QED BY <1>1, <1>2, <1>3, <1>4, <1>5, <1>6, <1>7, <1>8, <1>9, <1>10, <1>11, <1>12, <1>13

\* A word of the table with v stored at s; the leases once a release has claimed its own;
\* the lease a grant hands out.
At(s, v, word) == [word EXCEPT ![s] = v]
Flagged(o) ==
    {IF l.key = o.call.key /\ l.at = o.call.stamp THEN [l EXCEPT !.released = TRUE] ELSE l : l \in leases}
Lease(w, o) == [key |-> o.call.key, slot |-> o.slot, at |-> o.call.now, by |-> w, handed |-> clock,
                expires |-> o.call.now + LeaseTicks, released |-> FALSE, fresh |-> o.fresh, blocked |-> o.call.blocked]

\* The call of an operation is read when it begins.
CallMoves(o, p) ==
    /\ o.pc = "idle" \/ p.pc = "idle" \/ p.call = o.call
    /\ o.pc = "idle" /\ p.pc # "idle" => p.call.now = clock

\* The steps of a grant, by the step they come to: from o to p.
GrantMoves(o, p) ==
    /\ p.pc = "probe" =>
         \/ /\ o.pc = "idle" /\ p.probe = 0
            /\ \A u, v \in Granting(p.call.key) : u = v
         \/ /\ o.pc = "probe" /\ p.probe = o.probe + 1
            /\ ~Holds(ProbeSlot(o.call.key, o.probe), o.call.key)
    /\ p.pc = "read" => o.pc = "probe" /\ Holds(p.slot, o.call.key)
    /\ p.pc = "storeDue" => /\ o.pc = "read" /\ p.slot = o.slot
                            /\ p.observed = expires[o.slot] /\ ~(expires[o.slot] > o.call.now)
    /\ p.pc = "storeStamp" => o.pc = "storeDue" /\ p.slot = o.slot /\ p.observed = o.observed
    /\ p.pc = "casExpires" =>
         /\ p.slot = o.slot /\ p.observed = o.observed
         /\ \/ o.pc = "storeDue" /\ o.call.held
            \/ o.pc = "storeStamp" /\ granted' = At(o.slot, o.call.now, granted)
    /\ p.pc = "freshLo" => /\ o.pc = "probe" /\ o.probe = NumSlots - 1
                           /\ ~Holds(ProbeSlot(o.call.key, o.probe), o.call.key)
    /\ p.pc = "freshHi" => o.pc = "freshLo" /\ p.slot = o.slot
    /\ p.pc = "freshExpires" => /\ o.pc = "freshHi" /\ p.slot = o.slot
                                /\ hi' = At(o.slot, o.call.key, hi)
    /\ p.pc = "freshPayload" => /\ o.pc = "freshExpires" /\ p.slot = o.slot
                                /\ expires' = At(o.slot, ExpiresAt(o.call), expires)
    /\ p.pc = "casLo" => o.pc = "freshPayload" /\ p.slot = o.slot
    /\ p.pc = "elsewhere" => /\ o.pc = "casLo" /\ p.slot = o.slot
                             /\ lo' = At(o.slot, o.call.key, lo)
    /\ p.pc = "giveBack" => o.pc = "elsewhere" /\ p.slot = o.slot /\ LiveElsewhere(o)
    /\ p.pc = "granted" =>
         /\ p.slot = o.slot
         /\ \/ p.fresh /\ o.pc = "elsewhere" /\ ~LiveElsewhere(o)
            \/ /\ ~p.fresh /\ o.pc = "casExpires" /\ o.observed = expires[o.slot]
               /\ expires' = At(o.slot, ExpiresAt(o.call), expires)

\* The steps of a release.
ReleaseMoves(o, p) ==
    /\ p.pc = "relExpires" =>
         /\ o.pc = "idle"
         /\ \E l \in leases : l.at = p.call.stamp /\ clock >= l.handed + RenderTicks
    /\ p.pc = "relCheck" => o.pc = "relExpires" /\ p.slot = o.slot /\ p.observed = expires[o.slot]
    /\ p.pc = "relDue" => /\ o.pc = "relCheck" /\ p.slot = o.slot /\ p.observed = o.observed
                          /\ Holds(o.slot, o.call.key) /\ granted[o.slot] = o.call.stamp
    /\ p.pc = "relCasDue" => o.pc = "relDue" /\ p.slot = o.slot /\ p.observed = o.observed
    /\ p.pc = "relCasExpires" => o.pc = "relCasDue" /\ p.slot = o.slot /\ p.observed = o.observed
                                 /\ leases' = Flagged(o)

\* What a step does to the words of the table and to the leases.
WordMoves(w, o, p) ==
    /\ lo' = lo \/ p.pc = "elsewhere" \/ o.pc = "giveBack"
    /\ o.pc = "giveBack" =>
         p.pc = "idle" /\ lo' = At(o.slot, IF lo[o.slot] = o.call.key THEN NoKey ELSE lo[o.slot], lo)
    /\ hi' = hi \/ p.pc = "freshExpires"
    /\ \/ expires' = expires \/ p.pc = "freshPayload" \/ (p.pc = "granted" /\ ~p.fresh)
       \/ /\ o.pc = "relCasExpires" /\ expires[o.slot] = o.observed
          /\ expires' = At(o.slot, clock + GraceTicks, expires)
    /\ \/ granted' = granted \/ (p.pc = "casExpires" /\ o.pc = "storeStamp")
       \/ p.pc = "casLo" /\ granted' \in {At(o.slot, 0, granted), At(o.slot, o.call.now, granted)}
    /\ leases' = leases \/ p.pc = "relCasExpires" \/ o.pc = "granted"
    /\ o.pc = "granted" =>
         p.pc = "idle" /\ leases' = IF o.call.held THEN leases ELSE leases \cup {Lease(w, o)}
    /\ o.pc = "elsewhere" => p.pc = "giveBack" \/ (p.pc = "granted" /\ p.fresh)

\* A step of worker w.
Moved(w) ==
    /\ clock' = clock
    /\ \A v \in Workers : v # w => op'[v] = op[v]
    /\ CallMoves(op[w], op'[w]) /\ GrantMoves(op[w], op'[w]) /\ ReleaseMoves(op[w], op'[w])
    /\ WordMoves(w, op[w], op'[w])

\* What Goto leaves.
LEMMA Gone ==
    ASSUME TypeInv, NEW w \in Workers, NEW o, Goto(w, o)
    PROVE  op'[w] = o /\ \A v \in Workers : v # w => op'[v] = op[v]
  BY DEF Goto, TypeInv, OpsOK

\* What a worker that begins an operation does.
LEMMA MovesBegin ==
    ASSUME TypeInv, NEW w \in Workers,
           \/ \E k \in Keys, minute \in Minutes, held \in BOOLEAN : GrantBegin(w, k, minute, held)
           \/ \E k \in Keys, stamp \in 1 .. MaxClock : ReleaseBegin(w, k, stamp)
           \/ ScanBegin(w)
    PROVE  Moved(w)
<1> DEFINE o == op[w]
<1>1. \A v \in Workers : v # w => op'[v] = op[v]
  BY Gone DEF GrantBegin, ReleaseBegin, ScanBegin
<1>2. o.pc = "idle" /\ UNCHANGED <<clock, slotVars, leases>>
  BY DEF GrantBegin, ReleaseBegin, ScanBegin
<1>3. CASE \E k \in Keys, minute \in Minutes, held \in BOOLEAN : GrantBegin(w, k, minute, held)
  <2>1. PICK k \in Keys, minute \in Minutes, held \in BOOLEAN : GrantBegin(w, k, minute, held)
    BY <1>3
  <2>2. /\ op'[w].pc = "probe" /\ op'[w].probe = 0 /\ op'[w].call.now = clock /\ op'[w].call.key = k
        /\ \A u, v \in Granting(k) : u = v
    BY <2>1, Gone DEF GrantBegin
  <2> QED BY <1>1, <1>2, <2>2 DEF Moved, CallMoves, GrantMoves, ReleaseMoves, WordMoves, At, slotVars, Idle
<1>4. CASE \E k \in Keys, stamp \in 1 .. MaxClock : ReleaseBegin(w, k, stamp)
  <2>1. PICK k \in Keys, stamp \in 1 .. MaxClock : ReleaseBegin(w, k, stamp)
    BY <1>4
  <2>2. /\ op'[w].pc = "relExpires" /\ op'[w].call.now = clock /\ op'[w].call.stamp = stamp
        /\ \E l \in leases : l.at = stamp /\ clock >= l.handed + RenderTicks
    BY <2>1, Gone DEF ReleaseBegin
  <2> QED BY <1>1, <1>2, <2>2 DEF Moved, CallMoves, GrantMoves, ReleaseMoves, WordMoves, At, slotVars, Idle
<1>5. CASE ScanBegin(w)
  <2>1. op'[w].pc = "scan" /\ op'[w].call.now = clock
    BY <1>5, Gone DEF ScanBegin
  <2> QED BY <1>1, <1>2, <2>1 DEF Moved, CallMoves, GrantMoves, ReleaseMoves, WordMoves, At, slotVars, Idle
<1> QED BY <1>3, <1>4, <1>5

\* What a probe of one slot does.
LEMMA MovesProbe ==
    ASSUME TypeInv, NEW w \in Workers, GrantProbe(w)
    PROVE  Moved(w)
<1> DEFINE o == op[w]
           s == ProbeSlot(o.call.key, o.probe)
<1>1. \A v \in Workers : v # w => op'[v] = op[v]
  BY Gone DEF GrantProbe
<1>2. o.pc = "probe" /\ UNCHANGED <<clock, slotVars, leases>>
  BY DEF GrantProbe
<1>3. \/ op'[w] = Idle
      \/ op'[w] = [pc |-> "read", call |-> o.call, slot |-> s] /\ Holds(s, o.call.key)
      \/ /\ ~Holds(s, o.call.key)
         /\ \E free : op'[w] = [o EXCEPT !.probe = @ + 1, !.free = free]
      \/ /\ ~Holds(s, o.call.key) /\ o.probe = NumSlots - 1
         /\ \E free : op'[w] = [pc |-> "freshLo", call |-> o.call, slot |-> free]
  <2> DEFINE free == IF o.free = NoSlot /\ (lo[s] = NoKey \/ ~IsLive(expires[s], o.call.now))
                     THEN s ELSE o.free
             next == [o EXCEPT !.probe = @ + 1, !.free = free]
             fresh == [pc |-> "freshLo", call |-> o.call, slot |-> free]
             read == [pc |-> "read", call |-> o.call, slot |-> s]
  <2>1. Goto(w, IF Holds(s, o.call.key) THEN read
                ELSE IF o.probe < NumSlots - 1 THEN next
                ELSE IF free # NoSlot THEN fresh ELSE Idle)
    BY DEF GrantProbe
  <2>2. o \in Ops BY DEF TypeInv, OpsOK
  <2>3. o.probe < NumSlots - 1 \/ o.probe = NumSlots - 1
    BY <1>2, <2>2, OpFields, LeaseAssumption DEF Slots
  <2>4. \/ op'[w] = Idle
        \/ op'[w] = read /\ Holds(s, o.call.key)
        \/ op'[w] = next /\ ~Holds(s, o.call.key)
        \/ op'[w] = fresh /\ ~Holds(s, o.call.key) /\ o.probe = NumSlots - 1
    <3> HIDE DEF next, fresh, read, free, s, o
    <3> QED BY <2>1, <2>3, Gone
  <2> HIDE DEF free
  <2> QED BY <2>4
<1>4. CASE op'[w] = Idle
  BY <1>1, <1>2, <1>4 DEF Moved, CallMoves, GrantMoves, ReleaseMoves, WordMoves, At, slotVars, Idle
<1>5. CASE op'[w] = [pc |-> "read", call |-> o.call, slot |-> s] /\ Holds(s, o.call.key)
  BY <1>1, <1>2, <1>5 DEF Moved, CallMoves, GrantMoves, ReleaseMoves, WordMoves, At, slotVars, Idle
<1>6. CASE /\ ~Holds(s, o.call.key)
           /\ \E free : op'[w] = [o EXCEPT !.probe = @ + 1, !.free = free]
  <2>1. o \in ProbeOps BY <1>2, OpShapes DEF TypeInv, OpsOK
  <2>2. op'[w].pc = "probe" /\ op'[w].probe = o.probe + 1 /\ op'[w].call = o.call
    BY <1>6, <2>1 DEF ProbeOps
  <2> QED BY <1>1, <1>2, <1>6, <2>2
      DEF Moved, CallMoves, GrantMoves, ReleaseMoves, WordMoves, At, slotVars, Idle
<1>7. CASE /\ ~Holds(s, o.call.key) /\ o.probe = NumSlots - 1
           /\ \E free : op'[w] = [pc |-> "freshLo", call |-> o.call, slot |-> free]
  <2>1. op'[w].pc = "freshLo" /\ op'[w].call = o.call BY <1>7
  <2> QED BY <1>1, <1>2, <1>7, <2>1
      DEF Moved, CallMoves, GrantMoves, ReleaseMoves, WordMoves, At, slotVars, Idle
<1> QED BY <1>3, <1>4, <1>5, <1>6, <1>7

\* What GrantRead does.
LEMMA MovesGrantRead ==
    ASSUME TypeInv, NEW w \in Workers, GrantRead(w)
    PROVE  Moved(w)
<1> DEFINE o == op[w]
<1>1. \A v \in Workers : v # w => op'[v] = op[v]
  BY Gone DEF GrantRead
<1>2. /\ o.pc = "read"
      /\ UNCHANGED <<clock, slotVars, leases>>
  BY DEF GrantRead
<1>3. \/ op'[w] = Idle
      \/ /\ op'[w] = [pc |-> "storeDue", call |-> o.call, slot |-> o.slot, observed |-> expires[o.slot]]
         /\ ~(expires[o.slot] > o.call.now)
  BY Gone DEF GrantRead, IsLive
<1> QED BY <1>1, <1>2, <1>3 DEF Moved, CallMoves, GrantMoves, ReleaseMoves, WordMoves, At, slotVars, Idle

\* What GrantStoreDue does.
LEMMA MovesGrantStoreDue ==
    ASSUME TypeInv, NEW w \in Workers, GrantStoreDue(w)
    PROVE  Moved(w)
<1> DEFINE o == op[w]
<1>1. \A v \in Workers : v # w => op'[v] = op[v]
  BY Gone DEF GrantStoreDue
<1>2. /\ o.pc = "storeDue" /\ UNCHANGED <<clock, lo, hi, expires, granted, leases>>
  BY DEF GrantStoreDue, slotVars
<1>3. o \in StoreOps BY <1>2, OpShapes DEF TypeInv, OpsOK
<1>4. op'[w].call = o.call /\ op'[w].slot = o.slot /\ op'[w].observed = o.observed
      /\ IF o.call.held THEN op'[w].pc = "casExpires" ELSE op'[w].pc = "storeStamp"
  BY <1>2, <1>3, Gone DEF GrantStoreDue, StoreOps, IsLive, ExpiresAt
<1> QED BY <1>1, <1>2, <1>3, <1>4
    DEF Moved, CallMoves, GrantMoves, ReleaseMoves, WordMoves, At, slotVars, Idle, ExpiresAt

\* What GrantStoreStamp does.
LEMMA MovesGrantStoreStamp ==
    ASSUME TypeInv, NEW w \in Workers, GrantStoreStamp(w)
    PROVE  Moved(w)
<1> DEFINE o == op[w]
<1>1. \A v \in Workers : v # w => op'[v] = op[v]
  BY Gone DEF GrantStoreStamp
<1>2. /\ o.pc = "storeStamp" /\ UNCHANGED <<clock, lo, hi, expires, leases>>
      /\ granted' = At(o.slot, o.call.now, granted)
  BY DEF GrantStoreStamp, slotVars, At
<1>3. o \in StoreOps BY <1>2, OpShapes DEF TypeInv, OpsOK
<1>4. op'[w].call = o.call /\ op'[w].slot = o.slot /\ op'[w].observed = o.observed
      /\ op'[w].pc = "casExpires"
  BY <1>2, <1>3, Gone DEF GrantStoreStamp, StoreOps, IsLive, ExpiresAt
<1> QED BY <1>1, <1>2, <1>3, <1>4
    DEF Moved, CallMoves, GrantMoves, ReleaseMoves, WordMoves, At, slotVars, Idle, ExpiresAt

\* What GrantCasExpires does.
LEMMA MovesGrantCasExpires ==
    ASSUME TypeInv, NEW w \in Workers, GrantCasExpires(w)
    PROVE  Moved(w)
<1> DEFINE o == op[w]
<1>1. \A v \in Workers : v # w => op'[v] = op[v]
  BY Gone DEF GrantCasExpires
<1>2. /\ o.pc = "casExpires" /\ UNCHANGED <<clock, lo, hi, granted, leases>>
  BY DEF GrantCasExpires, slotVars
<1>3. o \in StoreOps BY <1>2, OpShapes DEF TypeInv, OpsOK
<1>4. \/ op'[w] = Idle /\ expires' = expires
      \/ /\ op'[w] = [pc |-> "granted", call |-> o.call, slot |-> o.slot, fresh |-> FALSE]
         /\ expires[o.slot] = o.observed
         /\ expires' = At(o.slot, ExpiresAt(o.call), expires)
  BY <1>2, <1>3, Gone DEF Granted, At, GrantCasExpires, StoreOps, IsLive, ExpiresAt
<1> QED BY <1>1, <1>2, <1>3, <1>4
    DEF Moved, CallMoves, GrantMoves, ReleaseMoves, WordMoves, At, slotVars, Idle, ExpiresAt

\* What GrantFreshLo does.
LEMMA MovesGrantFreshLo ==
    ASSUME TypeInv, NEW w \in Workers, GrantFreshLo(w)
    PROVE  Moved(w)
<1> DEFINE o == op[w]
<1>1. \A v \in Workers : v # w => op'[v] = op[v]
  BY Gone DEF GrantFreshLo
<1>2. /\ o.pc = "freshLo"
      /\ UNCHANGED <<clock, slotVars, leases>>
  BY DEF GrantFreshLo
<1>3. op'[w] = [pc |-> "freshHi", call |-> o.call, slot |-> o.slot, observed |-> lo[o.slot]]
  BY Gone DEF GrantFreshLo
<1> QED BY <1>1, <1>2, <1>3 DEF Moved, CallMoves, GrantMoves, ReleaseMoves, WordMoves, At, slotVars, Idle

\* What GrantFreshHi does.
LEMMA MovesGrantFreshHi ==
    ASSUME TypeInv, NEW w \in Workers, GrantFreshHi(w)
    PROVE  Moved(w)
<1> DEFINE o == op[w]
<1>1. \A v \in Workers : v # w => op'[v] = op[v]
  BY Gone DEF GrantFreshHi
<1>2. /\ o.pc = "freshHi" /\ UNCHANGED <<clock, lo, expires, granted, leases>>
      /\ hi' = At(o.slot, o.call.key, hi)
  BY DEF GrantFreshHi, slotVars, At
<1>3. o \in FreshOps BY <1>2, OpShapes DEF TypeInv, OpsOK
<1>4. op'[w].call = o.call /\ op'[w].slot = o.slot /\ op'[w].pc = "freshExpires"
  BY <1>2, <1>3, Gone DEF GrantFreshHi, FreshOps, IsLive, ExpiresAt
<1> QED BY <1>1, <1>2, <1>3, <1>4
    DEF Moved, CallMoves, GrantMoves, ReleaseMoves, WordMoves, At, slotVars, Idle, ExpiresAt

\* What GrantFreshExpires does.
LEMMA MovesGrantFreshExpires ==
    ASSUME TypeInv, NEW w \in Workers, GrantFreshExpires(w)
    PROVE  Moved(w)
<1> DEFINE o == op[w]
<1>1. \A v \in Workers : v # w => op'[v] = op[v]
  BY Gone DEF GrantFreshExpires
<1>2. /\ o.pc = "freshExpires" /\ UNCHANGED <<clock, lo, hi, granted, leases>>
      /\ expires' = At(o.slot, ExpiresAt(o.call), expires)
  BY DEF GrantFreshExpires, slotVars, At, ExpiresAt
<1>3. o \in FreshOps BY <1>2, OpShapes DEF TypeInv, OpsOK
<1>4. op'[w].call = o.call /\ op'[w].slot = o.slot /\ op'[w].pc = "freshPayload"
  BY <1>2, <1>3, Gone DEF GrantFreshExpires, FreshOps, IsLive, ExpiresAt
<1> QED BY <1>1, <1>2, <1>3, <1>4
    DEF Moved, CallMoves, GrantMoves, ReleaseMoves, WordMoves, At, slotVars, Idle, ExpiresAt

\* What GrantFreshPayload does.
LEMMA MovesGrantFreshPayload ==
    ASSUME TypeInv, NEW w \in Workers, GrantFreshPayload(w)
    PROVE  Moved(w)
<1> DEFINE o == op[w]
<1>1. \A v \in Workers : v # w => op'[v] = op[v]
  BY Gone DEF GrantFreshPayload
<1>2. /\ o.pc = "freshPayload" /\ UNCHANGED <<clock, lo, hi, expires, leases>>
      /\ granted' \in {At(o.slot, 0, granted), At(o.slot, o.call.now, granted)}
  BY DEF GrantFreshPayload, slotVars, At
<1>3. o \in FreshOps BY <1>2, OpShapes DEF TypeInv, OpsOK
<1>4. op'[w].call = o.call /\ op'[w].slot = o.slot /\ op'[w].pc = "casLo"
  BY <1>2, <1>3, Gone DEF GrantFreshPayload, FreshOps, IsLive, ExpiresAt
<1> QED BY <1>1, <1>2, <1>3, <1>4
    DEF Moved, CallMoves, GrantMoves, ReleaseMoves, WordMoves, At, slotVars, Idle, ExpiresAt

\* What GrantCasLo does.
LEMMA MovesGrantCasLo ==
    ASSUME TypeInv, NEW w \in Workers, GrantCasLo(w)
    PROVE  Moved(w)
<1> DEFINE o == op[w]
<1>1. \A v \in Workers : v # w => op'[v] = op[v]
  BY Gone DEF GrantCasLo
<1>2. /\ o.pc = "casLo" /\ UNCHANGED <<clock, hi, expires, granted, leases>>
  BY DEF GrantCasLo, slotVars
<1>3. o \in FreshOps BY <1>2, OpShapes DEF TypeInv, OpsOK
<1>4. \/ op'[w] = Idle /\ lo' = lo
      \/ /\ op'[w] = [pc |-> "elsewhere", call |-> o.call, slot |-> o.slot]
         /\ lo' = At(o.slot, o.call.key, lo)
  BY <1>2, <1>3, Gone DEF At, GrantCasLo, FreshOps, IsLive, ExpiresAt
<1> QED BY <1>1, <1>2, <1>3, <1>4
    DEF Moved, CallMoves, GrantMoves, ReleaseMoves, WordMoves, At, slotVars, Idle, ExpiresAt

\* What GrantElsewhere does.
LEMMA MovesGrantElsewhere ==
    ASSUME TypeInv, NEW w \in Workers, GrantElsewhere(w)
    PROVE  Moved(w)
<1> DEFINE o == op[w]
<1>1. \A v \in Workers : v # w => op'[v] = op[v]
  BY Gone DEF GrantElsewhere
<1>2. /\ o.pc = "elsewhere" /\ UNCHANGED <<clock, slotVars, leases>>
  BY DEF GrantElsewhere, slotVars
<1>3. o \in SlotOps BY <1>2, OpShapes DEF TypeInv, OpsOK
<1>4. \/ /\ op'[w].pc = "giveBack" /\ op'[w].call = o.call /\ op'[w].slot = o.slot /\ LiveElsewhere(o)
      \/ op'[w] = [pc |-> "granted", call |-> o.call, slot |-> o.slot, fresh |-> TRUE] /\ ~LiveElsewhere(o)
  BY <1>2, <1>3, Gone DEF Granted, GrantElsewhere, SlotOps, ExpiresAt
<1> QED BY <1>1, <1>2, <1>3, <1>4
    DEF Moved, CallMoves, GrantMoves, ReleaseMoves, WordMoves, At, slotVars, Idle, ExpiresAt

\* What GrantGiveBack does.
LEMMA MovesGrantGiveBack ==
    ASSUME TypeInv, NEW w \in Workers, GrantGiveBack(w)
    PROVE  Moved(w)
<1> DEFINE o == op[w]
<1>1. \A v \in Workers : v # w => op'[v] = op[v]
  BY Gone DEF GrantGiveBack
<1>2. /\ o.pc = "giveBack" /\ UNCHANGED <<clock, hi, expires, granted, leases>>
      /\ lo' = At(o.slot, IF lo[o.slot] = o.call.key THEN NoKey ELSE lo[o.slot], lo)
  BY DEF GrantGiveBack, slotVars, At, TypeInv, WordsOK
<1>3. o \in SlotOps BY <1>2, OpShapes DEF TypeInv, OpsOK
<1>4. op'[w] = Idle
  BY <1>2, <1>3, Gone DEF GrantGiveBack, SlotOps, IsLive, ExpiresAt
<1> QED BY <1>1, <1>2, <1>3, <1>4
    DEF Moved, CallMoves, GrantMoves, ReleaseMoves, WordMoves, At, slotVars, Idle, ExpiresAt

\* What GrantReturn does.
LEMMA MovesGrantReturn ==
    ASSUME TypeInv, NEW w \in Workers, GrantReturn(w)
    PROVE  Moved(w)
<1> DEFINE o == op[w]
<1>1. \A v \in Workers : v # w => op'[v] = op[v]
  BY Gone DEF GrantReturn
<1>2. /\ o.pc = "granted" /\ UNCHANGED <<clock, slotVars>>
      /\ leases' = IF o.call.held THEN leases ELSE leases \cup {Lease(w, o)}
  BY DEF GrantReturn, Lease, ExpiresAt
<1>3. op'[w] = Idle
  BY Gone DEF GrantReturn
<1> QED BY <1>1, <1>2, <1>3 DEF Moved, CallMoves, GrantMoves, ReleaseMoves, WordMoves, At, slotVars, Idle

\* What ReleaseExpires does.
LEMMA MovesReleaseExpires ==
    ASSUME TypeInv, NEW w \in Workers, ReleaseExpires(w)
    PROVE  Moved(w)
<1> DEFINE o == op[w]
<1>1. \A v \in Workers : v # w => op'[v] = op[v]
  BY Gone DEF ReleaseExpires
<1>2. /\ o.pc = "relExpires"
      /\ UNCHANGED <<clock, slotVars, leases>>
  BY DEF ReleaseExpires
<1>3. op'[w] = [pc |-> "relCheck", call |-> o.call, slot |-> o.slot, observed |-> expires[o.slot]]
  BY Gone DEF ReleaseExpires
<1> QED BY <1>1, <1>2, <1>3 DEF Moved, CallMoves, GrantMoves, ReleaseMoves, WordMoves, At, slotVars, Idle

\* What ReleaseCheck does.
LEMMA MovesReleaseCheck ==
    ASSUME TypeInv, NEW w \in Workers, ReleaseCheck(w)
    PROVE  Moved(w)
<1> DEFINE o == op[w]
<1>1. \A v \in Workers : v # w => op'[v] = op[v]
  BY Gone DEF ReleaseCheck
<1>2. /\ o.pc = "relCheck" /\ UNCHANGED <<clock, slotVars, leases>>
  BY DEF ReleaseCheck, slotVars
<1>3. o \in OwnOps BY <1>2, OpShapes DEF TypeInv, OpsOK
<1>4. \/ op'[w] = Idle
      \/ /\ op'[w].pc = "relDue" /\ op'[w].call = o.call /\ op'[w].slot = o.slot /\ op'[w].observed = o.observed
         /\ Holds(o.slot, o.call.key) /\ granted[o.slot] = o.call.stamp
  BY <1>2, <1>3, Gone DEF ReleaseCheck, OwnOps, IsLive, ExpiresAt
<1> QED BY <1>1, <1>2, <1>3, <1>4
    DEF Moved, CallMoves, GrantMoves, ReleaseMoves, WordMoves, At, slotVars, Idle, ExpiresAt

\* What ReleaseDue does.
LEMMA MovesReleaseDue ==
    ASSUME TypeInv, NEW w \in Workers, ReleaseDue(w)
    PROVE  Moved(w)
<1> DEFINE o == op[w]
<1>1. \A v \in Workers : v # w => op'[v] = op[v]
  BY Gone DEF ReleaseDue
<1>2. /\ o.pc = "relDue"
      /\ UNCHANGED <<clock, slotVars, leases>>
  BY DEF ReleaseDue
<1>3. \/ op'[w] = Idle
      \/ /\ op'[w].pc = "relCasDue" /\ op'[w].call = o.call /\ op'[w].slot = o.slot
         /\ op'[w].observed = o.observed
  BY Gone DEF ReleaseDue
<1> QED BY <1>1, <1>2, <1>3 DEF Moved, CallMoves, GrantMoves, ReleaseMoves, WordMoves, At, slotVars, Idle

\* What ReleaseCasDue does.
LEMMA MovesReleaseCasDue ==
    ASSUME TypeInv, NEW w \in Workers, ReleaseCasDue(w)
    PROVE  Moved(w)
<1> DEFINE o == op[w]
<1>1. \A v \in Workers : v # w => op'[v] = op[v]
  BY Gone DEF ReleaseCasDue
<1>2. o.pc = "relCasDue" /\ UNCHANGED <<clock, lo, hi, expires, granted>>
  BY DEF ReleaseCasDue
<1>3. \/ op'[w] = Idle /\ leases' = leases
      \/ /\ op'[w].pc = "relCasExpires" /\ op'[w].call = o.call /\ op'[w].slot = o.slot
         /\ op'[w].observed = o.observed /\ leases' = Flagged(o)
  BY Gone DEF ReleaseCasDue, Flagged
<1> QED BY <1>1, <1>2, <1>3 DEF Moved, CallMoves, GrantMoves, ReleaseMoves, WordMoves, At, slotVars, Idle

\* What ReleaseCasExpires does.
LEMMA MovesReleaseCasExpires ==
    ASSUME TypeInv, NEW w \in Workers, ReleaseCasExpires(w)
    PROVE  Moved(w)
<1> DEFINE o == op[w]
           grace == clock + GraceTicks
<1>1. \A v \in Workers : v # w => op'[v] = op[v]
  BY Gone DEF ReleaseCasExpires
<1>2. o.pc = "relCasExpires" /\ UNCHANGED <<clock, lo, hi, granted, leases>>
  BY DEF ReleaseCasExpires
<1>3. op'[w].pc \in {"idle", "relCount"} /\ (op'[w].pc = "relCount" => op'[w].call = o.call)
  BY Gone DEF ReleaseCasExpires, Idle
<1>4. expires' = expires \/ (expires[o.slot] = o.observed /\ expires' = At(o.slot, clock + GraceTicks, expires))
  <2>1. expires' = [expires EXCEPT ![o.slot] = IF grace < o.observed /\ @ = o.observed THEN grace ELSE @]
    BY DEF ReleaseCasExpires
  <2>2. expires \in [Slots -> Nat]
    BY LeaseAssumption DEF TypeInv, WordsOK
  <2> QED BY <2>1, <2>2 DEF At
<1> QED BY <1>1, <1>2, <1>3, <1>4
    DEF Moved, CallMoves, GrantMoves, ReleaseMoves, WordMoves, At, slotVars, Idle

\* What the steps that only count do.
LEMMA MovesCount ==
    ASSUME TypeInv, NEW w \in Workers, ReleaseCount(w) \/ ScanSlot(w) \/ ScanStore(w)
    PROVE  Moved(w)
<1> DEFINE o == op[w]
<1>1. \A v \in Workers : v # w => op'[v] = op[v]
  BY Gone DEF ReleaseCount, ScanSlot, ScanStore
<1>2. UNCHANGED <<clock, slotVars, leases>>
  BY DEF ReleaseCount, ScanSlot, ScanStore
<1>3. CASE ReleaseCount(w) \/ ScanStore(w)
  <2>1. op'[w] = Idle /\ o.pc \in {"relCount", "scan"}
    BY <1>3, Gone DEF ReleaseCount, ScanStore
  <2> QED BY <1>1, <1>2, <2>1 DEF Moved, CallMoves, GrantMoves, ReleaseMoves, WordMoves, At, slotVars, Idle
<1>4. CASE ScanSlot(w)
  <2>1. o.pc = "scan" BY <1>4 DEF ScanSlot
  <2>2. o \in ScanOps BY <2>1, OpShapes DEF TypeInv, OpsOK
  <2> DEFINE n == [o EXCEPT !.slot = @ + 1, !.count = IF Counted(o.slot, o.call.now) THEN @ + 1 ELSE @]
  <2>4. n.pc = "scan" /\ n.call = o.call BY <2>2 DEF ScanOps
  <2>5. Goto(w, n) BY <1>4 DEF ScanSlot
  <2> HIDE DEF n
  <2>3. op'[w].pc = "scan" /\ op'[w].call = o.call
    BY <2>4, <2>5, Gone
  <2> QED BY <1>1, <1>2, <2>1, <2>3
      DEF Moved, CallMoves, GrantMoves, ReleaseMoves, WordMoves, At, slotVars, Idle
<1> QED BY <1>3, <1>4

\* A step of the system is a step of one worker, or of the clock.
LEMMA Moves ==
    ASSUME TypeInv, Next
    PROVE  Tick \/ \E w \in Workers : Moved(w)
  BY MovesBegin, MovesProbe, MovesGrantRead, MovesGrantStoreDue, MovesGrantStoreStamp, MovesGrantCasExpires,
     MovesGrantFreshLo, MovesGrantFreshHi, MovesGrantFreshExpires, MovesGrantFreshPayload, MovesGrantCasLo,
     MovesGrantElsewhere, MovesGrantGiveBack, MovesGrantReturn, MovesReleaseExpires, MovesReleaseCheck,
     MovesReleaseDue, MovesReleaseCasDue, MovesReleaseCasExpires, MovesCount
  DEF Next, GrantStep, ReleaseStep

\* How ticks compare: three stalls in a row are shorter than a lease, and no hold is.
LEMMA Ticks ==
    /\ HoldTicks \in Nat /\ LeaseTicks <= HoldTicks
    /\ MaxStall \in Nat /\ LeaseTicks \in Nat \ {0} /\ GraceTicks \in Nat \ {0} /\ RenderTicks \in Nat \ {0}
    /\ MaxStall < RenderTicks /\ MaxStall < GraceTicks
    /\ MaxStall + MaxStall + MaxStall < LeaseTicks
<1>1. MaxStall \in Nat /\ LeaseTicks \in Nat \ {0} /\ GraceTicks \in Nat \ {0} /\ RenderTicks \in Nat \ {0}
  BY LeaseAssumption
<1> QED BY <1>1, LeaseAssumption

\* A grant or a hold stores an expiry at least a lease away.
LEMMA Lengths ==
    ASSUME NEW call, call.now \in Nat
    PROVE  ExpiresAt(call) \in Nat /\ ExpiresAt(call) >= call.now + LeaseTicks
BY Ticks DEF ExpiresAt

-----------------------------------------------------------------------------
(* Slots that hold a key, the grants that cannot see one, and who claims it *)

\* One key.
OneKey == \A j, k \in Keys : j = k

\* The slots that hold it.
Keyed == {s \in Slots : lo[s] \in Keys}

\* A grant that takes a fresh slot, or has probed past s: it will not lease s as the key's own slot.
Fresh(o) == o.pc \in FreshPcs \/ (o.pc = "granted" /\ o.fresh)
Passed(o, s) == o.pc = "probe" /\ \E n \in Slots : n < o.probe /\ ProbeSlot(o.call.key, n) = s
Blind(o, s) == Fresh(o) \/ Passed(o, s)
Seen(s) == \A w \in Workers : ~Blind(op[w], s)

\* The grants that have put the key into slot s, and do not know yet whether it stays.
Claims(s) == {w \in Workers : op[w].pc \in {"elsewhere", "giveBack"} /\ op[w].slot = s}
Returned(o, s) == o.pc = "granted" /\ o.fresh /\ o.slot = s

\* Every other slot that holds the key is about to be given back.
Sole(s) == \A t \in Keyed : t # s => Claims(t) # {}

\* The key's slot for good.
Home(s) ==
    /\ s \in Keyed
    /\ Sole(s)
    /\ \A w \in Workers : ~(op[w].pc = "giveBack" /\ op[w].slot = s)
    /\ \A u, v \in Workers : Blind(op[u], s) /\ Blind(op[v], s) => u = v

\* No operation is older than a stall, and no third grant is under way.
Age == \A w \in Workers :
    op[w].pc # "idle" => op[w].call.now <= clock /\ clock <= op[w].call.now + MaxStall
Pair == \A u, v, w \in Workers :
    op[u].pc \in GrantPcs /\ op[v].pc \in GrantPcs /\ op[w].pc \in GrantPcs => u = v \/ v = w \/ u = w

\* The high word is stored before the low word, and stays.
HighWords ==
    /\ \A s \in Keyed : hi[s] \in Keys
    /\ \A w \in Workers : op[w].pc \in {"freshExpires", "freshPayload", "casLo"} => hi[op[w].slot] \in Keys

\* A slot that holds the key is live to every grant that cannot see it, and a
\* fresh slot is live from the store of its expiry on.
BlindLive == \A w \in Workers, s \in Keyed : Blind(op[w], s) => expires[s] > op[w].call.now + MaxStall
FreshLive == \A w \in Workers :
    op[w].pc \in {"freshPayload", "casLo", "elsewhere", "giveBack"} \/ (op[w].pc = "granted" /\ op[w].fresh)
      => expires[op[w].slot] + MaxStall >= op[w].call.now + LeaseTicks

\* What the check of the other slots relies on, and what it leaves.
ClaimElsewhere == \A w \in Workers :
    op[w].pc = "elsewhere" => op[w].slot \in Keyed \/ \E t \in Keyed : t # op[w].slot
ClaimBack == \A w \in Workers :
    op[w].pc = "giveBack" =>
      \/ \E t \in Keyed : t # op[w].slot
      \/ op[w].slot \in Keyed /\ \A v \in Workers : v # w => ~Blind(op[v], op[w].slot)
ClaimGranted == \A w \in Workers :
    op[w].pc = "granted" /\ op[w].fresh => op[w].slot \in Keyed /\ Sole(op[w].slot)

\* A slot nobody claims any more is the key's for good; so is the slot of every lease,
\* and of a grant into the key's own slot once it has read it expired.
Settled == \A s \in Keyed : Claims(s) = {} /\ (\A w \in Workers : ~Returned(op[w], s)) => Home(s)
LeaseHome == \A l \in leases : Home(l.slot)
ReadOK == \A w \in Workers : op[w].pc = "read" => Home(op[w].slot) \/ expires[op[w].slot] > op[w].call.now
OwnSlot == \A w \in Workers :
    op[w].pc \in OwnPcs \/ (op[w].pc = "granted" /\ ~op[w].fresh) => Home(op[w].slot) /\ Seen(op[w].slot)
OwnRead == \A w \in Workers : op[w].pc \in OwnPcs => op[w].observed <= op[w].call.now

\* A grant that cannot see the slot of a lease began before that lease was handed out.
Handed == \A l \in leases, w \in Workers : Blind(op[w], l.slot) => op[w].call.now <= l.handed /\ w # l.by
OwnLeases == \A m \in leases : ~m.fresh => Seen(m.slot)

\* A release is about a lease handed out a render ago, and once it has checked
\* the slot it is at the slot of that lease.
Named(o) == {l \in leases : l.at = o.call.stamp /\ l.handed + RenderTicks <= o.call.now}
ReleaseNamed == \A w \in Workers :
    /\ op[w].pc \in {"relExpires", "relCheck"} => Named(op[w]) # {}
    /\ op[w].pc \in RelOwnPcs => \E l \in Named(op[w]) : l.slot = op[w].slot

LeaseRecords == [key : Keys, slot : Slots, at : Nat, by : Workers, handed : Nat, expires : Nat,
                 released : BOOLEAN, fresh : BOOLEAN, blocked : BOOLEAN]
LeasesOK ==
    /\ leases \subseteq LeaseRecords
    /\ \A l \in leases : l.at <= l.handed /\ l.handed <= clock /\ l.expires = l.at + LeaseTicks

SlotInv ==
    /\ TypeInv /\ LeasesOK /\ Age /\ Pair /\ HighWords /\ BlindLive /\ FreshLive
    /\ ClaimElsewhere /\ ClaimBack /\ ClaimGranted /\ Settled /\ LeaseHome /\ ReadOK /\ OwnSlot /\ OwnRead
    /\ Handed /\ OwnLeases /\ ReleaseNamed

\* A slot that holds the one key holds every key word there is.
LEMMA KeyedHolds ==
    ASSUME OneKey, HighWords, NEW s \in Keyed, NEW k \in Keys
    PROVE  Holds(s, k) /\ lo[s] = k /\ s \in Slots
  BY DEF OneKey, HighWords, Keyed, Holds

\* The probe of a key looks at every slot.
LEMMA WindowCovers ==
    ASSUME NEW k \in Keys, NEW s \in Slots
    PROVE  \E n \in Slots : ProbeSlot(k, n) = s
<1>1. StartOf[k] \in Slots BY LeaseAssumption
<1>2. ASSUME NEW m \in 1 .. 8, NEW a \in 0 .. (m - 1), NEW b \in 0 .. (m - 1)
      PROVE  \E n \in 0 .. (m - 1) : (a + n) % m = b
  <2>1. CASE a <= b
    <3>1. b - a \in 0 .. (m - 1) /\ (a + (b - a)) = b BY <2>1
    <3>2. b % m = b
      <4>1. m = 1 \/ m = 2 \/ m = 3 \/ m = 4 \/ m = 5 \/ m = 6 \/ m = 7 \/ m = 8 OBVIOUS
      <4> QED BY <4>1
    <3> QED BY <3>1, <3>2
  <2>2. CASE a > b
    <3>1. (b + m) - a \in 0 .. (m - 1) /\ (a + ((b + m) - a)) = b + m BY <2>2
    <3>2. (b + m) % m = b
      <4>1. m = 1 \/ m = 2 \/ m = 3 \/ m = 4 \/ m = 5 \/ m = 6 \/ m = 7 \/ m = 8 OBVIOUS
      <4> QED BY <4>1
    <3> QED BY <3>1, <3>2
  <2> QED BY <2>1, <2>2
<1> QED BY <1>1, <1>2, LeaseAssumption DEF ProbeSlot, Slots

\* A worker that has a grant's record carries a grant; which steps are blind.
LEMMA BlindPcs ==
    ASSUME NEW o, NEW s, Blind(o, s)
    PROVE  o.pc \in GrantPcs /\ o.pc # "idle"
  BY DEF Blind, Fresh, Passed, FreshPcs, GrantPcs

\* No grant becomes blind to a slot that holds the key.
LEMMA BlindKept ==
    ASSUME OneKey, SlotInv, NEW w \in Workers, Moved(w), NEW v \in Workers, NEW s \in Keyed,
           Blind(op'[v], s)
    PROVE  Blind(op[v], s) /\ op'[v].call = op[v].call
<1>1. CASE v # w
  BY <1>1 DEF Moved
<1>2. CASE v = w
  <2> DEFINE o == op[w]
             p == op'[w]
  <2>1. GrantMoves(o, p) /\ CallMoves(o, p) /\ o \in Ops /\ HighWords
    BY DEF Moved, SlotInv, TypeInv, OpsOK
  <2>2. ASSUME NEW n \in Slots, ~Holds(ProbeSlot(o.call.key, n), o.call.key), o.pc = "probe"
        PROVE  ProbeSlot(o.call.key, n) # s
    <3>1. o.call.key \in Keys BY <2>1, <2>2, OpFields
    <3> QED BY <2>1, <2>2, <3>1, KeyedHolds
  <2>3. CASE p.pc = "probe"
    <3>1. PICK n \in Slots : n < p.probe /\ ProbeSlot(p.call.key, n) = s
      BY <1>2, <2>3 DEF Blind, Fresh, Passed, FreshPcs
    <3>2. p.probe # 0 BY <3>1 DEF Slots
    <3>3. /\ o.pc = "probe" /\ p.probe = o.probe + 1 /\ p.call = o.call
          /\ ~Holds(ProbeSlot(o.call.key, o.probe), o.call.key)
      BY <2>1, <2>3, <3>2 DEF GrantMoves, CallMoves
    <3>4. o.probe \in Slots BY <2>1, <3>3, OpFields
    <3>5. n # o.probe BY <2>2, <3>1, <3>3, <3>4
    <3>6. n < o.probe BY <3>1, <3>3, <3>4, <3>5, LeaseAssumption DEF Slots
    <3> QED BY <1>2, <3>1, <3>3, <3>6 DEF Blind, Passed
  <2>4. CASE p.pc = "freshLo"
    <3>1. /\ o.pc = "probe" /\ o.probe = NumSlots - 1 /\ p.call = o.call
          /\ ~Holds(ProbeSlot(o.call.key, o.probe), o.call.key)
      BY <2>1, <2>4 DEF GrantMoves, CallMoves
    <3>2. o.call.key \in Keys /\ o.probe \in Slots /\ s \in Slots
      BY <2>1, <3>1, OpFields DEF Keyed
    <3>3. PICK n \in Slots : ProbeSlot(o.call.key, n) = s BY <3>2, WindowCovers
    <3>4. n # o.probe BY <2>2, <3>1, <3>2, <3>3
    <3>5. n < o.probe BY <3>1, <3>2, <3>4, LeaseAssumption DEF Slots
    <3> QED BY <1>2, <3>1, <3>3, <3>5 DEF Blind, Passed
  <2>5. CASE p.pc \in FreshPcs \ {"freshLo"} \/ (p.pc = "granted" /\ p.fresh)
    BY <1>2, <2>1, <2>5 DEF GrantMoves, CallMoves, Blind, Fresh, FreshPcs
  <2> QED BY <1>2, <2>3, <2>4, <2>5 DEF Blind, Fresh, Passed, FreshPcs
<1> QED BY <1>1, <1>2

\* A slot stops holding the key only when a grant gives it back, and starts
\* holding it only when a grant claims it.
LEMMA KeyedKept ==
    ASSUME SlotInv, NEW w \in Workers, Moved(w), NEW s \in Slots
    PROVE  /\ s \in Keyed => s \in Keyed' \/ (op[w].pc = "giveBack" /\ op[w].slot = s)
           /\ s \in Keyed' => s \in Keyed \/ (op[w].pc = "casLo" /\ op[w].slot = s /\ op'[w].pc = "elsewhere"
                                              /\ op'[w].slot = s)
<1>1. lo \in [Slots -> Words] /\ op[w] \in Ops /\ WordMoves(w, op[w], op'[w]) /\ GrantMoves(op[w], op'[w])
  BY DEF SlotInv, TypeInv, WordsOK, OpsOK, Moved
<1>2. NoKey \notin Keys BY LeaseAssumption
<1>3. CASE lo' = lo BY <1>3 DEF Keyed
<1>4. CASE op[w].pc = "giveBack"
  BY <1>1, <1>2, <1>4 DEF WordMoves, Keyed, At
<1>5. CASE op'[w].pc = "elsewhere"
  <2>1. op[w].pc = "casLo" /\ op'[w].slot = op[w].slot /\ lo' = At(op[w].slot, op[w].call.key, lo)
    BY <1>1, <1>5 DEF GrantMoves
  <2>2. op[w].call.key \in Keys BY <1>1, <2>1, OpFields DEF SlotPcs
  <2> QED BY <1>1, <1>5, <2>1, <2>2 DEF Keyed, At
<1> QED BY <1>1, <1>3, <1>4, <1>5 DEF WordMoves

\* A claim on a slot is a grant that is blind to every slot.
LEMMA ClaimsBlind ==
    ASSUME NEW s, NEW u \in Claims(s), NEW t
    PROVE  /\ u \in Workers /\ op[u].slot = s /\ Blind(op[u], t) /\ op[u].pc \in GrantPcs
           /\ op[u].pc \in {"elsewhere", "giveBack"}
  BY DEF Claims, Blind, Fresh, FreshPcs, GrantPcs

\* The key has one home.
LEMMA HomeUnique ==
    ASSUME NEW s, NEW t, Home(s), Home(t)
    PROVE  s = t
<1> SUFFICES ASSUME s # t PROVE FALSE
  OBVIOUS
<1>1. Claims(s) # {} /\ Claims(t) # {}
  BY DEF Home, Sole
<1>2. PICK u \in Claims(s), v \in Claims(t) : TRUE
  BY <1>1
<1>3. u = v
  BY ClaimsBlind DEF Home
<1> QED BY <1>2, <1>3, ClaimsBlind

\* No grant is blind to the slot a release has checked: such a grant would have
\* begun before the lease was handed out, a render ago.
LEMMA ReleaseSees ==
    ASSUME SlotInv, NEW r \in Workers, op[r].pc \in RelOwnPcs
    PROVE  Home(op[r].slot) /\ Seen(op[r].slot)
<1>1. PICK l \in Named(op[r]) : l.slot = op[r].slot
  BY DEF SlotInv, ReleaseNamed
<1>2. l \in leases /\ l.handed + RenderTicks <= op[r].call.now /\ l.handed \in Nat
  BY DEF Named, SlotInv, LeasesOK, LeaseRecords
<1>3. Home(op[r].slot)
  BY <1>1, <1>2 DEF SlotInv, LeaseHome
<1>4. ASSUME NEW v \in Workers, Blind(op[v], op[r].slot) PROVE FALSE
  <2>1. op[v].pc # "idle" /\ op[r].pc # "idle"
    BY <1>4, BlindPcs DEF RelOwnPcs
  <2>2. op[v].call.now <= l.handed
    BY <1>1, <1>2, <1>4 DEF SlotInv, Handed
  <2>3. clock <= op[v].call.now + MaxStall /\ op[r].call.now <= clock
    BY <2>1 DEF SlotInv, Age
  <2>4. op[v].call.now \in Nat /\ op[r].call.now \in Nat /\ clock \in Nat
    BY <2>1, OpFields DEF SlotInv, TypeInv, OpsOK, WordsOK
  <2> QED BY <1>2, <2>2, <2>3, <2>4, Ticks
<1> QED BY <1>3, <1>4 DEF Seen

\* What a step stores into an expiry: a lease from about now, or, where a release
\* finds the expiry it has read, the grace.
LEMMA Stores ==
    ASSUME SlotInv, NEW w \in Workers, Moved(w), NEW s \in Slots
    PROVE  /\ expires[s] \in Nat /\ expires'[s] \in Nat
           /\ \/ expires'[s] = expires[s]
              \/ /\ op'[w].pc = "freshPayload" \/ (op'[w].pc = "granted" /\ ~op'[w].fresh)
                 /\ op'[w].slot = s /\ expires'[s] >= op[w].call.now + LeaseTicks
                 /\ expires'[s] + MaxStall >= clock + LeaseTicks
              \/ /\ op[w].pc = "relCasExpires" /\ op[w].slot = s /\ op[w].observed = expires[s]
                 /\ expires'[s] = clock + GraceTicks
<1> DEFINE o == op[w]
           p == op'[w]
<1>1. /\ o \in Ops /\ GrantMoves(o, p) /\ WordMoves(w, o, p) /\ expires \in [Slots -> Nat] /\ clock \in Nat
  BY Ticks DEF SlotInv, TypeInv, WordsOK, OpsOK, Moved
<1>2. expires[s] \in Nat BY <1>1
<1>3. CASE expires' = expires BY <1>2, <1>3
<1>4. CASE p.pc = "freshPayload" \/ (p.pc = "granted" /\ ~p.fresh)
  <2>1. /\ o.pc \in {"freshExpires", "casExpires"} /\ p.slot = o.slot
        /\ expires' = At(o.slot, ExpiresAt(o.call), expires)
    BY <1>1, <1>4 DEF GrantMoves
  <2>2. o.slot \in Slots /\ o.call.now \in Nat BY <1>1, <2>1, OpFields DEF SlotPcs
  <2>3. clock <= o.call.now + MaxStall BY <2>1 DEF SlotInv, Age
  <2>4. /\ ExpiresAt(o.call) \in Nat /\ ExpiresAt(o.call) >= o.call.now + LeaseTicks
        /\ ExpiresAt(o.call) + MaxStall >= clock + LeaseTicks
    BY <1>1, <2>2, <2>3, Ticks, Lengths
  <2> QED BY <1>1, <1>4, <2>1, <2>2, <2>4 DEF At
<1>5. CASE /\ o.pc = "relCasExpires" /\ expires[o.slot] = o.observed
           /\ expires' = At(o.slot, clock + GraceTicks, expires)
  <2>1. o.slot \in Slots BY <1>1, <1>5, OpFields DEF SlotPcs
  <2>2. clock + GraceTicks \in Nat BY <1>1, Ticks
  <2> QED BY <1>1, <1>5, <2>1, <2>2 DEF At
<1> QED BY <1>1, <1>3, <1>4, <1>5 DEF WordMoves

\* What is said of an expiry by an operation that is under way: it stays further
\* off than the operation's stall, at a slot no release is about.
LEMMA StoresLate ==
    ASSUME SlotInv, NEW w \in Workers, Moved(w), NEW s \in Slots, NEW v \in Workers,
           Blind(op[v], s), expires'[s] # expires[s]
    PROVE  expires'[s] + MaxStall >= clock + LeaseTicks
<1>1. ~(op[w].pc = "relCasExpires" /\ op[w].slot = s)
  BY ReleaseSees DEF Seen, RelOwnPcs
<1> QED BY <1>1, Stores

\* The ages of operations after a step.
LEMMA AgeKept ==
    ASSUME SlotInv, NEW w \in Workers, Moved(w)
    PROVE  /\ \A v \in Workers : op'[v].pc # "idle" =>
                 op'[v].call.now \in Nat /\ op'[v].call.now <= clock /\ clock <= op'[v].call.now + MaxStall
           /\ Age' /\ clock \in Nat /\ clock' = clock
<1>1. clock' = clock /\ clock \in Nat /\ CallMoves(op[w], op'[w])
  BY DEF SlotInv, TypeInv, WordsOK, Moved
<1>2. ASSUME NEW v \in Workers, op'[v].pc # "idle"
      PROVE  op'[v].call.now \in Nat /\ op'[v].call.now <= clock /\ clock <= op'[v].call.now + MaxStall
  <2>1. ASSUME op[v].pc # "idle"
        PROVE  op[v].call.now \in Nat /\ op[v].call.now <= clock /\ clock <= op[v].call.now + MaxStall
    BY <2>1, OpFields DEF SlotInv, TypeInv, OpsOK, Age
  <2>2. op'[v] = op[v] \/ op'[v].call = op[v].call \/ (op[v].pc = "idle" /\ op'[v].call.now = clock)
    BY <1>1, <1>2 DEF Moved, CallMoves
  <2>3. CASE op[v].pc = "idle"
    <3>1. op'[v].call.now = clock BY <1>1, <1>2, <2>3 DEF Moved, CallMoves
    <3> QED BY <1>1, <3>1, Ticks
  <2>4. CASE op[v].pc # "idle"
    <3>1. op'[v].call = op[v].call BY <2>2, <2>4
    <3> QED BY <2>1, <2>4, <3>1
  <2> QED BY <2>3, <2>4
<1> QED BY <1>1, <1>2 DEF Age

\* No third grant comes under way.
LEMMA PairKept ==
    ASSUME OneKey, SlotInv, TypeInv', NEW w \in Workers, Moved(w)
    PROVE  Pair'
<1>1. GrantMoves(op[w], op'[w]) /\ op[w] \in Ops /\ TypeInv /\ Pair
  BY DEF Moved, SlotInv, TypeInv, OpsOK
<1>2. op'[w].pc \in GrantPcs =>
        op[w].pc \in GrantPcs \/ (op'[w].pc = "probe" /\ \A u, v \in Granting(op'[w].call.key) : u = v)
  BY <1>1 DEF GrantMoves, GrantPcs
<1>3. CASE op'[w].pc \in GrantPcs => op[w].pc \in GrantPcs
  <2>1. \A v \in Workers : op'[v].pc \in GrantPcs => op[v].pc \in GrantPcs
    BY <1>3 DEF Moved
  <2> QED BY <1>1, <2>1 DEF Pair
<1>4. CASE op'[w].pc = "probe" /\ \A u, v \in Granting(op'[w].call.key) : u = v
  <2> SUFFICES ASSUME NEW x \in Workers, NEW y \in Workers, NEW z \in Workers,
                      op'[x].pc \in GrantPcs, op'[y].pc \in GrantPcs, op'[z].pc \in GrantPcs,
                      x # y, y # z, x # z
               PROVE  FALSE
    BY DEF Pair
  <2>0. \A v \in Workers : op[v] \in Ops BY DEF SlotInv, TypeInv, OpsOK
  <2>1. ASSUME NEW v \in Workers, op'[v].pc \in GrantPcs, v # w PROVE v \in Granting(op'[w].call.key)
    <3>1. op[v].pc \in GrantPcs /\ op[v] \in Ops BY <2>0, <2>1 DEF Moved
    <3>2. op[v].call.key \in Keys BY <3>1, OpFields DEF GrantCalls
    <3>3. op'[w] \in Ops BY DEF TypeInv, OpsOK
    <3> QED BY <3>1, <3>2, <3>3, <1>4, OpFields DEF OneKey, Granting
  <2>2. (x # w /\ y # w) \/ (x # w /\ z # w) \/ (y # w /\ z # w) OBVIOUS
  <2> QED BY <1>4, <2>1, <2>2
<1> QED BY <1>2, <1>3, <1>4

\* The high words after a step.
LEMMA HighWordsKept ==
    ASSUME SlotInv, NEW w \in Workers, Moved(w)
    PROVE  HighWords'
<1>1. /\ hi \in [Slots -> Words] /\ HighWords /\ \A v \in Workers : op[v] \in Ops
      /\ GrantMoves(op[w], op'[w]) /\ WordMoves(w, op[w], op'[w])
  BY DEF SlotInv, TypeInv, WordsOK, OpsOK, Moved
<1>2. ASSUME NEW s \in Slots, hi[s] \in Keys PROVE hi'[s] \in Keys
  <2>1. CASE hi' = hi BY <1>2, <2>1
  <2>2. CASE op'[w].pc = "freshExpires"
    <3>1. op[w].pc = "freshHi" /\ hi' = At(op[w].slot, op[w].call.key, hi)
      BY <1>1, <2>2 DEF GrantMoves
    <3>2. op[w].call.key \in Keys BY <1>1, <3>1, OpFields DEF SlotPcs
    <3> QED BY <1>1, <1>2, <3>1, <3>2 DEF At
  <2> QED BY <1>1, <2>1, <2>2 DEF WordMoves
<1>3. ASSUME NEW s \in Keyed' PROVE hi'[s] \in Keys
  <2>1. s \in Slots BY DEF Keyed
  <2>2. CASE s \in Keyed BY <1>1, <1>2, <2>1, <2>2 DEF HighWords
  <2>3. CASE op[w].pc = "casLo" /\ op[w].slot = s
    BY <1>1, <1>2, <2>1, <2>3 DEF HighWords
  <2> QED BY <2>1, <2>2, <2>3, KeyedKept
<1>4. ASSUME NEW v \in Workers, op'[v].pc \in {"freshExpires", "freshPayload", "casLo"}
      PROVE  hi'[op'[v].slot] \in Keys
  <2>1. CASE op'[v] = op[v]
    <3>1. op[v].slot \in Slots BY <1>1, <1>4, <2>1, OpFields DEF SlotPcs
    <3> QED BY <1>1, <1>2, <1>4, <2>1, <3>1 DEF HighWords
  <2>2. CASE v = w /\ op'[w].pc = "freshExpires"
    <3>1. op[w].pc = "freshHi" /\ hi' = At(op[w].slot, op[w].call.key, hi) /\ op'[w].slot = op[w].slot
      BY <1>1, <2>2 DEF GrantMoves
    <3>2. op[w].call.key \in Keys /\ op[w].slot \in Slots BY <1>1, <3>1, OpFields DEF SlotPcs
    <3> QED BY <1>1, <2>2, <3>1, <3>2 DEF At
  <2>3. CASE v = w /\ op'[w].pc # "freshExpires"
    <3>1. op[w].pc \in {"freshExpires", "freshPayload"} /\ op'[w].slot = op[w].slot
      BY <1>1, <1>4, <2>3 DEF GrantMoves
    <3>2. op[w].slot \in Slots BY <1>1, <3>1, OpFields DEF SlotPcs
    <3> QED BY <1>1, <1>2, <2>3, <3>1, <3>2 DEF HighWords
  <2> QED BY <2>1, <2>2, <2>3 DEF Moved
<1> QED BY <1>3, <1>4 DEF HighWords

\* The check of the other slots finds every slot that holds the key.
LEMMA ElsewhereFinds ==
    ASSUME OneKey, SlotInv, NEW w \in Workers, op[w].pc = "elsewhere", NEW s \in Keyed, s # op[w].slot
    PROVE  LiveElsewhere(op[w])
<1>1. op[w] \in Ops /\ HighWords /\ expires \in [Slots -> Nat] /\ s \in Slots
  BY Ticks DEF SlotInv, TypeInv, OpsOK, WordsOK, Keyed
<1>2. op[w].call.key \in Keys /\ op[w].call.now \in Nat
  BY <1>1, OpFields DEF SlotPcs
<1>3. Holds(s, op[w].call.key)
  BY <1>1, <1>2, KeyedHolds
<1>4. expires[s] > op[w].call.now + MaxStall
  BY DEF SlotInv, BlindLive, Blind, Fresh, FreshPcs
<1>5. expires[s] > op[w].call.now
  BY <1>1, <1>2, <1>4, Ticks
<1> QED BY <1>1, <1>3, <1>5 DEF LiveElsewhere, IsLive

\* Who has claimed a slot holds on to it, is granted it, or has given it back.
LEMMA ClaimsKept ==
    ASSUME OneKey, SlotInv, NEW w \in Workers, Moved(w), NEW s \in Slots, NEW v \in Claims(s)
    PROVE  \/ v \in Claims(s)'
           \/ v = w /\ op[w].pc = "elsewhere" /\ Returned(op'[w], s) /\ ~LiveElsewhere(op[w])
           \/ v = w /\ op[w].pc = "giveBack" /\ s \notin Keyed'
<1>1. /\ v \in Workers /\ op[v].slot = s /\ op[v].pc \in {"elsewhere", "giveBack"} /\ op[w] \in Ops
      /\ lo \in [Slots -> Words]
      /\ GrantMoves(op[w], op'[w]) /\ WordMoves(w, op[w], op'[w])
  BY DEF SlotInv, TypeInv, WordsOK, OpsOK, Moved, Claims
<1>2. CASE v # w
  <2>1. op'[v] = op[v] BY <1>1, <1>2 DEF Moved
  <2> QED BY <1>1, <2>1 DEF Claims
<1>3. CASE v = w /\ op[w].pc = "elsewhere"
  BY <1>1, <1>3 DEF GrantMoves, WordMoves, Claims, Returned
<1>4. CASE v = w /\ op[w].pc = "giveBack"
  <2>1. lo' = At(s, IF lo[s] = op[w].call.key THEN NoKey ELSE lo[s], lo)
    BY <1>1, <1>4 DEF WordMoves
  <2>2. op[w].call.key \in Keys /\ NoKey \notin Keys
    BY <1>1, <1>4, OpFields, LeaseAssumption DEF SlotPcs
  <2>3. lo'[s] = IF lo[s] = op[w].call.key THEN NoKey ELSE lo[s]
    BY <1>1, <2>1 DEF At
  <2>4. lo'[s] \notin Keys BY <2>2, <2>3 DEF OneKey
  <2> QED BY <1>4, <2>4 DEF Keyed
<1> QED BY <1>1, <1>2, <1>3, <1>4

\* A slot beside which every other one is about to be given back stays so, while it holds the key.
LEMMA SoleKept ==
    ASSUME OneKey, SlotInv, NEW w \in Workers, Moved(w), NEW s \in Keyed, Sole(s)
    PROVE  Sole(s)'
<1> SUFFICES ASSUME NEW t \in Keyed', t # s PROVE Claims(t)' # {}
  BY DEF Sole
<1>1. t \in Slots BY DEF Keyed
<1>2. CASE t \in Keyed
  <2>1. PICK v \in Claims(t) : TRUE BY <1>2 DEF Sole
  <2>2. v \in Workers /\ op[v].slot = t BY ClaimsBlind
  <2>3. ~(v = w /\ op[w].pc = "elsewhere" /\ ~LiveElsewhere(op[w]))
    BY <2>2, ElsewhereFinds
  <2> QED BY <1>1, <2>1, <2>3, ClaimsKept
<1>3. CASE op'[w].pc = "elsewhere" /\ op'[w].slot = t
  BY <1>3 DEF Claims
<1> QED BY <1>1, <1>2, <1>3, KeyedKept

\* The key's slot for good is so for good.
LEMMA HomeKept ==
    ASSUME OneKey, SlotInv, NEW w \in Workers, Moved(w), NEW s, Home(s)
    PROVE  Home(s)'
<1>1. s \in Keyed /\ s \in Slots /\ Sole(s)
  BY DEF Home, Keyed
<1>2. s \in Keyed'
  BY <1>1, KeyedKept DEF Home
<1>3. Sole(s)'
  BY <1>1, SoleKept
<1>4. ASSUME NEW v \in Workers, op'[v].pc = "giveBack", op'[v].slot = s PROVE FALSE
  <2>1. v = w BY <1>4 DEF Moved, Home
  <2>2. op[w].pc = "elsewhere" /\ op[w].slot = s /\ LiveElsewhere(op[w])
    BY <1>4, <2>1 DEF Moved, GrantMoves
  <2>3. op[w].call.key \in Keys
    BY <2>2, OpFields DEF SlotInv, TypeInv, OpsOK, SlotPcs
  <2>4. PICK t \in Slots \ {s} : Holds(t, op[w].call.key)
    BY <2>2 DEF LiveElsewhere
  <2>5. t \in Keyed BY <2>3, <2>4 DEF Holds, Keyed
  <2>6. PICK u \in Claims(t) : TRUE BY <1>1, <2>4, <2>5 DEF Sole
  <2>7. u \in Workers /\ Blind(op[u], s) /\ op[u].slot = t BY <2>6, ClaimsBlind
  <2>8. Blind(op[w], s) BY <2>2 DEF Blind, Fresh, FreshPcs
  <2>9. u = w BY <2>7, <2>8 DEF Home
  <2> QED BY <2>2, <2>4, <2>7, <2>9
<1>5. ASSUME NEW u \in Workers, NEW v \in Workers, Blind(op'[u], s), Blind(op'[v], s) PROVE u = v
  <2>1. Blind(op[u], s) /\ Blind(op[v], s) BY <1>1, <1>5, BlindKept
  <2> QED BY <2>1 DEF Home
<1> QED BY <1>2, <1>3, <1>4, <1>5 DEF Home

\* Where no grant is blind to a slot that holds the key, none becomes so.
LEMMA SeenKept ==
    ASSUME OneKey, SlotInv, NEW w \in Workers, Moved(w), NEW s \in Keyed, Seen(s)
    PROVE  Seen(s)'
<1> SUFFICES ASSUME NEW v \in Workers, Blind(op'[v], s) PROVE FALSE
  BY DEF Seen
<1> QED BY BlindKept DEF Seen

\* Three claims are too many.
LEMMA NoThird ==
    ASSUME SlotInv, NEW u \in Workers, NEW v \in Workers, NEW w \in Workers,
           op[u].pc \in GrantPcs, op[v].pc \in GrantPcs, op[w].pc \in GrantPcs,
           u # v, v # w, u # w
    PROVE  FALSE
  BY DEF SlotInv, Pair

\* A slot granted fresh is not given back.
LEMMA GrantedStays ==
    ASSUME SlotInv, NEW w \in Workers, op[w].pc = "granted", op[w].fresh, NEW v \in Workers
    PROVE  ~(op[v].pc = "giveBack" /\ op[v].slot = op[w].slot)
<1> SUFFICES ASSUME op[v].pc = "giveBack", op[v].slot = op[w].slot PROVE FALSE
  OBVIOUS
<1>1. op[w].pc \in GrantPcs /\ op[v].pc \in GrantPcs /\ v # w
  BY DEF GrantPcs
<1>2. CASE \E t \in Keyed : t # op[v].slot
  <2>1. PICK t \in Keyed : t # op[v].slot BY <1>2
  <2>2. Claims(t) # {} BY <2>1 DEF SlotInv, ClaimGranted, Sole
  <2>3. PICK u \in Claims(t) : TRUE BY <2>2
  <2>4. u \in Workers /\ op[u].slot = t /\ op[u].pc \in GrantPcs /\ op[u].pc # "granted"
    BY <2>3, ClaimsBlind
  <2> QED BY <1>1, <2>1, <2>4, NoThird
<1>3. CASE \A u \in Workers : u # v => ~Blind(op[u], op[v].slot)
  BY <1>1, <1>3 DEF Blind, Fresh
<1> QED BY <1>2, <1>3 DEF SlotInv, ClaimBack

\* The slot of a grant that returns true is the key's for good.
LEMMA ReturnHome ==
    ASSUME OneKey, SlotInv, NEW w \in Workers, Moved(w), op[w].pc = "granted", NEW s, s = op[w].slot
    PROVE  Home(s)'
<1>1. CASE ~op[w].fresh
  <2>1. Home(s) BY <1>1 DEF SlotInv, OwnSlot
  <2> QED BY <2>1, HomeKept
<1>2. CASE op[w].fresh
  <2>1. s \in Keyed /\ Sole(s) /\ s \in Slots BY <1>2 DEF SlotInv, ClaimGranted, Keyed
  <2>2. s \in Keyed' BY <2>1, KeyedKept
  <2>3. Sole(s)' BY <2>1, SoleKept
  <2>4. op'[w].pc = "idle" BY DEF Moved, WordMoves
  <2>5. ASSUME NEW v \in Workers, op'[v].pc = "giveBack", op'[v].slot = s PROVE FALSE
    <3>1. op[v].pc = "giveBack" /\ op[v].slot = s BY <2>4, <2>5 DEF Moved
    <3> QED BY <1>2, <3>1, GrantedStays
  <2>6. ASSUME NEW u \in Workers, NEW v \in Workers, Blind(op'[u], s), Blind(op'[v], s) PROVE u = v
    <3>1. u # w /\ v # w BY <2>4, <2>6, BlindPcs
    <3>2. op[u].pc \in GrantPcs /\ op[v].pc \in GrantPcs /\ op[w].pc \in GrantPcs
      BY <2>6, <3>1, BlindPcs DEF Moved, GrantPcs
    <3> QED BY <3>1, <3>2, NoThird
  <2> QED BY <2>2, <2>3, <2>5, <2>6 DEF Home
<1> QED BY <1>1, <1>2

-----------------------------------------------------------------------------
(* Every step keeps what is known of the slots *)

\* One lease before and after a step: a release may have claimed it.
Flag(o, l) == IF l.key = o.call.key /\ l.at = o.call.stamp THEN [l EXCEPT !.released = TRUE] ELSE l
After(o, p, l) == IF p.pc = "relCasExpires" THEN Flag(o, l) ELSE l
Like(l, m) ==
    /\ m.key = l.key /\ m.slot = l.slot /\ m.at = l.at /\ m.by = l.by /\ m.handed = l.handed
    /\ m.expires = l.expires /\ m.fresh = l.fresh
    /\ m.released = l.released \/ m.released = TRUE

\* The leases after a step are those before it, one of them perhaps released, and one more.
LEMMA LeasesFrom ==
    ASSUME SlotInv, NEW w \in Workers, Moved(w)
    PROVE  /\ \A l \in leases : \E m \in leases' : Like(l, m) /\ m = After(op[w], op'[w], l)
           /\ \A m \in leases' :
                \/ \E l \in leases : Like(l, m) /\ m = After(op[w], op'[w], l)
                \/ op[w].pc = "granted" /\ ~op[w].call.held /\ op'[w].pc = "idle" /\ m = Lease(w, op[w])
<1>1. /\ leases \subseteq LeaseRecords /\ WordMoves(w, op[w], op'[w]) /\ ReleaseMoves(op[w], op'[w])
  BY DEF SlotInv, LeasesOK, Moved
<1>2. ASSUME NEW l \in leases PROVE Like(l, l)
  BY DEF Like
<1>3. CASE op'[w].pc # "relCasExpires" /\ leases' = leases
  BY <1>2, <1>3 DEF After
<1>4. CASE op[w].pc = "granted"
  <2>1. op'[w].pc = "idle" /\ leases' = IF op[w].call.held THEN leases ELSE leases \cup {Lease(w, op[w])}
    BY <1>1, <1>4 DEF WordMoves
  <2> QED BY <1>2, <1>4, <2>1 DEF After
<1>5. CASE op'[w].pc = "relCasExpires"
  <2>1. leases' = Flagged(op[w]) BY <1>1, <1>5 DEF ReleaseMoves
  <2>2. leases' = {Flag(op[w], l) : l \in leases} BY <2>1 DEF Flagged, Flag
  <2>3. ASSUME NEW l \in leases PROVE Like(l, Flag(op[w], l))
    <3>1. l \in LeaseRecords BY <1>1
    <3>2. Like(l, [l EXCEPT !.released = TRUE]) BY <3>1 DEF Like, LeaseRecords
    <3> QED BY <1>2, <3>2 DEF Flag
  <2> QED BY <1>5, <2>2, <2>3 DEF After
<1> QED BY <1>1, <1>3, <1>4, <1>5 DEF WordMoves

\* The lease a grant hands out.
LEMMA LeaseFields ==
    ASSUME SlotInv, NEW w \in Workers, op[w].pc = "granted", NEW l, l = Lease(w, op[w])
    PROVE  /\ l \in LeaseRecords /\ l.slot = op[w].slot /\ l.at = op[w].call.now /\ l.by = w
           /\ l.key = op[w].call.key
           /\ l.handed = clock /\ l.fresh = op[w].fresh /\ l.released = FALSE
           /\ l.expires = l.at + LeaseTicks /\ l.at <= l.handed /\ l.handed <= clock
<1>1. op[w] \in Ops /\ clock \in Nat /\ op[w].call.now <= clock
  BY DEF SlotInv, TypeInv, OpsOK, WordsOK, Begun
<1>2. /\ op[w].call.now \in Nat /\ op[w].slot \in Slots /\ op[w].call.key \in Keys /\ op[w].fresh \in BOOLEAN
      /\ op[w].call.blocked \in BOOLEAN
  BY <1>1, OpFields DEF SlotPcs, GrantPcs, GrantCalls
<1>3. op[w].call.now + LeaseTicks \in Nat
  BY <1>2, Ticks
<1> QED BY <1>1, <1>2, <1>3 DEF Lease, LeaseRecords

\* The leases are well formed after a step.
LEMMA LeasesKept ==
    ASSUME SlotInv, NEW w \in Workers, Moved(w)
    PROVE  LeasesOK'
<1>1. clock' = clock /\ leases \subseteq LeaseRecords BY DEF Moved, SlotInv, LeasesOK
<1>2. ASSUME NEW m \in leases'
      PROVE  m \in LeaseRecords /\ m.at <= m.handed /\ m.handed <= clock /\ m.expires = m.at + LeaseTicks
  <2>1. CASE op[w].pc = "granted" /\ m = Lease(w, op[w])
    BY <2>1, LeaseFields
  <2>3. CASE op'[w].pc # "relCasExpires" /\ \E l \in leases : m = After(op[w], op'[w], l)
    BY <1>1, <2>3 DEF SlotInv, LeasesOK, After
  <2>4. CASE op'[w].pc = "relCasExpires"
    <3>1. leases' = Flagged(op[w]) BY <2>4 DEF Moved, ReleaseMoves
    <3>2. PICK l \in leases : m = l \/ m = [l EXCEPT !.released = TRUE] BY <3>1 DEF Flagged
    <3>3. l \in LeaseRecords BY <1>1
    <3>4. m \in LeaseRecords /\ m.at = l.at /\ m.handed = l.handed /\ m.expires = l.expires
      BY <3>2, <3>3 DEF LeaseRecords
    <3> QED BY <3>4 DEF SlotInv, LeasesOK
  <2> QED BY <2>1, <2>3, <2>4, LeasesFrom
<1> QED BY <1>1, <1>2 DEF LeasesOK

\* The expiries grants go by, after a step.
LEMMA LiveKept ==
    ASSUME OneKey, SlotInv, TypeInv', NEW w \in Workers, Moved(w)
    PROVE  BlindLive' /\ FreshLive'
<1>1. GrantMoves(op[w], op'[w]) /\ WordMoves(w, op[w], op'[w]) /\ clock \in Nat
      /\ \A v \in Workers : op[v] \in Ops
  BY DEF SlotInv, TypeInv, WordsOK, OpsOK, Moved
<1>2. ASSUME NEW v \in Workers, NEW s \in Keyed', Blind(op'[v], s)
      PROVE  expires'[s] > op'[v].call.now + MaxStall
  <2>0. s \in Slots BY DEF Keyed
  <2>1. op'[v].call.now \in Nat /\ op'[v].call.now <= clock /\ clock <= op'[v].call.now + MaxStall
    BY <1>2, AgeKept, BlindPcs
  <2>2. CASE s \in Keyed
    <3>1. Blind(op[v], s) /\ op'[v].call = op[v].call BY <1>2, <2>2, BlindKept
    <3>2. expires[s] > op[v].call.now + MaxStall BY <2>2, <3>1 DEF SlotInv, BlindLive
    <3>3. CASE expires'[s] = expires[s] BY <3>1, <3>2, <3>3
    <3>4. CASE expires'[s] # expires[s]
      <4>1. expires'[s] + MaxStall >= clock + LeaseTicks BY <2>0, <3>1, <3>4, StoresLate
      <4>2. expires'[s] \in Nat BY <2>0, Stores
      <4> QED BY <1>1, <2>1, <4>1, <4>2, Ticks
    <3> QED BY <3>3, <3>4
  <2>3. CASE op[w].pc = "casLo" /\ op[w].slot = s /\ op'[w].pc = "elsewhere"
    <3>1. expires' = expires BY <1>1, <2>3 DEF WordMoves
    <3>2. expires[s] + MaxStall >= op[w].call.now + LeaseTicks BY <2>3 DEF SlotInv, FreshLive
    <3>3. clock <= op[w].call.now + MaxStall BY <2>3 DEF SlotInv, Age
    <3>4. op[w].call.now \in Nat BY <1>1, <2>3, OpFields
    <3>5. expires[s] \in Nat BY <2>0, Stores
    <3> QED BY <1>1, <2>1, <3>1, <3>2, <3>3, <3>4, <3>5, Ticks
  <2> QED BY <2>0, <2>2, <2>3, KeyedKept
<1> DEFINE Past(o) == o.pc \in {"freshPayload", "casLo", "elsewhere", "giveBack"} \/ (o.pc = "granted" /\ o.fresh)
<1>3. ASSUME NEW v \in Workers, Past(op'[v])
      PROVE  expires'[op'[v].slot] + MaxStall >= op'[v].call.now + LeaseTicks
  <2>1. CASE op'[v] = op[v]
    <3>0. op[v].slot \in Slots /\ op[v].pc # "idle" BY <1>1, <1>3, <2>1, OpFields DEF SlotPcs
    <3>1. Blind(op[v], op[v].slot) BY <1>3, <2>1 DEF Blind, Fresh, FreshPcs
    <3>2. expires[op[v].slot] + MaxStall >= op[v].call.now + LeaseTicks
      BY <1>3, <2>1 DEF SlotInv, FreshLive
    <3>3. CASE expires'[op[v].slot] = expires[op[v].slot] BY <2>1, <3>2, <3>3
    <3>4. CASE expires'[op[v].slot] # expires[op[v].slot]
      <4>1. expires'[op[v].slot] + MaxStall >= clock + LeaseTicks BY <3>0, <3>1, <3>4, StoresLate
      <4>2. expires'[op[v].slot] \in Nat BY <3>0, Stores
      <4>3. op[v].call.now \in Nat /\ op[v].call.now <= clock
        BY <1>1, <3>0, OpFields DEF SlotInv, Age
      <4> QED BY <1>1, <2>1, <4>1, <4>2, <4>3, Ticks
    <3> QED BY <3>3, <3>4
  <2>2. CASE v = w /\ op'[w].pc = "freshPayload"
    <3>1. op[w].pc = "freshExpires" /\ op'[w].slot = op[w].slot /\ op'[w].call = op[w].call
      BY <1>1, <2>2 DEF GrantMoves, CallMoves, Moved
    <3>2. op[w].slot \in Slots /\ op[w].call.now \in Nat BY <1>1, <3>1, OpFields DEF SlotPcs
    <3>3. expires' = At(op[w].slot, ExpiresAt(op[w].call), expires)
      BY <1>1, <2>2 DEF GrantMoves
    <3>4. expires'[op[w].slot] >= op[w].call.now + LeaseTicks
      BY <3>2, <3>3, Lengths DEF At, SlotInv, TypeInv, WordsOK
    <3>5. expires'[op[w].slot] \in Nat BY <3>2, Stores
    <3> QED BY <2>2, <3>1, <3>2, <3>4, <3>5, Ticks
  <2>3. CASE v = w /\ op'[w].pc # "freshPayload"
    <3>1. Past(op[w]) /\ op'[w].slot = op[w].slot /\ op'[w].call = op[w].call /\ expires' = expires
      BY <1>1, <1>3, <2>3 DEF GrantMoves, CallMoves, WordMoves, Moved
    <3> QED BY <2>3, <3>1 DEF SlotInv, FreshLive
  <2> QED BY <2>1, <2>2, <2>3 DEF Moved
<1> QED BY <1>2, <1>3 DEF BlindLive, FreshLive

\* What the check of the other slots relies on, after a step.
LEMMA ElsewhereKept ==
    ASSUME OneKey, SlotInv, NEW w \in Workers, Moved(w)
    PROVE  ClaimElsewhere'
<1> SUFFICES ASSUME NEW v \in Workers, op'[v].pc = "elsewhere"
             PROVE  op'[v].slot \in Keyed' \/ \E t \in Keyed' : t # op'[v].slot
  BY DEF ClaimElsewhere
<1>1. CASE v = w
  <2>1. op[w].pc = "casLo" /\ op'[w].slot = op[w].slot /\ lo' = At(op[w].slot, op[w].call.key, lo)
    BY <1>1 DEF Moved, GrantMoves
  <2>2. op[w].slot \in Slots /\ op[w].call.key \in Keys
    BY <2>1, OpFields DEF SlotInv, TypeInv, OpsOK, SlotPcs
  <2> QED BY <1>1, <2>1, <2>2 DEF Keyed, At, SlotInv, TypeInv, WordsOK
<1>2. CASE v # w
  <2>1. op'[v] = op[v] /\ Blind(op[v], op[w].slot) BY <1>2 DEF Moved, Blind, Fresh, FreshPcs
  <2>2. CASE \E s \in Keyed : s \in Keyed'
    BY <2>2, <2>1
  <2>3. CASE \A s \in Keyed : s \notin Keyed'
    <3>1. PICK s \in Keyed : TRUE BY <2>1 DEF SlotInv, ClaimElsewhere
    <3>2. s \in Slots /\ op[w].pc = "giveBack" /\ op[w].slot = s BY <2>3, KeyedKept DEF Keyed
    <3>3. PICK t \in Keyed : t # s BY <1>2, <2>1, <3>2 DEF SlotInv, ClaimBack
    <3>4. t \in Keyed' BY <3>2, <3>3, KeyedKept DEF Keyed
    <3> QED BY <2>3, <3>4
  <2> QED BY <2>2, <2>3
<1> QED BY <1>1, <1>2

\* What a grant that gives its slot back leaves, after a step.
LEMMA BackKept ==
    ASSUME OneKey, SlotInv, NEW w \in Workers, Moved(w)
    PROVE  ClaimBack'
<1> SUFFICES ASSUME NEW v \in Workers, op'[v].pc = "giveBack"
             PROVE  \/ \E t \in Keyed' : t # op'[v].slot
                    \/ op'[v].slot \in Keyed' /\ \A u \in Workers : u # v => ~Blind(op'[u], op'[v].slot)
  BY DEF ClaimBack
<1> DEFINE s == op'[v].slot
<1>1. CASE v = w
  <2>1. op[w].pc = "elsewhere" /\ op'[w].slot = op[w].slot /\ LiveElsewhere(op[w]) /\ lo' = lo
    BY <1>1 DEF Moved, GrantMoves, WordMoves
  <2>2. op[w].call.key \in Keys
    BY <2>1, OpFields DEF SlotInv, TypeInv, OpsOK, SlotPcs
  <2>3. PICK t \in Slots \ {op[w].slot} : Holds(t, op[w].call.key)
    BY <2>1 DEF LiveElsewhere
  <2>4. t \in Keyed' BY <2>1, <2>2, <2>3 DEF Holds, Keyed
  <2> QED BY <1>1, <2>1, <2>3, <2>4
<1>2. CASE v # w
  <2>1. op'[v] = op[v] /\ \A t \in Slots : Blind(op[v], t)
    BY <1>2 DEF Moved, Blind, Fresh, FreshPcs
  <2>2. CASE \E t \in Keyed : t # s
    <3>1. PICK t \in Keyed : t # s BY <2>2
    <3>2. t \in Slots BY DEF Keyed
    <3>3. CASE t \in Keyed' BY <3>1, <3>3
    <3>4. CASE op[w].pc = "giveBack" /\ op[w].slot = t
      <4>1. PICK y \in Keyed : y # t BY <1>2, <2>1, <3>2, <3>4 DEF SlotInv, ClaimBack
      <4>2. y \in Slots /\ y \in Keyed' BY <3>4, <4>1, KeyedKept DEF Keyed
      <4>3. CASE y # s BY <4>2, <4>3
      <4>4. CASE y = s
        <5>1. ASSUME NEW u \in Workers, u # v, Blind(op'[u], s) PROVE FALSE
          <6>1. op'[w].pc = "idle" BY <3>4 DEF Moved, WordMoves
          <6>2. u # w BY <5>1, <6>1, BlindPcs
          <6>3. op[u].pc \in GrantPcs BY <5>1, <6>2, BlindPcs DEF Moved
          <6>4. op[v].pc \in GrantPcs /\ op[w].pc \in GrantPcs BY <2>1, <3>4 DEF GrantPcs
          <6> QED BY <1>2, <5>1, <6>2, <6>3, <6>4, NoThird
        <5> QED BY <4>2, <4>4, <5>1
      <4> QED BY <4>3, <4>4
    <3> QED BY <3>2, <3>3, <3>4, KeyedKept
  <2>3. CASE s \in Keyed /\ \A u \in Workers : u # v => ~Blind(op[u], s)
    <3>1. s \in Slots BY <2>3 DEF Keyed
    <3>2. s \in Keyed'
      <4>1. ASSUME op[w].pc = "giveBack" PROVE Blind(op[w], s)
        BY <4>1 DEF Blind, Fresh, FreshPcs
      <4> QED BY <1>2, <2>3, <3>1, <4>1, KeyedKept
    <3>3. ASSUME NEW u \in Workers, u # v PROVE ~Blind(op'[u], s)
      <4> HIDE DEF s
      <4> QED BY <2>3, <3>3, BlindKept
    <3> QED BY <3>2, <3>3
  <2> QED BY <2>1, <2>2, <2>3 DEF SlotInv, ClaimBack
<1> QED BY <1>1, <1>2

\* The slot of a grant that has found no other, after a step.
LEMMA GrantedKept ==
    ASSUME OneKey, SlotInv, NEW w \in Workers, Moved(w)
    PROVE  ClaimGranted'
<1>1. ASSUME NEW v \in Workers, op'[v].pc = "granted", op'[v].fresh, NEW s, s = op'[v].slot
      PROVE  s \in Keyed' /\ Sole(s)'
  <2>1. CASE v = w
    <3>1. op[w].pc = "elsewhere" /\ s = op[w].slot /\ ~LiveElsewhere(op[w]) /\ lo' = lo
      BY <1>1, <2>1 DEF Moved, GrantMoves, WordMoves
    <3>2. \A t \in Keyed : t = s BY <3>1, ElsewhereFinds
    <3>3. s \in Keyed BY <3>1, <3>2 DEF SlotInv, ClaimElsewhere
    <3>4. Keyed' = Keyed BY <3>1 DEF Keyed
    <3> QED BY <3>2, <3>3, <3>4 DEF Sole
  <2>2. CASE v # w
    <3>1. op'[v] = op[v] BY <2>2 DEF Moved
    <3>2. s \in Keyed /\ Sole(s) /\ s \in Slots BY <1>1, <3>1 DEF SlotInv, ClaimGranted, Keyed
    <3>3. s \in Keyed' BY <1>1, <3>1, <3>2, GrantedStays, KeyedKept
    <3> QED BY <3>2, <3>3, SoleKept
  <2> QED BY <2>1, <2>2
<1> QED BY <1>1 DEF ClaimGranted

\* A slot nobody claims any more, after a step.
LEMMA SettledKept ==
    ASSUME OneKey, SlotInv, NEW w \in Workers, Moved(w)
    PROVE  Settled'
<1> SUFFICES ASSUME NEW s \in Keyed', Claims(s)' = {}, \A v \in Workers : ~Returned(op'[v], s)
             PROVE  Home(s)'
  BY DEF Settled
<1>1. s \in Slots BY DEF Keyed
<1>2. s \in Keyed
  <2>1. ASSUME op'[w].pc = "elsewhere", op'[w].slot = s PROVE w \in Claims(s)'
    BY <2>1 DEF Claims
  <2> QED BY <1>1, <2>1, KeyedKept
<1>3. Claims(s) = {}
  <2> SUFFICES ASSUME NEW v \in Claims(s) PROVE FALSE
    OBVIOUS
  <2> QED BY <1>1, ClaimsKept
<1>4. CASE \A v \in Workers : ~Returned(op[v], s)
  <2>1. Home(s) BY <1>2, <1>3, <1>4 DEF SlotInv, Settled
  <2> QED BY <2>1, HomeKept
<1>5. CASE \E v \in Workers : Returned(op[v], s)
  <2>1. PICK v \in Workers : Returned(op[v], s) BY <1>5
  <2>2. v = w BY <2>1 DEF Moved
  <2> QED BY <2>1, <2>2, ReturnHome DEF Returned
<1> QED BY <1>4, <1>5

\* The slots of leases, and the grants that cannot see them, after a step.
LEMMA LeaseSlotsKept ==
    ASSUME OneKey, SlotInv, NEW w \in Workers, Moved(w)
    PROVE  LeaseHome' /\ Handed' /\ OwnLeases'
<1>1. ASSUME NEW m \in leases'
      PROVE  /\ Home(m.slot)'
             /\ \A v \in Workers : Blind(op'[v], m.slot) => op'[v].call.now <= m.handed /\ v # m.by
             /\ ~m.fresh => Seen(m.slot)'
  <2>1. CASE \E l \in leases : Like(l, m)
    <3>1. PICK l \in leases : Like(l, m) BY <2>1
    <3>2. l.slot = m.slot /\ l.handed = m.handed /\ l.by = m.by /\ l.fresh = m.fresh BY <3>1 DEF Like
    <3>3. Home(m.slot) /\ m.slot \in Keyed BY <3>2 DEF SlotInv, LeaseHome, Home
    <3>4. Home(m.slot)' BY <3>3, HomeKept
    <3>5. ASSUME NEW v \in Workers, Blind(op'[v], m.slot)
          PROVE  op'[v].call.now <= m.handed /\ v # m.by
      <4>1. Blind(op[v], m.slot) /\ op'[v].call = op[v].call BY <3>3, <3>5, BlindKept
      <4> QED BY <3>2, <4>1 DEF SlotInv, Handed
    <3>6. ASSUME ~m.fresh PROVE Seen(m.slot)'
      <4>1. Seen(m.slot) BY <3>2, <3>6 DEF SlotInv, OwnLeases
      <4> QED BY <3>3, <4>1, SeenKept
    <3> QED BY <3>4, <3>5, <3>6
  <2>2. CASE op[w].pc = "granted" /\ op'[w].pc = "idle" /\ m = Lease(w, op[w])
    <3>1. m.slot = op[w].slot /\ m.by = w /\ m.handed = clock /\ m.fresh = op[w].fresh
      BY <2>2, LeaseFields
    <3>2. Home(m.slot)' BY <2>2, <3>1, ReturnHome
    <3>3. ASSUME NEW v \in Workers, Blind(op'[v], m.slot)
          PROVE  op'[v].call.now <= m.handed /\ v # m.by
      BY <2>2, <3>1, <3>3, BlindPcs, AgeKept
    <3>4. ASSUME ~m.fresh PROVE Seen(m.slot)'
      <4>1. Seen(m.slot) /\ m.slot \in Keyed BY <2>2, <3>1, <3>4 DEF SlotInv, OwnSlot, Home
      <4> QED BY <4>1, SeenKept
    <3> QED BY <3>2, <3>3, <3>4
  <2> QED BY <2>1, <2>2, LeasesFrom
<1> QED BY <1>1 DEF LeaseHome, Handed, OwnLeases

\* What the reader of the key's own slot finds, after a step.
LEMMA ReadKept ==
    ASSUME OneKey, SlotInv, TypeInv', NEW w \in Workers, Moved(w)
    PROVE  ReadOK'
<1>1. ASSUME NEW v \in Workers, op'[v].pc = "read", NEW s, s = op'[v].slot
      PROVE  Home(s)' \/ expires'[s] > op'[v].call.now
  <2>0. /\ op[v] \in Ops /\ op[w] \in Ops /\ s \in Slots /\ clock \in Nat
        /\ op'[v].call.now \in Nat /\ op'[v].call.now <= clock
    BY <1>1, AgeKept, OpFields DEF SlotInv, TypeInv, OpsOK, SlotPcs
  <2>1. CASE v = w
    <3>1. op[w].pc = "probe" /\ Holds(s, op[w].call.key) /\ lo' = lo /\ expires' = expires
          /\ op'[w].call = op[w].call
      BY <1>1, <2>1 DEF Moved, GrantMoves, CallMoves, WordMoves
    <3>2. op[w].call.key \in Keys BY <2>0, <3>1, OpFields
    <3>3. s \in Keyed BY <2>0, <3>1, <3>2 DEF Keyed, Holds
    <3>4. CASE Claims(s) = {} /\ \A u \in Workers : ~Returned(op[u], s)
      <4>1. Home(s) BY <3>3, <3>4 DEF SlotInv, Settled
      <4> QED BY <4>1, HomeKept
    <3>5. CASE \E u \in Workers : u \in Claims(s) \/ Returned(op[u], s)
      <4>1. PICK u \in Workers : u \in Claims(s) \/ Returned(op[u], s) BY <3>5
      <4>2. /\ op[u].slot = s
            /\ op[u].pc \in {"elsewhere", "giveBack"} \/ (op[u].pc = "granted" /\ op[u].fresh)
        BY <4>1, ClaimsBlind DEF Returned
      <4>3. expires[s] + MaxStall >= op[u].call.now + LeaseTicks
        BY <4>2 DEF SlotInv, FreshLive
      <4>4. op[u].call.now \in Nat /\ clock <= op[u].call.now + MaxStall
        BY <4>2, OpFields DEF SlotInv, TypeInv, OpsOK, Age
      <4>5. expires[s] \in Nat BY <2>0, Stores
      <4>6. expires[s] > clock BY <2>0, <4>3, <4>4, <4>5, Ticks
      <4> QED BY <2>0, <2>1, <3>1, <4>5, <4>6
    <3> QED BY <3>4, <3>5 DEF Claims
  <2>2. CASE v # w
    <3>1. op'[v] = op[v] BY <2>2 DEF Moved
    <3>2. Home(s) \/ expires[s] > op[v].call.now BY <1>1, <3>1 DEF SlotInv, ReadOK
    <3>3. expires'[s] = expires[s] \/ expires'[s] > clock
      <4>1. expires'[s] \in Nat BY <2>0, Stores
      <4>2. expires'[s] + MaxStall >= clock + LeaseTicks => expires'[s] > clock
        BY <2>0, <4>1, Ticks
      <4>3. expires'[s] = clock + GraceTicks => expires'[s] > clock
        BY <2>0, <4>1, Ticks
      <4> QED BY <2>0, <4>2, <4>3, Stores
    <3>4. CASE Home(s) BY <3>4, HomeKept
    <3>5. CASE expires[s] > op[v].call.now
      <4>1. expires'[s] \in Nat BY <2>0, Stores
      <4> QED BY <2>0, <3>1, <3>3, <3>5, <4>1
    <3> QED BY <3>2, <3>4, <3>5
  <2> QED BY <2>1, <2>2
<1> QED BY <1>1 DEF ReadOK

\* A grant into the key's own slot, after a step.
LEMMA OwnKept ==
    ASSUME OneKey, SlotInv, TypeInv', NEW w \in Workers, Moved(w)
    PROVE  OwnSlot' /\ OwnRead'
<1>1. ASSUME NEW v \in Workers, NEW s, s = op'[v].slot,
             op'[v].pc \in OwnPcs \/ (op'[v].pc = "granted" /\ ~op'[v].fresh)
      PROVE  Home(s)' /\ Seen(s)'
  <2>1. Home(s) /\ Seen(s)
    <3>1. CASE op[v].pc # "read" \/ v # w
      <4>1. op[v].pc \in OwnPcs \/ (op[v].pc = "granted" /\ ~op[v].fresh)
        BY <1>1, <3>1 DEF Moved, GrantMoves, OwnPcs
      <4>2. op[v].slot = s BY <1>1, <3>1 DEF Moved, GrantMoves, OwnPcs
      <4> QED BY <4>1, <4>2 DEF SlotInv, OwnSlot
    <3>2. CASE op[w].pc = "read" /\ v = w
      <4>1. op[w].slot = s /\ ~(expires[s] > op[w].call.now)
        BY <1>1, <3>2 DEF Moved, GrantMoves, OwnPcs
      <4>2. /\ op[w].call.now \in Nat /\ op[w].call.now <= clock /\ clock \in Nat /\ s \in Slots
        BY <3>2, <4>1, OpFields DEF SlotInv, TypeInv, OpsOK, WordsOK, Age, SlotPcs
      <4>3. Home(s) BY <3>2, <4>1 DEF SlotInv, ReadOK
      <4>4. ASSUME NEW u \in Workers, Blind(op[u], s) PROVE FALSE
        <5>1. expires[s] > op[u].call.now + MaxStall BY <4>3, <4>4 DEF SlotInv, BlindLive, Home
        <5>2. op[u].call.now \in Nat /\ clock <= op[u].call.now + MaxStall
          BY <4>4, BlindPcs, OpFields DEF SlotInv, TypeInv, OpsOK, Age
        <5>3. expires[s] \in Nat BY <4>2, Stores
        <5> QED BY <4>1, <4>2, <5>1, <5>2, <5>3, Ticks
      <4> QED BY <4>3, <4>4 DEF Seen
    <3> QED BY <3>1, <3>2
  <2>2. s \in Keyed BY <2>1 DEF Home
  <2> QED BY <2>1, <2>2, HomeKept, SeenKept
<1>2. ASSUME NEW v \in Workers, op'[v].pc \in OwnPcs
      PROVE  op'[v].observed <= op'[v].call.now
  <2>1. CASE v # w
    BY <1>2, <2>1 DEF Moved, SlotInv, OwnRead
  <2>2. CASE v = w /\ op'[w].pc = "storeDue"
    <3>1. /\ op[w].pc = "read" /\ op'[w].observed = expires[op[w].slot]
          /\ ~(expires[op[w].slot] > op[w].call.now) /\ op'[w].call = op[w].call
      BY <2>2 DEF Moved, GrantMoves, CallMoves
    <3>2. op[w].call.now \in Nat /\ expires[op[w].slot] \in Nat
      BY <3>1, OpFields, Stores DEF SlotInv, TypeInv, OpsOK, SlotPcs
    <3> QED BY <2>2, <3>1, <3>2
  <2>3. CASE v = w /\ op'[w].pc # "storeDue"
    <3>1. op[w].pc \in OwnPcs /\ op'[w].observed = op[w].observed /\ op'[w].call = op[w].call
      BY <1>2, <2>3 DEF Moved, GrantMoves, CallMoves, OwnPcs
    <3> QED BY <2>3, <3>1 DEF SlotInv, OwnRead
  <2> QED BY <2>1, <2>2, <2>3
<1> QED BY <1>1, <1>2 DEF OwnSlot, OwnRead

\* A slot that holds the key and is not the slot of a lease handed out a render ago
\* has been claimed by a grant that is too old to be under way.
LEMMA CheckedHome ==
    ASSUME OneKey, SlotInv, NEW r \in Workers, op[r].pc = "relCheck", NEW l \in Named(op[r]),
           op[r].slot \in Keyed
    PROVE  l.slot = op[r].slot
<1> SUFFICES ASSUME l.slot # op[r].slot PROVE FALSE
  OBVIOUS
<1>1. l \in leases /\ l.handed + RenderTicks <= op[r].call.now /\ l.handed \in Nat
  BY DEF Named, SlotInv, LeasesOK, LeaseRecords
<1>2. Home(l.slot) BY <1>1 DEF SlotInv, LeaseHome
<1>3. PICK x \in Claims(op[r].slot) : TRUE BY <1>2 DEF Home, Sole
<1>4. x \in Workers /\ Blind(op[x], l.slot) /\ op[x].pc # "idle" BY <1>3, ClaimsBlind, BlindPcs
<1>5. op[x].call.now <= l.handed BY <1>1, <1>4 DEF SlotInv, Handed
<1>6. clock <= op[x].call.now + MaxStall /\ op[r].call.now <= clock BY <1>4 DEF SlotInv, Age
<1>7. op[x].call.now \in Nat /\ op[r].call.now \in Nat /\ clock \in Nat
  BY <1>4, OpFields DEF SlotInv, TypeInv, OpsOK, WordsOK
<1> QED BY <1>1, <1>5, <1>6, <1>7, Ticks

\* What a release is about, after a step.
LEMMA NamedKept ==
    ASSUME OneKey, SlotInv, NEW w \in Workers, Moved(w)
    PROVE  ReleaseNamed'
<1>1. ASSUME NEW v \in Workers, NEW l \in Named(op[v]), op'[v].call = op[v].call
      PROVE  \E m \in Named(op[v])' : m.slot = l.slot
  <2>1. l \in leases /\ l.at = op[v].call.stamp /\ l.handed + RenderTicks <= op[v].call.now
    BY DEF Named
  <2>2. PICK m \in leases' : Like(l, m) BY <2>1, LeasesFrom
  <2>3. m.slot = l.slot /\ m.at = l.at /\ m.handed = l.handed BY <2>2 DEF Like
  <2> QED BY <1>1, <2>1, <2>3 DEF Named
<1>2. ASSUME NEW v \in Workers, op'[v].pc \in {"relExpires", "relCheck"} PROVE Named(op[v])' # {}
  <2>1. CASE v = w /\ op'[w].pc = "relExpires"
    <3>1. PICK l \in leases : l.at = op'[w].call.stamp /\ clock >= l.handed + RenderTicks
      BY <2>1 DEF Moved, ReleaseMoves
    <3>2. op'[w].call.now = clock /\ clock \in Nat /\ l.handed \in Nat
      BY <2>1 DEF Moved, ReleaseMoves, CallMoves, SlotInv, TypeInv, WordsOK, LeasesOK, LeaseRecords
    <3>3. leases' = leases
      BY <2>1 DEF Moved, ReleaseMoves, WordMoves
    <3>4. l.handed + RenderTicks <= op'[w].call.now BY <3>1, <3>2, Ticks
    <3> QED BY <2>1, <3>1, <3>3, <3>4 DEF Named
  <2>2. CASE ~(v = w /\ op'[w].pc = "relExpires")
    <3>1. op[v].pc \in {"relExpires", "relCheck"} /\ op'[v].call = op[v].call
      BY <1>2, <2>2 DEF Moved, ReleaseMoves, CallMoves
    <3>2. PICK l \in Named(op[v]) : TRUE BY <3>1 DEF SlotInv, ReleaseNamed
    <3> QED BY <1>1, <3>1, <3>2
  <2> QED BY <2>1, <2>2
<1>3. ASSUME NEW v \in Workers, op'[v].pc \in RelOwnPcs
      PROVE  \E m \in Named(op[v])' : m.slot = op'[v].slot
  <2>1. CASE v = w /\ op'[w].pc = "relDue"
    <3>1. op[w].pc = "relCheck" /\ op'[w].slot = op[w].slot /\ Holds(op[w].slot, op[w].call.key)
          /\ op'[w].call = op[w].call
      BY <2>1 DEF Moved, ReleaseMoves, CallMoves
    <3>2. op[w].slot \in Slots /\ op[w].call.key \in Keys
      BY <3>1, OpFields DEF SlotInv, TypeInv, OpsOK, SlotPcs
    <3>3. op[w].slot \in Keyed BY <3>1, <3>2 DEF Holds, Keyed
    <3>4. PICK l \in Named(op[w]) : TRUE BY <3>1 DEF SlotInv, ReleaseNamed
    <3>5. l.slot = op[w].slot BY <3>1, <3>3, CheckedHome
    <3> QED BY <1>1, <2>1, <3>1, <3>5
  <2>2. CASE ~(v = w /\ op'[w].pc = "relDue")
    <3>1. op[v].pc \in RelOwnPcs /\ op'[v].slot = op[v].slot /\ op'[v].call = op[v].call
      BY <1>3, <2>2 DEF Moved, ReleaseMoves, CallMoves, RelOwnPcs
    <3>2. PICK l \in Named(op[v]) : l.slot = op[v].slot BY <3>1 DEF SlotInv, ReleaseNamed
    <3> QED BY <1>1, <3>1, <3>2
  <2> QED BY <2>1, <2>2
<1> QED BY <1>2, <1>3 DEF ReleaseNamed

\* A step of a worker keeps what is known of the slots.
LEMMA SlotInvKept ==
    ASSUME OneKey, SlotInv, TypeInv', NEW w \in Workers, Moved(w)
    PROVE  SlotInv'
  BY LeasesKept, AgeKept, PairKept, HighWordsKept, LiveKept, ElsewhereKept, BackKept, GrantedKept, SettledKept,
     LeaseSlotsKept, ReadKept, OwnKept, NamedKept DEF SlotInv

-----------------------------------------------------------------------------
(* What the leases of the key's slot are to one another *)

\* A grant into the key's own slot that is about to return true.
Own(o) == o.pc = "granted" /\ ~o.fresh /\ ~o.call.held

\* A lease that shares its slot with another, granted while it was.
Twinned(l) == \E n \in leases : Twins(l, n) /\ n.by # l.by

\* The slot's expiry is further off than the stall a lease began with, and, but
\* for a stall, as far off as a lease in flight lasts.
Later ==
    /\ \A l \in leases : expires[l.slot] > l.at + MaxStall
    /\ \A w \in Workers : op[w].pc = "granted" => expires[op[w].slot] > op[w].call.now + MaxStall
Lasting ==
    /\ \A l \in leases :
         ~l.released /\ l.expires > clock /\ ~Twinned(l) => expires[l.slot] + MaxStall >= l.expires
    /\ \A w \in Workers : Own(op[w]) => expires[op[w].slot] + MaxStall >= op[w].call.now + LeaseTicks

\* Grants into the key's own slot come one by one, each a stall after every lease
\* before it, and not before that lease is over; fresh ones are all twins.
Alone == \A u, v \in Workers :
    op[u].pc = "granted" /\ ~op[u].fresh /\ op[v].pc = "granted" /\ ~op[v].fresh => u = v
Ordered ==
    /\ \A l, m \in leases :
         ~m.fresh /\ l # m => l.at + MaxStall < m.at \/ (~l.fresh /\ m.at + MaxStall < l.at)
    /\ \A w \in Workers, l \in leases : Own(op[w]) => l.at + MaxStall < op[w].call.now
Over ==
    /\ \A l, m \in leases :
         ~l.released /\ ~m.fresh /\ l # m /\ l.at <= m.at => m.at + MaxStall >= l.expires \/ Twinned(l)
    /\ \A w \in Workers, l \in leases :
         Own(op[w]) /\ ~l.released => op[w].call.now + MaxStall >= l.expires \/ Twinned(l)
FreshTwins == \A l, m \in leases : l.fresh /\ m.fresh /\ l # m => Twins(l, m) /\ l.by # m.by

\* The stamp of the slot is no older than a stall before its last lease.
Stamped(s, at) == granted[s] = 0 \/ granted[s] + MaxStall >= at
Stamps ==
    /\ \A m \in leases : ~m.fresh => Stamped(m.slot, m.at)
    /\ \A w \in Workers :
         Own(op[w]) \/ (op[w].pc = "casExpires" /\ ~op[w].call.held) => Stamped(op[w].slot, op[w].call.now)

\* A release that shortens has released what it is about, and the expiry it read
\* is the slot's still or is of a time before every later lease.
ReleaseClaims == \A w \in Workers :
    op[w].pc = "relCasExpires" => \A l \in leases : l.at = op[w].call.stamp => l.released = TRUE
ReleaseRead == \A w \in Workers :
    op[w].pc \in RelOwnPcs \cup {"relCheck"} =>
      op[w].observed = expires[op[w].slot] \/ expires[op[w].slot] > op[w].call.now + MaxStall
ReleaseSpares == \A w \in Workers :
    op[w].pc \in RelOwnPcs =>
      /\ \A m \in leases : ~m.fresh /\ m.at > op[w].call.stamp => op[w].observed <= m.at
      /\ \A v \in Workers : Own(op[v]) => op[w].observed <= op[v].call.now

LeaseInv ==
    /\ SlotInv /\ Later /\ Lasting /\ Alone /\ Ordered /\ Over /\ FreshTwins /\ Stamps
    /\ ReleaseClaims /\ ReleaseRead /\ ReleaseSpares

\* All leases of the key are in one slot.
LEMMA OneSlot ==
    ASSUME SlotInv, NEW l \in leases, NEW m \in leases
    PROVE  l.slot = m.slot
  BY HomeUnique DEF SlotInv, LeaseHome

\* ... which every grant that returns true is in.
LEMMA GrantedSlot ==
    ASSUME SlotInv, NEW w \in Workers, op[w].pc = "granted", NEW s, Home(s)
    PROVE  op[w].slot = s
<1>1. CASE ~op[w].fresh
  BY <1>1, HomeUnique DEF SlotInv, OwnSlot
<1>2. CASE op[w].fresh
  <2> SUFFICES ASSUME op[w].slot # s PROVE FALSE
    OBVIOUS
  <2>1. op[w].slot \in Keyed /\ Sole(op[w].slot) BY <1>2 DEF SlotInv, ClaimGranted
  <2>2. PICK x \in Claims(s) : TRUE BY <2>1 DEF Sole, Home
  <2>3. PICK y \in Claims(op[w].slot) : TRUE BY <2>1 DEF Sole, Home
  <2>4. /\ x \in Workers /\ op[x].slot = s /\ op[x].pc \in GrantPcs /\ op[x].pc # "granted"
        /\ y \in Workers /\ op[y].slot = op[w].slot /\ op[y].pc \in GrantPcs /\ op[y].pc # "granted"
    BY <2>2, <2>3, ClaimsBlind
  <2>5. op[w].pc \in GrantPcs BY DEF GrantPcs
  <2> QED BY <2>4, <2>5, NoThird
<1> QED BY <1>1, <1>2

\* What an expiry is after a step: what it was, or more than a stall away.
LEMMA StoresAfter ==
    ASSUME SlotInv, NEW w \in Workers, Moved(w), NEW s \in Slots
    PROVE  /\ expires[s] \in Nat /\ expires'[s] \in Nat /\ clock \in Nat
           /\ expires'[s] = expires[s] \/ expires'[s] > clock + MaxStall
<1>1. clock \in Nat BY DEF SlotInv, TypeInv, WordsOK
<1>2. expires[s] \in Nat /\ expires'[s] \in Nat BY Stores
<1>3. expires'[s] + MaxStall >= clock + LeaseTicks => expires'[s] > clock + MaxStall
  BY <1>1, <1>2, Ticks
<1>4. expires'[s] = clock + GraceTicks => expires'[s] > clock + MaxStall
  BY <1>1, <1>2, Ticks
<1> QED BY <1>1, <1>2, <1>3, <1>4, Stores

\* The numbers of a lease ...
LEMMA LeaseNumbers ==
    ASSUME SlotInv, NEW l \in leases
    PROVE  /\ l.at \in Nat /\ l.handed \in Nat /\ l.expires \in Nat /\ l.slot \in Slots /\ l.key \in Keys
           /\ l.at <= l.handed /\ l.handed <= clock /\ clock \in Nat /\ l.expires = l.at + LeaseTicks
           /\ l.released \in BOOLEAN /\ l.fresh \in BOOLEAN
  BY DEF SlotInv, LeasesOK, LeaseRecords, TypeInv, WordsOK

\* ... and of an operation under way.
LEMMA OpNumbers ==
    ASSUME SlotInv, NEW w \in Workers, op[w].pc # "idle"
    PROVE  /\ op[w].call.now \in Nat /\ op[w].call.now <= clock /\ clock <= op[w].call.now + MaxStall
           /\ clock \in Nat
           /\ op[w].pc \in SlotPcs => op[w].slot \in Slots
           /\ op[w].pc \in SeenPcs => op[w].observed \in Nat
  BY OpFields DEF SlotInv, TypeInv, OpsOK, WordsOK, Age

\* A lease that is twinned stays so.
LEMMA TwinnedKept ==
    ASSUME SlotInv, NEW w \in Workers, Moved(w), NEW l \in leases, NEW m \in leases', Like(l, m), Twinned(l)
    PROVE  Twinned(m)'
<1>1. PICK n \in leases : Twins(l, n) /\ n.by # l.by BY DEF Twinned
<1>2. PICK p \in leases' : Like(n, p) BY LeasesFrom
<1>3. Twins(m, p) /\ p.by # m.by BY <1>1, <1>2 DEF Twins, Like
<1> QED BY <1>3 DEF Twinned

\* No grant is about to return true while a release shortens the expiry of the
\* key's slot ...
LEMMA ShortensNoGrant ==
    ASSUME LeaseInv, NEW w \in Workers, op[w].pc = "relCasExpires", op[w].observed = expires[op[w].slot],
           NEW v \in Workers
    PROVE  ~Own(op[v])
<1> SUFFICES ASSUME Own(op[v]) PROVE FALSE
  OBVIOUS
<1>1. SlotInv /\ op[v].pc = "granted" BY DEF LeaseInv, Own
<1>2. Home(op[w].slot) BY <1>1, ReleaseSees DEF RelOwnPcs
<1>3. op[v].slot = op[w].slot BY <1>1, <1>2, GrantedSlot
<1>4. op[w].observed <= op[v].call.now BY DEF LeaseInv, ReleaseSpares, RelOwnPcs
<1>5. expires[op[v].slot] > op[v].call.now + MaxStall BY <1>1 DEF LeaseInv, Later
<1>6. op[v].call.now \in Nat /\ op[w].observed \in Nat BY <1>1, OpNumbers DEF SeenPcs
<1> QED BY <1>3, <1>4, <1>5, <1>6, Ticks

\* ... and no lease of it is in flight but one the release is about, or one of twins.
LEMMA ShortensNoLease ==
    ASSUME LeaseInv, NEW w \in Workers, op[w].pc = "relCasExpires", op[w].observed = expires[op[w].slot],
           NEW l \in leases, ~l.released, l.expires > clock
    PROVE  Twinned(l)
<1> SUFFICES ASSUME ~Twinned(l) PROVE FALSE
  OBVIOUS
<1>1. SlotInv BY DEF LeaseInv
<1>2. PICK n \in Named(op[w]) : n.slot = op[w].slot BY <1>1 DEF SlotInv, ReleaseNamed, RelOwnPcs
<1>3. n \in leases /\ n.at = op[w].call.stamp /\ n.handed + RenderTicks <= op[w].call.now
  BY <1>2 DEF Named
<1>4. l.slot = n.slot BY <1>1, <1>3, OneSlot
<1>5. op[w].call.now \in Nat /\ op[w].call.now <= clock /\ op[w].observed \in Nat
  BY <1>1, OpNumbers DEF SeenPcs
<1>6. l.at # n.at BY <1>3 DEF LeaseInv, ReleaseClaims
<1>7. n.at + MaxStall < clock BY <1>1, <1>3, <1>5, LeaseNumbers, Ticks
<1>8. ~(l.fresh /\ n.fresh)
  <2>1. l.fresh /\ n.fresh => Twins(l, n) /\ l.by # n.by BY <1>3, <1>6 DEF LeaseInv, FreshTwins
  <2> QED BY <1>3, <2>1 DEF Twinned
<1>9. expires[l.slot] > l.at + MaxStall BY DEF LeaseInv, Later
<1>10. CASE l.at > n.at
  <2>1. CASE l.fresh
    <3>1. l.at + MaxStall < n.at BY <1>3, <1>6, <1>8, <2>1 DEF LeaseInv, Ordered
    <3> QED BY <1>1, <1>3, <1>10, <3>1, LeaseNumbers, Ticks
  <2>2. CASE ~l.fresh
    <3>1. op[w].observed <= l.at BY <1>3, <1>10, <2>2 DEF LeaseInv, ReleaseSpares, RelOwnPcs
    <3> QED BY <1>1, <1>2, <1>4, <1>5, <1>9, <3>1, LeaseNumbers, Ticks
  <2> QED BY <2>1, <2>2
<1>11. CASE l.at < n.at
  <2>1. CASE n.fresh
    <3>1. n.at + MaxStall < l.at BY <1>3, <1>6, <1>8, <2>1 DEF LeaseInv, Ordered
    <3> QED BY <1>1, <1>3, <1>11, <3>1, LeaseNumbers, Ticks
  <2>2. CASE ~n.fresh
    <3>1. l.at <= n.at BY <1>1, <1>3, <1>11, LeaseNumbers
    <3>2. n.at + MaxStall >= l.expires BY <1>3, <1>6, <2>2, <3>1 DEF LeaseInv, Over
    <3> QED BY <1>1, <1>3, <1>7, <3>2, LeaseNumbers, Ticks
  <2> QED BY <2>1, <2>2
<1> QED BY <1>1, <1>3, <1>6, <1>10, <1>11, LeaseNumbers

\* A lease after a step, in terms of those before it.
LEMMA LeaseBefore ==
    ASSUME SlotInv, NEW w \in Workers, Moved(w), NEW m \in leases'
    PROVE  \/ \E l \in leases : /\ m = After(op[w], op'[w], l) /\ m.slot = l.slot /\ m.at = l.at /\ m.fresh = l.fresh
                                /\ m.expires = l.expires /\ m.by = l.by /\ m.handed = l.handed /\ m.key = l.key
                                /\ Like(l, m)
                                /\ (~m.released => ~l.released) /\ (~m.released /\ ~Twinned(m)' => ~Twinned(l))
           \/ /\ op[w].pc = "granted" /\ ~op[w].call.held /\ op'[w].pc = "idle"
              /\ m = Lease(w, op[w]) /\ m.slot = op[w].slot /\ m.at = op[w].call.now /\ m.by = w
              /\ m.key = op[w].call.key /\ m.fresh = op[w].fresh /\ m.handed = clock
              /\ m.expires = m.at + LeaseTicks /\ m.at \in Nat /\ m.key \in Keys /\ m.slot \in Slots
              /\ expires' = expires /\ granted' = granted
<1>1. CASE \E l \in leases : Like(l, m) /\ m = After(op[w], op'[w], l)
  <2>1. PICK l \in leases : Like(l, m) /\ m = After(op[w], op'[w], l) BY <1>1
  <2>2. Twinned(l) => Twinned(m)' BY <2>1, TwinnedKept
  <2>3. ~m.released => ~l.released BY <2>1 DEF Like
  <2>4. ~m.released /\ ~Twinned(m)' => ~Twinned(l) BY <2>2
  <2>5. /\ m.slot = l.slot /\ m.at = l.at /\ m.fresh = l.fresh
        /\ m.expires = l.expires /\ m.by = l.by /\ m.handed = l.handed /\ m.key = l.key
    BY <2>1 DEF Like
  <2> QED BY <2>1, <2>3, <2>4, <2>5, Zenon
<1>2. CASE op[w].pc = "granted" /\ ~op[w].call.held /\ op'[w].pc = "idle" /\ m = Lease(w, op[w])
  <2>1. expires' = expires /\ granted' = granted
    BY <1>2 DEF Moved, WordMoves
  <2>2. /\ m \in LeaseRecords /\ m.slot = op[w].slot /\ m.at = op[w].call.now /\ m.by = w
        /\ m.key = op[w].call.key /\ m.fresh = op[w].fresh /\ m.handed = clock
        /\ m.expires = m.at + LeaseTicks
    BY <1>2, LeaseFields
  <2>3. m.at \in Nat /\ m.key \in Keys /\ m.slot \in Slots
    BY <2>2 DEF LeaseRecords
  <2> QED BY <1>2, <2>1, <2>2, <2>3, Zenon
<1> QED BY <1>1, <1>2, LeasesFrom

\* How a grant comes to the step it returns true from.
LEMMA BecameGranted ==
    ASSUME SlotInv, NEW w \in Workers, Moved(w), op'[w].pc = "granted"
    PROVE  /\ op'[w].slot = op[w].slot /\ op'[w].call = op[w].call /\ op[w].slot \in Slots
           /\ leases' = leases /\ granted' = granted
           /\ ~op'[w].fresh =>
                /\ op[w].pc = "casExpires" /\ op[w].observed = expires[op[w].slot]
                /\ expires'[op[w].slot] >= op[w].call.now + LeaseTicks
                /\ expires[op[w].slot] <= op[w].call.now
                /\ Home(op[w].slot) /\ Seen(op[w].slot)
<1>1. /\ op'[w].slot = op[w].slot /\ op'[w].call = op[w].call /\ leases' = leases /\ granted' = granted
      /\ op[w].pc \in {"elsewhere", "casExpires"}
  BY DEF Moved, GrantMoves, CallMoves, WordMoves
<1>2. op[w].slot \in Slots BY <1>1, OpNumbers DEF SlotPcs
<1>3. ASSUME ~op'[w].fresh
      PROVE  /\ op[w].pc = "casExpires" /\ op[w].observed = expires[op[w].slot]
             /\ expires'[op[w].slot] >= op[w].call.now + LeaseTicks
             /\ expires[op[w].slot] <= op[w].call.now
             /\ Home(op[w].slot) /\ Seen(op[w].slot)
  <2>1. /\ op[w].pc = "casExpires" /\ op[w].observed = expires[op[w].slot]
        /\ expires' = At(op[w].slot, ExpiresAt(op[w].call), expires)
    BY <1>3 DEF Moved, GrantMoves
  <2>2. expires'[op[w].slot] >= op[w].call.now + LeaseTicks
    <3>1. op[w].call.now \in Nat BY <2>1, OpNumbers
    <3> QED BY <1>2, <2>1, <3>1, Lengths DEF At, SlotInv, TypeInv, WordsOK
  <2> QED BY <2>1, <2>2 DEF SlotInv, OwnSlot, OwnRead, OwnPcs
<1> QED BY <1>1, <1>2, <1>3

\* The expiry of a slot is further off than the stall its leases began with, after a step.
LEMMA LaterKept ==
    ASSUME LeaseInv, SlotInv', NEW w \in Workers, Moved(w)
    PROVE  Later'
<1>0. SlotInv BY DEF LeaseInv
<1>1. ASSUME NEW m \in leases' PROVE expires'[m.slot] > m.at + MaxStall
  <2>1. CASE \E l \in leases : m.slot = l.slot /\ m.at = l.at
    <3>1. PICK l \in leases : m.slot = l.slot /\ m.at = l.at BY <2>1
    <3>2. expires[l.slot] > l.at + MaxStall BY DEF LeaseInv, Later
    <3>3. l.at \in Nat /\ l.at <= clock /\ l.slot \in Slots BY <1>0, LeaseNumbers
    <3> QED BY <1>0, <3>1, <3>2, <3>3, StoresAfter, Ticks
  <2>2. CASE op[w].pc = "granted" /\ m.slot = op[w].slot /\ m.at = op[w].call.now /\ expires' = expires
    BY <2>2 DEF LeaseInv, Later
  <2> QED BY <1>0, <2>1, <2>2, LeaseBefore
<1>2. ASSUME NEW v \in Workers, op'[v].pc = "granted"
      PROVE  expires'[op'[v].slot] > op'[v].call.now + MaxStall
  <2>1. CASE v # w
    <3>1. op'[v] = op[v] BY <2>1 DEF Moved
    <3>2. expires[op[v].slot] > op[v].call.now + MaxStall BY <1>2, <3>1 DEF LeaseInv, Later
    <3>3. op[v].call.now \in Nat /\ op[v].call.now <= clock /\ op[v].slot \in Slots
      BY <1>0, <1>2, <3>1, OpNumbers DEF SlotPcs
    <3> QED BY <1>0, <3>1, <3>2, <3>3, StoresAfter, Ticks
  <2>2. CASE v = w /\ op'[w].fresh
    <3>1. expires'[op'[w].slot] + MaxStall >= op'[w].call.now + LeaseTicks
      BY <1>2, <2>2 DEF SlotInv, FreshLive
    <3>2. op'[w].slot = op[w].slot /\ op[w].slot \in Slots BY <1>0, <1>2, <2>2, BecameGranted
    <3>3. op'[w].call.now \in Nat BY <1>0, <1>2, <2>2, AgeKept
    <3>4. expires'[op[w].slot] \in Nat BY <1>0, <3>2, StoresAfter
    <3> QED BY <2>2, <3>1, <3>2, <3>3, <3>4, Ticks
  <2>3. CASE v = w /\ ~op'[w].fresh
    <3>1. op'[w].call.now \in Nat BY <1>0, <1>2, <2>3, AgeKept
    <3>2. op'[w].slot \in Slots /\ expires'[op'[w].slot] \in Nat
      BY <1>0, <1>2, <2>3, BecameGranted, StoresAfter
    <3> QED BY <1>0, <1>2, <2>3, <3>1, <3>2, BecameGranted, Ticks
  <2> QED BY <2>1, <2>2, <2>3
<1> QED BY <1>1, <1>2 DEF Later

\* An expiry that a step brings nearer than a lease from now is the one a release shortens.
LEMMA LastingStores ==
    ASSUME SlotInv, NEW w \in Workers, Moved(w), NEW s \in Slots
    PROVE  \/ expires'[s] = expires[s] \/ expires'[s] + MaxStall >= clock + LeaseTicks
           \/ op[w].pc = "relCasExpires" /\ op[w].slot = s /\ op[w].observed = expires[s]
  BY Stores

\* The slot's expiry is as far off as its leases last, after a step.
LEMMA LastingKept ==
    ASSUME LeaseInv, SlotInv', NEW w \in Workers, Moved(w)
    PROVE  Lasting'
<1>0. SlotInv /\ clock' = clock BY DEF LeaseInv, Moved
<1>1. ASSUME NEW m \in leases', ~m.released, m.expires > clock, ~Twinned(m)'
      PROVE  expires'[m.slot] + MaxStall >= m.expires
  <2>1. CASE \E l \in leases : /\ m.slot = l.slot /\ m.at = l.at /\ m.expires = l.expires
                               /\ ~l.released /\ ~Twinned(l)
    <3>1. PICK l \in leases : /\ m.slot = l.slot /\ m.at = l.at /\ m.expires = l.expires
                              /\ ~l.released /\ ~Twinned(l)
      BY <2>1
    <3>2. expires[l.slot] + MaxStall >= l.expires BY <1>1, <3>1 DEF LeaseInv, Lasting
    <3>3. /\ l.at \in Nat /\ l.at <= clock /\ l.expires = l.at + LeaseTicks /\ l.slot \in Slots
      BY <1>0, LeaseNumbers
    <3>4. ~(op[w].pc = "relCasExpires" /\ op[w].slot = l.slot /\ op[w].observed = expires[l.slot])
      BY <1>1, <3>1, ShortensNoLease
    <3>5. CASE expires'[l.slot] = expires[l.slot] BY <3>1, <3>2, <3>5
    <3>6. CASE expires'[l.slot] + MaxStall >= clock + LeaseTicks
      <4>1. clock + LeaseTicks >= l.expires BY <1>0, <3>3, StoresAfter, Ticks
      <4>2. expires'[l.slot] \in Nat /\ clock \in Nat BY <1>0, <3>3, StoresAfter
      <4>3. l.expires \in Nat BY <1>0, LeaseNumbers
      <4> QED BY <3>1, <3>6, <4>1, <4>2, <4>3, Ticks
    <3> QED BY <1>0, <3>3, <3>4, <3>5, <3>6, LastingStores
  <2>2. CASE /\ op[w].pc = "granted" /\ ~op[w].call.held /\ m.slot = op[w].slot /\ m.at = op[w].call.now
             /\ m.expires = m.at + LeaseTicks /\ expires' = expires
    <3>1. CASE op[w].fresh BY <1>0, <2>2, <3>1 DEF SlotInv, FreshLive
    <3>2. CASE ~op[w].fresh BY <2>2, <3>2 DEF LeaseInv, Lasting, Own
    <3> QED BY <3>1, <3>2
  <2> QED BY <1>0, <1>1, <2>1, <2>2, LeaseBefore
<1>2. ASSUME NEW v \in Workers, Own(op'[v])
      PROVE  expires'[op'[v].slot] + MaxStall >= op'[v].call.now + LeaseTicks
  <2>1. CASE v = w
    <3>1. op'[w].pc = "granted" /\ ~op'[w].fresh BY <1>2, <2>1 DEF Own
    <3>2. op'[w].call.now \in Nat BY <1>0, <3>1, AgeKept
    <3>3. expires'[op'[w].slot] \in Nat BY <1>0, <3>1, BecameGranted, StoresAfter
    <3> QED BY <1>0, <2>1, <3>1, <3>2, <3>3, BecameGranted, Ticks
  <2>2. CASE v # w
    <3>1. op'[v] = op[v] /\ op[v].pc = "granted" /\ ~op[v].fresh BY <1>2, <2>2 DEF Moved, Own
    <3>2. expires[op[v].slot] + MaxStall >= op[v].call.now + LeaseTicks
      BY <1>2, <3>1 DEF LeaseInv, Lasting
    <3>3. op[v].call.now \in Nat /\ op[v].call.now <= clock /\ clock \in Nat /\ op[v].slot \in Slots
      BY <1>0, <3>1, OpNumbers DEF SlotPcs
    <3>4. ~(op[w].pc = "relCasExpires" /\ op[w].slot = op[v].slot /\ op[w].observed = expires[op[v].slot])
      BY <1>2, <3>1, ShortensNoGrant
    <3>5. expires'[op[v].slot] \in Nat BY <1>0, <3>3, StoresAfter
    <3>6. CASE expires'[op[v].slot] = expires[op[v].slot] BY <3>1, <3>2, <3>6
    <3>7. CASE expires'[op[v].slot] + MaxStall >= clock + LeaseTicks
      BY <3>1, <3>3, <3>5, <3>7, Ticks
    <3> QED BY <1>0, <3>3, <3>4, <3>6, <3>7, LastingStores
  <2> QED BY <2>1, <2>2
<1> QED BY <1>0, <1>1, <1>2 DEF Lasting

\* A grant into the key's own slot is alone, and later than every lease, after a step.
LEMMA AloneKept ==
    ASSUME LeaseInv, SlotInv', NEW w \in Workers, Moved(w)
    PROVE  Alone'
<1>0. SlotInv BY DEF LeaseInv
<1>1. ASSUME NEW v \in Workers, v # w, op'[w].pc = "granted", ~op'[w].fresh, op[v].pc = "granted", ~op[v].fresh
      PROVE  FALSE
  <2>1. /\ expires[op[w].slot] <= op[w].call.now /\ Home(op[w].slot) /\ op[w].pc = "casExpires"
        /\ op[w].slot \in Slots
    BY <1>0, <1>1, BecameGranted
  <2>2. op[v].slot = op[w].slot BY <1>0, <1>1, <2>1, GrantedSlot
  <2>3. expires[op[v].slot] > op[v].call.now + MaxStall BY <1>1 DEF LeaseInv, Later
  <2>4. op[v].call.now \in Nat /\ clock <= op[v].call.now + MaxStall /\ clock \in Nat BY <1>0, <1>1, OpNumbers
  <2>5. op[w].call.now \in Nat /\ op[w].call.now <= clock BY <1>0, <2>1, OpNumbers
  <2>6. expires[op[w].slot] \in Nat BY <1>0, <2>1, StoresAfter
  <2> QED BY <2>1, <2>2, <2>3, <2>4, <2>5, <2>6, Ticks
<1>2. ASSUME NEW u \in Workers, NEW v \in Workers, op'[u].pc = "granted", ~op'[u].fresh,
             op'[v].pc = "granted", ~op'[v].fresh, u # v
      PROVE  FALSE
  <2>1. CASE u # w /\ v # w BY <1>2, <2>1 DEF Moved, LeaseInv, Alone
  <2>2. CASE u = w BY <1>1, <1>2, <2>2 DEF Moved
  <2>3. CASE v = w BY <1>1, <1>2, <2>3 DEF Moved
  <2> QED BY <2>1, <2>2, <2>3
<1> QED BY <1>2 DEF Alone

\* Two grants about to return: neither is one into the key's own slot.
LEMMA GrantsApart ==
    ASSUME LeaseInv, NEW v \in Workers, NEW w \in Workers, v # w, Own(op[v]), op[w].pc = "granted"
    PROVE  FALSE
<1>1. CASE op[w].fresh
  BY <1>1 DEF LeaseInv, SlotInv, OwnSlot, Seen, Blind, Fresh, Own
<1>2. CASE ~op[w].fresh
  BY <1>2 DEF LeaseInv, Alone, Own
<1> QED BY <1>1, <1>2

\* A lease granted into the key's own slot, and a fresh grant about to return: there is no such state.
LEMMA FreshAlone ==
    ASSUME LeaseInv, NEW w \in Workers, op[w].pc = "granted", op[w].fresh, NEW m \in leases, ~m.fresh
    PROVE  FALSE
  BY DEF LeaseInv, SlotInv, OwnLeases, Seen, Blind, Fresh

\* The order of leases, after a step.
LEMMA OrderedKept ==
    ASSUME LeaseInv, SlotInv', NEW w \in Workers, Moved(w)
    PROVE  Ordered'
<1>0. SlotInv BY DEF LeaseInv
<1>1. ASSUME NEW l \in leases', NEW m \in leases', ~m.fresh, l # m
      PROVE  l.at + MaxStall < m.at \/ (~l.fresh /\ m.at + MaxStall < l.at)
  <2> DEFINE Old(x) == \E y \in leases : x = After(op[w], op'[w], y) /\ x.at = y.at /\ x.fresh = y.fresh
             New(x) == /\ op[w].pc = "granted" /\ ~op[w].call.held /\ x = Lease(w, op[w])
                       /\ x.at = op[w].call.now /\ x.fresh = op[w].fresh
  <2>1. (Old(l) \/ New(l)) /\ (Old(m) \/ New(m)) BY <1>0, LeaseBefore
  <2>2. CASE Old(l) /\ Old(m)
    <3>1. PICK y \in leases : l = After(op[w], op'[w], y) /\ l.at = y.at /\ l.fresh = y.fresh BY <2>2
    <3>2. PICK z \in leases : m = After(op[w], op'[w], z) /\ m.at = z.at /\ m.fresh = z.fresh BY <2>2
    <3>3. y # z BY <1>1, <3>1, <3>2
    <3>4. y.at + MaxStall < z.at \/ (~y.fresh /\ z.at + MaxStall < y.at)
      BY <1>1, <3>2, <3>3 DEF LeaseInv, Ordered
    <3> QED BY <3>1, <3>2, <3>4
  <2>3. CASE New(l) /\ Old(m)
    <3>1. PICK z \in leases : m.at = z.at /\ m.fresh = z.fresh BY <2>3
    <3>2. ~op[w].fresh BY <1>1, <2>3, <3>1, FreshAlone
    <3>3. z.at + MaxStall < op[w].call.now BY <2>3, <3>2 DEF LeaseInv, Ordered, Own
    <3> QED BY <2>3, <3>1, <3>2, <3>3
  <2>4. CASE Old(l) /\ New(m)
    <3>1. PICK y \in leases : l.at = y.at BY <2>4
    <3>2. y.at + MaxStall < op[w].call.now BY <1>1, <2>4 DEF LeaseInv, Ordered, Own
    <3> QED BY <2>4, <3>1, <3>2
  <2>5. CASE New(l) /\ New(m) BY <1>1, <2>5
  <2> HIDE DEF Old, New
  <2> QED BY <2>1, <2>2, <2>3, <2>4, <2>5
<1>2. ASSUME NEW v \in Workers, NEW m \in leases', Own(op'[v])
      PROVE  m.at + MaxStall < op'[v].call.now
  <2>1. CASE v = w
    <3>1. op'[w].pc = "granted" /\ ~op'[w].fresh BY <1>2, <2>1 DEF Own
    <3>2. /\ op'[w].call = op[w].call /\ leases' = leases /\ expires[op[w].slot] <= op[w].call.now
          /\ Home(op[w].slot) /\ op[w].slot \in Slots
      BY <1>0, <3>1, BecameGranted
    <3>3. m \in leases /\ m.slot = op[w].slot BY <3>2, <1>0, HomeUnique DEF SlotInv, LeaseHome
    <3>4. expires[m.slot] > m.at + MaxStall BY <3>3 DEF LeaseInv, Later
    <3>5. m.at \in Nat /\ expires[op[w].slot] \in Nat BY <1>0, <3>2, <3>3, LeaseNumbers, StoresAfter
    <3>6. op'[w].call.now \in Nat BY <1>0, <3>1, AgeKept
    <3> QED BY <2>1, <3>2, <3>3, <3>4, <3>5, <3>6, Ticks
  <2>2. CASE v # w
    <3>1. op'[v] = op[v] BY <2>2 DEF Moved
    <3>2. CASE \E y \in leases : m.at = y.at
      BY <1>2, <3>1, <3>2 DEF LeaseInv, Ordered
    <3>3. CASE op[w].pc = "granted"
      BY <1>2, <2>2, <3>1, <3>3, GrantsApart
    <3> QED BY <1>0, <3>2, <3>3, LeaseBefore
  <2> QED BY <2>1, <2>2
<1> QED BY <1>1, <1>2 DEF Ordered

\* A lease granted into the key's own slot comes when those before it are over, after a step.
LEMMA OverKept ==
    ASSUME LeaseInv, SlotInv', NEW w \in Workers, Moved(w)
    PROVE  Over'
<1>0. SlotInv BY DEF LeaseInv
<1>1. ASSUME NEW l \in leases', NEW m \in leases', ~l.released, ~m.fresh, l # m, l.at <= m.at, ~Twinned(l)'
      PROVE  m.at + MaxStall >= l.expires
  <2> DEFINE Old(x) == \E y \in leases : /\ x = After(op[w], op'[w], y) /\ x.at = y.at /\ x.fresh = y.fresh
                                         /\ x.expires = y.expires /\ (~x.released => ~y.released)
                                         /\ (~x.released /\ ~Twinned(x)' => ~Twinned(y))
             New(x) == /\ op[w].pc = "granted" /\ ~op[w].call.held /\ x = Lease(w, op[w])
                       /\ x.at = op[w].call.now /\ x.fresh = op[w].fresh
  <2>1. Old(l) \/ New(l)
    <3>1. CASE \E y \in leases : /\ l = After(op[w], op'[w], y) /\ l.at = y.at /\ l.fresh = y.fresh
                                 /\ l.expires = y.expires /\ (~l.released => ~y.released)
                                 /\ (~l.released /\ ~Twinned(l)' => ~Twinned(y))
      BY <3>1
    <3> HIDE DEF Old
    <3> QED BY <1>0, <3>1, LeaseBefore DEF Old
  <2>2. (\E z \in leases : m = After(op[w], op'[w], z) /\ m.at = z.at /\ m.fresh = z.fresh) \/ New(m)
    BY <1>0, LeaseBefore
  <2>3. CASE Old(l) /\ \E z \in leases : m = After(op[w], op'[w], z) /\ m.at = z.at /\ m.fresh = z.fresh
    <3>1. PICK y \in leases : /\ l = After(op[w], op'[w], y) /\ l.at = y.at /\ l.expires = y.expires
                              /\ ~y.released /\ ~Twinned(y)
      BY <1>1, <2>3
    <3>2. PICK z \in leases : m = After(op[w], op'[w], z) /\ m.at = z.at /\ m.fresh = z.fresh BY <2>3
    <3>3. y # z BY <1>1, <3>1, <3>2
    <3>4. z.at + MaxStall >= y.expires
      BY <1>1, <3>1, <3>2, <3>3 DEF LeaseInv, Over
    <3> QED BY <3>1, <3>2, <3>4
  <2>4. CASE New(l) /\ \E z \in leases : m.at = z.at /\ m.fresh = z.fresh
    <3>1. PICK z \in leases : m.at = z.at /\ m.fresh = z.fresh BY <2>4
    <3>2. ~op[w].fresh BY <1>1, <2>4, <3>1, FreshAlone
    <3>3. z.at + MaxStall < op[w].call.now BY <2>4, <3>2 DEF LeaseInv, Ordered, Own
    <3>4. z.at \in Nat /\ op[w].call.now \in Nat BY <1>0, <2>4, LeaseNumbers, OpNumbers
    <3> QED BY <1>1, <2>4, <3>1, <3>3, <3>4, Ticks
  <2>5. CASE Old(l) /\ New(m)
    <3>1. PICK y \in leases : l.at = y.at /\ l.expires = y.expires /\ ~y.released /\ ~Twinned(y)
      BY <1>1, <2>5
    <3>2. op[w].call.now + MaxStall >= y.expires BY <1>1, <2>5, <3>1 DEF LeaseInv, Over, Own
    <3> QED BY <2>5, <3>1, <3>2
  <2>6. CASE New(l) /\ New(m) BY <1>1, <2>6
  <2> HIDE DEF Old, New
  <2> QED BY <2>1, <2>2, <2>3, <2>4, <2>5, <2>6
<1>2. ASSUME NEW v \in Workers, NEW m \in leases', Own(op'[v]), ~m.released, ~Twinned(m)'
      PROVE  op'[v].call.now + MaxStall >= m.expires
  <2>1. CASE v = w
    <3>1. op'[w].pc = "granted" /\ ~op'[w].fresh BY <1>2, <2>1 DEF Own
    <3>2. /\ op'[w].call = op[w].call /\ leases' = leases /\ expires[op[w].slot] <= op[w].call.now
          /\ Home(op[w].slot) /\ op[w].slot \in Slots
      BY <1>0, <3>1, BecameGranted
    <3>3. m \in leases /\ m.slot = op[w].slot BY <3>2, <1>0, HomeUnique DEF SlotInv, LeaseHome
    <3>4. ~Twinned(m) BY <1>2, <3>2 DEF Twinned
    <3>5. m.expires \in Nat /\ expires[op[w].slot] \in Nat /\ clock \in Nat
      BY <1>0, <3>2, <3>3, LeaseNumbers, StoresAfter
    <3>6. op'[w].call.now \in Nat /\ clock <= op'[w].call.now + MaxStall BY <1>0, <3>1, AgeKept
    <3>7. CASE m.expires > clock
      <4>1. expires[m.slot] + MaxStall >= m.expires BY <1>2, <3>3, <3>4, <3>7 DEF LeaseInv, Lasting
      <4> QED BY <2>1, <3>2, <3>3, <3>5, <3>6, <4>1, Ticks
    <3>8. CASE ~(m.expires > clock) BY <2>1, <3>5, <3>6, <3>8, Ticks
    <3> QED BY <3>7, <3>8
  <2>2. CASE v # w
    <3>1. op'[v] = op[v] BY <2>2 DEF Moved
    <3>2. CASE \E y \in leases : m.expires = y.expires /\ ~y.released /\ ~Twinned(y)
      BY <1>2, <3>1, <3>2 DEF LeaseInv, Over
    <3>3. CASE op[w].pc = "granted"
      BY <1>2, <2>2, <3>1, <3>3, GrantsApart
    <3> QED BY <1>0, <1>2, <3>2, <3>3, LeaseBefore
  <2> QED BY <2>1, <2>2
<1> QED BY <1>1, <1>2 DEF Over

\* Fresh leases are twins, after a step.
LEMMA FreshTwinsKept ==
    ASSUME OneKey, LeaseInv, SlotInv', NEW w \in Workers, Moved(w)
    PROVE  FreshTwins'
<1>0. SlotInv BY DEF LeaseInv
<1> DEFINE Old(x) == \E y \in leases : /\ x = After(op[w], op'[w], y) /\ x.at = y.at /\ x.fresh = y.fresh
                                       /\ x.slot = y.slot /\ x.key = y.key /\ x.by = y.by /\ x.handed = y.handed
           New(x) == /\ op[w].pc = "granted" /\ x = Lease(w, op[w]) /\ x.slot = op[w].slot
                     /\ x.at = op[w].call.now /\ x.fresh = op[w].fresh /\ x.by = w /\ x.key = op[w].call.key
                     /\ x.handed = clock /\ x.key \in Keys
<1>1. \A x \in leases' : Old(x) \/ New(x) BY <1>0, LeaseBefore
<1>2. ASSUME NEW l \in leases', NEW m \in leases', l.fresh, m.fresh, l # m, Old(l), Old(m)
      PROVE  Twins(l, m) /\ l.by # m.by
  <2>1. PICK y \in leases : /\ l = After(op[w], op'[w], y) /\ l.at = y.at /\ l.fresh = y.fresh
                            /\ l.slot = y.slot /\ l.key = y.key /\ l.by = y.by /\ l.handed = y.handed
    BY <1>2
  <2>2. PICK z \in leases : /\ m = After(op[w], op'[w], z) /\ m.at = z.at /\ m.fresh = z.fresh
                            /\ m.slot = z.slot /\ m.key = z.key /\ m.by = z.by /\ m.handed = z.handed
    BY <1>2
  <2>3. y # z BY <1>2, <2>1, <2>2
  <2>4. Twins(y, z) /\ y.by # z.by BY <1>2, <2>1, <2>2, <2>3 DEF LeaseInv, FreshTwins
  <2> QED BY <1>2, <2>1, <2>2, <2>4 DEF Twins
<1>3. ASSUME NEW l \in leases', NEW m \in leases', l.fresh, m.fresh, l # m, Old(l), New(m)
      PROVE  Twins(l, m) /\ Twins(m, l) /\ l.by # m.by
  <2>1. PICK y \in leases : /\ l.at = y.at /\ l.fresh = y.fresh
                            /\ l.slot = y.slot /\ l.key = y.key /\ l.by = y.by /\ l.handed = y.handed
    BY <1>3
  <2>2. Home(y.slot) BY <1>0 DEF SlotInv, LeaseHome
  <2>3. m.slot = y.slot BY <1>0, <1>3, <2>2, GrantedSlot
  <2>4. Blind(op[w], y.slot) BY <1>3 DEF Blind, Fresh
  <2>5. op[w].call.now <= y.handed /\ w # y.by BY <1>0, <2>4 DEF SlotInv, Handed
  <2>6. /\ y.at \in Nat /\ y.handed \in Nat /\ y.at <= y.handed /\ y.handed <= clock /\ clock \in Nat
        /\ y.key \in Keys
    BY <1>0, LeaseNumbers
  <2>7. y.key = m.key BY <1>3, <2>6 DEF OneKey
  <2> QED BY <1>3, <2>1, <2>3, <2>5, <2>6, <2>7 DEF Twins
<1>4. ASSUME NEW l \in leases', NEW m \in leases', New(l), New(m) PROVE l = m
  BY <1>4
<1> HIDE DEF Old, New
<1> QED BY <1>1, <1>2, <1>3, <1>4 DEF FreshTwins

\* The stamp of the slot, after a step.
LEMMA StampsKept ==
    ASSUME LeaseInv, SlotInv', NEW w \in Workers, Moved(w)
    PROVE  Stamps'
<1>0. SlotInv BY DEF LeaseInv
<1>1. /\ granted \in [Slots -> Nat] /\ clock \in Nat
      /\ GrantMoves(op[w], op'[w]) /\ CallMoves(op[w], op'[w]) /\ WordMoves(w, op[w], op'[w])
  BY <1>0, Ticks DEF SlotInv, TypeInv, WordsOK, Moved
<1>2. ASSUME NEW s \in Slots
      PROVE  granted'[s] = granted[s] \/ granted'[s] = 0 \/ granted'[s] + MaxStall >= clock
  <2>1. CASE granted' = granted BY <2>1
  <2>2. CASE op[w].pc \in {"storeStamp", "freshPayload"}
             /\ granted' \in {At(op[w].slot, 0, granted), At(op[w].slot, op[w].call.now, granted)}
    <3>1. op[w].slot \in Slots /\ clock <= op[w].call.now + MaxStall
      BY <1>0, <2>2, OpNumbers DEF SlotPcs
    <3> QED BY <1>1, <2>2, <3>1 DEF At
  <2> QED BY <1>1, <2>1, <2>2 DEF WordMoves, GrantMoves
<1>3. ASSUME NEW s \in Slots, NEW at, at \in Nat, at <= clock, Stamped(s, at)
      PROVE  granted'[s] = 0 \/ granted'[s] + MaxStall >= at
  <2>1. granted'[s] \in Nat BY DEF SlotInv, TypeInv, WordsOK
  <2> QED BY <1>1, <1>2, <1>3, <2>1, Ticks DEF Stamped
<1>4. ASSUME NEW m \in leases', ~m.fresh PROVE granted'[m.slot] = 0 \/ granted'[m.slot] + MaxStall >= m.at
  <2>1. CASE \E l \in leases : m.slot = l.slot /\ m.at = l.at /\ m.fresh = l.fresh
    <3>1. PICK l \in leases : m.slot = l.slot /\ m.at = l.at /\ m.fresh = l.fresh BY <2>1
    <3>2. Stamped(l.slot, l.at) BY <1>4, <3>1 DEF LeaseInv, Stamps
    <3>3. l.slot \in Slots /\ l.at \in Nat /\ l.at <= clock
      <4>1. l.at <= l.handed /\ l.handed <= clock /\ l.at \in Nat /\ l.handed \in Nat /\ l.slot \in Slots
        BY <1>0, LeaseNumbers
      <4> QED BY <1>1, <4>1
    <3> QED BY <1>3, <3>1, <3>2, <3>3
  <2>2. CASE /\ op[w].pc = "granted" /\ ~op[w].call.held /\ m.slot = op[w].slot /\ m.at = op[w].call.now
             /\ m.fresh = op[w].fresh /\ granted' = granted
    <3>1. Stamped(op[w].slot, op[w].call.now) BY <1>4, <2>2 DEF LeaseInv, Stamps, Own
    <3> QED BY <2>2, <3>1 DEF Stamped
  <2> QED BY <1>0, <2>1, <2>2, LeaseBefore
<1>5. ASSUME NEW v \in Workers, Own(op'[v]) \/ (op'[v].pc = "casExpires" /\ ~op'[v].call.held)
      PROVE  granted'[op'[v].slot] = 0 \/ granted'[op'[v].slot] + MaxStall >= op'[v].call.now
  <2>1. CASE v # w
    <3>1. op'[v] = op[v] BY <2>1 DEF Moved
    <3>2. Stamped(op[v].slot, op[v].call.now) BY <1>5, <3>1 DEF LeaseInv, Stamps
    <3>3. op[v].slot \in Slots /\ op[v].call.now \in Nat /\ op[v].call.now <= clock
      BY <1>0, <1>5, <3>1, OpNumbers DEF SlotPcs, Own
    <3> QED BY <1>3, <3>1, <3>2, <3>3
  <2>2. CASE v = w /\ op'[w].pc = "casExpires"
    <3>1. /\ op[w].pc = "storeStamp" /\ granted' = At(op[w].slot, op[w].call.now, granted)
          /\ op'[w].slot = op[w].slot /\ op'[w].call = op[w].call
      BY <1>1, <1>5, <2>2 DEF GrantMoves, CallMoves, Own
    <3>2. op[w].slot \in Slots /\ op[w].call.now \in Nat BY <1>0, <3>1, OpNumbers DEF SlotPcs
    <3>3. granted'[op[w].slot] = op[w].call.now BY <1>1, <3>1, <3>2 DEF At
    <3> QED BY <2>2, <3>1, <3>2, <3>3, Ticks
  <2>3. CASE v = w /\ op'[w].pc = "granted" /\ ~op'[w].fresh /\ ~op'[w].call.held
    <3>1. /\ op[w].pc = "casExpires" /\ op'[w].slot = op[w].slot /\ op'[w].call = op[w].call
          /\ granted' = granted
      BY <1>0, <2>3, BecameGranted
    <3>2. Stamped(op[w].slot, op[w].call.now) BY <2>3, <3>1 DEF LeaseInv, Stamps
    <3> QED BY <2>3, <3>1, <3>2 DEF Stamped
  <2> QED BY <1>5, <2>1, <2>2, <2>3 DEF Own
<1> QED BY <1>4, <1>5 DEF Stamps, Stamped

\* A release and the lease it is about: the lease was stamped before the render.
LEMMA StampBefore ==
    ASSUME SlotInv, NEW r \in Workers, op[r].pc \in RelOwnPcs, NEW v \in Workers, op[v].pc # "idle"
    PROVE  op[r].call.stamp + MaxStall < clock /\ op[v].call.now # op[r].call.stamp
<1>1. PICK n \in Named(op[r]) : TRUE BY DEF SlotInv, ReleaseNamed
<1>2. n \in leases /\ n.at = op[r].call.stamp /\ n.handed + RenderTicks <= op[r].call.now BY <1>1 DEF Named
<1>3. op[r].call.now \in Nat /\ op[r].call.now <= clock /\ clock \in Nat BY OpNumbers DEF RelOwnPcs
<1>4. clock <= op[v].call.now + MaxStall /\ op[v].call.now \in Nat BY OpNumbers
<1> QED BY <1>2, <1>3, <1>4, LeaseNumbers, Ticks

\* What a release has released, and what it has read, after a step.
LEMMA ClaimsReadKept ==
    ASSUME OneKey, LeaseInv, SlotInv', NEW w \in Workers, Moved(w)
    PROVE  ReleaseClaims' /\ ReleaseRead'
<1>0. SlotInv /\ clock \in Nat BY DEF LeaseInv, SlotInv, TypeInv, WordsOK
<1>1. ReleaseMoves(op[w], op'[w]) /\ CallMoves(op[w], op'[w]) /\ WordMoves(w, op[w], op'[w])
  BY DEF Moved
<1>2. ASSUME NEW v \in Workers, op'[v].pc = "relCasExpires", NEW m \in leases', m.at = op'[v].call.stamp
      PROVE  m.released = TRUE
  <2>1. CASE v = w
    <3>1. leases' = Flagged(op[w]) /\ op[w].pc = "relCasDue" /\ op'[w].call = op[w].call
      BY <1>1, <1>2, <2>1 DEF ReleaseMoves, CallMoves
    <3>2. PICK l \in leases : m = IF l.key = op[w].call.key /\ l.at = op[w].call.stamp
                                  THEN [l EXCEPT !.released = TRUE] ELSE l
      BY <3>1 DEF Flagged
    <3>3. l \in LeaseRecords BY <1>0 DEF SlotInv, LeasesOK
    <3>4. l.key \in Keys /\ m.at = l.at BY <3>2, <3>3 DEF LeaseRecords
    <3>5. op[w].call.key \in Keys BY <1>0, <3>1, OpFields DEF SlotPcs, SlotInv, TypeInv, OpsOK
    <3>6. m = [l EXCEPT !.released = TRUE] BY <1>2, <2>1, <3>1, <3>2, <3>4, <3>5 DEF OneKey
    <3> QED BY <3>3, <3>6 DEF LeaseRecords
  <2>2. CASE v # w
    <3>1. op'[v] = op[v] BY <2>2 DEF Moved
    <3>2. CASE \E l \in leases : m.at = l.at /\ Like(l, m)
      BY <1>2, <3>1, <3>2 DEF LeaseInv, ReleaseClaims, Like
    <3>3. CASE op[w].pc = "granted" /\ m.at = op[w].call.now
      BY <1>0, <1>2, <3>1, <3>3, StampBefore DEF RelOwnPcs
    <3> QED BY <1>0, <3>2, <3>3, LeaseBefore
  <2> QED BY <2>1, <2>2
<1>3. ASSUME NEW v \in Workers, op'[v].pc \in RelOwnPcs \cup {"relCheck"}
      PROVE  op'[v].observed = expires'[op'[v].slot] \/ expires'[op'[v].slot] > op'[v].call.now + MaxStall
  <2>1. CASE v = w
    <3>1. expires' = expires /\ op'[w].slot = op[w].slot /\ op'[w].call = op[w].call
          /\ (op'[w].observed = expires[op[w].slot]
                \/ (op[w].pc \in RelOwnPcs \cup {"relCheck"} /\ op'[w].observed = op[w].observed))
      BY <1>1, <1>3, <2>1 DEF ReleaseMoves, CallMoves, WordMoves, RelOwnPcs
    <3> QED BY <2>1, <3>1 DEF LeaseInv, ReleaseRead
  <2>2. CASE v # w
    <3>1. op'[v] = op[v] BY <2>2 DEF Moved
    <3>2. op[v].observed = expires[op[v].slot] \/ expires[op[v].slot] > op[v].call.now + MaxStall
      BY <1>3, <3>1 DEF LeaseInv, ReleaseRead
    <3>3. op[v].call.now \in Nat /\ op[v].call.now <= clock /\ op[v].slot \in Slots
      BY <1>0, <1>3, <3>1, OpNumbers DEF SlotPcs, RelOwnPcs
    <3> QED BY <1>0, <3>1, <3>2, <3>3, StoresAfter, Ticks
  <2> QED BY <2>1, <2>2
<1> QED BY <1>2, <1>3 DEF ReleaseClaims, ReleaseRead

\* When a release has found its stamp in the slot, no lease of the key's own slot is later than it.
LEMMA CheckedLast ==
    ASSUME OneKey, LeaseInv, NEW w \in Workers, op[w].pc = "relCheck",
           Holds(op[w].slot, op[w].call.key), granted[op[w].slot] = op[w].call.stamp
    PROVE  /\ \A m \in leases : ~m.fresh => ~(m.at > op[w].call.stamp)
           /\ \A v \in Workers : ~Own(op[v])
<1>0. SlotInv BY DEF LeaseInv
<1>1. op[w].slot \in Slots /\ op[w].call.key \in Keys /\ op[w].call.stamp \in 1 .. MaxClock
  BY <1>0, OpFields DEF SlotInv, TypeInv, OpsOK, SlotPcs
<1>2. op[w].slot \in Keyed BY <1>1 DEF Holds, Keyed
<1>3. PICK n \in Named(op[w]) : TRUE BY <1>0 DEF SlotInv, ReleaseNamed
<1>4. n \in leases /\ n.at = op[w].call.stamp BY DEF Named
<1>5. n.slot = op[w].slot BY <1>0, <1>2, CheckedHome
<1>6. n.at \in Nat /\ n.at # 0 /\ granted[n.slot] = n.at BY <1>1, <1>4, <1>5 DEF LeaseInv
<1>7. ASSUME NEW m \in leases, ~m.fresh, m.at > n.at PROVE FALSE
  <2>1. m.slot = n.slot BY <1>0, <1>4, OneSlot
  <2>2. Stamped(m.slot, m.at) BY <1>7 DEF LeaseInv, Stamps
  <2>3. n.at + MaxStall >= m.at BY <1>6, <2>1, <2>2 DEF Stamped
  <2>4. m.at \in Nat /\ n # m BY <1>0, <1>6, <1>7, LeaseNumbers
  <2>5. n.at + MaxStall < m.at \/ m.at + MaxStall < n.at BY <1>4, <1>7, <2>4 DEF LeaseInv, Ordered
  <2> QED BY <1>6, <1>7, <2>3, <2>4, <2>5, Ticks
<1>8. ASSUME NEW v \in Workers, Own(op[v]) PROVE FALSE
  <2>1. op[v].pc = "granted" /\ Home(n.slot) BY <1>0, <1>4, <1>8 DEF Own, SlotInv, LeaseHome
  <2>2. op[v].slot = n.slot BY <1>0, <2>1, GrantedSlot
  <2>3. Stamped(op[v].slot, op[v].call.now) BY <1>8 DEF LeaseInv, Stamps
  <2>4. n.at + MaxStall >= op[v].call.now BY <1>6, <2>2, <2>3 DEF Stamped
  <2>5. n.at + MaxStall < op[v].call.now BY <1>4, <1>8 DEF LeaseInv, Ordered
  <2>6. op[v].call.now \in Nat BY <1>0, <2>1, OpNumbers
  <2> QED BY <1>6, <2>4, <2>5, <2>6, Ticks
<1> QED BY <1>4, <1>7, <1>8

\* What a release has read is of a time before every later lease, after a step.
LEMMA SparesKept ==
    ASSUME OneKey, LeaseInv, SlotInv', NEW w \in Workers, Moved(w)
    PROVE  ReleaseSpares'
<1>0. SlotInv /\ clock \in Nat BY DEF LeaseInv, SlotInv, TypeInv, WordsOK
<1>1. ReleaseMoves(op[w], op'[w]) /\ CallMoves(op[w], op'[w]) /\ WordMoves(w, op[w], op'[w])
  BY DEF Moved
<1>2. ASSUME NEW v \in Workers, op'[v].pc \in RelOwnPcs, NEW m \in leases', ~m.fresh, m.at > op'[v].call.stamp
      PROVE  op'[v].observed <= m.at
  <2>1. CASE \E l \in leases : m.at = l.at /\ m.fresh = l.fresh
    <3>1. PICK l \in leases : m.at = l.at /\ m.fresh = l.fresh BY <2>1
    <3>2. CASE v = w /\ op'[w].pc = "relDue"
      <4>1. /\ op[w].pc = "relCheck" /\ Holds(op[w].slot, op[w].call.key) /\ op'[w].call = op[w].call
            /\ granted[op[w].slot] = op[w].call.stamp
        BY <1>1, <3>2 DEF ReleaseMoves, CallMoves
      <4> QED BY <1>2, <3>1, <3>2, <4>1, CheckedLast
    <3>3. CASE ~(v = w /\ op'[w].pc = "relDue")
      <4>1. op[v].pc \in RelOwnPcs /\ op'[v].observed = op[v].observed /\ op'[v].call = op[v].call
        BY <1>1, <1>2, <3>3 DEF ReleaseMoves, CallMoves, RelOwnPcs, Moved
      <4> QED BY <1>2, <3>1, <4>1 DEF LeaseInv, ReleaseSpares
    <3> QED BY <3>2, <3>3
  <2>2. CASE op[w].pc = "granted" /\ ~op[w].call.held /\ m.at = op[w].call.now /\ m.fresh = op[w].fresh
             /\ op'[w].pc = "idle"
    <3>1. op'[v] = op[v] BY <1>2, <2>2 DEF Moved, RelOwnPcs
    <3> QED BY <1>2, <2>2, <3>1 DEF LeaseInv, ReleaseSpares, Own
  <2> QED BY <1>0, <2>1, <2>2, LeaseBefore
<1>3. ASSUME NEW v \in Workers, op'[v].pc \in RelOwnPcs, NEW u \in Workers, Own(op'[u])
      PROVE  op'[v].observed <= op'[u].call.now
  <2>1. CASE u = w
    <3>1. op'[w].pc = "granted" /\ ~op'[w].fresh /\ v # w BY <1>3, <2>1 DEF Own, RelOwnPcs
    <3>2. /\ op'[w].call = op[w].call /\ expires[op[w].slot] <= op[w].call.now
          /\ Home(op[w].slot) /\ op[w].slot \in Slots /\ op[w].pc = "casExpires"
      BY <1>0, <3>1, BecameGranted
    <3>3. op'[v] = op[v] BY <3>1 DEF Moved
    <3>4. op[v].slot = op[w].slot BY <1>0, <1>3, <3>2, <3>3, ReleaseSees, HomeUnique
    <3>5. op[v].observed = expires[op[v].slot] \/ expires[op[v].slot] > op[v].call.now + MaxStall
      BY <1>3, <3>3 DEF LeaseInv, ReleaseRead
    <3>6. op[v].call.now \in Nat /\ clock <= op[v].call.now + MaxStall
      BY <1>0, <1>3, <3>3, OpNumbers DEF RelOwnPcs
    <3>7. op[w].call.now \in Nat /\ op[w].call.now <= clock BY <1>0, <3>2, OpNumbers
    <3>8. expires[op[w].slot] \in Nat BY <1>0, <3>2, StoresAfter
    <3> QED BY <1>0, <2>1, <3>2, <3>3, <3>4, <3>5, <3>6, <3>7, <3>8, Ticks
  <2>2. CASE u # w
    <3>1. op'[u] = op[u] BY <2>2 DEF Moved
    <3>2. CASE v = w /\ op'[w].pc = "relDue"
      <4>1. /\ op[w].pc = "relCheck" /\ Holds(op[w].slot, op[w].call.key)
            /\ granted[op[w].slot] = op[w].call.stamp
        BY <1>1, <3>2 DEF ReleaseMoves
      <4> QED BY <1>3, <3>1, <4>1, CheckedLast
    <3>3. CASE ~(v = w /\ op'[w].pc = "relDue")
      <4>1. op[v].pc \in RelOwnPcs /\ op'[v].observed = op[v].observed
        BY <1>1, <1>3, <3>3 DEF ReleaseMoves, CallMoves, RelOwnPcs, Moved
      <4> QED BY <1>3, <3>1, <4>1 DEF LeaseInv, ReleaseSpares
    <3> QED BY <3>2, <3>3
  <2> QED BY <2>1, <2>2
<1> QED BY <1>2, <1>3 DEF ReleaseSpares

\* A step of a worker keeps everything that is known of the leases.
LEMMA LeaseInvKept ==
    ASSUME OneKey, LeaseInv, TypeInv', NEW w \in Workers, Moved(w)
    PROVE  LeaseInv'
<1>1. SlotInv' BY SlotInvKept DEF LeaseInv
<1> QED BY <1>1, LaterKept, LastingKept, AloneKept, OrderedKept, OverKept, FreshTwinsKept, StampsKept,
           ClaimsReadKept, SparesKept DEF LeaseInv

-----------------------------------------------------------------------------
(* The invariant holds, and what follows from it *)

\* The table begins without a lease, a grant or a slot that holds the key.
LEMMA LeaseInvInit == Init => LeaseInv
<1> SUFFICES ASSUME Init PROVE LeaseInv
  OBVIOUS
<1>1. TypeInv BY TypeInit
<1>2. leases = {} /\ \A w \in Workers : op[w] = Idle
  BY DEF Init
<1>3. \A w \in Workers : op[w].pc = "idle"
  BY <1>2 DEF Idle
<1>4. Keyed = {}
  BY LeaseAssumption DEF Init, Keyed
<1>5. \A w \in Workers : \A s : ~Blind(op[w], s)
  BY <1>3, BlindPcs
<1>6. LeasesOK /\ Age /\ Pair /\ HighWords /\ BlindLive
  BY <1>2, <1>3, <1>4 DEF LeasesOK, Age, Pair, HighWords, BlindLive, GrantPcs
<1>7. FreshLive /\ ClaimElsewhere /\ ClaimBack /\ ClaimGranted /\ Settled
  BY <1>3, <1>4 DEF FreshLive, ClaimElsewhere, ClaimBack, ClaimGranted, Settled
<1>8. LeaseHome /\ ReadOK /\ OwnSlot /\ OwnRead
  BY <1>2, <1>3 DEF LeaseHome, ReadOK, OwnSlot, OwnRead, OwnPcs
<1>9. Handed /\ OwnLeases /\ ReleaseNamed
  BY <1>2, <1>3 DEF Handed, OwnLeases, ReleaseNamed, RelOwnPcs
<1>10. \A w \in Workers : ~Own(op[w])
  BY <1>3 DEF Own
<1>11. Later /\ Lasting /\ Alone /\ Ordered /\ Over /\ FreshTwins /\ Stamps
  BY <1>2, <1>3, <1>10 DEF Later, Lasting, Alone, Ordered, Over, FreshTwins, Stamps
<1>12. ReleaseClaims /\ ReleaseRead /\ ReleaseSpares
  BY <1>3 DEF ReleaseClaims, ReleaseRead, ReleaseSpares, RelOwnPcs
<1> QED BY <1>1, <1>6, <1>7, <1>8, <1>9, <1>11, <1>12 DEF LeaseInv, SlotInv

\* What depends on the words, the operations and the leases alone stays with them.
LEMMA LeaseInvStill ==
    ASSUME LeaseInv, TypeInv', LeasesOK', Age', UNCHANGED <<slotVars, op, leases>>, clock' \in {clock, clock + 1}
    PROVE  LeaseInv'
<1>1. UNCHANGED <<lo, hi, expires, granted, op, leases>>
  BY DEF slotVars
<1>2. SlotInv /\ clock \in Nat
  BY DEF LeaseInv, SlotInv, TypeInv, WordsOK
<1>3. Keyed' = Keyed
  BY <1>1 DEF Keyed
<1>4. ASSUME NEW s PROVE Home(s) => Home(s)'
  BY <1>1, <1>3 DEF Home, Sole, Claims, Blind, Fresh, Passed
<1>5. Pair' /\ HighWords' /\ BlindLive' /\ FreshLive'
  BY <1>1, <1>2, <1>3 DEF SlotInv, Pair, HighWords, BlindLive, FreshLive, Blind, Fresh, Passed
<1>6. ClaimElsewhere' /\ ClaimBack' /\ ClaimGranted'
  BY <1>1, <1>2, <1>3
      DEF SlotInv, ClaimElsewhere, ClaimBack, ClaimGranted, Blind, Fresh, Passed, Sole, Claims
<1>7. Settled'
  BY <1>1, <1>2, <1>3, <1>4 DEF SlotInv, Settled, Claims, Returned
<1>8. LeaseHome' /\ OwnRead'
  BY <1>1, <1>2, <1>4 DEF SlotInv, LeaseHome, OwnRead
<1>9. ReadOK'
  BY <1>1, <1>2, <1>4 DEF SlotInv, ReadOK
<1>10. OwnSlot'
  BY <1>1, <1>2, <1>4 DEF SlotInv, OwnSlot, Seen, Blind, Fresh, Passed
<1>11. Handed' /\ OwnLeases' /\ ReleaseNamed'
  BY <1>1, <1>2 DEF SlotInv, Handed, OwnLeases, ReleaseNamed, Named, Seen, Blind, Fresh, Passed
<1>12. SlotInv'
  BY <1>5, <1>6, <1>7, <1>8, <1>9, <1>10, <1>11 DEF SlotInv
<1>13. Later' /\ Alone' /\ Ordered' /\ Over' /\ FreshTwins' /\ Stamps'
  BY <1>1 DEF LeaseInv, Later, Alone, Ordered, Over, FreshTwins, Stamps, Own, Twinned, Stamped
<1>14. Lasting'
  <2>1. ASSUME NEW l \in leases, ~l.released, l.expires > clock', ~Twinned(l)
        PROVE  expires[l.slot] + MaxStall >= l.expires
    <3>1. l.expires > clock BY <1>2, <2>1, LeaseNumbers
    <3> QED BY <2>1, <3>1 DEF LeaseInv, Lasting
  <2>2. \A l \in leases : Twinned(l)' <=> Twinned(l) BY <1>1 DEF Twinned
  <2> QED BY <1>1, <2>1, <2>2 DEF LeaseInv, Lasting, Own
<1>15. ReleaseClaims' /\ ReleaseRead' /\ ReleaseSpares'
  BY <1>1 DEF LeaseInv, ReleaseClaims, ReleaseRead, ReleaseSpares, Own
<1> QED BY <1>12, <1>13, <1>14, <1>15 DEF LeaseInv

\* A tick finds no operation older than a stall.
LEMMA LeaseInvTick ==
    ASSUME LeaseInv, TypeInv', Tick
    PROVE  LeaseInv'
<1>1. UNCHANGED <<slotVars, op, leases>> /\ clock' = clock + 1
  BY DEF Tick
<1>2. SlotInv /\ clock \in Nat
  BY DEF LeaseInv, SlotInv, TypeInv, WordsOK
<1>3. LeasesOK'
  <2>1. \A l \in leases : l.handed <= clock' BY <1>1, <1>2, LeaseNumbers
  <2> QED BY <1>1, <1>2, <2>1 DEF SlotInv, LeasesOK
<1>4. Age'
  <2>1. ASSUME NEW w \in Workers, op[w].pc # "idle"
        PROVE  op[w].call.now <= clock' /\ clock' <= op[w].call.now + MaxStall
    <3>1. clock - op[w].call.now < MaxStall BY <2>1 DEF Tick, Busy
    <3>2. op[w].call.now \in Nat /\ op[w].call.now <= clock BY <1>2, <2>1, OpNumbers
    <3> QED BY <1>1, <1>2, <3>1, <3>2, Ticks
  <2> QED BY <1>1, <2>1 DEF Age
<1> QED BY <1>1, <1>3, <1>4, LeaseInvStill

\* Every step keeps the invariant.
LEMMA LeaseInvInductive ==
    ASSUME OneKey
    PROVE  LeaseInv /\ [Next]_vars => LeaseInv'
<1> SUFFICES ASSUME LeaseInv, [Next]_vars PROVE LeaseInv'
  OBVIOUS
<1>1. TypeInv /\ SlotInv BY DEF LeaseInv, SlotInv
<1>2. TypeInv' BY <1>1, TypeInductive
<1>3. CASE Tick BY <1>2, <1>3, LeaseInvTick
<1>4. CASE \E w \in Workers : Moved(w) BY <1>2, <1>4, LeaseInvKept
<1>5. CASE UNCHANGED vars
  <2>1. UNCHANGED <<slotVars, op, leases>> /\ clock' = clock BY <1>5 DEF vars
  <2>2. LeasesOK' /\ Age' BY <1>1, <2>1 DEF SlotInv, LeasesOK, Age
  <2> QED BY <1>2, <2>1, <2>2, LeaseInvStill
<1> QED BY <1>1, <1>3, <1>4, <1>5, Moves

\* With one key in the table, any number of workers, slots and leases: the key has at most one
\* slot for good, every lease is in it, and they come in the order and at the distances that
\* LeaseInv says.
THEOREM LeaseOrder ==
    ASSUME OneKey
    PROVE  Spec => []LeaseInv
  BY LeaseInvInit, LeaseInvInductive, PTL DEF Spec

\* ExclusiveOnceSlotted of the runs: one key has one lease in flight, but for twins.
THEOREM LeaseExclusive ==
    ASSUME OneKey
    PROVE  Spec => []ExclusiveOnceSlotted
<1>1. LeaseInv => ExclusiveOnceSlotted
  <2> SUFFICES ASSUME LeaseInv, NEW l \in leases, NEW m \in leases, InFlight(l), l # m,
                      l.at <= m.at, m.at + MaxStall < l.expires
               PROVE  \E n \in leases : Twins(l, n)
    BY DEF ExclusiveOnceSlotted
  <2>1. /\ l.at \in Nat /\ m.at \in Nat /\ l.expires \in Nat /\ MaxStall \in Nat
    BY LeaseNumbers, Ticks DEF LeaseInv
  <2>2. CASE ~m.fresh
    <3>1. m.at + MaxStall >= l.expires \/ Twinned(l) BY <2>2 DEF LeaseInv, Over, InFlight
    <3> QED BY <2>1, <3>1 DEF Twinned
  <2>3. CASE m.fresh /\ ~l.fresh
    <3>1. m.at + MaxStall < l.at BY <2>3 DEF LeaseInv, Ordered
    <3> QED BY <2>1, <3>1
  <2>4. CASE m.fresh /\ l.fresh
    BY <2>4 DEF LeaseInv, FreshTwins
  <2> QED BY <2>2, <2>3, <2>4
<1> QED BY <1>1, LeaseOrder, PTL

\* NoForeignTruncation of the runs: a release shortens neither another key's slot nor a lease
\* granted into the key's own slot since the one its stamp names.
THEOREM LeaseNoForeignTruncation ==
    ASSUME OneKey
    PROVE  Spec => NoForeignTruncation
<1> DEFINE Spared(w) ==
             op[w].pc = "relCasExpires" /\ op'[w] # op[w] /\ expires' # expires =>
               /\ lo[op[w].slot] = op[w].call.key
               /\ ~\E l \in leases : /\ l.key = op[w].call.key /\ l.at > op[w].call.stamp
                                     /\ ~l.fresh /\ InFlight(l)
<1>1. ASSUME LeaseInv, Next, NEW w \in Workers PROVE Spared(w)
  <2> SUFFICES ASSUME op[w].pc = "relCasExpires", op'[w] # op[w], expires' # expires
               PROVE  /\ lo[op[w].slot] = op[w].call.key
                      /\ ~\E l \in leases : l.at > op[w].call.stamp /\ ~l.fresh
    OBVIOUS
  <2>1. SlotInv /\ TypeInv BY <1>1 DEF LeaseInv, SlotInv
  <2>2. Moved(w) BY <1>1, <2>1, Moves DEF Tick, Moved
  <2>3. expires[op[w].slot] = op[w].observed
    BY <2>2 DEF Moved, WordMoves, GrantMoves
  <2>4. Home(op[w].slot) BY <2>1, ReleaseSees DEF RelOwnPcs
  <2>5. op[w].call.key \in Keys /\ op[w].observed \in Nat
    BY <2>1, OpFields DEF TypeInv, OpsOK, SlotPcs, SeenPcs
  <2>6. lo[op[w].slot] = op[w].call.key BY <2>1, <2>4, <2>5, KeyedHolds DEF Home, SlotInv
  <2>7. ASSUME NEW l \in leases, l.at > op[w].call.stamp, ~l.fresh PROVE FALSE
    <3>1. op[w].observed <= l.at BY <1>1, <2>7 DEF LeaseInv, ReleaseSpares, RelOwnPcs
    <3>2. expires[l.slot] > l.at + MaxStall BY <1>1 DEF LeaseInv, Later
    <3>3. l.slot = op[w].slot BY <2>1, <2>4, HomeUnique DEF SlotInv, LeaseHome
    <3> QED BY <2>1, <2>3, <2>5, <3>1, <3>2, <3>3, LeaseNumbers, Ticks
  <2> QED BY <2>6, <2>7
<1>2. LeaseInv /\ [Next]_vars => [\A w \in Workers : Spared(w)]_vars
  BY <1>1
<1> QED BY <1>2, LeaseOrder, PTL DEF Spec, NoForeignTruncation

==============================================================================
