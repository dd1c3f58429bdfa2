----------------------------- MODULE RenderLease -----------------------------
(***************************************************************************)
(* The node-local render-lease table of packages/plugin/src/util/          *)
(* renderLease.js: an open-addressed table of leases in shared memory,     *)
(* used without a lock by every worker of a node.  One action is one       *)
(* atomic load, store or compare-exchange of the code, or a run of them    *)
(* no other thread can tell from one (each such run is named).             *)
(*                                                                         *)
(* Time is in ticks: the table's second, of which expiries and grant       *)
(* stamps are whole numbers.  All slots are in every key's probe window    *)
(* (MAX_PROBE is 8, the tables checked are smaller), so that several keys  *)
(* are colliding keys.  The runs take one key and its several leases: two  *)
(* keys racing for one fresh slot can leave it to neither (l.255-258).     *)
(* And at most two grants of a key run at once (l.19-22): of three, one    *)
(* can give back the slot that another has just been granted.              *)
(***************************************************************************)
EXTENDS Integers, FiniteSets

CONSTANTS
    Workers,      \* threads of the node
    Keys,         \* cache keys (pairs of hash words)
    NumSlots,     \* slots of the table
    StartOf,      \* the slot each key's probe starts at
    LeaseTicks,   \* jobLeaseTime
    HoldTicks,    \* a hold: some leases, at most the row's cadence (renderSchedule.js claimSchedules)
    GraceTicks,   \* RELEASE_GRACE_MS
    Minutes,      \* due minutes of rows
    MaxClock,     \* bound: the last tick
    MaxStall,     \* ticks that may pass while an operation is in progress
    RenderTicks,  \* the shortest render: ticks between a grant and its result
    MaxLeases,    \* bound: leases granted
    ScanUntil,    \* bound: the last tick at which a worker starts to walk the slots (scanLive)
    Stale,        \* slots that hold an expired lease of a key not in Keys
    OtherKey,     \* ... that key
    NoKey         \* the zero word

Slots == 0 .. (NumSlots - 1)

ASSUME LeaseAssumption ==
    /\ NumSlots \in 1 .. 8
    /\ NoKey \notin Keys /\ OtherKey \notin Keys \cup {NoKey}
    /\ Stale \subseteq Slots
    /\ StartOf \in [Keys -> Slots]
    \* No thread is preempted inside an operation for as long as a render takes or a
    \* released lease sits out its grace, nor for a third of a lease (l.124-130: the
    \* grace is 5 seconds, a lease at least 2 minutes).
    /\ MaxStall < RenderTicks /\ MaxStall < GraceTicks /\ 3 * MaxStall < LeaseTicks
    /\ {LeaseTicks, GraceTicks, RenderTicks, MaxClock} \subseteq Nat \ {0}
    \* No cadence is shorter than a lease.
    /\ HoldTicks \in Nat /\ LeaseTicks <= HoldTicks
    /\ Minutes \subseteq Nat /\ Minutes # {}
    /\ {MaxStall, MaxLeases, ScanUntil} \subseteq Nat

\* Markers of the due word; a due minute is a natural number.
Released == -1
Held     == -2
NoSlot   == -1

VARIABLES
    clock,
    \* the words of each slot
    lo, hi, expires, due, granted,
    occupancy,    \* the gauge in the header
    op,           \* what each worker is in the middle of
    \* history
    leases        \* every lease a grant has reported as granted

slotVars == <<lo, hi, expires, due, granted>>
vars == <<clock, slotVars, occupancy, op, leases>>

Idle == [pc |-> "idle"]
IsLive(e, now) == e > now
Goto(w, o) == op' = [op EXCEPT ![w] = o]
Counted(s, now) == lo[s] # NoKey /\ IsLive(expires[s], now) /\ due[s] >= 0

\* The slot locate finds for k: the first of the probe window that holds it.
ProbeSlot(k, n) == (StartOf[k] + n) % NumSlots
Holds(s, k) == lo[s] = k /\ hi[s] = k
Found(k) ==
    LET at == {n \in Slots : Holds(ProbeSlot(k, n), k)}
    IN  IF at = {} THEN NoSlot ELSE ProbeSlot(k, CHOOSE n \in at : \A m \in at : n <= m)

\* A lease whose holder is rendering: granted, not released, not expired.
InFlight(l) == ~l.released /\ IsLive(l.expires, clock)

Busy == {w \in Workers : op[w].pc # "idle"}
GrantPcs == {"probe", "read", "storeDue", "storeStamp", "casExpires", "freshLo", "freshHi",
             "freshExpires", "freshPayload", "casLo", "elsewhere", "giveBack", "granted"}
Granting(k) == {w \in Workers : op[w].pc \in GrantPcs /\ op[w].call.key = k}

\* The buffer is created zeroed, at boot and at every replacement of the workers;
\* a slot that has been used keeps its last key.
Init ==
    /\ clock = 1
    /\ lo = [s \in Slots |-> IF s \in Stale THEN OtherKey ELSE NoKey] /\ hi = lo
    /\ expires = [s \in Slots |-> 0]
    /\ due = [s \in Slots |-> 0]
    /\ granted = [s \in Slots |-> 0]
    /\ occupancy = 0
    /\ op = [w \in Workers |-> Idle]
    /\ leases = {}

\* Operations are a handful of instructions: they may be preempted, but the
\* clock does not run far while one is in progress.
Tick ==
    /\ clock < MaxClock
    /\ \A w \in Busy : clock - op[w].call.now < MaxStall
    /\ clock' = clock + 1
    /\ UNCHANGED <<slotVars, occupancy, op, leases>>

-----------------------------------------------------------------------------
(* grant, and hold: a grant that leases nothing.  The miss count the slot      *)
(* carries is not modelled here; its caller is RenderQueue.                   *)

\* The ready set gives a key to one taker of each generation, and a key can be in
\* two generations.
GrantBegin(w, k, minute, held) ==
    /\ op[w].pc = "idle"
    /\ \A u, v \in Granting(k) : u = v
    /\ held \/ Cardinality(leases) < MaxLeases
    /\ Goto(w, [pc |-> "probe", probe |-> 0, free |-> NoSlot,
                call |-> [key |-> k, now |-> clock, minute |-> minute, held |-> held,
                          blocked |-> \E l \in leases : l.key = k /\ InFlight(l)]])
    /\ UNCHANGED <<clock, slotVars, occupancy, leases>>

\* locate, one slot: its own key ends the walk, the first slot that is empty or
\* expired is remembered.
GrantProbe(w) ==
    LET o == op[w]
        s == ProbeSlot(o.call.key, o.probe)
        free == IF o.free = NoSlot /\ (lo[s] = NoKey \/ ~IsLive(expires[s], o.call.now))
                THEN s ELSE o.free
    IN  /\ o.pc = "probe"
        /\ Goto(w, IF Holds(s, o.call.key)
                     THEN [pc |-> "read", call |-> o.call, slot |-> s]
                   ELSE IF o.probe < NumSlots - 1
                     THEN [o EXCEPT !.probe = @ + 1, !.free = free]
                   ELSE IF free # NoSlot
                     THEN [pc |-> "freshLo", call |-> o.call, slot |-> free]
                   ELSE Idle)
        /\ UNCHANGED <<clock, slotVars, occupancy, leases>>

DueWord(call) == IF call.held THEN Held ELSE call.minute
ExpiresAt(call) == call.now + IF call.held THEN HoldTicks ELSE LeaseTicks
Granted(call, s, fresh) == [pc |-> "granted", call |-> call, slot |-> s, fresh |-> fresh]

\* The key's own slot: the expiry is read ...
GrantRead(w) ==
    LET o == op[w]
    IN  /\ o.pc = "read"
        /\ Goto(w, IF IsLive(expires[o.slot], o.call.now) THEN Idle
                   ELSE [pc |-> "storeDue", call |-> o.call, slot |-> o.slot,
                         observed |-> expires[o.slot]])
        /\ UNCHANGED <<clock, slotVars, occupancy, leases>>

\* ... the due word, then the generation stamp are stored ...
GrantStoreDue(w) ==
    LET o == op[w]
    IN  /\ o.pc = "storeDue"
        /\ due' = [due EXCEPT ![o.slot] = DueWord(o.call)]
        /\ Goto(w, [o EXCEPT !.pc = IF o.call.held THEN "casExpires" ELSE "storeStamp"])
        /\ UNCHANGED <<clock, lo, hi, expires, granted, occupancy, leases>>

\* Mutant: the stamp is the lease's expiry.
GrantStampExpiry(w) ==
    LET o == op[w]
    IN  /\ o.pc = "storeStamp"
        /\ granted' = [granted EXCEPT ![o.slot] = ExpiresAt(o.call)]
        /\ Goto(w, [o EXCEPT !.pc = "casExpires"])
        /\ UNCHANGED <<clock, lo, hi, expires, due, occupancy, leases>>

GrantStoreStamp(w) ==
    LET o == op[w]
    IN  /\ o.pc = "storeStamp"
        /\ granted' = [granted EXCEPT ![o.slot] = o.call.now]
        /\ Goto(w, [o EXCEPT !.pc = "casExpires"])
        /\ UNCHANGED <<clock, lo, hi, expires, due, occupancy, leases>>

\* Mutant: a plain store where the code has a compare-exchange.
GrantStoreExpires(w) ==
    LET o == op[w]
    IN  /\ o.pc = "casExpires"
        /\ expires' = [expires EXCEPT ![o.slot] = ExpiresAt(o.call)]
        /\ Goto(w, Granted(o.call, o.slot, FALSE))
        /\ UNCHANGED <<clock, lo, hi, due, granted, occupancy, leases>>

\* ... and a compare-exchange of the expiry decides.
GrantCasExpires(w) ==
    LET o == op[w]
    IN  /\ o.pc = "casExpires"
        /\ IF expires[o.slot] = o.observed
           THEN /\ expires' = [expires EXCEPT ![o.slot] = ExpiresAt(o.call)]
                /\ Goto(w, Granted(o.call, o.slot, FALSE))
           ELSE UNCHANGED expires /\ Goto(w, Idle)
        /\ UNCHANGED <<clock, lo, hi, due, granted, occupancy, leases>>

\* A fresh slot: the key word is read, the payload stored ...
GrantFreshLo(w) ==
    LET o == op[w]
    IN  /\ o.pc = "freshLo"
        /\ Goto(w, [pc |-> "freshHi", call |-> o.call, slot |-> o.slot, observed |-> lo[o.slot]])
        /\ UNCHANGED <<clock, slotVars, occupancy, leases>>

GrantFreshHi(w) ==
    LET o == op[w]
    IN  /\ o.pc = "freshHi"
        /\ hi' = [hi EXCEPT ![o.slot] = o.call.key]
        /\ Goto(w, [o EXCEPT !.pc = "freshExpires"])
        /\ UNCHANGED <<clock, lo, expires, due, granted, occupancy, leases>>

GrantFreshExpires(w) ==
    LET o == op[w]
    IN  /\ o.pc = "freshExpires"
        /\ expires' = [expires EXCEPT ![o.slot] = ExpiresAt(o.call)]
        /\ Goto(w, [o EXCEPT !.pc = "freshPayload"])
        /\ UNCHANGED <<clock, lo, hi, due, granted, occupancy, leases>>

\* The remaining payload words in one step: a reader that uses them has matched
\* the key words first.
GrantFreshPayload(w) ==
    LET o == op[w]
    IN  /\ o.pc = "freshPayload"
        /\ due' = [due EXCEPT ![o.slot] = DueWord(o.call)]
        /\ granted' = [granted EXCEPT ![o.slot] = IF o.call.held THEN 0 ELSE o.call.now]
        /\ Goto(w, [o EXCEPT !.pc = "casLo"])
        /\ UNCHANGED <<clock, lo, hi, expires, occupancy, leases>>

\* ... a compare-exchange of the key word claims the slot ...
GrantCasLo(w) ==
    LET o == op[w]
    IN  /\ o.pc = "casLo"
        /\ IF lo[o.slot] = o.observed
           THEN /\ lo' = [lo EXCEPT ![o.slot] = o.call.key]
                /\ Goto(w, [pc |-> "elsewhere", call |-> o.call, slot |-> o.slot])
           ELSE UNCHANGED lo /\ Goto(w, Idle)
        /\ UNCHANGED <<clock, hi, expires, due, granted, occupancy, leases>>

\* ... and is given back when another slot holds a live lease for the key.
\* liveElsewhere reads the other slots in one step: each is read once, and its
\* answer is used at the next step.  (Mutant: it is not asked.)
LiveElsewhereNever(o) == FALSE
LiveElsewhere(o) ==
    \E s \in Slots \ {o.slot} : Holds(s, o.call.key) /\ IsLive(expires[s], o.call.now)
GrantElsewhere(w) ==
    LET o == op[w]
    IN  /\ o.pc = "elsewhere"
        /\ Goto(w, IF LiveElsewhere(o) THEN [o EXCEPT !.pc = "giveBack"] ELSE Granted(o.call, o.slot, TRUE))
        /\ UNCHANGED <<clock, slotVars, occupancy, leases>>

GrantGiveBack(w) ==
    LET o == op[w]
    IN  /\ o.pc = "giveBack"
        /\ lo' = [lo EXCEPT ![o.slot] = IF @ = o.call.key THEN NoKey ELSE @]
        /\ Goto(w, Idle)
        /\ UNCHANGED <<clock, hi, expires, due, granted, occupancy, leases>>

\* The gauge counts the lease, and the grant returns true.
GrantReturn(w) ==
    LET o == op[w]
    IN  /\ o.pc = "granted"
        /\ IF o.call.held THEN UNCHANGED <<occupancy, leases>>
           ELSE /\ occupancy' = occupancy + 1
                /\ leases' = leases \cup
                     {[key |-> o.call.key, slot |-> o.slot, at |-> o.call.now, by |-> w, handed |-> clock,
                       expires |-> ExpiresAt(o.call), released |-> FALSE,
                       fresh |-> o.fresh, blocked |-> o.call.blocked]}
        /\ Goto(w, Idle)
        /\ UNCHANGED <<clock, slotVars>>

-----------------------------------------------------------------------------
(* release, generation-checked: its caller read the stamp with grantOf, when *)
(* the result it is about arrived                                            *)

\* locate in one step: the walk is repeated by the ownership check below.
ReleaseBegin(w, k, stamp) ==
    /\ op[w].pc = "idle"
    /\ \E l \in leases : l.key = k /\ l.at = stamp /\ clock >= l.handed + RenderTicks
    /\ Found(k) # NoSlot
    /\ Goto(w, [pc |-> "relExpires", slot |-> Found(k),
                call |-> [key |-> k, now |-> clock, stamp |-> stamp]])
    /\ UNCHANGED <<clock, slotVars, occupancy, leases>>

ReleaseExpires(w) ==
    LET o == op[w]
    IN  /\ o.pc = "relExpires"
        /\ Goto(w, [pc |-> "relCheck", call |-> o.call, slot |-> o.slot,
                    observed |-> expires[o.slot]])
        /\ UNCHANGED <<clock, slotVars, occupancy, leases>>

\* Ownership, then the generation stamp.
ReleaseCheck(w) ==
    LET o == op[w]
    IN  /\ o.pc = "relCheck"
        /\ Goto(w, IF Holds(o.slot, o.call.key) /\ granted[o.slot] = o.call.stamp
                   THEN [o EXCEPT !.pc = "relDue"] ELSE Idle)
        /\ UNCHANGED <<clock, slotVars, occupancy, leases>>

ReleaseDue(w) ==
    LET o == op[w]
    IN  /\ o.pc = "relDue"
        /\ Goto(w, IF due[o.slot] = Released THEN Idle
                   ELSE [pc |-> "relCasDue", call |-> o.call, slot |-> o.slot,
                         observed |-> o.observed, due |-> due[o.slot],
                         counted |-> Counted(o.slot, o.call.now)])
        /\ UNCHANGED <<clock, slotVars, occupancy, leases>>

\* One release per lease: the compare-exchange on the due word claims it.
ReleaseCasDue(w) ==
    LET o == op[w]
    IN  /\ o.pc = "relCasDue"
        /\ IF due[o.slot] = o.due
           THEN /\ due' = [due EXCEPT ![o.slot] = Released]
                /\ leases' = {IF l.key = o.call.key /\ l.at = o.call.stamp
                              THEN [l EXCEPT !.released = TRUE] ELSE l : l \in leases}
                /\ Goto(w, [pc |-> "relCasExpires", call |-> o.call, slot |-> o.slot,
                            observed |-> o.observed, counted |-> o.counted])
           ELSE UNCHANGED <<due, leases>> /\ Goto(w, Idle)
        /\ UNCHANGED <<clock, lo, hi, expires, granted, occupancy>>

\* Mutant: the shortening does not compare the expiry with the one read.
ReleaseStoreExpires(w) ==
    LET o == op[w]
        grace == clock + GraceTicks
    IN  /\ o.pc = "relCasExpires"
        /\ expires' = [expires EXCEPT ![o.slot] = IF grace < @ THEN grace ELSE @]
        /\ Goto(w, IF o.counted THEN [pc |-> "relCount", call |-> o.call] ELSE Idle)
        /\ UNCHANGED <<clock, lo, hi, due, granted, occupancy, leases>>

\* The expiry is shortened to the grace, never lengthened, and only if it is
\* still the one read.
ReleaseCasExpires(w) ==
    LET o == op[w]
        grace == clock + GraceTicks
    IN  /\ o.pc = "relCasExpires"
        /\ expires' = [expires EXCEPT ![o.slot] =
                         IF grace < o.observed /\ @ = o.observed THEN grace ELSE @]
        /\ Goto(w, IF o.counted THEN [pc |-> "relCount", call |-> o.call] ELSE Idle)
        /\ UNCHANGED <<clock, lo, hi, due, granted, occupancy, leases>>

ReleaseCount(w) ==
    /\ op[w].pc = "relCount"
    /\ occupancy' = occupancy - 1
    /\ Goto(w, Idle)
    /\ UNCHANGED <<clock, slotVars, leases>>

-----------------------------------------------------------------------------
(* scanLive: a walk of the slots, then a plain store of what it counted *)

ScanBegin(w) ==
    /\ clock <= ScanUntil
    /\ op[w].pc = "idle"
    /\ Goto(w, [pc |-> "scan", call |-> [now |-> clock], slot |-> 0, count |-> 0])
    /\ UNCHANGED <<clock, slotVars, occupancy, leases>>

ScanSlot(w) ==
    LET o == op[w]
    IN  /\ o.pc = "scan"
        /\ o.slot < NumSlots
        /\ Goto(w, [o EXCEPT !.slot = @ + 1, !.count = IF Counted(o.slot, o.call.now) THEN @ + 1 ELSE @])
        /\ UNCHANGED <<clock, slotVars, occupancy, leases>>

ScanStore(w) ==
    /\ op[w].pc = "scan"
    /\ op[w].slot = NumSlots
    /\ occupancy' = op[w].count
    /\ Goto(w, Idle)
    /\ UNCHANGED <<clock, slotVars, leases>>

-----------------------------------------------------------------------------

GrantStep(w) ==
    \/ GrantProbe(w) \/ GrantRead(w) \/ GrantStoreDue(w) \/ GrantStoreStamp(w)
    \/ GrantCasExpires(w) \/ GrantFreshLo(w) \/ GrantFreshHi(w)
    \/ GrantFreshExpires(w) \/ GrantFreshPayload(w) \/ GrantCasLo(w) \/ GrantElsewhere(w)
    \/ GrantGiveBack(w) \/ GrantReturn(w)

ReleaseStep(w) ==
    \/ ReleaseExpires(w) \/ ReleaseCheck(w) \/ ReleaseDue(w)
    \/ ReleaseCasDue(w) \/ ReleaseCasExpires(w) \/ ReleaseCount(w)

Next ==
    \/ Tick
    \/ \E w \in Workers :
         \/ \E k \in Keys, minute \in Minutes, held \in BOOLEAN : GrantBegin(w, k, minute, held)
         \/ \E k \in Keys, stamp \in 1 .. MaxClock : ReleaseBegin(w, k, stamp)
         \/ ScanBegin(w)
         \/ GrantStep(w) \/ ReleaseStep(w) \/ ScanSlot(w) \/ ScanStore(w)

Spec == Init /\ [][Next]_vars

-----------------------------------------------------------------------------
(* Properties *)

TypeOK ==
    /\ clock \in 1 .. MaxClock
    /\ lo \in [Slots -> Keys \cup {OtherKey, NoKey}]
    /\ hi \in [Slots -> Keys \cup {OtherKey, NoKey}]
    /\ expires \in [Slots -> 0 .. (clock + HoldTicks)]
    /\ due \in [Slots -> Minutes \cup {0, Released, Held}]
    /\ granted \in [Slots -> 0 .. clock]
    /\ occupancy \in Int
    /\ \A w \in Busy : op[w].call.now \in 1 .. clock

\* Two overlapping grants of a key into one fresh slot, which can both be granted.
Twins(l, m) ==
    /\ l # m /\ l.key = m.key /\ l.slot = m.slot /\ l.fresh /\ m.fresh
    /\ l.at <= m.handed /\ m.at <= l.handed

\* A grant is exclusive (l.18-22, 245-264): no key has two leases in flight, but
\* for a lease that is one of twins, for as long as it lasts.  The expiry of a
\* slot may be as much as one stall older than the lease: a grant that lost the
\* slot has stored its own.
ExclusiveOnceSlotted ==
    \A l, m \in leases :
      /\ l.key = m.key /\ InFlight(l) /\ InFlight(m) /\ l # m
      /\ l.at <= m.at /\ m.at + MaxStall < l.expires
      => \E n \in leases : Twins(l, n)

\* A release never shortens another key's lease, nor a later lease of its own
\* key than the one its stamp names: not even one granted while the release was
\* in progress (l.446-461, 467-469).  (The later lease is one granted into the
\* key's own slot; two that raced for a fresh slot share its expiry.)
NoForeignTruncation ==
    [][\A w \in Workers :
         op[w].pc = "relCasExpires" /\ op'[w] # op[w] /\ expires' # expires =>
           /\ lo[op[w].slot] = op[w].call.key
           /\ ~\E l \in leases : /\ l.key = op[w].call.key /\ l.at > op[w].call.stamp
                                 /\ ~l.fresh /\ InFlight(l)]_vars
=============================================================================
