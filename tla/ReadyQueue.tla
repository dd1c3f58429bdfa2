----------------------------- MODULE ReadyQueue -----------------------------
(***************************************************************************)
(* The ready set of packages/plugin/src/util/readyQueue.js: two slots of   *)
(* entries in shared memory, one publisher (the queue keeper, worker 0)    *)
(* and any number of takers (claims, on every worker).  One action is one  *)
(* atomic operation of the code on the shared words, so that every         *)
(* interleaving of a publish with several takes is a behaviour.            *)
(*                                                                         *)
(* An entry is told apart by its generation and its index; the row it      *)
(* names is not.  A slot's key bytes are shared end to end by its entries, *)
(* so an index at or past the entries already written for the slot's       *)
(* current generation is debris: reading it finds nothing (the bounds      *)
(* check of readEntry) or the name of any row.                             *)
(***************************************************************************)
EXTENDS Integers, FiniteSets

CONSTANTS
    Workers,     \* threads that call take()
    Cap,         \* entries per slot
    Batch,       \* n of take(n)
    MaxGen,      \* bound: generations published
    MaxCursor    \* bound: a take is begun only while the cursor is below it

ASSUME ReadyAssumption ==
    /\ IsFiniteSet(Workers)
    /\ Cap \in Nat \ {0}
    /\ Batch \in Nat \ {0}
    /\ MaxGen \in Nat \ {0}
    /\ MaxCursor \in Nat \ {0}

Slots == {0, 1}
Index == 0 .. (Cap - 1)
Gens  == 1 .. MaxGen

VARIABLES
    \* the shared words
    active,      \* H_ACTIVE
    cursor,      \* H_CURSOR
    count,       \* H_COUNT_0, H_COUNT_1
    written,     \* entries written so far of the generation in each slot
    gen,         \* the generation whose entries are in each slot
    \* publish: where it is, and its locals
    ppc, target, size,
    \* take, for each worker: where it is, and its locals
    tpc, left, index, slot, limit,
    \* history
    epoch,       \* generations whose publish has reset the cursor
    began,       \* the epoch at a take's increment
    handed,      \* times entry i of the generation in slot s was handed out by
                 \* a take whose increment followed that generation's reset
    straddlers   \* takes in progress at that reset

shared  == <<active, cursor, count, written, gen>>
pub     == <<ppc, target, size>>
take    == <<tpc, left, index, slot, limit, began>>
history == <<epoch, handed, straddlers>>
vars    == <<shared, pub, take, history>>

InTake(w) == tpc[w] \in {"slot", "count", "read", "clamp"}

Init ==
    /\ active = 0
    /\ cursor = 0
    /\ count = [s \in Slots |-> 0]
    /\ written = [s \in Slots |-> 0]
    /\ gen = [s \in Slots |-> 0]
    /\ ppc = "idle" /\ target = 1 /\ size = 0
    /\ tpc = [w \in Workers |-> "idle"]
    /\ left = [w \in Workers |-> 0]
    /\ index = [w \in Workers |-> 0]
    /\ slot = [w \in Workers |-> 0]
    /\ limit = [w \in Workers |-> 0]
    /\ began = [w \in Workers |-> 0]
    /\ epoch = 0
    /\ handed = [s \in Slots |-> [i \in Index |-> 0]]
    /\ straddlers = [s \in Slots |-> 0]

-----------------------------------------------------------------------------
(* publish(rows) *)

\* Mutant: the slot written is the one readers are pointed at.
PublishStartInPlace(n) ==
    /\ ppc = "idle"
    /\ epoch < MaxGen
    /\ ppc' = IF n = 0 THEN "count" ELSE "write"
    /\ target' = active
    /\ size' = n
    /\ gen' = [gen EXCEPT ![active] = epoch + 1]
    /\ written' = [written EXCEPT ![active] = 0]
    /\ handed' = [handed EXCEPT ![active] = [i \in Index |-> 0]]
    /\ UNCHANGED <<active, cursor, count, take, epoch, straddlers>>

\* The rows offered are best first, and how many of them end up stored depends
\* on the capacity and on the key region: it is any prefix.
PublishStart(n) ==
    LET t == 1 - active
    IN  /\ ppc = "idle"
        /\ epoch < MaxGen
        /\ ppc' = IF n = 0 THEN "count" ELSE "write"
        /\ target' = t
        /\ size' = n
        /\ gen' = [gen EXCEPT ![t] = epoch + 1]
        /\ written' = [written EXCEPT ![t] = 0]
        /\ handed' = [handed EXCEPT ![t] = [i \in Index |-> 0]]
        /\ UNCHANGED <<active, cursor, count, take, epoch, straddlers>>

\* Mutant: one entry too many is written.
PublishEntryPastEnd ==
    /\ ppc = "write"
    /\ written' = [written EXCEPT ![target] = @ + 1]
    /\ ppc' = IF written[target] = size THEN "count" ELSE "write"
    /\ UNCHANGED <<active, cursor, count, gen, target, size, take, history>>

PublishEntry ==
    /\ ppc = "write"
    /\ written' = [written EXCEPT ![target] = @ + 1]
    /\ ppc' = IF written[target] + 1 = size THEN "count" ELSE "write"
    /\ UNCHANGED <<active, cursor, count, gen, target, size, take, history>>

PublishCount ==
    /\ ppc = "count"
    /\ count' = [count EXCEPT ![target] = size]
    /\ ppc' = "flip"
    /\ UNCHANGED <<active, cursor, written, gen, target, size, take, history>>

PublishFlip ==
    /\ ppc = "flip"
    /\ active' = target
    /\ ppc' = "reset"
    /\ UNCHANGED <<cursor, count, written, gen, target, size, take, history>>

PublishReset ==
    /\ ppc = "reset"
    /\ cursor' = 0
    /\ epoch' = epoch + 1
    /\ ppc' = "idle"
    /\ size' = 0
    /\ straddlers' = [straddlers EXCEPT ![target] = Cardinality({w \in Workers : InTake(w)})]
    /\ UNCHANGED <<active, count, written, gen, target, take, handed>>

PublishStep == PublishEntry \/ PublishCount \/ PublishFlip \/ PublishReset

-----------------------------------------------------------------------------
(* take(n) *)

\* Atomics.add(cursor, 1): the first step of the call, and of every further
\* round of its loop.
TakeAdd(w) ==
    /\ tpc[w] \in {"idle", "add"}
    /\ cursor < MaxCursor
    /\ cursor' = cursor + 1
    /\ tpc' = [tpc EXCEPT ![w] = "slot"]
    /\ left' = [left EXCEPT ![w] = IF tpc[w] = "idle" THEN Batch ELSE @]
    /\ index' = [index EXCEPT ![w] = cursor]
    /\ began' = [began EXCEPT ![w] = epoch]
    /\ UNCHANGED <<active, count, written, gen, pub, slot, limit, history>>

\* The slot is read after the increment, never before.
TakeSlot(w) ==
    /\ tpc[w] = "slot"
    /\ tpc' = [tpc EXCEPT ![w] = "count"]
    /\ slot' = [slot EXCEPT ![w] = active]
    /\ UNCHANGED <<shared, pub, left, index, limit, began, history>>

TakeCount(w) ==
    LET n == count[slot[w]]
    IN  /\ tpc[w] = "count"
        /\ tpc' = [tpc EXCEPT ![w] = IF index[w] >= n THEN "clamp" ELSE "read"]
        /\ limit' = [limit EXCEPT ![w] = IF index[w] >= n THEN n ELSE 0]
        /\ UNCHANGED <<shared, pub, left, index, slot, began, history>>

\* The locals of a round are dead once it ends; the call returns when no round
\* is left.
EndRound(w, rounds) ==
    /\ tpc' = [tpc EXCEPT ![w] = IF rounds = 0 THEN "idle" ELSE "add"]
    /\ left' = [left EXCEPT ![w] = rounds]
    /\ index' = [index EXCEPT ![w] = 0]
    /\ slot' = [slot EXCEPT ![w] = 0]
    /\ limit' = [limit EXCEPT ![w] = 0]
    /\ began' = [began EXCEPT ![w] = 0]

\* Mutants of the clamp: a plain store; no clamp at all; one entry too far back.
TakeClampTo(w, c) ==
    /\ tpc[w] = "clamp"
    /\ cursor' = c
    /\ EndRound(w, 0)
    /\ UNCHANGED <<active, count, written, gen, pub, history>>

TakeClampStore(w) == TakeClampTo(w, limit[w])
TakeClampNone(w)  == TakeClampTo(w, cursor)
TakeClampShort(w) ==
    TakeClampTo(w, IF cursor = index[w] + 1 /\ limit[w] > 0 THEN limit[w] - 1 ELSE cursor)

\* Atomics.compareExchange(cursor, index + 1, count), then break.
TakeClamp(w) ==
    /\ tpc[w] = "clamp"
    /\ cursor' = IF cursor = index[w] + 1 THEN limit[w] ELSE cursor
    /\ EndRound(w, 0)
    /\ UNCHANGED <<active, count, written, gen, pub, history>>

\* readEntry: an entry that is whole is handed out ...
TakeEntry(w) ==
    LET s == slot[w]
        i == index[w]
    IN  /\ tpc[w] = "read"
        /\ i < written[s]
        /\ handed' = IF began[w] >= gen[s] THEN [handed EXCEPT ![s][i] = @ + 1] ELSE handed
        /\ EndRound(w, left[w] - 1)
        /\ UNCHANGED <<shared, pub, epoch, straddlers>>

\* ... and debris of a slot that is being rewritten is no entry of any
\* generation: whatever key it decodes to, the claim's row read judges it.
TakeTorn(w) ==
    /\ tpc[w] = "read"
    /\ index[w] >= written[slot[w]]
    /\ EndRound(w, left[w] - 1)
    /\ UNCHANGED <<shared, pub, history>>

TakeStep(w) ==
    \/ TakeAdd(w) \/ TakeSlot(w) \/ TakeCount(w)
    \/ TakeClamp(w) \/ TakeEntry(w) \/ TakeTorn(w)

Next ==
    \/ \E n \in 0 .. Cap : PublishStart(n)
    \/ PublishStep
    \/ \E w \in Workers : TakeStep(w)

Spec == Init /\ [][Next]_vars

\* publish and take are synchronous, so each runs to its end once begun; the
\* consumers poll for as long as they live.
Fairness ==
    /\ WF_vars(PublishStep)
    /\ \A w \in Workers : WF_vars(TakeStep(w))

FairSpec == Spec /\ Fairness

-----------------------------------------------------------------------------
(* Properties *)

TypeOK ==
    /\ active \in Slots
    /\ cursor \in Nat
    /\ count \in [Slots -> 0 .. Cap]
    /\ written \in [Slots -> 0 .. Cap]
    /\ gen \in [Slots -> 0 .. MaxGen]
    /\ ppc \in {"idle", "write", "count", "flip", "reset"}
    /\ target \in Slots
    /\ size \in 0 .. Cap
    /\ tpc \in [Workers -> {"idle", "add", "slot", "count", "read", "clamp"}]
    /\ left \in [Workers -> 0 .. Batch]
    /\ index \in [Workers -> Nat]
    /\ slot \in [Workers -> Slots]
    /\ limit \in [Workers -> 0 .. Cap]
    /\ began \in [Workers -> 0 .. MaxGen]
    /\ epoch \in 0 .. MaxGen
    /\ handed \in [Slots -> [Index -> Nat]]
    /\ straddlers \in [Slots -> Nat]

\* The slot readers are pointed at always holds one complete generation, the
\* latest published: a publish rewrites only the other one (l.22-25).
ActiveSetWhole ==
    /\ gen[active] = IF ppc = "reset" THEN epoch + 1 ELSE epoch
    /\ written[active] = count[active]

\* A take that will hand out entry i of the current generation.
Pending(i) ==
    \E w \in Workers :
        /\ tpc[w] \in {"slot", "count", "read"}
        /\ began[w] = epoch
        /\ index[w] = i

\* No entry is skipped: whatever the cursor has passed in the current
\* generation has been handed out, or a take that counted it after the reset
\* is about to hand it out (the ordering note in publish, and the
\* compare-exchange in take).
NeverSkipped ==
    ppc # "reset" =>
        \A i \in Index :
            i < cursor /\ i < count[active] => handed[active][i] > 0 \/ Pending(i)

\* A take of the current generation is handed an entry another has had only on
\* account of takes in progress at the reset, at most once for each of them.
DuplicatesFromStraddlers ==
    \A s \in Slots, i \in Index : handed[s][i] <= 1 + straddlers[s]

\* An exhausted set never lets the cursor run away: once every call has
\* returned it is within one slot's capacity, whatever publishes came between,
\* so that idle polling cannot run it round the Int32 (l.219-229).
CursorBounded ==
    (\A w \in Workers : ~InTake(w)) => cursor <= Cap

\* While the consumers poll, every entry of a generation is handed out, unless
\* a later generation replaces it: again and again there is none left to hand out.
EveryEntryServed ==
    []<>(\A i \in Index : i < count[active] => handed[active][i] > 0)
=============================================================================
