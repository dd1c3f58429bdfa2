-------------------------- MODULE QueueKeeperProofs --------------------------
(***************************************************************************)
(* Proofs about QueueKeeper, for any keys, rows, node lists and number of  *)
(* disturbances: an entry of a serving keeper that differs from the table  *)
(* is owed a correction, or a lapse has been made.                         *)
(***************************************************************************)
EXTENDS QueueKeeper, TLAPS

HeadRepair == repair["head"]
Phantom == repair["phantom"]
Serving == phase \in {"loading", "live"}

(* What runs in which phase, and what config counts. *)
PhaseInv ==
    /\ phase # "live" => /\ ~walkWanted /\ ~walkRetry /\ ~settling
                         /\ repair = [p \in Repairs |-> Idle]
    /\ walker = "load" => phase = "loading"
    /\ phase = "loading" /\ walker = "none" => \A k \in Keys : held[k] = None
    /\ subscription = "open" => Serving /\ ~(phase = "loading" /\ walker = "none")
    /\ subscription # "open" => pending = <<>>
    /\ config <= disturbances

(* A request to resubscribe asks for a walk too. *)
RequestInv ==
    /\ queued # NoRequest /\ queued.resubscribe => queued.walk
    /\ resync # "idle" => asked \in Requests /\ (asked.resubscribe => asked.walk)
    /\ resync = "subscribe" => asked.walk /\ subscription # "open"

(* A walk wanted for later has a timer or a walk that will see to it. *)
WantedInv == walkWanted /\ walker = "none" => verifySoon \/ walkRetry

(* A put delivered as a deletion has a later event behind it. *)
EventInv ==
    \A i \in DOMAIN pending :
      pending[i].deleted /\ table[pending[i].key] # None =>
        \E j \in DOMAIN pending : j > i /\ pending[j].key = pending[i].key

WalkInv ==
    /\ row # Unread => walker \in {"load", "verify"} /\ at \in Keys
    /\ \A k \in seen : k < at
    /\ Phantom.key # 0 => walker = "phantoms" /\ (Phantom.newer => Phantom.key \in touched)
    /\ HeadRepair.key # 0 => HeadRepair.before # None
    /\ walker = "load" => \A k \in Keys : at <= k /\ held[k] # None => k \in touched

StateInv ==
    TypeOK /\ PhaseInv /\ RequestInv /\ WantedInv /\ EventInv /\ WalkInv

(* What will bring the table's value of k, whatever the walk under way has  *)
(* read: an event, a walk to come, a resync with a walk or sure to be one.  *)
AllDue ==
    \/ walkWanted \/ walkRetry
    \/ subscription # "open" \/ nodes # nodesKey
    \/ queued # NoRequest /\ queued.walk
    \/ resync = "subscribe"
    \/ resync = "reclassify" /\ (asked.walk \/ resyncNodes # nodesKey)

Due(k) == EventOwed(k) \/ AllDue

(* The entry is right but for the configuration it was classified by, and a *)
(* resync is to go over it.                                                 *)
Outdated(k) ==
    /\ k \in Owned[nodes] /\ held[k] # None /\ held[k].row = table[k]
    /\ queued # NoRequest \/ (resync = "reclassify" /\ k \in rest)

Right(k) == Synced(k) \/ Outdated(k)

(* The walk under way is owed, and has still to see k or to read it again. *)
Ahead(k) ==
    \/ walker = "load" /\ at <= k
    \/ walker = "verify" /\ wanted /\ (at <= k \/ (held[k] # None /\ k \notin seen))
    \/ walker = "phantoms" /\ wanted /\ (k \in phantoms \/ Phantom.key = k)

(* What a walk or a repair has read is the table's, or will be overtaken.   *)
(* A head check outlives walks: one that began before a walk may have read  *)
(* a row that the walk has still to overtake, or has found gone.            *)
RowRight(k) ==
    walker \in {"load", "verify"} /\ row # Unread /\ at = k /\ k \notin touched =>
      Due(k) \/ row = table[k]

PhantomRight(k) ==
    Phantom.key = k /\ Phantom.row # Unread /\ ~Phantom.newer => Due(k) \/ Phantom.row = table[k]

ToSee(k) == walker = "verify" /\ wanted /\ at <= k /\ k \notin touched
Gone(k) ==
    /\ table[k] = None
    /\ \/ held[k] = None
       \/ /\ wanted /\ k \notin touched
          /\ \/ walker = "verify" /\ k \notin seen
             \/ walker = "phantoms" /\ (k \in phantoms \/ Phantom.key = k)

HeadRight(k) ==
    HeadRepair.key = k /\ HeadRepair.row # Unread /\ ~HeadRepair.newer =>
      Due(k) \/ HeadRepair.row = table[k] \/ ToSee(k) \/ Gone(k)

(* A mismatch is due whatever the walk under way has read, or that walk is  *)
(* owed and has still to see it; what an event touched, the walk passes by. *)
KeyInv(k) ==
    /\ Due(k) \/ Right(k) \/ Ahead(k)
    /\ k \in touched /\ walker # "none" => Due(k) \/ Right(k)
    /\ RowRight(k) /\ PhantomRight(k) /\ HeadRight(k)

OwedInv == lapsed = {} /\ Serving => \A k \in Keys : KeyInv(k)

IInv == StateInv /\ OwedInv

-----------------------------------------------------------------------------
(* The parts of the type invariant. *)
TypeTable ==
    /\ table \in [Keys -> Rows \cup {None}]
    /\ pending \in Seq([key : Keys, deleted : BOOLEAN])
    /\ nodes \in Lists /\ nodesKey \in Lists /\ resyncNodes \in Lists
    /\ {config, disturbances} \subseteq 0 .. MaxDisturbances
TypePhase ==
    /\ phase \in {"waiting", "loading", "live", "failed"}
    /\ subscription \in {"none", "open", "closed"}
    /\ resync \in {"idle", "subscribe", "reclassify", "verify", "finish"}
    /\ walker \in {"none", "load", "verify", "phantoms"}
    /\ walker \in {"verify", "phantoms"} => phase = "live"
    /\ resync # "idle" => phase = "live"
TypeFlags ==
    /\ settling \in BOOLEAN
    /\ {wanted, walkWanted, walkRetry, verifySoon, backoff} \subseteq BOOLEAN
TypeHeld == held \in [Keys -> Entries]
TypeWalk ==
    /\ at \in 1 .. NumKeys + 1 /\ row \in Rows \cup {Unread}
    /\ touched \subseteq Keys /\ seen \subseteq Keys /\ phantoms \subseteq Keys
TypeRepair ==
    repair \in [Repairs -> [key : 0 .. NumKeys, before : Entries,
                            row : Rows \cup {None, Unread}, newer : BOOLEAN]]
TypeResync ==
    /\ lapsed \subseteq Lapses
    /\ {asked, queued} \subseteq Requests \cup {NoRequest} /\ rest \subseteq Keys

TypeParts == TypeTable /\ TypePhase /\ TypeFlags /\ TypeHeld /\ TypeWalk /\ TypeRepair /\ TypeResync

(* They make it up. *)
LEMMA TypeSplits == TypeOK <=> TypeParts
BY DEF TypeOK, TypeParts, TypeTable, TypePhase, TypeFlags, TypeHeld, TypeWalk, TypeRepair,
       TypeResync

(* What the keeper derives from a value is an entry. *)
LEMMA Classifies ==
    ASSUME TypeOK, NEW k \in Keys, NEW value \in Rows \cup {None}
    PROVE  Classified(k, value) \in Entries
<1>1. config \in 0 .. MaxDisturbances
  BY DEF TypeOK
<1> QED
  BY <1>1 DEF Classified, Entries

(* Nor does it hold what is not the keeper's own. *)
LEMMA ClassifiedCases ==
    ASSUME TypeOK, NEW k \in Keys, NEW value \in Rows \cup {None}
    PROVE  /\ value = None \/ k \notin Owned[nodes] => Classified(k, value) = None
           /\ value # None /\ k \in Owned[nodes] =>
                /\ Classified(k, value) # None
                /\ Classified(k, value).row = value
<1>1. config \in 0 .. MaxDisturbances
  BY DEF TypeOK
<1>2. CASE value = None \/ k \notin Owned[nodes]
  BY <1>2 DEF Classified
<1>3. CASE value # None /\ k \in Owned[nodes]
  <2>1. Classified(k, value) = [row |-> value, config |-> config]
    BY <1>3 DEF Classified
  <2>2. [row |-> value, config |-> config] \in [row : Rows, config : 0 .. MaxDisturbances]
    BY <1>1, <1>3
  <2> QED
    BY <1>3, <2>1, <2>2, KeeperAssumption
<1> QED
  BY <1>2, <1>3

-----------------------------------------------------------------------------
(* Type correctness, part by part. *)
(* Adding to a sequence, and taking its head. *)
LEMMA SequenceMoves ==
    ASSUME NEW S, NEW s \in Seq(S)
    PROVE  /\ <<>> \in Seq(S)
           /\ \A e \in S : Append(s, e) \in Seq(S)
           /\ s # <<>> => Tail(s) \in Seq(S) /\ Head(s) \in S
           /\ \A i \in DOMAIN s : s[i] \in S
           /\ s # <<>> => /\ Len(s) \in Nat \ {0} /\ Head(s) = s[1] /\ DOMAIN s = 1 .. Len(s)
                          /\ DOMAIN Tail(s) = 1 .. Len(s) - 1
                          /\ \A i \in DOMAIN Tail(s) : Tail(s)[i] = s[i + 1]
OBVIOUS

(* What may become of the events not delivered. *)
PendingMoves ==
    \/ pending' \in {pending, <<>>}
    \/ pending # <<>> /\ pending' = Tail(pending)
    \/ \E k \in Keys, gone \in BOOLEAN : pending' = Append(pending, [key |-> k, deleted |-> gone])

(* No step does anything else to them. *)
LEMMA PendingStep == [Next]_vars => PendingMoves
<1> SUFFICES ASSUME [Next]_vars PROVE PendingMoves
  OBVIOUS
<1> USE DEF environment, loading, walk, walkAsked, resyncing, PendingMoves
<1>1. CASE UNCHANGED vars
  BY <1>1 DEF vars
<1>2. ASSUME NEW k \in Keys, NEW value \in Rows \cup {None}, Write(k, value) PROVE PendingMoves
  <2>1. (value = None) \in BOOLEAN
    OBVIOUS
  <2>2. pending' = pending \/ pending' = Append(pending, [key |-> k, deleted |-> value = None])
    BY <1>2 DEF Write
  <2> QED
    BY <2>1, <2>2
<1>3. CASE (\E list \in Lists : NodesChange(list)) \/ SubscriptionCloses
  BY <1>3 DEF NodesChange, SubscriptionCloses
<1>4. CASE ConfigChange
  BY <1>4 DEF ConfigChange, Ask, Begin
<1>5. CASE Load
  BY <1>5 DEF Load, Start, LoadSubscribe, LoadEnd, Settle, Notice, Begin
<1>6. CASE Deliver
  BY <1>6 DEF Deliver
<1>7. CASE Walk \/ Verify \/ VerifySoon \/ VerifyRetry
  BY <1>7 DEF Walk, WalkRead, WalkApply, VerifyWalked, PhantomCheck, VerifyDone, VerifyEnd,
              Verify, VerifySoon, VerifyRetry
<1>8. CASE Repair
  BY <1>8 DEF Repair, RepairRead, RepairApply
<1>9. CASE Publish
  BY <1>9 DEF Publish, Notice, Begin
<1>10. CASE Resync
  BY <1>10 DEF Resync, ResyncSubscribe, Reclassify, Reclassified, ResyncFinish, BackoffOver, Begin
<1>11. CASE Failure
  BY <1>11 DEF Failure, LoadFails, DeliverFails, VerifyFails, VerifyEnd, ResyncFails, Ask, Begin
<1> QED
  BY <1>1, <1>2, <1>3, <1>4, <1>5, <1>6, <1>7, <1>8, <1>9, <1>10, <1>11 DEF Next, World

(* The rest of the world's variables. *)
WorldMoves ==
    /\ \/ table' = table
       \/ \E k \in Keys, value \in Rows \cup {None} : table' = [table EXCEPT ![k] = value]
    /\ nodes' \in Lists /\ nodesKey' \in {nodesKey, nodes, resyncNodes}
    /\ resyncNodes' \in {resyncNodes, nodes, nodesKey}
    /\ \/ disturbances' = disturbances /\ config' = config
       \/ Disturbance /\ config' \in {config, config + 1}

(* Every step moves them so: a list is only ever replaced by one of the    *)
(* keeper's lists, and the config counts disturbances.                      *)
LEMMA WorldStep == TypeOK /\ [Next]_vars => WorldMoves
<1> SUFFICES ASSUME TypeOK, [Next]_vars PROVE WorldMoves
  OBVIOUS
<1> USE DEF environment, loading, walk, walkAsked, resyncing, WorldMoves
<1>0. nodes \in Lists
  BY DEF TypeOK
<1>1. CASE UNCHANGED vars
  BY <1>0, <1>1 DEF vars
<1>2. ASSUME NEW k \in Keys, NEW value \in Rows \cup {None}, Write(k, value) PROVE WorldMoves
  BY <1>0, <1>2 DEF Write, Disturbance
<1>3. CASE (\E list \in Lists : NodesChange(list)) \/ SubscriptionCloses
  BY <1>0, <1>3 DEF NodesChange, SubscriptionCloses, Disturbance
<1>4. CASE ConfigChange
  BY <1>0, <1>4 DEF ConfigChange, Ask, Begin, Disturbance
<1>5. CASE Load
  BY <1>0, <1>5 DEF Load, Start, LoadSubscribe, LoadEnd, Settle, Notice, Begin
<1>6. CASE Deliver
  BY <1>0, <1>6 DEF Deliver
<1>7. CASE Walk \/ Verify \/ VerifySoon \/ VerifyRetry
  BY <1>0, <1>7 DEF Walk, WalkRead, WalkApply, VerifyWalked, PhantomCheck, VerifyDone, VerifyEnd,
              Verify, VerifySoon, VerifyRetry
<1>8. CASE Repair
  BY <1>0, <1>8 DEF Repair, RepairRead, RepairApply
<1>9. CASE Publish
  BY <1>0, <1>9 DEF Publish, Notice, Begin
<1>10. CASE Resync
  BY <1>0, <1>10 DEF Resync, ResyncSubscribe, Reclassify, Reclassified, ResyncFinish, BackoffOver,
                     Begin
<1>11. CASE Failure
  BY <1>0, <1>11 DEF Failure, LoadFails, DeliverFails, VerifyFails, VerifyEnd, ResyncFails, Ask, Begin,
                     Disturbance
<1> QED
  BY <1>1, <1>2, <1>3, <1>4, <1>5, <1>6, <1>7, <1>8, <1>9, <1>10, <1>11 DEF Next, World

(* So they keep their types. *)
LEMMA TableStep == TypeOK /\ config <= disturbances /\ [Next]_vars =>
                     TypeTable' /\ config' <= disturbances'
<1> SUFFICES ASSUME TypeOK, config <= disturbances, [Next]_vars
             PROVE  TypeTable' /\ config' <= disturbances'
  OBVIOUS
<1>0. TypeTable
  BY TypeSplits DEF TypeParts
<1>1. WorldMoves /\ PendingMoves
  BY WorldStep, PendingStep
<1>2. table' \in [Keys -> Rows \cup {None}]
  BY <1>0, <1>1 DEF WorldMoves, TypeTable
<1>3. nodes' \in Lists /\ nodesKey' \in Lists /\ resyncNodes' \in Lists
  BY <1>0, <1>1 DEF WorldMoves, TypeTable
<1>4. {config, disturbances}' \subseteq 0 .. MaxDisturbances /\ config' <= disturbances'
  BY <1>0, <1>1, KeeperAssumption DEF WorldMoves, TypeTable, Disturbance
<1>5. pending' \in Seq([key : Keys, deleted : BOOLEAN])
  <2>0. pending \in Seq([key : Keys, deleted : BOOLEAN])
    BY <1>0 DEF TypeTable
  <2>1. ASSUME NEW k \in Keys, NEW gone \in BOOLEAN,
               pending' = Append(pending, [key |-> k, deleted |-> gone])
        PROVE  pending' \in Seq([key : Keys, deleted : BOOLEAN])
    <3>1. [key |-> k, deleted |-> gone] \in [key : Keys, deleted : BOOLEAN]
      OBVIOUS
    <3> QED
      BY <2>0, <2>1, <3>1, SequenceMoves
  <2>2. CASE pending' \in {pending, <<>>}
    BY <2>0, <2>2, SequenceMoves
  <2>3. CASE pending # <<>> /\ pending' = Tail(pending)
    BY <2>0, <2>3, SequenceMoves
  <2> QED
    BY <1>1, <2>1, <2>2, <2>3 DEF PendingMoves
<1> QED
  BY <1>2, <1>3, <1>4, <1>5 DEF TypeTable

(* What may become of the keeper's entries. *)
HeldMoves ==
    \/ held' = held
    \/ held' = [k \in Keys |-> None]
    \/ \E k \in Keys, value \in Rows \cup {None} : Apply(k, value)

(* Every step that changes an entry classifies a value of the table's. *)
LEMMA HeldStep == TypeOK /\ WalkInv /\ [Next]_vars => HeldMoves
<1> SUFFICES ASSUME TypeOK, WalkInv, [Next]_vars PROVE HeldMoves
  OBVIOUS
<1> USE DEF environment, loading, walk, walkAsked, resyncing, HeldMoves
<1>1. CASE UNCHANGED vars
  BY <1>1 DEF vars
<1>2. CASE World
  BY <1>2 DEF World, Write, NodesChange, ConfigChange, SubscriptionCloses
<1>3. CASE Load
  BY <1>3 DEF Load, Start, LoadSubscribe, LoadEnd, Settle
<1>4. CASE Deliver
  <2> DEFINE e == Head(pending)
             v == IF e.deleted THEN None ELSE table[e.key]
  <2>1. e \in [key : Keys, deleted : BOOLEAN]
    BY <1>4, SequenceMoves DEF Deliver, TypeOK
  <2>2. e.key \in Keys /\ v \in Rows \cup {None}
    BY <2>1 DEF TypeOK
  <2>3. Apply(e.key, v)
    BY <1>4 DEF Deliver
  <2> QED
    BY <2>2, <2>3
<1>5. CASE WalkApply
  <2>1. row # Unread /\ (held' = held \/ Apply(at, row))
    BY <1>5 DEF WalkApply
  <2>2. at \in Keys /\ row \in Rows \cup {None}
    BY <2>1 DEF WalkInv, TypeOK
  <2> QED
    BY <2>1, <2>2
<1>6. CASE WalkRead \/ VerifyWalked \/ (\E k \in Keys : PhantomCheck(k)) \/ VerifyDone
  BY <1>6 DEF WalkRead, VerifyWalked, PhantomCheck, VerifyDone, VerifyEnd
<1>7. CASE Verify \/ VerifySoon \/ VerifyRetry
  BY <1>7 DEF Verify, VerifySoon, VerifyRetry
<1>8. ASSUME NEW p \in Repairs, RepairRead(p) \/ RepairApply(p) PROVE HeldMoves
  <2>1. CASE RepairRead(p)
    BY <2>1 DEF RepairRead
  <2>2. CASE RepairApply(p)
    <3> DEFINE k == repair[p].key
    <3>1. k # 0 /\ repair[p].row # Unread /\ (held' = held \/ Apply(k, repair[p].row))
      BY <2>2 DEF RepairApply
    <3>2. k \in Keys /\ repair[p].row \in Rows \cup {None}
      BY <3>1, KeeperAssumption DEF TypeOK, Keys
    <3> QED
      BY <3>1, <3>2
  <2> QED
    BY <1>8, <2>1, <2>2
<1>9. CASE Publish
  BY <1>9 DEF Publish
<1>10. ASSUME NEW k \in Keys, Reclassify(k) PROVE HeldMoves
  <2>1. HeldValue(k) \in Rows \cup {None}
    BY DEF HeldValue, TypeOK, Entries
  <2> QED
    BY <1>10, <2>1 DEF Reclassify
<1>11. CASE ResyncSubscribe \/ Reclassified \/ ResyncFinish \/ BackoffOver
  BY <1>11 DEF ResyncSubscribe, Reclassified, ResyncFinish, BackoffOver
<1>12. CASE Failure
  BY <1>12 DEF Failure, LoadFails, DeliverFails, VerifyFails, VerifyEnd, ResyncFails
<1> QED
  BY <1>1, <1>2, <1>3, <1>4, <1>5, <1>6, <1>7, <1>8, <1>9, <1>10, <1>11, <1>12
     DEF Next, Walk, Repair, Resync

(* So an entry is one of Entries. *)
LEMMA HeldTyped == TypeOK /\ WalkInv /\ [Next]_vars => TypeHeld'
<1> SUFFICES ASSUME TypeOK, WalkInv, [Next]_vars PROVE TypeHeld'
  OBVIOUS
<1>0. HeldMoves /\ held \in [Keys -> Entries] /\ None \in Entries
  BY HeldStep DEF TypeOK, Entries
<1>1. ASSUME NEW k \in Keys, NEW value \in Rows \cup {None}, Apply(k, value) PROVE TypeHeld'
  <2>1. Classified(k, value) \in Entries
    BY Classifies
  <2>2. held' = [held EXCEPT ![k] = Classified(k, value)]
    BY <1>1 DEF Apply
  <2>3. held' \in [Keys -> Entries]
    BY <1>0, <2>1, <2>2
  <2> QED
    BY <2>3 DEF TypeHeld, Entries
<1>2. CASE held' = held \/ held' = [k \in Keys |-> None]
  BY <1>0, <1>2 DEF TypeHeld, Entries
<1> QED
  BY <1>0, <1>1, <1>2 DEF HeldMoves

(* The walk's cursor, what it has read, and its sets. *)
LEMMA WalkTyped == TypeOK /\ WalkInv /\ [Next]_vars => TypeWalk'
<1> SUFFICES ASSUME TypeOK, WalkInv, [Next]_vars PROVE TypeWalk'
  OBVIOUS
<1> USE DEF environment, loading, walk, walkAsked, resyncing, TypeWalk
<1>0. TypeWalk /\ 1 \in 1 .. NumKeys + 1 /\ HeldKeys \subseteq Keys
  BY KeeperAssumption DEF TypeOK, HeldKeys
<1>1. CASE UNCHANGED vars
  BY <1>0, <1>1 DEF vars
<1>2. CASE World
  BY <1>0, <1>2 DEF World, Write, NodesChange, ConfigChange, SubscriptionCloses
<1>3. CASE Load
  BY <1>0, <1>3 DEF Load, Start, LoadSubscribe, LoadEnd, Settle, NoWalk
<1>4. CASE Deliver \/ DeliverFails
  <2>1. pending # <<>> /\ touched' = Touched(Head(pending).key)
        /\ UNCHANGED <<at, row, seen, phantoms>>
    BY <1>4 DEF Deliver, DeliverFails
  <2>2. Head(pending) \in [key : Keys, deleted : BOOLEAN]
    BY <2>1, SequenceMoves DEF TypeOK
  <2> QED
    BY <1>0, <2>1, <2>2 DEF Touched
<1>5. CASE WalkApply
  <2>1. row # Unread
    BY <1>5 DEF WalkApply
  <2>2. at \in Keys
    BY <2>1 DEF WalkInv
  <2>3. at + 1 \in 1 .. NumKeys + 1
    BY <2>2, KeeperAssumption DEF Keys
  <2> QED
    BY <1>0, <1>5, <2>2, <2>3 DEF WalkApply
<1>6. CASE WalkRead
  <2>1. at \in Keys /\ at + 1 \in 1 .. NumKeys + 1
    BY <1>0, <1>6, KeeperAssumption DEF WalkRead, Keys
  <2>2. table[at] \in Rows \cup {None}
    BY <2>1 DEF TypeOK
  <2> QED
    BY <1>0, <1>6, <2>1, <2>2 DEF WalkRead
<1>7. CASE VerifyWalked \/ (\E k \in Keys : PhantomCheck(k)) \/ VerifyDone
  BY <1>0, <1>7 DEF VerifyWalked, PhantomCheck, VerifyDone, VerifyEnd, NoWalk, Phantoms
<1>8. CASE Verify \/ VerifySoon \/ VerifyRetry
  BY <1>0, <1>8 DEF Verify, VerifySoon, VerifyRetry, VerifyBegin
<1>9. CASE Repair
  BY <1>0, <1>9 DEF Repair, RepairRead, RepairApply
<1>10. CASE Publish
  BY <1>0, <1>10 DEF Publish
<1>11. CASE Resync
  BY <1>0, <1>11 DEF Resync, ResyncSubscribe, Reclassify, Reclassified, ResyncFinish, BackoffOver,
                     VerifyBegin
<1>12. CASE LoadFails \/ VerifyFails \/ ResyncFails
  BY <1>0, <1>12 DEF LoadFails, VerifyFails, VerifyEnd, ResyncFails, NoWalk
<1> QED
  BY <1>1, <1>2, <1>3, <1>4, <1>5, <1>6, <1>7, <1>8, <1>9, <1>10, <1>11, <1>12
     DEF Next, Walk, Failure

(* The repairs under way. *)
Repairing == [key : 0 .. NumKeys, before : Entries, row : Rows \cup {None, Unread}, newer : BOOLEAN]

(* Their records, and those of a repair that begins. *)
LEMMA RepairTypes ==
    /\ TypeOK => repair \in [Repairs -> Repairing]
    /\ Idle \in Repairing
    /\ \A k \in Keys, e \in Entries : [Idle EXCEPT !.key = k, !.before = e] \in Repairing
<1>1. TypeOK => repair \in [Repairs -> Repairing]
  BY DEF TypeOK, Repairing
<1>2. None \in Entries /\ \A k \in Keys : k \in 0 .. NumKeys
  BY KeeperAssumption DEF Entries, Keys
<1>3. 0 \in 0 .. NumKeys
  BY KeeperAssumption
<1>4. Idle \in Repairing
  BY <1>2, <1>3 DEF Repairing, Idle
<1> QED
  BY <1>1, <1>2, <1>4 DEF Repairing

(* An event or an application of a walk changes no more than newer. *)
LEMMA OvertakenTyped ==
    ASSUME TypeOK, NEW k
    PROVE  /\ Overtaken(k) \in [Repairs -> Repairing]
           /\ \A p \in Repairs :
                /\ Overtaken(k)[p].key = repair[p].key
                /\ Overtaken(k)[p].before = repair[p].before
                /\ Overtaken(k)[p].row = repair[p].row
                /\ repair[p].newer => Overtaken(k)[p].newer
                /\ Overtaken(k)[p].newer =>
                     repair[p].newer \/ (repair[p].key = k /\ repair[p].row # Unread)
                /\ repair[p].key = k /\ repair[p].row # Unread => Overtaken(k)[p].newer
<1>1. repair \in [Repairs -> Repairing]
  BY RepairTypes
<1>2. ASSUME NEW p \in Repairs
      PROVE  /\ Overtaken(k)[p] \in Repairing
             /\ Overtaken(k)[p].key = repair[p].key
             /\ Overtaken(k)[p].before = repair[p].before
             /\ Overtaken(k)[p].row = repair[p].row
             /\ repair[p].newer => Overtaken(k)[p].newer
             /\ Overtaken(k)[p].newer =>
                  repair[p].newer \/ (repair[p].key = k /\ repair[p].row # Unread)
             /\ repair[p].key = k /\ repair[p].row # Unread => Overtaken(k)[p].newer
  <2>1. repair[p] \in Repairing
    BY <1>1
  <2>2. CASE repair[p].key = k /\ repair[p].row # Unread
    <3>1. Overtaken(k)[p] = [repair[p] EXCEPT !.newer = TRUE]
      BY <2>2 DEF Overtaken
    <3> QED
      BY <2>1, <2>2, <3>1 DEF Repairing
  <2>3. CASE ~(repair[p].key = k /\ repair[p].row # Unread)
    <3>1. Overtaken(k)[p] = repair[p]
      BY <2>3 DEF Overtaken
    <3> QED
      BY <2>1, <2>3, <3>1
  <2> QED
    BY <2>2, <2>3
<1>3. Overtaken(k) \in [Repairs -> Repairing]
  BY <1>2 DEF Overtaken
<1> QED
  BY <1>2, <1>3

(* A check that begins has read nothing yet. *)
LEMMA HeadCheckMoves ==
    ASSUME TypeOK, HeadCheck
    PROVE  /\ repair' \in [Repairs -> Repairing]
           /\ repair'["phantom"] = repair["phantom"]
           /\ \/ repair' = repair
              \/ /\ repair'["head"].key # 0 /\ repair'["head"].row = Unread
                 /\ ~repair'["head"].newer /\ repair'["head"].before # None
<1>1. repair \in [Repairs -> Repairing]
  BY RepairTypes
<1>2. CASE repair' = repair
  BY <1>1, <1>2
<1>3. ASSUME NEW k \in HeldKeys,
             repair' = [repair EXCEPT !["head"] = [Idle EXCEPT !.key = k, !.before = held[k]]]
      PROVE  /\ repair' \in [Repairs -> Repairing]
             /\ repair'["phantom"] = repair["phantom"]
             /\ repair'["head"].key # 0 /\ repair'["head"].row = Unread
             /\ ~repair'["head"].newer /\ repair'["head"].before # None
  <2> DEFINE r == [Idle EXCEPT !.key = k, !.before = held[k]]
  <2>1. k \in Keys /\ held[k] \in Entries /\ held[k] # None
    BY DEF HeldKeys, TypeOK
  <2>2. r \in Repairing
    BY <2>1, RepairTypes
  <2>5. k # 0
    BY <2>1 DEF Keys
  <2>3. r.key = k /\ r.row = Unread /\ ~r.newer /\ r.before = held[k]
    BY DEF Idle
  <2>4. repair' = [repair EXCEPT !["head"] = r]
    BY <1>3
  <2> HIDE DEF r
  <2> QED
    BY <1>1, <2>1, <2>2, <2>3, <2>4, <2>5 DEF Repairs
<1> QED
  BY <1>2, <1>3 DEF HeadCheck

(* Every step leaves repairs of this type. *)
LEMMA RepairTyped == TypeOK /\ [Next]_vars => TypeRepair'
<1> SUFFICES ASSUME TypeOK, [Next]_vars PROVE repair' \in [Repairs -> Repairing]
  BY DEF TypeRepair, Repairing, Entries
<1> USE DEF environment, loading, walk, walkAsked, resyncing
<1>0. repair \in [Repairs -> Repairing] /\ Idle \in Repairing
  BY RepairTypes
<1>1. CASE UNCHANGED vars
  BY <1>0, <1>1 DEF vars
<1>2. CASE World
  BY <1>0, <1>2 DEF World, Write, NodesChange, ConfigChange, SubscriptionCloses
<1>3. CASE Start \/ LoadSubscribe \/ Settle
  BY <1>0, <1>3 DEF Start, LoadSubscribe, Settle
<1>4. CASE LoadEnd \/ Publish
  BY <1>4, HeadCheckMoves DEF LoadEnd, Publish
<1>5. CASE Deliver
  <2> DEFINE k == Head(pending).key
  <2>1. repair' = Overtaken(k)
    BY <1>5 DEF Deliver
  <2> HIDE DEF k
  <2> QED
    BY <2>1, OvertakenTyped
<1>6. CASE WalkApply
  BY <1>0, <1>6, OvertakenTyped DEF WalkApply
<1>7. CASE WalkRead \/ VerifyWalked \/ VerifyDone
  BY <1>0, <1>7 DEF WalkRead, VerifyWalked, VerifyDone, VerifyEnd
<1>8. ASSUME NEW k \in Keys, PhantomCheck(k) PROVE repair' \in [Repairs -> Repairing]
  <2>1. held[k] \in Entries
    BY DEF TypeOK
  <2>2. [Idle EXCEPT !.key = k, !.before = held[k]] \in Repairing
    BY <2>1, RepairTypes
  <2> QED
    BY <1>0, <1>8, <2>2 DEF PhantomCheck
<1>9. CASE Verify \/ VerifySoon \/ VerifyRetry
  BY <1>0, <1>9 DEF Verify, VerifySoon, VerifyRetry
<1>10. ASSUME NEW p \in Repairs, RepairRead(p) \/ RepairApply(p)
       PROVE  repair' \in [Repairs -> Repairing]
  <2>1. CASE RepairRead(p)
    <3>1. repair[p] \in Repairing /\ repair[p].key # 0
          /\ repair' = [repair EXCEPT ![p].row = table[repair[p].key]]
      BY <1>0, <2>1 DEF RepairRead
    <3>2. repair[p].key \in Keys
      BY <3>1, KeeperAssumption DEF Repairing, Keys
    <3>3. table[repair[p].key] \in Rows \cup {None, Unread}
      BY <3>2 DEF TypeOK
    <3>4. [repair[p] EXCEPT !.row = table[repair[p].key]] \in Repairing
      BY <3>1, <3>3 DEF Repairing
    <3> QED
      BY <1>0, <3>1, <3>4
  <2>2. CASE RepairApply(p)
    BY <1>0, <2>2 DEF RepairApply
  <2> QED
    BY <1>10, <2>1, <2>2
<1>11. CASE Resync
  BY <1>0, <1>11 DEF Resync, ResyncSubscribe, Reclassify, Reclassified, ResyncFinish, BackoffOver
<1>12. CASE Failure
  BY <1>0, <1>12 DEF Failure, LoadFails, DeliverFails, VerifyFails, VerifyEnd, ResyncFails
<1> QED
  BY <1>1, <1>2, <1>3, <1>4, <1>5, <1>6, <1>7, <1>8, <1>9, <1>10, <1>11, <1>12
     DEF Next, Load, Walk, Repair

(* The requests that may be pending or served. *)
LEMMA RequestsTyped ==
    ASSUME TypeOK, NEW r \in Requests
    PROVE  /\ Merged(r) \in Requests
           /\ r.walk => Merged(r).walk
           /\ queued # NoRequest /\ queued.walk => Merged(r).walk
           /\ (r.resubscribe => r.walk) /\ (queued # NoRequest /\ queued.resubscribe => queued.walk) =>
                (Merged(r).resubscribe => Merged(r).walk)
<1>1. CASE queued = NoRequest
  BY <1>1 DEF Merged
<1>2. CASE queued # NoRequest
  <2>1. queued \in Requests
    BY <1>2 DEF TypeOK
  <2>2. Merged(r) = [resubscribe |-> r.resubscribe \/ queued.resubscribe,
                     walk |-> r.walk \/ queued.walk]
    BY <1>2 DEF Merged
  <2>3. PICK b \in BOOLEAN, w \in BOOLEAN : /\ b = (r.resubscribe \/ queued.resubscribe)
                                            /\ w = (r.walk \/ queued.walk)
    OBVIOUS
  <2>4. Merged(r) = [resubscribe |-> b, walk |-> w]
    BY <2>2, <2>3, Zenon
  <2>5. Merged(r) \in Requests /\ Merged(r).resubscribe = b /\ Merged(r).walk = w
    BY <2>4 DEF Requests
  <2> QED
    BY <1>2, <2>3, <2>5, Zenon
<1> QED
  BY <1>1, <1>2

(* The requests, and the keys to reclassify. *)
LEMMA ResyncTyped == TypeOK /\ [Next]_vars => TypeResync'
<1> SUFFICES ASSUME TypeOK, [Next]_vars PROVE TypeResync'
  OBVIOUS
<1> USE DEF environment, loading, walk, walkAsked, resyncing, TypeResync
<1>0. /\ TypeResync /\ HeldKeys \subseteq Keys /\ {} \subseteq Keys
      /\ \A r \in Requests : Merged(r) \in Requests
      /\ \A b \in BOOLEAN, w \in BOOLEAN : [resubscribe |-> b, walk |-> w] \in Requests
  BY RequestsTyped DEF TypeOK, HeldKeys, Requests
<1>1. CASE UNCHANGED vars
  BY <1>0, <1>1 DEF vars
<1>2. CASE World
  <2>1. CASE ConfigChange
    BY <1>0, <2>1 DEF ConfigChange, Ask, Begin
  <2>2. CASE (\E list \in Lists : NodesChange(list))
    BY <1>0, <2>2 DEF NodesChange, Lapses
  <2> QED
    BY <1>0, <1>2, <2>1, <2>2 DEF World, Write, SubscriptionCloses
<1>3. CASE Load
  <2>1. CASE LoadEnd
    BY <1>0, <2>1 DEF LoadEnd, Notice, Begin
  <2>2. CASE Settle
    <3> DEFINE deferred == IF queued = NoRequest THEN [resubscribe |-> FALSE, walk |-> FALSE]
                                                 ELSE queued
               moved == nodes # nodesKey
    <3>1. deferred \in Requests
      BY <1>0
    <3>2. PICK w \in BOOLEAN : w = (deferred.walk \/ moved)
      OBVIOUS
    <3>3. [deferred EXCEPT !.walk = w] \in Requests /\ [deferred EXCEPT !.walk = TRUE] \in Requests
      BY <3>1 DEF Requests
    <3>4. \/ /\ queued' \in {queued, [deferred EXCEPT !.walk = TRUE]}
             /\ UNCHANGED <<asked, rest, lapsed>>
          \/ Begin([deferred EXCEPT !.walk = w], pending) /\ queued' = NoRequest /\ lapsed' = lapsed
      BY <2>2, <3>2 DEF Settle
    <3> HIDE DEF deferred, moved
    <3> QED
      BY <1>0, <3>3, <3>4 DEF Begin
  <2> QED
    BY <1>0, <1>3, <2>1, <2>2 DEF Load, Start, LoadSubscribe
<1>4. CASE Deliver
  BY <1>0, <1>4 DEF Deliver
<1>5. CASE Walk \/ Verify \/ VerifySoon \/ VerifyRetry
  BY <1>0, <1>5 DEF Walk, WalkRead, WalkApply, VerifyWalked, PhantomCheck, VerifyDone, VerifyEnd,
                    Verify, VerifySoon, VerifyRetry
<1>6. CASE Repair
  BY <1>0, <1>6 DEF Repair, RepairRead, RepairApply, Lapses
<1>7. CASE Publish
  BY <1>0, <1>7 DEF Publish, Notice, Begin
<1>8. CASE Resync
  <2>1. CASE ResyncFinish
    BY <1>0, <2>1 DEF ResyncFinish, Begin
  <2> QED
    BY <1>0, <1>8, <2>1 DEF Resync, ResyncSubscribe, Reclassify, Reclassified, BackoffOver, Lapses
<1>9. CASE Failure
  <2>1. CASE DeliverFails
    BY <1>0, <2>1 DEF DeliverFails, Ask, Begin
  <2> QED
    BY <1>0, <1>9, <2>1 DEF Failure, LoadFails, VerifyFails, VerifyEnd, ResyncFails, Lapses
<1> QED
  BY <1>1, <1>2, <1>3, <1>4, <1>5, <1>6, <1>7, <1>8, <1>9 DEF Next

(* The flags. *)
LEMMA FlagsTyped == TypeOK /\ [Next]_vars => TypeFlags'
<1> SUFFICES ASSUME TypeOK, [Next]_vars PROVE TypeFlags'
  OBVIOUS
<1> USE DEF environment, loading, walk, walkAsked, resyncing
<1>0. /\ wanted \in BOOLEAN /\ walkWanted \in BOOLEAN /\ walkRetry \in BOOLEAN
      /\ verifySoon \in BOOLEAN /\ backoff \in BOOLEAN /\ settling \in BOOLEAN
  BY DEF TypeOK
<1>1. settling' \in BOOLEAN /\ backoff' \in BOOLEAN
  <2>1. settling' \in {settling, TRUE, FALSE} /\ backoff' \in {backoff, TRUE, FALSE}
    BY DEF Next, vars, World, Write, NodesChange, ConfigChange, SubscriptionCloses, Ask, Load,
           Start, LoadSubscribe, LoadEnd, Settle, Deliver, Walk, WalkRead, WalkApply, VerifyWalked,
           PhantomCheck, VerifyDone, VerifyEnd, Verify, VerifySoon, VerifyRetry, Repair, RepairRead,
           RepairApply, Publish, Resync, ResyncSubscribe, Reclassify, Reclassified, ResyncFinish,
           BackoffOver, Failure, LoadFails, DeliverFails, VerifyFails, ResyncFails
  <2> QED
    BY <1>0, <2>1
<1>2. wanted' \in BOOLEAN /\ walkRetry' \in BOOLEAN
  <2>1. wanted' \in {wanted, walkWanted, TRUE, FALSE} /\ walkRetry' \in {walkRetry, TRUE, FALSE}
    BY DEF Next, vars, World, Write, NodesChange, ConfigChange, SubscriptionCloses, Load, NoWalk,
           Start, LoadSubscribe, LoadEnd, Settle, Deliver, Walk, WalkRead, WalkApply, VerifyWalked,
           PhantomCheck, VerifyDone, VerifyEnd, Verify, VerifySoon, VerifyRetry, Repair, RepairRead,
           RepairApply, Publish, Resync, ResyncSubscribe, Reclassify, Reclassified, ResyncFinish,
           BackoffOver, Failure, LoadFails, DeliverFails, VerifyFails, ResyncFails, VerifyBegin
  <2> QED
    BY <1>0, <2>1
<1>3. walkWanted' \in BOOLEAN /\ verifySoon' \in BOOLEAN
  <2>1. walkWanted' \in {walkWanted, TRUE, FALSE, walkWanted \/ asked.walk}
    BY DEF Next, vars, World, Write, NodesChange, ConfigChange, SubscriptionCloses, Load, NoWalk,
           Start, LoadSubscribe, LoadEnd, Settle, Deliver, Walk, WalkRead, WalkApply, VerifyWalked,
           PhantomCheck, VerifyDone, VerifyEnd, Verify, VerifySoon, VerifyRetry, Repair, RepairRead,
           RepairApply, Publish, Resync, ResyncSubscribe, Reclassify, Reclassified, ResyncFinish,
           BackoffOver, Failure, LoadFails, DeliverFails, VerifyFails, ResyncFails, VerifyBegin
  <2>2. verifySoon' \in {verifySoon, FALSE, verifySoon \/ walkWanted}
    BY DEF Next, vars, World, Write, NodesChange, ConfigChange, SubscriptionCloses, Load, NoWalk,
           Start, LoadSubscribe, LoadEnd, Settle, Deliver, Walk, WalkRead, WalkApply, VerifyWalked,
           PhantomCheck, VerifyDone, VerifyEnd, Verify, VerifySoon, VerifyRetry, Repair, RepairRead,
           RepairApply, Publish, Resync, ResyncSubscribe, Reclassify, Reclassified, ResyncFinish,
           BackoffOver, Failure, LoadFails, DeliverFails, VerifyFails, ResyncFails, WalkWanted
  <2> QED
    BY <1>0, <2>1, <2>2
<1> QED
  BY <1>1, <1>2, <1>3 DEF TypeFlags

(* The phases. *)
LEMMA PhaseStep == TypeOK /\ PhaseInv /\ [Next]_vars => TypePhase' /\ PhaseInv'
<1> SUFFICES ASSUME TypeOK, PhaseInv, [Next]_vars PROVE TypePhase' /\ PhaseInv'
  OBVIOUS
<1> USE DEF environment, loading, walk, walkAsked, resyncing
<1> DEFINE Flags == phase # "live" => ~walkWanted /\ ~walkRetry /\ ~settling
                                      /\ repair = [p \in Repairs |-> Idle]
           Rest == /\ walker = "load" => phase = "loading"
                   /\ phase = "loading" /\ walker = "none" => \A k \in Keys : held[k] = None
                   /\ subscription = "open" => Serving /\ ~(phase = "loading" /\ walker = "none")
                   /\ subscription # "open" => pending = <<>>
<1>0. TypePhase /\ Flags /\ Rest /\ config <= disturbances
  BY TypeSplits DEF TypeParts, PhaseInv
<1>1. config' <= disturbances'
  BY <1>0, TableStep
<1>2. TypePhase' /\ Flags' /\ Rest'
  <2> USE DEF TypePhase, Serving
  <2>1. CASE UNCHANGED vars
    BY <1>0, <2>1 DEF vars
  <2>2. CASE World
    <3>1. ASSUME NEW k \in Keys, NEW value \in Rows \cup {None}, Write(k, value)
          PROVE  TypePhase' /\ Flags' /\ Rest'
      BY <1>0, <3>1 DEF Write
    <3>2. CASE ConfigChange
      BY <1>0, <3>2 DEF ConfigChange, Ask, Begin
    <3>3. ASSUME NEW list \in Lists, NodesChange(list) PROVE TypePhase' /\ Flags' /\ Rest'
      BY <1>0, <3>3 DEF NodesChange
    <3>4. CASE SubscriptionCloses
      BY <1>0, <3>4 DEF SubscriptionCloses
    <3> QED
      BY <2>2, <3>1, <3>2, <3>3, <3>4 DEF World
  <2>3. CASE Load
    <3>1. CASE Start
      BY <1>0, <3>1 DEF Start
    <3>2. CASE LoadSubscribe
      BY <1>0, <3>2 DEF LoadSubscribe
    <3>3. CASE LoadEnd
      BY <1>0, <3>3 DEF LoadEnd, Notice, Begin
    <3>4. CASE Settle
      BY <1>0, <3>4 DEF Settle, Begin
    <3> QED
      BY <2>3, <3>1, <3>2, <3>3, <3>4 DEF Load
  <2>4. CASE Deliver
    <3>1. phase # "live" => Overtaken(Head(pending).key) = repair
      BY <1>0 DEF Overtaken, Idle
    <3>2. subscription = "open" /\ subscription' = "open"
          /\ UNCHANGED <<loading, walker, walkWanted, walkRetry, resync>>
      BY <2>4 DEF Deliver
    <3>3. Flags'
      BY <1>0, <2>4, <3>1 DEF Deliver
    <3> QED
      BY <1>0, <3>2, <3>3
  <2>5. CASE DeliverFails
    BY <1>0, <2>5 DEF DeliverFails, Ask, Begin
  <2>6. CASE Walk
    <3>1. CASE WalkRead
      BY <1>0, <3>1 DEF WalkRead
    <3>2. CASE WalkApply
      <4>1. phase # "live" => Overtaken(at) = repair
        BY <1>0 DEF Overtaken, Idle
      <4>2. walker # "none"
            /\ UNCHANGED <<loading, walker, subscription, pending, walkWanted, walkRetry, resync>>
            /\ repair' \in {repair, Overtaken(at)}
        BY <3>2 DEF WalkApply
      <4> QED
        BY <1>0, <4>1, <4>2
    <3>3. CASE VerifyWalked
      BY <1>0, <3>3 DEF VerifyWalked
    <3>4. ASSUME NEW k \in Keys, PhantomCheck(k) PROVE TypePhase' /\ Flags' /\ Rest'
      BY <1>0, <3>4 DEF PhantomCheck
    <3>5. CASE VerifyDone
      BY <1>0, <3>5 DEF VerifyDone, VerifyEnd
    <3> QED
      BY <2>6, <3>1, <3>2, <3>3, <3>4, <3>5 DEF Walk
  <2>7. CASE Verify \/ VerifySoon \/ VerifyRetry
    BY <1>0, <2>7 DEF Verify, VerifySoon, VerifyRetry, MayVerify, VerifyBegin
  <2>8. ASSUME NEW p \in Repairs, RepairRead(p) \/ RepairApply(p)
        PROVE  TypePhase' /\ Flags' /\ Rest'
    <3>1. phase = "live"
      BY <1>0, <2>8 DEF RepairRead, RepairApply, Idle
    <3>2. UNCHANGED <<loading, walker, subscription, pending, resync>>
      BY <2>8 DEF RepairRead, RepairApply
    <3> QED
      BY <1>0, <3>1, <3>2
  <2>9. CASE Publish
    BY <1>0, <2>9 DEF Publish, Notice, Begin
  <2>10. CASE Resync
    BY <1>0, <2>10 DEF Resync, ResyncSubscribe, Reclassify, Reclassified, ResyncFinish, BackoffOver,
                       VerifyBegin, Begin
  <2>11. CASE LoadFails
    BY <1>0, <2>11 DEF LoadFails
  <2>12. CASE VerifyFails
    BY <1>0, <2>12 DEF VerifyFails, VerifyEnd
  <2>13. CASE ResyncFails
    BY <1>0, <2>13 DEF ResyncFails
  <2> QED
    BY <2>1, <2>2, <2>3, <2>4, <2>5, <2>6, <2>7, <2>8, <2>9, <2>10, <2>11, <2>12, <2>13
       DEF Next, Repair, Failure
<1> QED
  BY <1>1, <1>2 DEF PhaseInv

-----------------------------------------------------------------------------
(* The other parts of the state's invariant. *)
(* A resync that begins serves its request. *)
LEMMA BeginServes ==
    ASSUME NEW r \in Requests, NEW events, r.resubscribe => r.walk, Begin(r, events)
    PROVE  /\ asked' \in Requests /\ (asked'.resubscribe => asked'.walk)
           /\ resync' = "subscribe" => asked'.walk /\ subscription' # "open"
BY DEF Begin

(* Requests that are made with a walk, or with neither. *)
LEMMA RequestStep == TypeOK /\ PhaseInv /\ RequestInv /\ [Next]_vars => RequestInv'
<1> SUFFICES ASSUME TypeOK, PhaseInv, RequestInv, [Next]_vars PROVE RequestInv'
  OBVIOUS
<1> USE DEF environment, loading, walk, walkAsked, resyncing
<1> DEFINE Waiting == queued # NoRequest /\ queued.resubscribe => queued.walk
           Served == /\ resync # "idle" => asked \in Requests /\ (asked.resubscribe => asked.walk)
                     /\ resync = "subscribe" => asked.walk /\ subscription # "open"
<1>0. Waiting /\ Served /\ TypePhase
  BY TypeSplits DEF TypeParts, RequestInv
<1>1. \A w \in BOOLEAN : LET r == [resubscribe |-> FALSE, walk |-> w]
                         IN  r \in Requests /\ (Merged(r).resubscribe => Merged(r).walk)
  <2>1. ASSUME NEW w \in BOOLEAN PROVE [resubscribe |-> FALSE, walk |-> w] \in Requests
    BY DEF Requests
  <2> QED
    BY <1>0, <2>1, RequestsTyped
<1>2. Waiting' /\ Served'
  <2>1. CASE UNCHANGED vars
    BY <1>0, <2>1 DEF vars
  <2>2. CASE World
    <3>1. CASE ConfigChange
      <4>1. Waiting'
        BY <1>0, <1>1, <3>1 DEF ConfigChange, Ask, Begin
      <4>2. Served'
        <5>1. [resubscribe |-> FALSE, walk |-> FALSE] \in Requests
          BY <1>1
        <5> QED
          BY <1>0, <3>1, <5>1, BeginServes DEF ConfigChange, Ask
      <4> QED
        BY <4>1, <4>2
    <3> QED
      BY <1>0, <2>2, <3>1 DEF World, Write, NodesChange, SubscriptionCloses
  <2>3. CASE DeliverFails
    <3>1. Waiting'
      BY <1>0, <1>1, <2>3 DEF DeliverFails, Ask, Begin
    <3>2. Served'
      <4>1. [resubscribe |-> FALSE, walk |-> TRUE] \in Requests
        BY <1>1
      <4> QED
        BY <1>0, <2>3, <4>1, BeginServes DEF DeliverFails, Ask
    <3> QED
      BY <3>1, <3>2
  <2>4. CASE Start \/ LoadSubscribe \/ LoadFails
    BY <1>0, <2>4 DEF Start, LoadSubscribe, LoadFails, TypePhase
  <2>5. CASE LoadEnd \/ Publish
    <3>1. /\ UNCHANGED queued
          /\ (Notice \/ UNCHANGED <<subscription, pending, resync, asked, rest, resyncNodes>>)
      BY <2>5 DEF LoadEnd, Publish
    <3>2. [resubscribe |-> TRUE, walk |-> TRUE] \in Requests
          /\ [resubscribe |-> FALSE, walk |-> TRUE] \in Requests
      BY DEF Requests
    <3>3. CASE Begin([resubscribe |-> TRUE, walk |-> TRUE], pending)
      BY <1>0, <3>1, <3>2, <3>3, BeginServes
    <3>4. CASE Begin([resubscribe |-> FALSE, walk |-> TRUE], pending)
      BY <1>0, <3>1, <3>2, <3>4, BeginServes
    <3> QED
      BY <1>0, <3>1, <3>3, <3>4 DEF Notice
  <2>6. CASE Settle
    <3> DEFINE deferred == IF queued = NoRequest THEN [resubscribe |-> FALSE, walk |-> FALSE]
                                                 ELSE queued
               moved == nodes # nodesKey
    <3>1. deferred \in Requests /\ (deferred.resubscribe => deferred.walk)
      BY <1>0 DEF TypeOK, Requests
    <3>2. PICK w \in BOOLEAN : w = (deferred.walk \/ moved)
      OBVIOUS
    <3>3. \/ /\ queued' \in {queued, [deferred EXCEPT !.walk = TRUE]}
             /\ UNCHANGED <<asked, resync, subscription>>
          \/ Begin([deferred EXCEPT !.walk = w], pending) /\ queued' = NoRequest
      BY <2>6, <3>2 DEF Settle
    <3> HIDE DEF moved
    <3>4. deferred.walk => w
      BY <3>2
    <3> HIDE DEF deferred
    <3>5. LET r == [deferred EXCEPT !.walk = w] IN r \in Requests /\ (r.resubscribe => r.walk)
      BY <3>1, <3>4 DEF Requests
    <3>6. LET r == [deferred EXCEPT !.walk = TRUE] IN r.resubscribe => r.walk
      BY <3>1 DEF Requests
    <3> QED
      BY <1>0, <3>3, <3>5, <3>6, BeginServes
  <2>7. CASE ResyncFinish
    <3>1. queued # NoRequest => queued \in Requests
      BY DEF TypeOK
    <3> QED
      BY <1>0, <2>7, <3>1, BeginServes DEF ResyncFinish
  <2>8. CASE Deliver \/ Walk \/ Verify \/ VerifySoon \/ VerifyRetry \/ Repair \/ VerifyFails
    BY <1>0, <2>8 DEF Deliver, Walk, WalkRead, WalkApply, VerifyWalked, PhantomCheck, VerifyDone,
                      VerifyEnd, Verify, VerifySoon, VerifyRetry, Repair, RepairRead, RepairApply,
                      VerifyFails
  <2>9. CASE ResyncSubscribe \/ (\E k \in Keys : Reclassify(k)) \/ Reclassified \/ BackoffOver
             \/ ResyncFails
    BY <1>0, <2>9 DEF ResyncSubscribe, Reclassify, Reclassified, BackoffOver, ResyncFails
  <2> QED
    BY <2>1, <2>2, <2>3, <2>4, <2>5, <2>6, <2>7, <2>8, <2>9 DEF Next, Load, Resync, Failure
<1> QED
  BY <1>2 DEF RequestInv

(* The end of a walk sees to a walk wanted meanwhile. *)
LEMMA WantedStep == TypeOK /\ PhaseInv /\ WantedInv /\ [Next]_vars => WantedInv'
<1> SUFFICES ASSUME TypeOK, PhaseInv, WantedInv, [Next]_vars PROVE WantedInv'
  OBVIOUS
<1> USE DEF environment, loading, walk, walkAsked, resyncing
<1>1. CASE VerifyDone \/ VerifyFails
  <2>1. walkWanted' = walkWanted
        /\ (walkRetry' \/ verifySoon' = (verifySoon \/ walkWanted))
    BY <1>1 DEF VerifyDone, VerifyFails, VerifyEnd, WalkWanted
  <2> QED
    BY <2>1 DEF WantedInv
<1>2. CASE LoadEnd \/ LoadFails \/ Start \/ LoadSubscribe
  <2>1. ~walkWanted /\ walkWanted' = walkWanted
    BY <1>2 DEF LoadEnd, LoadFails, Start, LoadSubscribe, PhaseInv
  <2> QED
    BY <2>1 DEF WantedInv
<1>3. CASE Verify \/ VerifySoon \/ VerifyRetry \/ Reclassified
  <2>1. \/ walkWanted' => walker' # "none"
        \/ (walkWanted' = walkWanted /\ UNCHANGED <<walker, verifySoon, walkRetry>>)
    BY <1>3 DEF Verify, VerifySoon, VerifyRetry, Reclassified, VerifyBegin
  <2> QED
    BY <2>1 DEF WantedInv
<1> QED
  BY <1>1, <1>2, <1>3 DEF Next, vars, World, Write, NodesChange, ConfigChange, SubscriptionCloses,
       Load, Settle, Deliver, Walk, WalkRead, WalkApply, VerifyWalked, PhantomCheck, Repair,
       RepairRead, RepairApply, Publish, Resync, ResyncSubscribe, Reclassify, ResyncFinish,
       BackoffOver, Failure, DeliverFails, ResyncFails, WantedInv

(* A deletion that the table does not bear out has an event behind it: the  *)
(* write that undid it.                                                     *)
LEMMA EventStep == TypeOK /\ PhaseInv /\ EventInv /\ [Next]_vars => EventInv'
<1> SUFFICES ASSUME TypeOK, PhaseInv, EventInv, [Next]_vars PROVE EventInv'
  OBVIOUS
<1> USE DEF environment, loading, walk, walkAsked, resyncing
<1>0. pending \in Seq([key : Keys, deleted : BOOLEAN])
  BY DEF TypeOK
<1>1. CASE table' = table /\ pending' \in {pending, <<>>}
  BY <1>0, <1>1 DEF EventInv
<1>2. CASE table' = table /\ pending # <<>> /\ pending' = Tail(pending)
  <2>1. /\ Len(pending) \in Nat \ {0} /\ DOMAIN pending = 1 .. Len(pending)
        /\ DOMAIN pending' = 1 .. Len(pending) - 1
        /\ \A i \in DOMAIN pending' : pending'[i] = pending[i + 1]
    BY <1>0, <1>2
  <2>2. SUFFICES ASSUME NEW i \in DOMAIN pending', pending'[i].deleted, table[pending'[i].key] # None
                 PROVE  \E j \in DOMAIN pending' : j > i /\ pending'[j].key = pending'[i].key
    BY <1>2 DEF EventInv
  <2>3. i + 1 \in DOMAIN pending /\ pending'[i] = pending[i + 1]
    BY <2>1
  <2>4. PICK j \in DOMAIN pending : j > i + 1 /\ pending[j].key = pending[i + 1].key
    BY <2>2, <2>3 DEF EventInv
  <2>5. j - 1 \in DOMAIN pending' /\ j - 1 > i /\ pending'[j - 1] = pending[j]
    BY <2>1, <2>4
  <2> QED
    BY <2>3, <2>4, <2>5
<1>3. ASSUME NEW k \in Keys, NEW value \in Rows \cup {None}, Write(k, value) PROVE EventInv'
  <2>1. table \in [Keys -> Rows \cup {None}]
        /\ table' = [table EXCEPT ![k] = value]
    BY <1>3 DEF Write, TypeOK
  <2>2. CASE subscription # "open"
    BY <1>3, <2>2 DEF Write, PhaseInv, EventInv
  <2>3. CASE subscription = "open"
    <3> DEFINE e == [key |-> k, deleted |-> value = None]
    <3>1. pending' = Append(pending, e)
      BY <1>3, <2>3 DEF Write
    <3>2. e.key = k /\ (e.deleted <=> value = None)
      OBVIOUS
    <3> HIDE DEF e
    <3>3. /\ Len(pending) \in Nat /\ DOMAIN pending = 1 .. Len(pending)
          /\ DOMAIN pending' = 1 .. Len(pending) + 1
          /\ \A i \in DOMAIN pending : pending'[i] = pending[i]
          /\ pending'[Len(pending) + 1] = e
      BY <1>0, <3>1
    <3>4. SUFFICES ASSUME NEW i \in DOMAIN pending', pending'[i].deleted, table'[pending'[i].key] # None
                   PROVE  \E j \in DOMAIN pending' : j > i /\ pending'[j].key = pending'[i].key
      BY DEF EventInv
    <3>5. CASE i = Len(pending) + 1
      BY <2>1, <3>2, <3>3, <3>4, <3>5
    <3>6. CASE i \in DOMAIN pending /\ pending[i].key = k
      BY <3>2, <3>3, <3>6
    <3>7. CASE i \in DOMAIN pending /\ pending[i].key # k
      <4>0. pending[i] \in [key : Keys, deleted : BOOLEAN]
        BY <1>0, <3>7, SequenceMoves
      <4>1. pending[i].key \in Keys
        BY <4>0
      <4>2. table'[pending[i].key] = table[pending[i].key]
        BY <2>1, <3>7, <4>1
      <4>3. PICK j \in DOMAIN pending : j > i /\ pending[j].key = pending[i].key
        BY <3>3, <3>4, <3>7, <4>2 DEF EventInv
      <4> QED
        BY <3>3, <3>7, <4>3
    <3> QED
      BY <3>3, <3>5, <3>6, <3>7
  <2> QED
    BY <2>2, <2>3
<1>4. (\E k \in Keys, value \in Rows \cup {None} : Write(k, value)) \/ table' = table
  BY DEF Next, vars, World, NodesChange, ConfigChange, SubscriptionCloses, Load, Start, LoadSubscribe,
         LoadEnd, Settle, Deliver, Walk, WalkRead, WalkApply, VerifyWalked, PhantomCheck, VerifyDone,
         VerifyEnd, Verify, VerifySoon, VerifyRetry, Repair, RepairRead, RepairApply, Publish, Resync,
         ResyncSubscribe, Reclassify, Reclassified, ResyncFinish, BackoffOver, Failure, LoadFails,
         DeliverFails, VerifyFails, ResyncFails
<1>5. CASE table' = table
  <2>1. \/ pending' \in {pending, <<>>}
        \/ pending # <<>> /\ pending' = Tail(pending)
        \/ \E k \in Keys, value \in Rows \cup {None} : Write(k, value)
    BY DEF Next, vars, World, NodesChange, ConfigChange, SubscriptionCloses, Load, Start, LoadSubscribe,
         LoadEnd, Settle, Deliver, Walk, WalkRead, WalkApply, VerifyWalked, PhantomCheck, VerifyDone,
         VerifyEnd, Verify, VerifySoon, VerifyRetry, Repair, RepairRead, RepairApply, Publish, Resync,
         ResyncSubscribe, Reclassify, Reclassified, ResyncFinish, BackoffOver, Failure, LoadFails,
         DeliverFails, VerifyFails, ResyncFails, Notice, Ask, Begin
  <2> QED
    BY <1>1, <1>2, <1>3, <1>5, <2>1
<1> QED
  BY <1>3, <1>4, <1>5

(* The parts of WalkInv: the row read, the keys seen; the repairs; the load. *)
WalkRow ==
    /\ row # Unread => walker \in {"load", "verify"} /\ at \in Keys
    /\ \A k \in seen : k < at
WalkRepairs ==
    /\ Phantom.key # 0 => walker = "phantoms" /\ (Phantom.newer => Phantom.key \in touched)
    /\ HeadRepair.key # 0 => HeadRepair.before # None
WalkLoad ==
    walker = "load" => \A k \in Keys : at <= k /\ held[k] # None => k \in touched

(* They make it up. *)
LEMMA WalkParts == WalkInv <=> WalkRow /\ WalkRepairs /\ WalkLoad
BY DEF WalkInv, WalkRow, WalkRepairs, WalkLoad

(* A row is read at the cursor and gone when the cursor moves. *)
LEMMA WalkRowStep == TypeOK /\ PhaseInv /\ WalkRow /\ [Next]_vars => WalkRow'
<1> SUFFICES ASSUME TypeOK, PhaseInv, WalkRow, [Next]_vars PROVE WalkRow'
  OBVIOUS
<1> USE DEF environment, loading, walk, walkAsked, resyncing, WalkRow
<1>0. at \in 1 .. NumKeys + 1 /\ seen \subseteq Keys /\ at \in Nat /\ Keys \subseteq Nat
  BY KeeperAssumption DEF TypeOK, Keys
<1>1. CASE WalkRead
  <2>1. at \in Keys /\ row = Unread /\ UNCHANGED <<walker, seen>> /\ walker \in {"load", "verify"}
        /\ ((at' = at + 1 /\ row' = row) \/ at' = at)
    BY <1>0, <1>1, KeeperAssumption DEF WalkRead, Keys
  <2>2. \A k \in seen : k < at + 1
    BY <1>0
  <2> QED
    BY <2>1, <2>2
<1>2. CASE WalkApply
  <2>1. at' = at + 1 /\ row' = Unread /\ seen' \subseteq seen \cup {at}
    BY <1>2 DEF WalkApply
  <2> QED
    BY <1>0, <2>1
<1>3. CASE VerifyWalked
  <2>1. at > NumKeys /\ UNCHANGED <<at, row, seen>>
    BY <1>3 DEF VerifyWalked
  <2>2. at \notin Keys
    BY <1>0, <2>1, KeeperAssumption DEF Keys
  <2> QED
    BY <2>1, <2>2
<1>4. CASE LoadSubscribe \/ LoadEnd \/ LoadFails \/ VerifyDone \/ VerifyFails
  BY <1>4 DEF LoadSubscribe, LoadEnd, LoadFails, VerifyDone, VerifyFails, VerifyEnd, NoWalk
<1>5. CASE Verify \/ VerifySoon \/ VerifyRetry \/ Reclassified
  BY <1>5 DEF Verify, VerifySoon, VerifyRetry, Reclassified, VerifyBegin
<1>6. UNCHANGED <<walker, at, row, seen>> \/ WalkRead \/ WalkApply \/ VerifyWalked
      \/ LoadSubscribe \/ LoadEnd \/ LoadFails \/ VerifyDone \/ VerifyFails
      \/ Verify \/ VerifySoon \/ VerifyRetry \/ Reclassified
  BY DEF Next, vars, World, Write, NodesChange, ConfigChange, SubscriptionCloses, Load, Start,
         Settle, Deliver, Walk, PhantomCheck, Repair, RepairRead, RepairApply, Publish, Resync,
         ResyncSubscribe, Reclassify, ResyncFinish, BackoffOver, Failure, DeliverFails, ResyncFails
<1> QED
  BY <1>1, <1>2, <1>3, <1>4, <1>5, <1>6

(* A phantom check lives within one walk, and what overtakes it touches its *)
(* key; a head check begins with an entry.                                  *)
LEMMA WalkRepairsStep == TypeOK /\ PhaseInv /\ WalkRepairs /\ WalkRow /\ [Next]_vars => WalkRepairs'
<1> SUFFICES ASSUME TypeOK, PhaseInv, WalkRepairs, WalkRow, [Next]_vars PROVE WalkRepairs'
  OBVIOUS
<1> USE DEF environment, loading, walk, walkAsked, resyncing, WalkRepairs, Phantom, HeadRepair
<1>0. /\ repair \in [Repairs -> Repairing] /\ "head" \in Repairs /\ "phantom" \in Repairs
      /\ repair["phantom"] \in Repairing /\ repair["head"] \in Repairing
  BY RepairTypes DEF Repairs
<1>1. CASE Deliver
  <2> DEFINE k == Head(pending).key
  <2>1. repair' = Overtaken(k) /\ touched' = Touched(k) /\ walker' = walker
    BY <1>1 DEF Deliver
  <2> HIDE DEF k
  <2>2. touched \subseteq touched' /\ (walker # "none" => k \in touched')
    BY <2>1 DEF Touched
  <2> QED
    BY <1>0, <2>1, <2>2, OvertakenTyped
<1>2. CASE WalkApply
  <2>1. walker \in {"load", "verify"} /\ (repair' = repair \/ repair' = Overtaken(at))
        /\ UNCHANGED <<walker, touched>>
    BY <1>2 DEF WalkApply
  <2>2. repair["phantom"].key = 0
    BY <2>1
  <2> QED
    BY <1>0, <2>1, <2>2, OvertakenTyped
<1>3. CASE LoadEnd \/ Publish
  <2>1. HeadCheck /\ ((walker' = walker /\ touched' = touched) \/ walker = "load")
    BY <1>3 DEF LoadEnd, Publish
  <2> QED
    BY <2>1, HeadCheckMoves
<1>4. ASSUME NEW k \in Keys, PhantomCheck(k) PROVE WalkRepairs'
  <2>1. \/ repair' = repair
        \/ repair' = [repair EXCEPT !["phantom"] = [Idle EXCEPT !.key = k, !.before = held[k]]]
    BY <1>4 DEF PhantomCheck
  <2>2. repair' # repair => ~repair'["phantom"].newer /\ repair'["head"] = repair["head"]
    BY <1>0, <2>1 DEF Idle
  <2>3. walker = "phantoms" /\ walker' = walker /\ touched' = touched
    BY <1>4 DEF PhantomCheck
  <2> QED
    BY <2>2, <2>3
<1>5. ASSUME NEW p \in Repairs, RepairRead(p) PROVE WalkRepairs'
  <2>1. repair' = [repair EXCEPT ![p].row = table[repair[p].key]] /\ UNCHANGED <<walker, touched>>
    BY <1>5 DEF RepairRead
  <2>2. \A q \in Repairs : /\ repair'[q].key = repair[q].key /\ repair'[q].newer = repair[q].newer
                           /\ repair'[q].before = repair[q].before
    BY <1>0, <2>1 DEF Repairing
  <2> QED
    BY <1>0, <2>1, <2>2
<1>6. ASSUME NEW p \in Repairs, RepairApply(p) PROVE WalkRepairs'
  <2>1. repair' = [repair EXCEPT ![p] = Idle] /\ UNCHANGED <<walker, touched>>
    BY <1>6 DEF RepairApply
  <2>2. \A q \in Repairs : repair'[q] = repair[q] \/ repair'[q] = Idle
    BY <1>0, <2>1
  <2> QED
    BY <1>0, <2>1, <2>2 DEF Idle
<1>7. CASE VerifyDone \/ VerifyFails
  <2>1. repair' = [repair EXCEPT !["phantom"] = Idle]
    BY <1>7 DEF VerifyDone, VerifyFails, VerifyEnd
  <2> QED
    BY <1>0, <2>1 DEF Idle
<1>8. CASE LoadSubscribe \/ LoadFails \/ Verify \/ VerifySoon \/ VerifyRetry \/ Reclassified
           \/ VerifyWalked
  <2>1. repair' = repair /\ (walker # "phantoms" \/ (walker' = walker /\ touched' = touched))
    BY <1>8 DEF LoadSubscribe, LoadFails, Verify, VerifySoon, VerifyRetry, Reclassified, MayVerify,
                VerifyWalked, PhaseInv, TypeOK
  <2> QED
    BY <2>1
<1>9. \/ repair' = repair /\ walker' = walker /\ touched \subseteq touched'
      \/ Deliver \/ WalkApply \/ LoadEnd \/ Publish \/ (\E k \in Keys : PhantomCheck(k))
      \/ (\E p \in Repairs : RepairRead(p) \/ RepairApply(p)) \/ VerifyDone \/ VerifyFails
      \/ LoadSubscribe \/ LoadFails \/ Verify \/ VerifySoon \/ VerifyRetry \/ Reclassified
      \/ VerifyWalked
  BY DEF Next, vars, World, Write, NodesChange, ConfigChange, SubscriptionCloses, Load, Start,
         Settle, Walk, WalkRead, Repair, Resync, Touched,
         ResyncSubscribe, Reclassify, ResyncFinish, BackoffOver, Failure, DeliverFails, ResyncFails
<1> QED
  BY <1>1, <1>2, <1>3, <1>4, <1>5, <1>6, <1>7, <1>8, <1>9

(* A load begins with nothing held: an entry past its cursor is an event's. *)
LEMMA WalkLoadStep == TypeOK /\ PhaseInv /\ WalkInv /\ [Next]_vars => WalkLoad'
<1> SUFFICES ASSUME TypeOK, PhaseInv, WalkInv, [Next]_vars, walker' = "load" PROVE WalkLoad'
  BY DEF WalkLoad
<1> USE DEF environment, loading, walk, walkAsked, resyncing, WalkLoad
<1>0. /\ WalkRow /\ WalkLoad /\ held \in [Keys -> Entries]
      /\ at \in 1 .. NumKeys + 1 /\ at \in Nat /\ Keys \subseteq Nat
  BY WalkParts, KeeperAssumption DEF TypeOK, Keys
<1>1. CASE LoadSubscribe
  BY <1>1 DEF LoadSubscribe, PhaseInv
<1>2. CASE Deliver
  <2> DEFINE e == Head(pending)
  <2>1. /\ held' = [held EXCEPT ![e.key] = Classified(e.key, IF e.deleted THEN None ELSE table[e.key])]
        /\ touched' = Touched(e.key) /\ UNCHANGED <<walker, at>>
    BY <1>2 DEF Deliver, Apply
  <2> HIDE DEF e
  <2>2. \A k \in Keys : k # e.key => held'[k] = held[k]
    BY <1>0, <2>1
  <2> QED
    BY <1>0, <2>1, <2>2 DEF Touched
<1>3. CASE WalkApply
  <2>1. /\ held' \in {held, [held EXCEPT ![at] = Classified(at, row)]}
        /\ at' = at + 1 /\ UNCHANGED <<walker, touched>>
    BY <1>3 DEF WalkApply, Apply
  <2>2. \A k \in Keys : k # at => held'[k] = held[k]
    BY <1>0, <2>1
  <2> QED
    BY <1>0, <2>1, <2>2
<1>4. CASE WalkRead
  BY <1>0, <1>4 DEF WalkRead
<1>5. \/ UNCHANGED <<walker, at, held>> /\ touched \subseteq touched'
      \/ LoadSubscribe \/ Deliver \/ WalkApply \/ WalkRead
      \/ walker' # walker /\ walker' # "load"
      \/ phase = "live" /\ walker' = walker
      \/ Start
  <2>1. \A p \in Repairs : RepairRead(p) \/ RepairApply(p) => phase = "live" /\ walker' = walker
    BY DEF RepairRead, RepairApply, PhaseInv, Idle
  <2>2. \A k \in Keys : Reclassify(k) => phase = "live" /\ walker' = walker
    BY DEF Reclassify, TypeOK
  <2> QED
    BY <2>1, <2>2 DEF Next, vars, World, Write, NodesChange, ConfigChange, SubscriptionCloses, Load,
         LoadEnd, LoadFails, Settle, Walk, VerifyWalked, PhantomCheck, VerifyDone, VerifyFails,
         VerifyEnd, Verify, VerifySoon, VerifyRetry, VerifyBegin, Repair, Publish, Resync, Touched,
         ResyncSubscribe, Reclassified, ResyncFinish, BackoffOver, Failure, DeliverFails,
         ResyncFails, MayVerify
<1>6. CASE Start
  BY <1>0, <1>6 DEF Start, PhaseInv
<1>7. CASE phase = "live" /\ walker' = walker
  BY <1>7 DEF PhaseInv
<1> QED
  BY <1>0, <1>1, <1>2, <1>3, <1>4, <1>5, <1>6, <1>7

(* The parts of the type invariant together. *)
LEMMA TypeStep == TypeOK /\ PhaseInv /\ WalkInv /\ [Next]_vars => TypeOK'
<1> SUFFICES ASSUME TypeOK, PhaseInv, WalkInv, [Next]_vars PROVE TypeOK'
  OBVIOUS
<1>1. TypeParts'
  BY TableStep, PhaseStep, FlagsTyped, HeldTyped, WalkTyped, RepairTyped, ResyncTyped
     DEF TypeParts, PhaseInv
<1>2. (TypeOK <=> TypeParts)'
  BY TypeSplits, PTL
<1> QED
  BY <1>1, <1>2

(* The parts of StateInv together. *)
LEMMA StateStep == StateInv /\ [Next]_vars => StateInv'
<1> SUFFICES ASSUME StateInv, [Next]_vars PROVE StateInv'
  OBVIOUS
<1>1. TypeOK /\ PhaseInv /\ RequestInv /\ WantedInv /\ EventInv /\ WalkInv
  BY DEF StateInv
<1>2. WalkRow /\ WalkRepairs /\ WalkLoad
  BY <1>1, WalkParts
<1>3. (WalkInv <=> WalkRow /\ WalkRepairs /\ WalkLoad)'
  BY WalkParts, PTL
<1>4. WalkInv'
  BY <1>1, <1>2, <1>3, WalkRowStep, WalkRepairsStep, WalkLoadStep
<1> QED
  BY <1>1, <1>4, TypeStep, PhaseStep, RequestStep, WantedStep, EventStep DEF StateInv

-----------------------------------------------------------------------------
(* What is owed. *)
(* A walk that begins, for a load or because one was asked for. *)
Begun ==
    /\ walker \in {"load", "verify"} /\ (walker = "verify" => wanted)
    /\ at = 1 /\ touched = {} /\ row = Unread

(* A walk or a resync to come makes every key's invariant true. *)
LEMMA DueSuffices == AllDue => \A k \in Keys : KeyInv(k)
BY DEF KeyInv, Due, RowRight, PhantomRight, HeadRight

(* So does a walk that begins: every key is ahead of it. *)
LEMMA BegunSuffices == TypeOK /\ PhaseInv /\ WalkInv /\ Begun => \A k \in Keys : KeyInv(k)
<1> SUFFICES ASSUME TypeOK, PhaseInv, WalkInv, Begun, NEW k \in Keys PROVE KeyInv(k)
  OBVIOUS
<1>1. k # 0 /\ 1 <= k /\ at = 1 /\ k \notin touched
  BY KeeperAssumption DEF Keys, Begun
<1>2. Ahead(k)
  BY <1>1 DEF Begun, Ahead
<1>3. RowRight(k)
  BY DEF Begun, RowRight
<1>4. PhantomRight(k)
  BY <1>1 DEF PhantomRight, WalkInv, Begun
<1>5. HeadRight(k)
  <2>1. CASE walker = "load"
    <3>1. HeadRepair = Idle
      BY <2>1 DEF PhaseInv, HeadRepair, Repairs
    <3> QED
      BY <1>1, <3>1 DEF HeadRight, Idle
  <2>2. CASE walker = "verify"
    BY <1>1, <2>2 DEF HeadRight, ToSee, Begun
  <2> QED
    BY <2>1, <2>2 DEF Begun
<1> QED
  BY <1>1, <1>2, <1>3, <1>4, <1>5 DEF KeyInv

(* A step that leaves the walk alone and changes the table's value of k     *)
(* only if that becomes due, leaves k as it was.                            *)
WalkKept == UNCHANGED <<walker, at, row, seen, phantoms, wanted>>

(* A walk that stays where it is, and what that means for a key. *)
LEMMA KeyKept ==
    ASSUME NEW k \in Keys, KeyInv(k), WalkKept,
           k \in touched' <=> k \in touched,
           held'[k] = held[k], table'[k] = table[k] \/ Due(k)',
           Due(k) => Due(k)', Right(k) => Right(k)' \/ Due(k)',
           Phantom'.key = Phantom.key, Phantom'.row = Phantom.row,
           Phantom.newer => Phantom'.newer,
           \/ HeadRepair'.row = Unread
           \/ /\ HeadRepair'.key = HeadRepair.key /\ HeadRepair'.row = HeadRepair.row
              /\ HeadRepair.newer => HeadRepair'.newer
    PROVE  KeyInv(k)'
<1> USE DEF WalkKept
<1>1. (Due(k) \/ Right(k) \/ Ahead(k))'
  BY DEF KeyInv, Ahead
<1>2. (k \in touched /\ walker # "none" => Due(k) \/ Right(k))'
  BY DEF KeyInv
<1>3. RowRight(k)'
  BY DEF KeyInv, RowRight
<1>4. PhantomRight(k)'
  BY DEF KeyInv, PhantomRight
<1>5. HeadRight(k)'
  BY DEF KeyInv, HeadRight, ToSee, Gone
<1> QED
  BY <1>1, <1>2, <1>3, <1>4, <1>5 DEF KeyInv

(* What is due stays so where no event is delivered and no request served;  *)
(* a right entry stays so where it is not touched.                          *)
LEMMA DueSame ==
    ASSUME UNCHANGED <<pending, walkWanted, walkRetry, subscription, nodes, nodesKey, queued,
                       resync, asked, resyncNodes>>
    PROVE  \A k : Due(k)' <=> Due(k)
BY DEF Due, EventOwed, AllDue

(* A right entry stays right where neither it nor its row changes. *)
LEMMA RightSame ==
    ASSUME NEW k, UNCHANGED <<nodes, config, queued, resync>>, table'[k] = table[k],
           held'[k] = held[k], k \in rest => k \in rest'
    PROVE  Right(k) => Right(k)'
BY DEF Right, Synced, Outdated, Classified

Good == \A k \in Keys : KeyInv(k)

(* A request with a walk makes every mismatch due. *)
LEMMA AskDue ==
    ASSUME TypeOK, Serving, NEW events, Ask([resubscribe |-> FALSE, walk |-> TRUE], events)
    PROVE  AllDue'
<1> DEFINE r == [resubscribe |-> FALSE, walk |-> TRUE]
<1>1. r \in Requests /\ r.walk /\ ~r.resubscribe
  BY DEF Requests
<1> HIDE DEF r
<1>2. Ask(r, events)
  BY DEF r
<1>3. CASE queued' = Merged(r)
  <2>1. Merged(r) \in Requests /\ Merged(r).walk
    BY <1>1, RequestsTyped
  <2>2. Merged(r) # NoRequest
    BY <2>1, KeeperAssumption DEF NoRequest
  <2> QED
    BY <1>3, <2>1, <2>2 DEF AllDue
<1>4. CASE Begin(r, events)
  BY <1>1, <1>4 DEF Begin, AllDue
<1> QED
  BY <1>2, <1>3, <1>4 DEF Ask, Serving

(* publish() asks for a walk whenever it asks for anything. *)
LEMMA NoticeDue ==
    Notice => \/ AllDue'
              \/ UNCHANGED <<subscription, pending, resync, asked, rest, resyncNodes>>
<1>1. CASE Begin([resubscribe |-> TRUE, walk |-> TRUE], pending)
  BY <1>1 DEF Begin, AllDue
<1>2. CASE Begin([resubscribe |-> FALSE, walk |-> TRUE], pending)
  BY <1>2 DEF Begin, AllDue
<1> QED
  BY <1>1, <1>2 DEF Notice

(* DueSuffices after a step. *)
LEMMA DueThenGood == AllDue' => Good'
<1>1. (AllDue => Good)'
  BY DueSuffices, PTL DEF Good
<1> QED
  BY <1>1

(* BegunSuffices after a step. *)
LEMMA BegunThenGood == StateInv' /\ Begun' => Good'
<1>1. (TypeOK /\ PhaseInv /\ WalkInv /\ Begun => Good)'
  BY BegunSuffices, PTL DEF Good
<1> QED
  BY <1>1 DEF StateInv

(* The environment. *)
LEMMA WriteGood ==
    ASSUME StateInv, Good, NEW k \in Keys, NEW value \in Rows \cup {None}, Write(k, value)
    PROVE  Good'
<1> USE DEF environment, loading, walk, walkAsked, resyncing
<1>1. /\ table' = [table EXCEPT ![k] = value] /\ table \in [Keys -> Rows \cup {None}]
      /\ UNCHANGED <<nodes, config, loading, held, subscription, walk, walkAsked,
                     repair, resyncing, lapsed>>
  BY DEF Write, StateInv, TypeOK
<1>2. CASE subscription # "open"
  <2>1. AllDue'
    BY <1>1, <1>2 DEF AllDue
  <2> QED
    BY <2>1, DueThenGood
<1>3. CASE subscription = "open"
  <2> DEFINE e == [key |-> k, deleted |-> value = None]
  <2>1. pending' = Append(pending, e) /\ e.key = k
    BY <1>3 DEF Write
  <2> HIDE DEF e
  <2>2. /\ pending \in Seq([key : Keys, deleted : BOOLEAN])
        /\ Len(pending) \in Nat /\ DOMAIN pending = 1 .. Len(pending)
    BY DEF StateInv, TypeOK
  <2>3. /\ DOMAIN pending' = 1 .. Len(pending) + 1
        /\ \A i \in DOMAIN pending : pending'[i] = pending[i]
        /\ pending'[Len(pending) + 1] = e
    BY <2>1, <2>2
  <2>4. Due(k)'
    BY <2>1, <2>2, <2>3 DEF Due, EventOwed
  <2>5. ASSUME NEW j \in Keys PROVE KeyInv(j)'
    <3>1. Due(j) => Due(j)'
      BY <1>1, <2>2, <2>3 DEF Due, EventOwed, AllDue
    <3>2. table'[j] = table[j] \/ Due(j)'
      BY <1>1, <2>4
    <3>3. Right(j) => Right(j)' \/ Due(j)'
      BY <1>1, <3>2, RightSame
    <3>4. KeyInv(j)
      BY DEF Good
    <3> QED
      BY <1>1, <3>1, <3>2, <3>3, <3>4, KeyKept DEF WalkKept, Phantom, HeadRepair
  <2> QED
    BY <2>5 DEF Good
<1> QED
  BY <1>2, <1>3

(* A change of the node list shows in nodesKey, or in what a resync holds    *)
(* the keys by; where it does not, it is a lapse.                           *)
LEMMA NodesChangeGood ==
    ASSUME StateInv, NEW list \in Lists, NodesChange(list), lapsed' = {}
    PROVE  Good'
<1>1. /\ nodes' = list /\ UNCHANGED <<nodesKey, resync, resyncNodes>>
      /\ list # (IF resync = "reclassify" THEN resyncNodes ELSE nodesKey)
  BY DEF NodesChange, loading, resyncing
<1>2. AllDue'
  BY <1>1 DEF AllDue
<1> QED
  BY <1>2, DueThenGood

(* A change of the configuration leaves the entries outdated, and asks for  *)
(* the resync that reclassifies them.                                       *)
LEMMA ConfigChangeGood ==
    ASSUME StateInv, Good, Serving, ConfigChange
    PROVE  Good'
<1> USE DEF environment, loading, walk, walkAsked, resyncing
<1> DEFINE r == [resubscribe |-> FALSE, walk |-> FALSE]
<1>0. r \in Requests /\ ~r.resubscribe /\ ~r.walk
  BY DEF Requests
<1> HIDE DEF r
<1>1. /\ Ask(r, pending)
      /\ UNCHANGED <<table, nodes, loading, held, walk, walkAsked, repair, lapsed>>
  BY DEF ConfigChange, r
<1>2. TypeOK
  BY DEF StateInv
<1>3. Merged(r) \in Requests /\ Merged(r) # NoRequest
  BY <1>0, <1>2, RequestsTyped, KeeperAssumption DEF NoRequest
<1>4. \/ /\ queued' = Merged(r) /\ pending' = pending
         /\ UNCHANGED <<subscription, resync, asked, rest, resyncNodes>>
      \/ Begin(r, pending) /\ queued' = queued /\ resync = "idle"
  BY <1>1 DEF Ask, Serving
<1>5. ASSUME NEW k \in Keys PROVE KeyInv(k)'
  <2>1. Due(k) => Due(k)'
    <3>1. CASE queued' = Merged(r)
      BY <1>0, <1>1, <1>2, <1>3, <1>4, <3>1, RequestsTyped DEF Due, EventOwed, AllDue, Begin
    <3>2. CASE Begin(r, pending) /\ queued' = queued /\ resync = "idle"
      BY <1>0, <1>1, <3>2 DEF Due, EventOwed, AllDue, Begin
    <3> QED
      BY <1>4, <3>1, <3>2
  <2>2. Right(k) => Right(k)'
    <3>1. queued' # NoRequest \/ (resync' = "reclassify" /\ (held[k] # None => k \in rest'))
      BY <1>0, <1>3, <1>4 DEF Begin, HeldKeys
    <3>2. CASE Synced(k) /\ held[k] = None
      <4>1. table[k] = None \/ k \notin Owned[nodes]
        BY <1>2, <3>2, ClassifiedCases DEF Synced, TypeOK
      <4> QED
        BY <1>1, <3>2, <4>1 DEF Right, Synced, Classified
    <3>3. CASE Synced(k) /\ held[k] # None
      <4>1. k \in Owned[nodes] /\ held[k].row = table[k]
        BY <1>2, <3>3, ClassifiedCases DEF Synced, TypeOK
      <4> QED
        BY <1>1, <3>1, <3>3, <4>1 DEF Right, Outdated
    <3>4. CASE Outdated(k)
      BY <1>1, <3>1, <3>4 DEF Right, Outdated
    <3> QED
      BY <3>2, <3>3, <3>4 DEF Right
  <2>3. KeyInv(k)
    BY DEF Good
  <2> QED
    BY <1>1, <2>1, <2>2, <2>3, KeyKept DEF WalkKept, Phantom, HeadRepair
<1> QED
  BY <1>5 DEF Good

(* The load. *)
LEMMA StartGood ==
    ASSUME StateInv, Start, lapsed' = {}
    PROVE  Good'
<1>1. subscription' # "open"
  BY DEF Start, StateInv, PhaseInv, Serving
<1> QED
  BY <1>1, DueThenGood DEF AllDue

(* It begins with a walk. *)
LEMMA LoadSubscribeGood ==
    ASSUME StateInv', LoadSubscribe
    PROVE  Good'
<1>1. Begun'
  BY DEF LoadSubscribe, NoWalk, Begun
<1> QED
  BY <1>1, BegunThenGood

(* When the load has walked past every key, each is due or right. *)
LEMMA LoadEndGood ==
    ASSUME StateInv, Good, LoadEnd
    PROVE  Good'
<1> USE DEF environment, loading, walk, walkAsked, resyncing
<1>1. /\ walker = "load" /\ at > NumKeys /\ walker' = "none" /\ row' = Unread /\ touched' = {}
      /\ Notice /\ HeadCheck
      /\ UNCHANGED <<table, nodes, config, nodesKey, held, walkAsked, queued>>
  BY DEF LoadEnd, NoWalk
<1>2. TypeOK /\ repair = [p \in Repairs |-> Idle]
  BY <1>1 DEF StateInv, PhaseInv
<1>3. CASE AllDue'
  BY <1>3, DueThenGood
<1>4. CASE UNCHANGED <<subscription, pending, resync, asked, rest, resyncNodes>>
  <2>1. ASSUME NEW k \in Keys PROVE KeyInv(k)'
    <3>1. Due(k) \/ Right(k)
      <4>1. ~(at <= k)
        BY <1>1, <1>2, KeeperAssumption DEF Keys, TypeOK
      <4> QED
        BY <1>1, <4>1 DEF Good, KeyInv, Ahead
    <3>2. Due(k) => Due(k)'
      BY <1>1, <1>4, DueSame
    <3>3. Right(k) => Right(k)'
      BY <1>1, <1>4, RightSame
    <3>4. Phantom' = Idle /\ (HeadRepair' = Idle \/ HeadRepair'.row = Unread)
      BY <1>1, <1>2, HeadCheckMoves DEF Phantom, HeadRepair, Repairs
    <3>5. Idle.row = Unread
      BY DEF Idle
    <3> QED
      BY <1>1, <3>1, <3>2, <3>3, <3>4, <3>5 DEF KeyInv, RowRight, PhantomRight, HeadRight
  <2> QED
    BY <2>1 DEF Good
<1> QED
  BY <1>1, <1>3, <1>4, NoticeDue

(* A resync that begins with a request served it: whatever was due by that  *)
(* request is due by the resync, and what it was to reclassify it will.     *)
LEMMA BeginKeeps ==
    ASSUME StateInv, NEW r \in Requests, NEW k \in Keys, Begin(r, pending),
           UNCHANGED <<table, nodes, nodesKey, config, held, walkAsked>>,
           queued # NoRequest => (queued.resubscribe => r.resubscribe) /\ (queued.walk => r.walk),
           r.resubscribe => r.walk, resync \notin {"subscribe", "reclassify"}
    PROVE  (Due(k) => Due(k)') /\ (Right(k) => Right(k)' \/ Due(k)')
<1> USE DEF walkAsked
<1>1. CASE r.resubscribe
  <2>1. AllDue'
    BY <1>1 DEF Begin, AllDue
  <2> QED
    BY <2>1 DEF Due
<1>2. CASE ~r.resubscribe
  <2>1. /\ resync' = "reclassify" /\ asked' = r /\ rest' = HeldKeys
        /\ UNCHANGED <<subscription, pending>>
    BY <1>2 DEF Begin
  <2>2. Due(k) => Due(k)'
    BY <2>1 DEF Due, EventOwed, AllDue
  <2>3. Synced(k) => Right(k)'
    BY <2>1 DEF Right, Synced, Classified
  <2>4. Outdated(k) => Right(k)'
    BY <2>1 DEF Right, Outdated, HeldKeys
  <2> QED
    BY <2>2, <2>3, <2>4 DEF Right
<1> QED
  BY <1>1, <1>2

(* The requests deferred by a load are asked, or asked again. *)
LEMMA SettleGood ==
    ASSUME StateInv, Good, Settle
    PROVE  Good'
<1> USE DEF environment, loading, walk, walkAsked, resyncing
<1> DEFINE deferred == IF queued = NoRequest THEN [resubscribe |-> FALSE, walk |-> FALSE] ELSE queued
           moved == nodes # nodesKey
<1>0. TypeOK /\ RequestInv
  BY DEF StateInv
<1>1. /\ deferred \in Requests /\ (deferred.resubscribe => deferred.walk)
      /\ queued # NoRequest => deferred = queued
  BY <1>0 DEF TypeOK, Requests, RequestInv
<1>2. PICK w \in BOOLEAN : w = (deferred.walk \/ moved)
  OBVIOUS
<1> DEFINE r == [deferred EXCEPT !.walk = w]
           s == [deferred EXCEPT !.walk = TRUE]
<1>3. /\ UNCHANGED <<table, nodes, config, nodesKey, held, walk, walkAsked, repair>>
      /\ \/ /\ UNCHANGED <<pending, subscription, resync, asked, rest, resyncNodes>>
            /\ queued' = IF moved THEN s ELSE queued
         \/ Begin(r, pending) /\ resync = "idle" /\ queued' = NoRequest
  BY <1>2 DEF Settle
<1>4. (w => deferred.walk \/ moved) /\ (deferred.walk => w)
  BY <1>2
<1> HIDE DEF deferred
<1>5. /\ r \in Requests /\ (r.resubscribe => r.walk) /\ s \in Requests /\ s.walk
      /\ r.resubscribe = deferred.resubscribe /\ r.walk = w
  BY <1>1, <1>4 DEF Requests
<1>6. s # NoRequest
  BY <1>5, KeeperAssumption DEF NoRequest
<1> HIDE DEF r, s
<1>7. ASSUME NEW k \in Keys PROVE KeyInv(k)'
  <2>1. (Due(k) => Due(k)') /\ (Right(k) => Right(k)' \/ Due(k)')
    <3>1. CASE /\ UNCHANGED <<pending, subscription, resync, asked, rest, resyncNodes>>
               /\ queued' = IF moved THEN s ELSE queued
      <4>1. queued # NoRequest => queued' # NoRequest
        BY <1>6, <3>1
      <4>2. Due(k) => Due(k)'
        BY <1>3, <1>5, <1>6, <3>1 DEF Due, EventOwed, AllDue
      <4>3. Right(k) => Right(k)'
        BY <1>3, <3>1, <4>1 DEF Right, Synced, Outdated, Classified
      <4> QED
        BY <4>2, <4>3
    <3>2. CASE Begin(r, pending) /\ resync = "idle" /\ queued' = NoRequest
      BY <1>1, <1>3, <1>4, <1>5, <3>2, BeginKeeps
    <3> QED
      BY <1>3, <3>1, <3>2
  <2>2. KeyInv(k)
    BY DEF Good
  <2> QED
    BY <1>3, <2>1, <2>2, KeyKept DEF WalkKept, Phantom, HeadRepair
<1> QED
  BY <1>7 DEF Good

(* publish() asks for a walk, or changes nothing but the head check. *)
LEMMA PublishGood ==
    ASSUME StateInv, Good, Publish
    PROVE  Good'
<1> USE DEF environment, loading, walk, walkAsked, resyncing
<1>1. /\ HeadCheck
      /\ UNCHANGED <<table, nodes, config, nodesKey, held, walk, walkAsked, queued>>
      /\ Notice \/ UNCHANGED <<subscription, pending, resync, asked, rest, resyncNodes>>
  BY DEF Publish
<1>2. CASE AllDue'
  BY <1>2, DueThenGood
<1>3. CASE UNCHANGED <<subscription, pending, resync, asked, rest, resyncNodes>>
  <2>1. ASSUME NEW k \in Keys PROVE KeyInv(k)'
    <3>1. Due(k) => Due(k)'
      BY <1>1, <1>3, DueSame
    <3>2. Right(k) => Right(k)'
      BY <1>1, <1>3, RightSame
    <3>3. Phantom' = Phantom /\ (HeadRepair' = HeadRepair \/ HeadRepair'.row = Unread)
      BY <1>1, HeadCheckMoves DEF Phantom, HeadRepair, StateInv
    <3>4. KeyInv(k)
      BY DEF Good
    <3> QED
      BY <1>1, <3>1, <3>2, <3>3, <3>4, KeyKept DEF WalkKept
  <2> QED
    BY <2>1 DEF Good
<1> QED
  BY <1>1, <1>2, <1>3, NoticeDue

(* Events. *)
LEMMA DeliverFailsGood ==
    ASSUME StateInv, Serving, DeliverFails
    PROVE  Good'
<1>1. Ask([resubscribe |-> FALSE, walk |-> TRUE], Tail(pending)) /\ TypeOK
  BY DEF DeliverFails, StateInv
<1> QED
  BY <1>1, AskDue, DueThenGood

(* The event's key becomes right or has another event coming, for the walk   *)
(* and the repairs to see; the other keys' events come one place earlier.   *)
LEMMA DeliverGood ==
    ASSUME StateInv, Good, Deliver
    PROVE  Good'
<1> USE DEF environment, loading, walk, walkAsked, resyncing
<1>0. TypeOK /\ EventInv /\ pending \in Seq([key : Keys, deleted : BOOLEAN])
  BY DEF StateInv, TypeOK
<1>1. pending # <<>> /\ Head(pending) \in [key : Keys, deleted : BOOLEAN]
  BY <1>0, SequenceMoves DEF Deliver
<1>2. PICK x \in Keys : x = Head(pending).key
  BY <1>1
<1>3. PICK value \in Rows \cup {None} : value = IF Head(pending).deleted THEN None ELSE table[x]
  BY <1>0 DEF TypeOK
<1>4. /\ pending' = Tail(pending) /\ held' = [held EXCEPT ![x] = Classified(x, value)]
      /\ touched' = Touched(x) /\ repair' = Overtaken(x)
      /\ UNCHANGED <<table, nodes, config, loading, subscription, walker, at, row, seen, phantoms,
                     wanted, walkAsked, resyncing>>
  BY <1>2, <1>3 DEF Deliver, Apply
<1>5. /\ Len(pending) \in Nat \ {0} /\ DOMAIN pending = 1 .. Len(pending)
      /\ Head(pending) = pending[1] /\ DOMAIN pending' = 1 .. Len(pending) - 1
      /\ \A i \in DOMAIN pending' : pending'[i] = pending[i + 1]
  BY <1>0, <1>1, <1>4, SequenceMoves
<1>6. \A j \in DOMAIN pending : j > 1 => j - 1 \in DOMAIN pending' /\ pending'[j - 1] = pending[j]
  BY <1>5
<1>7. \A k \in Keys : k # x /\ EventOwed(k) => EventOwed(k)'
  <2> SUFFICES ASSUME NEW k \in Keys, k # x, EventOwed(k) PROVE EventOwed(k)'
    OBVIOUS
  <2>1. PICK j \in DOMAIN pending : pending[j].key = k
    BY DEF EventOwed
  <2>2. j > 1
    BY <1>2, <1>5, <2>1
  <2> QED
    BY <1>6, <2>1, <2>2 DEF EventOwed
<1>8. EventOwed(x)' \/ value = table[x]
  <2>1. CASE Head(pending).deleted /\ table[x] # None
    <3>1. PICK j \in DOMAIN pending : j > 1 /\ pending[j].key = x
      BY <1>0, <1>2, <1>5, <2>1 DEF EventInv
    <3> QED
      BY <1>6, <3>1 DEF EventOwed
  <2> QED
    BY <1>3, <2>1
<1>9. \A p \in Repairs :
        /\ repair'[p].key = repair[p].key /\ repair'[p].row = repair[p].row
        /\ repair[p].newer => repair'[p].newer
        /\ repair[p].key = x /\ repair[p].row # Unread => repair'[p].newer
  BY <1>0, <1>4, OvertakenTyped
<1>10. "head" \in Repairs /\ "phantom" \in Repairs /\ held \in [Keys -> Entries]
  BY <1>0 DEF Repairs, TypeOK
<1>11. ASSUME NEW k \in Keys, k # x PROVE KeyInv(k)'
  <2>1. held'[k] = held[k] /\ (k \in touched' <=> k \in touched)
    BY <1>4, <1>10, <1>11 DEF Touched
  <2>2. Due(k) => Due(k)'
    BY <1>4, <1>7, <1>11 DEF Due, AllDue
  <2>3. Right(k) => Right(k)'
    BY <1>4, <2>1, RightSame
  <2>4. KeyInv(k)
    BY DEF Good
  <2> QED
    BY <1>4, <1>9, <1>10, <2>1, <2>2, <2>3, <2>4, KeyKept DEF WalkKept, Phantom, HeadRepair
<1>12. KeyInv(x)'
  <2>1. Due(x)' \/ Right(x)'
    <3>1. CASE EventOwed(x)'
      BY <3>1 DEF Due
    <3>2. CASE value = table[x]
      <4>1. held'[x] = Classified(x, table[x])
        BY <1>4, <1>10, <3>2
      <4> QED
        BY <1>4, <4>1 DEF Right, Synced, Classified
    <3> QED
      BY <1>8, <3>1, <3>2
  <2>2. RowRight(x)'
    BY <1>4 DEF RowRight, Touched
  <2>3. PhantomRight(x)' /\ HeadRight(x)'
    BY <1>9, <1>10 DEF PhantomRight, HeadRight, Phantom, HeadRepair
  <2> QED
    BY <2>1, <2>2, <2>3 DEF KeyInv
<1> QED
  BY <1>11, <1>12 DEF Good

(* The walk. *)
(* A row that is gone when the walk comes to it: the entry is gone too, or  *)
(* the walk does not see it, and reads it again.                            *)
LEMMA WalkReadGood ==
    ASSUME StateInv, Good, WalkRead
    PROVE  Good'
<1> USE DEF environment, loading, walk, walkAsked, resyncing
<1>0. TypeOK /\ WalkInv /\ at \in Nat /\ Keys \subseteq Nat
  BY KeeperAssumption DEF StateInv, TypeOK, Keys
<1>1. /\ walker \in {"load", "verify"} /\ at <= NumKeys /\ row = Unread
      /\ UNCHANGED <<environment, loading, held, subscription, walker, touched, seen, phantoms,
                     wanted, walkAsked, repair, resyncing>>
  BY DEF WalkRead
<1>2. PICK x \in Keys : x = at
  BY <1>0, <1>1, KeeperAssumption DEF Keys, TypeOK
<1>3. \/ table[x] = None /\ at' = at + 1 /\ row' = Unread
      \/ row' = table[x] /\ at' = at
  BY <1>1, <1>2 DEF WalkRead
<1>4. x \notin seen /\ (walker = "load" /\ held[x] # None => x \in touched)
  BY <1>0, <1>1, <1>2 DEF WalkInv
<1>5. ASSUME NEW k \in Keys PROVE KeyInv(k)'
  <2>1. KeyInv(k) /\ (Due(k)' <=> Due(k)) /\ (Right(k) => Right(k)')
    BY <1>1, DueSame, RightSame DEF Good
  <2>2. at <= k => at' <= k \/ (k = x /\ table[k] = None)
    BY <1>0, <1>2, <1>3
  <2>3. (Due(k) \/ Right(k) \/ Ahead(k))'
    <3>1. CASE k = x /\ table[k] = None /\ held[k] = None
      <4>1. Synced(k)
        BY <3>1 DEF Synced, Classified
      <4> QED
        BY <2>1, <4>1 DEF Right
    <3>2. CASE k = x /\ table[k] = None /\ held[k] # None
      BY <1>1, <1>4, <2>1, <3>2 DEF KeyInv, Ahead
    <3>3. CASE ~(k = x /\ table[k] = None)
      BY <1>1, <2>1, <2>2, <3>3 DEF KeyInv, Ahead, Phantom
    <3> QED
      BY <3>1, <3>2, <3>3
  <2>4. RowRight(k)'
    BY <1>1, <1>2, <1>3 DEF RowRight
  <2>5. PhantomRight(k)'
    BY <1>1, <2>1 DEF KeyInv, PhantomRight, Phantom
  <2>6. HeadRight(k)'
    BY <1>1, <1>4, <2>1, <2>2 DEF KeyInv, HeadRight, HeadRepair, ToSee, Gone, Phantom
  <2> QED
    BY <1>1, <2>1, <2>3, <2>4, <2>5, <2>6 DEF KeyInv
<1> QED
  BY <1>5 DEF Good

(* A row is applied to a key that no event touched, and then it is the      *)
(* table's or due; a repair that had read the key is overtaken.             *)
LEMMA WalkApplyGood ==
    ASSUME StateInv, Good, WalkApply
    PROVE  Good'
<1> USE DEF environment, loading, walk, walkAsked, resyncing
<1>0. TypeOK /\ WalkInv /\ at \in Nat /\ Keys \subseteq Nat /\ held \in [Keys -> Entries]
      /\ "head" \in Repairs /\ "phantom" \in Repairs
  BY KeeperAssumption DEF StateInv, TypeOK, Keys, Repairs
<1>1. /\ walker \in {"load", "verify"} /\ row # Unread
      /\ row' = Unread /\ at' = at + 1 /\ seen' \subseteq seen \cup {at}
      /\ UNCHANGED <<environment, loading, subscription, walker, touched, phantoms, wanted,
                     walkAsked, resyncing>>
  BY DEF WalkApply
<1>2. PICK x \in Keys : x = at
  BY <1>0, <1>1 DEF WalkInv
<1>3. \/ x \in touched /\ UNCHANGED <<held, repair>>
      \/ x \notin touched /\ held' = [held EXCEPT ![x] = Classified(x, row)] /\ repair' = Overtaken(x)
  BY <1>2 DEF WalkApply, Apply
<1>4. \A p \in Repairs :
        /\ repair'[p].key = repair[p].key /\ repair'[p].row = repair[p].row
        /\ repair[p].newer => repair'[p].newer
        /\ x \notin touched /\ repair[p].key = x /\ repair[p].row # Unread => repair'[p].newer
  BY <1>0, <1>3, OvertakenTyped
<1>5. ASSUME NEW k \in Keys, k # x PROVE KeyInv(k)'
  <2>1. held'[k] = held[k] /\ (at <= k => at' <= k) /\ (k \notin seen => k \notin seen')
    BY <1>0, <1>1, <1>2, <1>3, <1>5
  <2>2. KeyInv(k) /\ (Due(k)' <=> Due(k)) /\ (Right(k) => Right(k)')
    BY <1>1, <2>1, DueSame, RightSame DEF Good
  <2>3. (Due(k) \/ Right(k) \/ Ahead(k))'
    BY <1>0, <1>1, <1>4, <2>1, <2>2 DEF KeyInv, Ahead, Phantom
  <2>4. RowRight(k)'
    BY <1>1 DEF RowRight
  <2>5. PhantomRight(k)'
    BY <1>0, <1>1, <1>4, <2>2 DEF KeyInv, PhantomRight, Phantom
  <2>6. HeadRight(k)'
    BY <1>0, <1>1, <1>4, <2>1, <2>2 DEF KeyInv, HeadRight, HeadRepair, ToSee, Gone, Phantom
  <2> QED
    BY <1>1, <2>2, <2>3, <2>4, <2>5, <2>6 DEF KeyInv
<1>6. KeyInv(x)'
  <2>1. KeyInv(x) /\ (Due(x)' <=> Due(x))
    BY <1>1, DueSame DEF Good
  <2>2. CASE x \in touched
    <3>1. (Due(x) \/ Right(x)) /\ (Right(x) => Right(x)')
      BY <1>1, <1>3, <2>1, <2>2, RightSame DEF KeyInv
    <3>2. RowRight(x)' /\ PhantomRight(x)' /\ HeadRight(x)'
      BY <1>1, <1>3, <2>1, <2>2 DEF KeyInv, RowRight, PhantomRight, HeadRight, HeadRepair, ToSee,
                                    Gone, Phantom
    <3> QED
      BY <2>1, <3>1, <3>2 DEF KeyInv
  <2>3. CASE x \notin touched
    <3>1. Due(x) \/ row = table[x]
      BY <1>1, <1>2, <2>1, <2>3 DEF KeyInv, RowRight
    <3>2. row = table[x] => Right(x)'
      <4>1. held'[x] = Classified(x, row)
        BY <1>0, <1>3, <2>3
      <4> QED
        BY <1>1, <4>1 DEF Right, Synced, Classified
    <3>3. RowRight(x)' /\ PhantomRight(x)' /\ HeadRight(x)'
      BY <1>0, <1>1, <1>4, <2>3 DEF RowRight, PhantomRight, HeadRight, HeadRepair, Phantom
    <3> QED
      BY <2>1, <3>1, <3>2, <3>3 DEF KeyInv
  <2> QED
    BY <2>2, <2>3
<1> QED
  BY <1>5, <1>6 DEF Good

(* The walk's end: what it has not seen of what is held is to be read again. *)
LEMMA VerifyWalkedGood ==
    ASSUME StateInv, Good, VerifyWalked
    PROVE  Good'
<1> USE DEF environment, loading, walk, walkAsked, resyncing
<1>1. /\ walker = "verify" /\ at > NumKeys /\ walker' = "phantoms" /\ phantoms' = HeldKeys \ seen
      /\ UNCHANGED <<environment, loading, held, subscription, at, row, touched, seen, wanted,
                     walkAsked, repair, resyncing>>
  BY DEF VerifyWalked, Phantoms
<1>2. ASSUME NEW k \in Keys PROVE KeyInv(k)'
  <2>1. KeyInv(k) /\ (Due(k)' <=> Due(k)) /\ (Right(k) => Right(k)')
    BY <1>1, DueSame, RightSame DEF Good
  <2>2. ~(at <= k) /\ (held[k] # None /\ k \notin seen => k \in phantoms')
    BY <1>1, KeeperAssumption DEF Keys, HeldKeys, StateInv, TypeOK
  <2>3. (Due(k) \/ Right(k) \/ Ahead(k))'
    BY <1>1, <2>1, <2>2 DEF KeyInv, Ahead
  <2>4. RowRight(k)' /\ PhantomRight(k)'
    BY <1>1, <2>1 DEF KeyInv, RowRight, PhantomRight, Phantom
  <2>5. HeadRight(k)'
    BY <1>1, <2>1, <2>2 DEF KeyInv, HeadRight, HeadRepair, ToSee, Gone
  <2> QED
    BY <1>1, <2>1, <2>3, <2>4, <2>5 DEF KeyInv
<1> QED
  BY <1>2 DEF Good

(* A key to be read again is being read, or an event touched it. *)
LEMMA PhantomCheckGood ==
    ASSUME StateInv, Good, NEW x \in Keys, PhantomCheck(x)
    PROVE  Good'
<1> USE DEF environment, loading, walk, walkAsked, resyncing
<1>1. /\ walker = "phantoms" /\ repair["phantom"] = Idle /\ phantoms' = phantoms \ {x}
      /\ UNCHANGED <<environment, loading, held, subscription, walker, at, row, touched, seen, wanted,
                     walkAsked, resyncing>>
  BY DEF PhantomCheck
<1>2. repair \in [Repairs -> Repairing] /\ Idle.key = 0
  BY RepairTypes DEF StateInv, Idle
<1>3. \/ x \in touched /\ repair' = repair
      \/ /\ x \notin touched /\ repair'["head"] = repair["head"]
         /\ repair'["phantom"].key = x /\ repair'["phantom"].row = Unread
  <2>1. CASE x \notin touched
    <3> DEFINE r == [Idle EXCEPT !.key = x, !.before = held[x]]
    <3>1. repair' = [repair EXCEPT !["phantom"] = r] /\ r.key = x /\ r.row = Unread
      BY <2>1 DEF PhantomCheck, Idle
    <3> HIDE DEF r
    <3> QED
      BY <1>2, <2>1, <3>1 DEF Repairs
  <2> QED
    BY <2>1 DEF PhantomCheck
<1>4. ASSUME NEW k \in Keys PROVE KeyInv(k)'
  <2>1. KeyInv(k) /\ (Due(k)' <=> Due(k)) /\ (Right(k) => Right(k)') /\ k # 0
    BY <1>1, DueSame, RightSame DEF Good, Keys
  <2>2. (Due(k) \/ Right(k) \/ Ahead(k))'
    BY <1>1, <1>2, <1>3, <2>1 DEF KeyInv, Ahead, Phantom
  <2>3. RowRight(k)' /\ PhantomRight(k)'
    BY <1>1, <1>2, <1>3, <2>1 DEF RowRight, PhantomRight, Phantom
  <2>4. HeadRight(k)'
    BY <1>1, <1>2, <1>3, <2>1 DEF KeyInv, HeadRight, HeadRepair, ToSee, Gone, Phantom
  <2> QED
    BY <1>1, <2>1, <2>2, <2>3, <2>4 DEF KeyInv
<1> QED
  BY <1>4 DEF Good

(* A walk that ends leaves nothing owed to it: it has read every key, or     *)
(* failed, and is retried if it was owed.                                   *)
LEMMA VerifyEndGood ==
    ASSUME StateInv, Good, NEW ok \in BOOLEAN, VerifyEnd(ok),
           \/ ~ok /\ walker \in {"verify", "phantoms"}
           \/ walker = "phantoms" /\ phantoms = {} /\ repair["phantom"] = Idle
    PROVE  Good'
<1> USE DEF environment, loading, walk, walkAsked, resyncing
<1>1. /\ walker' = "none" /\ row' = Unread /\ touched' = {}
      /\ repair' = [repair EXCEPT !["phantom"] = Idle]
      /\ ~ok /\ wanted => walkRetry'
      /\ walkRetry => walkRetry'
      /\ resync' = IF resync = "verify" THEN "finish" ELSE resync
      /\ UNCHANGED <<table, pending, nodes, config, loading, held, subscription,
                     walkWanted, asked, queued, rest, resyncNodes, backoff>>
  BY DEF VerifyEnd, NoWalk
<1>2. repair \in [Repairs -> Repairing] /\ Idle.key = 0
  BY RepairTypes DEF StateInv, Idle
<1>3. repair'["phantom"] = Idle /\ repair'["head"] = repair["head"]
  BY <1>1, <1>2 DEF Repairs
<1>4. CASE walkRetry'
  BY <1>4, DueThenGood DEF AllDue
<1>5. CASE ~walkRetry'
  <2>1. ASSUME NEW k \in Keys PROVE KeyInv(k)'
    <3>1. KeyInv(k) /\ k # 0
      BY DEF Good, Keys
    <3>2. Due(k) => Due(k)'
      BY <1>1 DEF Due, EventOwed, AllDue
    <3>3. Right(k) => Right(k)'
      BY <1>1 DEF Right, Synced, Outdated, Classified
    <3>4. ~Ahead(k) /\ ~ToSee(k) /\ (Gone(k) => table[k] = None /\ held[k] = None)
      BY <1>1, <1>2, <1>5, <3>1 DEF Ahead, ToSee, Gone, Phantom
    <3>5. RowRight(k)' /\ PhantomRight(k)'
      BY <1>1, <1>2, <1>3, <3>1 DEF RowRight, PhantomRight, Phantom
    <3>6. HeadRight(k)'
      BY <1>1, <1>3, <3>1, <3>2, <3>4 DEF KeyInv, HeadRight, HeadRepair, Gone
    <3> QED
      BY <1>1, <3>1, <3>2, <3>3, <3>4, <3>5, <3>6 DEF KeyInv
  <2> QED
    BY <2>1 DEF Good
<1> QED
  BY <1>4, <1>5

(* A walk of the timer's: owed if one was wanted, else no more than a walk.  *)
LEMMA VerifyGood ==
    ASSUME StateInv, StateInv', Good, Verify
    PROVE  Good'
<1> USE DEF environment, loading, walk, walkAsked, resyncing
<1>1. /\ walker = "none" /\ walker' = "verify" /\ at' = 1 /\ touched' = {} /\ row' = Unread
      /\ wanted' = walkWanted /\ walkWanted' = FALSE
      /\ UNCHANGED <<environment, loading, held, subscription, walkRetry, repair, resyncing>>
  BY DEF Verify, VerifyBegin, MayVerify
<1>2. CASE walkWanted
  <2>1. Begun'
    BY <1>1, <1>2 DEF Begun
  <2> QED
    BY <2>1, BegunThenGood
<1>3. CASE ~walkWanted
  <2>1. ASSUME NEW k \in Keys PROVE KeyInv(k)'
    <3>1. KeyInv(k) /\ k # 0
      BY DEF Good, Keys
    <3>2. Due(k) => Due(k)'
      BY <1>1, <1>3 DEF Due, EventOwed, AllDue
    <3>3. Right(k) => Right(k)'
      BY <1>1 DEF Right, Synced, Outdated, Classified
    <3>4. ~Ahead(k) /\ ~ToSee(k) /\ (Gone(k) => table[k] = None /\ held[k] = None) /\ Phantom.key = 0
      BY <1>1 DEF Ahead, ToSee, Gone, StateInv, WalkInv
    <3>5. RowRight(k)' /\ PhantomRight(k)'
      BY <1>1, <3>1, <3>4 DEF RowRight, PhantomRight, Phantom
    <3>6. HeadRight(k)'
      BY <1>1, <3>1, <3>2, <3>4 DEF KeyInv, HeadRight, HeadRepair, Gone
    <3> QED
      BY <1>1, <3>1, <3>2, <3>3, <3>4, <3>5, <3>6 DEF KeyInv
  <2> QED
    BY <2>1 DEF Good
<1> QED
  BY <1>2, <1>3

(* The retry's walk is owed, now or after the one that runs. *)
LEMMA VerifyRetryGood ==
    ASSUME StateInv', VerifyRetry
    PROVE  Good'
<1>1. CASE walker = "none"
  <2>1. Begun'
    BY <1>1 DEF VerifyRetry, VerifyBegin, Begun
  <2> QED
    BY <2>1, BegunThenGood
<1>2. CASE walker # "none"
  <2>1. AllDue'
    BY <1>2 DEF VerifyRetry, AllDue
  <2> QED
    BY <2>1, DueThenGood
<1> QED
  BY <1>1, <1>2

-----------------------------------------------------------------------------
(* Repairs. *)
LEMMA RepairReadGood ==
    ASSUME StateInv, Good, NEW p \in Repairs, RepairRead(p)
    PROVE  Good'
<1> USE DEF environment, loading, walk, walkAsked, resyncing
<1>1. /\ repair' = [repair EXCEPT ![p].row = table[repair[p].key]]
      /\ UNCHANGED <<environment, loading, held, subscription, walk, walkAsked, resyncing>>
  BY DEF RepairRead
<1>2. repair \in [Repairs -> Repairing]
  BY RepairTypes DEF StateInv
<1>3. /\ \A q \in Repairs : repair'[q].key = repair[q].key /\ repair'[q].newer = repair[q].newer
      /\ \A q \in Repairs : repair'[q].row = repair[q].row \/ repair'[q].row = table[repair[q].key]
  BY <1>1, <1>2 DEF Repairing
<1>4. "head" \in Repairs /\ "phantom" \in Repairs
  BY DEF Repairs
<1>5. ASSUME NEW k \in Keys PROVE KeyInv(k)'
  <2>1. KeyInv(k) /\ (Due(k)' <=> Due(k)) /\ (Right(k) => Right(k)')
    BY <1>1, DueSame, RightSame DEF Good
  <2>2. (Due(k) \/ Right(k) \/ Ahead(k))' /\ RowRight(k)'
    BY <1>1, <1>3, <1>4, <2>1 DEF KeyInv, Ahead, Phantom, RowRight
  <2>3. PhantomRight(k)'
    BY <1>1, <1>3, <1>4, <2>1 DEF KeyInv, PhantomRight, Phantom
  <2>4. HeadRight(k)'
    BY <1>1, <1>3, <1>4, <2>1 DEF KeyInv, HeadRight, HeadRepair, Phantom, ToSee, Gone
  <2> QED
    BY <1>1, <2>1, <2>2, <2>3, <2>4 DEF KeyInv
<1> QED
  BY <1>5 DEF Good

(* A repair that is no lapse changes the entry only to the row it has read  *)
(* with no newer one applied since.                                         *)
LEMMA RepairApplies ==
    ASSUME StateInv, NEW p \in Repairs, NEW x \in Keys, x = repair[p].key, RepairApply(p),
           lapsed = {}, lapsed' = {}
    PROVE  LET r == repair[p]
           IN  \/ /\ held' = held
                  /\ ~r.newer => held[x] = Classified(x, r.row)
               \/ /\ ~r.newer /\ held[x] = r.before
                  /\ held' = [held EXCEPT ![x] = Classified(x, r.row)]
<1>1. held \in [Keys -> Entries]
  BY DEF StateInv, TypeOK
<1>2. CASE Unchanged(p)
  <2>1. /\ held' = [held EXCEPT ![x] = Classified(x, repair[p].row)]
        /\ ~(repair[p].newer /\ Differs(p)) /\ held[x] = repair[p].before
    BY <1>2 DEF RepairApply, Apply, Unchanged
  <2>2. CASE ~repair[p].newer
    BY <2>1, <2>2
  <2>3. CASE ~Differs(p)
    <3>1. held[x] = Classified(x, repair[p].row)
      BY <2>3 DEF Differs
    <3>2. held' = held
      BY <1>1, <2>1, <3>1
    <3> QED
      BY <3>1, <3>2
  <2> QED
    BY <2>1, <2>2, <2>3
<1>3. CASE ~Unchanged(p)
  <2>1. held' = held /\ ~(~repair[p].newer /\ Differs(p))
    BY <1>3 DEF RepairApply
  <2> QED
    BY <2>1 DEF Differs
<1> QED
  BY <1>2, <1>3

(* So a phantom check corrects its key, and a head check leaves what is     *)
(* wrong to the walk that runs.                                             *)
LEMMA RepairApplyGood ==
    ASSUME StateInv, Good, NEW p \in Repairs, RepairApply(p), lapsed = {}, lapsed' = {}
    PROVE  Good'
<1> USE DEF environment, loading, walk, walkAsked, resyncing
<1>0. /\ TypeOK /\ WalkInv /\ repair \in [Repairs -> Repairing] /\ held \in [Keys -> Entries]
      /\ "head" \in Repairs /\ "phantom" \in Repairs /\ Idle.key = 0
  BY RepairTypes DEF StateInv, TypeOK, Repairs, Idle
<1>1. /\ repair[p].key # 0 /\ repair[p].row # Unread /\ repair' = [repair EXCEPT ![p] = Idle]
      /\ UNCHANGED <<environment, loading, subscription, walk, walkAsked, resyncing>>
  BY DEF RepairApply
<1>2. PICK x \in Keys : x = repair[p].key
  <2>1. repair[p] \in Repairing
    BY <1>0
  <2> QED
    BY <1>1, <2>1, KeeperAssumption DEF Repairing, Keys
<1>3. PICK r \in Repairing : r = repair[p]
  BY <1>0
<1>4. \/ held' = held /\ (~r.newer => held[x] = Classified(x, r.row))
      \/ /\ ~r.newer /\ held[x] = r.before
         /\ held' = [held EXCEPT ![x] = Classified(x, r.row)]
  BY <1>2, <1>3, RepairApplies
<1>5. r.key = x /\ r.row # Unread /\ r.row \in Rows \cup {None} /\ x # 0
  BY <1>1, <1>2, <1>3 DEF Repairing, Keys
<1>6. repair'[p] = Idle /\ \A q \in Repairs : q # p => repair'[q] = repair[q]
  BY <1>0, <1>1
<1>7. held'[x] = held[x] \/ (~r.newer /\ held[x] = r.before /\ held'[x] = Classified(x, r.row))
  BY <1>0, <1>4
<1>8. \A k \in Keys : k # x => held'[k] = held[k]
  BY <1>0, <1>4
<1>9. \A k \in Keys : KeyInv(k) /\ k # 0 /\ (Due(k)' <=> Due(k))
  BY <1>1, DueSame DEF Good, Keys
<1>10. \A k \in Keys : held'[k] = held[k] => (Right(k) => Right(k)')
  BY <1>1, RightSame
<1>11. \A k \in Keys : RowRight(k)'
  BY <1>1, <1>9 DEF KeyInv, RowRight
<1>12. r.row = table[x] => held'[x] = held[x] \/ Right(x)'
  BY <1>1, <1>7 DEF Right, Synced, Classified
<1>13. CASE p = "phantom"
  <2>1. Phantom = r /\ Phantom' = Idle /\ HeadRepair' = HeadRepair
    BY <1>0, <1>3, <1>6, <1>13 DEF Phantom, HeadRepair
  <2>2. walker = "phantoms" /\ (r.newer => x \in touched)
    BY <1>0, <1>5, <2>1 DEF WalkInv
  <2>3. ASSUME NEW k \in Keys PROVE KeyInv(k)'
    <3>1. PhantomRight(k)'
      BY <1>0, <1>9, <2>1 DEF PhantomRight
    <3>2. CASE k # x
      <4>1. HeadRight(k)'
        BY <1>1, <1>5, <1>8, <1>9, <2>1, <3>2 DEF KeyInv, HeadRight, ToSee, Gone
      <4>2. (Due(k) \/ Right(k) \/ Ahead(k))'
        BY <1>1, <1>5, <1>8, <1>9, <1>10, <2>1, <3>2 DEF KeyInv, Ahead
      <4> QED
        BY <1>1, <1>8, <1>9, <1>10, <1>11, <3>1, <3>2, <4>1, <4>2 DEF KeyInv
    <3>3. CASE k = x
      <4>1. ~r.newer => Due(x) \/ r.row = table[x]
        BY <1>5, <1>9, <2>1 DEF KeyInv, PhantomRight
      <4>2. r.newer => held' = held /\ (Due(x) \/ Right(x))
        BY <1>4, <1>9, <2>2 DEF KeyInv
      <4>3. r.row = table[x] /\ ~r.newer => Right(x)'
        <5>1. ~r.newer => held'[x] = Classified(x, r.row)
          BY <1>0, <1>4
        <5> QED
          BY <1>1, <5>1 DEF Right, Synced, Classified
      <4>4. Due(x)' \/ Right(x)'
        BY <1>9, <1>10, <4>1, <4>2, <4>3
      <4>5. HeadRight(x)'
        <5>1. CASE Due(x)
          BY <1>9, <5>1 DEF HeadRight
        <5>2. CASE ~Due(x) /\ Gone(x)
          <6>1. table[x] = None
            BY <5>2 DEF Gone
          <6>2. held'[x] = None
            <7>1. CASE r.newer
              BY <1>4, <2>2, <5>2, <7>1 DEF Gone
            <7>2. CASE ~r.newer
              <8>1. r.row = None
                BY <4>1, <5>2, <6>1, <7>2
              <8>2. Classified(x, r.row) = None
                BY <8>1 DEF Classified
              <8> QED
                BY <1>0, <1>4, <7>2, <8>2
            <7> QED
              BY <7>1, <7>2
          <6> QED
            BY <1>1, <6>1, <6>2 DEF HeadRight, Gone
        <5>3. CASE ~Due(x) /\ ~Gone(x)
          BY <1>1, <1>9, <2>1, <2>2, <5>3 DEF KeyInv, HeadRight, ToSee
        <5> QED
          BY <5>1, <5>2, <5>3
      <4> QED
        BY <1>11, <3>1, <3>3, <4>4, <4>5 DEF KeyInv
    <3> QED
      BY <3>2, <3>3
  <2> QED
    BY <2>3 DEF Good
<1>14. CASE p = "head"
  <2>1. HeadRepair = r /\ HeadRepair' = Idle /\ Phantom' = Phantom
    BY <1>0, <1>3, <1>6, <1>14 DEF Phantom, HeadRepair
  <2>2. r.before # None
    BY <1>0, <1>5, <2>1 DEF WalkInv
  <2>3. ASSUME NEW k \in Keys PROVE KeyInv(k)'
    <3>1. HeadRight(k)' /\ PhantomRight(k)'
      BY <1>0, <1>1, <1>9, <2>1 DEF KeyInv, HeadRight, PhantomRight
    <3>2. CASE held'[k] = held[k]
      BY <1>1, <1>9, <1>10, <1>11, <2>1, <3>1, <3>2 DEF KeyInv, Ahead
    <3>3. CASE held'[k] # held[k]
      <4>1. k = x /\ ~r.newer /\ held[x] # None /\ held'[x] = Classified(x, r.row)
        BY <1>7, <1>8, <2>2, <3>3
      <4>2. Due(x) \/ r.row = table[x] \/ ToSee(x) \/ Gone(x)
        BY <1>5, <1>9, <2>1, <4>1 DEF KeyInv, HeadRight
      <4>3. CASE Due(x) \/ r.row = table[x]
        BY <1>9, <1>11, <1>12, <3>1, <3>3, <4>1, <4>3 DEF KeyInv
      <4>4. CASE ToSee(x)
        <5>1. Ahead(x)' /\ x \notin touched'
          BY <1>1, <4>4 DEF ToSee, Ahead
        <5> QED
          BY <1>11, <3>1, <4>1, <5>1 DEF KeyInv
      <4>5. CASE Gone(x)
        <5>1. x \notin touched' /\ table[x] = None
          BY <1>1, <4>1, <4>5 DEF Gone
        <5>2. CASE held'[x] = None
          <6>1. Right(x)'
            BY <1>1, <5>1, <5>2 DEF Right, Synced, Classified
          <6> QED
            BY <1>11, <3>1, <4>1, <6>1 DEF KeyInv
        <5>3. CASE held'[x] # None
          <6>1. Ahead(x)'
            BY <1>1, <2>1, <4>1, <4>5, <5>3 DEF Gone, Ahead
          <6> QED
            BY <1>11, <3>1, <4>1, <5>1, <6>1 DEF KeyInv
        <5> QED
          BY <5>2, <5>3
      <4> QED
        BY <4>2, <4>3, <4>4, <4>5
    <3> QED
      BY <3>2, <3>3
  <2> QED
    BY <2>3 DEF Good
<1> QED
  BY <1>13, <1>14 DEF Repairs

-----------------------------------------------------------------------------
(* Resyncs. *)
LEMMA ResyncSubscribeGood ==
    ASSUME StateInv, Good, ResyncSubscribe
    PROVE  Good'
<1>1. resync' = "reclassify" /\ asked' = asked /\ asked.walk
  BY DEF ResyncSubscribe, StateInv, RequestInv
<1> QED
  BY <1>1, DueThenGood DEF AllDue

(* An entry is reclassified from its own value: right entries become those  *)
(* of the present configuration and node list, and an entry that goes, for  *)
(* a key this node does not own, is right to go.                            *)
LEMMA ReclassifyGood ==
    ASSUME StateInv, Good, NEW x \in Keys, Reclassify(x)
    PROVE  Good'
<1> USE DEF environment, loading, walk, walkAsked, resyncing
<1>0. TypeOK /\ held \in [Keys -> Entries] /\ table \in [Keys -> Rows \cup {None}]
  BY DEF StateInv, TypeOK
<1>1. /\ rest' = rest \ {x} /\ held' = [held EXCEPT ![x] = Classified(x, HeldValue(x))]
      /\ UNCHANGED <<environment, loading, subscription, walk, walkAsked, repair, resync, asked,
                     queued, resyncNodes>>
  BY DEF Reclassify, Apply
<1>2. held'[x] = Classified(x, HeldValue(x)) /\ \A k \in Keys : k # x => held'[k] = held[k]
  BY <1>0, <1>1
<1>3. \A k \in Keys : KeyInv(k) /\ (Due(k)' <=> Due(k))
  BY <1>1, DueSame DEF Good
<1>4. ASSUME NEW k \in Keys, k # x PROVE KeyInv(k)'
  <2>1. held'[k] = held[k] /\ (Right(k) => Right(k)')
    BY <1>1, <1>2, <1>4, RightSame
  <2> QED
    BY <1>1, <1>3, <2>1, KeyKept DEF WalkKept, Phantom, HeadRepair
<1>5. KeyInv(x)'
  <2>1. CASE held[x] = None
    <3>1. held'[x] = held[x]
      BY <1>2, <2>1 DEF HeldValue, Classified
    <3>2. Right(x) => Right(x)'
      BY <1>1, <2>1, <3>1 DEF Right, Synced, Outdated, Classified
    <3> QED
      BY <1>1, <1>3, <3>1, <3>2, KeyKept DEF WalkKept, Phantom, HeadRepair
  <2>2. CASE held[x] # None /\ x \notin Owned[nodes]
    <3>1. held'[x] = None
      BY <1>2, <2>2 DEF Classified
    <3>2. Right(x)'
      BY <1>1, <2>2, <3>1 DEF Right, Synced, Classified
    <3>3. RowRight(x)' /\ PhantomRight(x)' /\ HeadRight(x)'
      BY <1>1, <1>3, <3>1 DEF KeyInv, RowRight, PhantomRight, HeadRight, ToSee, Gone,
                                    Phantom, HeadRepair
    <3> QED
      BY <3>2, <3>3 DEF KeyInv
  <2>3. CASE held[x] # None /\ x \in Owned[nodes]
    <3>1. HeldValue(x) = held[x].row /\ held[x].row \in Rows
      BY <1>0, <2>3 DEF HeldValue, Entries
    <3>2. held'[x] = Classified(x, held[x].row) /\ held'[x] # None
      BY <1>0, <1>2, <2>3, <3>1, ClassifiedCases, KeeperAssumption
    <3>3. Right(x) => Right(x)'
      <4>1. Synced(x) => held[x].row = table[x]
        BY <1>0, <2>3, ClassifiedCases DEF Synced
      <4>2. held[x].row = table[x] => Right(x)'
        BY <1>1, <3>2 DEF Right, Synced, Classified
      <4> QED
        BY <4>1, <4>2 DEF Right, Outdated
    <3>4. RowRight(x)' /\ PhantomRight(x)' /\ HeadRight(x)'
      BY <1>1, <1>3, <2>3 DEF KeyInv, RowRight, PhantomRight, HeadRight, ToSee, Gone,
                                    Phantom, HeadRepair
    <3>5. (Due(x) \/ Right(x) \/ Ahead(x))'
      BY <1>1, <1>3, <2>3, <3>2, <3>3 DEF KeyInv, Ahead, Phantom
    <3> QED
      BY <1>1, <1>3, <3>3, <3>4, <3>5 DEF KeyInv
  <2> QED
    BY <2>1, <2>2, <2>3
<1> QED
  BY <1>4, <1>5 DEF Good

(* A resync that has reclassified hands its mismatches to a walk, now or    *)
(* after the one that runs; one without a walk had none of them.            *)
LEMMA ReclassifiedGood ==
    ASSUME StateInv, StateInv', Good, Reclassified, lapsed' = {}
    PROVE  Good'
<1> USE DEF environment, loading, walk, walkAsked, resyncing
<1>1. CASE asked.walk /\ walker = "none"
  <2>1. Begun'
    BY <1>1 DEF Reclassified, VerifyBegin, Begun
  <2> QED
    BY <2>1, BegunThenGood
<1>2. CASE asked.walk /\ walker # "none"
  <2>1. AllDue'
    BY <1>2 DEF Reclassified, AllDue
  <2> QED
    BY <2>1, DueThenGood
<1>3. CASE ~asked.walk
  <2>1. /\ resync = "reclassify" /\ rest = {} /\ resync' = "finish" /\ nodesKey' = resyncNodes
        /\ resyncNodes = nodesKey /\ (walkWanted => walkWanted')
        /\ UNCHANGED <<environment, held, subscription, walk, walkRetry, repair, asked,
                       queued, resyncNodes>>
    BY <1>3 DEF Reclassified
  <2>2. ASSUME NEW k \in Keys PROVE KeyInv(k)'
    <3>1. Due(k) => Due(k)'
      BY <1>3, <2>1 DEF Due, EventOwed, AllDue
    <3>2. Right(k) => Right(k)'
      BY <2>1 DEF Right, Synced, Outdated, Classified
    <3>3. KeyInv(k)
      BY DEF Good
    <3> QED
      BY <2>1, <3>1, <3>2, <3>3, KeyKept DEF WalkKept, Phantom, HeadRepair
  <2> QED
    BY <2>2 DEF Good
<1> QED
  BY <1>1, <1>2, <1>3

(* A failure to subscribe leaves no subscription, for publish() to see. *)
LEMMA ResyncFailsGood ==
    ASSUME StateInv, ResyncFails, lapsed' = {}
    PROVE  Good'
<1>1. resync = "subscribe" /\ subscription' = subscription
  BY DEF ResyncFails
<1>2. subscription' # "open"
  BY <1>1 DEF StateInv, RequestInv
<1> QED
  BY <1>2, DueThenGood DEF AllDue

(* What was asked meanwhile is begun. *)
LEMMA ResyncFinishGood ==
    ASSUME StateInv, Good, ResyncFinish
    PROVE  Good'
<1> USE DEF environment, loading, walk, walkAsked, resyncing
<1>1. /\ resync = "finish"
      /\ UNCHANGED <<table, nodes, config, disturbances, loading, held, walk, walkAsked, repair>>
      /\ \/ /\ queued = NoRequest /\ queued' = NoRequest /\ resync' = "idle"
            /\ UNCHANGED <<pending, subscription>>
         \/ queued # NoRequest /\ Begin(queued, pending)
  BY DEF ResyncFinish
<1>2. queued # NoRequest => queued \in Requests /\ (queued.resubscribe => queued.walk)
  BY DEF StateInv, TypeOK, RequestInv
<1>3. ASSUME NEW k \in Keys PROVE KeyInv(k)'
  <2>1. (Due(k) => Due(k)') /\ (Right(k) => Right(k)' \/ Due(k)')
    <3>1. CASE queued = NoRequest
      BY <1>1, <3>1 DEF Due, EventOwed, AllDue, Right, Synced, Outdated, Classified
    <3>2. CASE queued # NoRequest
      BY <1>1, <1>2, <3>2, BeginKeeps
    <3> QED
      BY <3>1, <3>2
  <2>2. KeyInv(k)
    BY DEF Good
  <2> QED
    BY <1>1, <2>1, <2>2, KeyKept DEF WalkKept, Phantom, HeadRepair
<1> QED
  BY <1>3 DEF Good

(* A step that changes nothing that is owed or held. *)
LEMMA NothingGood ==
    ASSUME Good, UNCHANGED <<environment, loading, held, subscription, walk, walkAsked, repair,
                             resync, asked, queued, rest, resyncNodes>>
    PROVE  Good'
<1> USE DEF environment, loading, walk, walkAsked
<1>1. ASSUME NEW k \in Keys PROVE KeyInv(k)'
  <2>1. (Due(k)' <=> Due(k)) /\ (Right(k) => Right(k)') /\ KeyInv(k)
    BY DueSame, RightSame DEF Good
  <2> QED
    BY <2>1, KeyKept DEF WalkKept, Phantom, HeadRepair
<1> QED
  BY <1>1 DEF Good

-----------------------------------------------------------------------------
(* The theorems. *)
LEMMA OwedStep == StateInv /\ StateInv' /\ OwedInv /\ [Next]_vars => OwedInv'
<1> SUFFICES ASSUME StateInv, StateInv', OwedInv, [Next]_vars, lapsed' = {}, Serving' PROVE Good'
  BY DEF OwedInv, Good
<1>1. CASE Start
  BY <1>1, StartGood
<1>2. CASE ~Start
  <2>1. lapsed = {}
    BY <1>2 DEF Next, vars, World, Write, NodesChange, ConfigChange, SubscriptionCloses, Load,
         LoadSubscribe, LoadEnd, Settle, Deliver, Walk, WalkRead, WalkApply, VerifyWalked,
         PhantomCheck, VerifyDone, VerifyEnd, Verify, VerifySoon, VerifyRetry, Repair, RepairRead,
         RepairApply, Publish, Resync, ResyncSubscribe, Reclassify, Reclassified, ResyncFinish,
         BackoffOver, Failure, LoadFails, DeliverFails, VerifyFails, ResyncFails
  <2>2. Serving
    BY <1>2 DEF Next, vars, World, Write, NodesChange, ConfigChange, SubscriptionCloses, Load,
         LoadSubscribe, LoadEnd, Settle, Deliver, Walk, WalkRead, WalkApply, VerifyWalked,
         PhantomCheck, VerifyDone, VerifyEnd, Verify, VerifySoon, VerifyRetry, Repair, RepairRead,
         RepairApply, Publish, Resync, ResyncSubscribe, Reclassify, Reclassified, ResyncFinish,
         BackoffOver, Failure, LoadFails, DeliverFails, VerifyFails, ResyncFails, loading, Serving,
         StateInv, PhaseInv
  <2>3. Good
    BY <2>1, <2>2 DEF OwedInv, Good
  <2>4. CASE UNCHANGED vars
    BY <2>3, <2>4, NothingGood DEF vars, environment, loading, walk, walkAsked, resyncing
  <2>5. CASE World
    <3>1. CASE SubscriptionCloses
      <4>1. AllDue'
        BY <3>1 DEF SubscriptionCloses, AllDue
      <4> QED
        BY <4>1, DueThenGood
    <3> QED
      BY <2>2, <2>3, <2>5, <3>1, WriteGood, NodesChangeGood, ConfigChangeGood DEF World
  <2>6. CASE Load
    BY <1>2, <2>3, <2>6, LoadSubscribeGood, LoadEndGood, SettleGood DEF Load
  <2>7. CASE Deliver
    BY <2>3, <2>7, DeliverGood
  <2>8. CASE Walk
    <3>1. CASE VerifyDone
      BY <2>3, <3>1, VerifyEndGood DEF VerifyDone
    <3> QED
      BY <2>3, <2>8, <3>1, WalkReadGood, WalkApplyGood, VerifyWalkedGood, PhantomCheckGood DEF Walk
  <2>9. CASE Verify \/ VerifySoon \/ VerifyRetry
    BY <2>3, <2>9, VerifyGood, VerifyRetryGood DEF VerifySoon
  <2>10. CASE Repair
    BY <2>1, <2>3, <2>10, RepairReadGood, RepairApplyGood DEF Repair
  <2>11. CASE Publish
    BY <2>3, <2>11, PublishGood
  <2>12. CASE Resync
    <3>1. CASE BackoffOver
      BY <2>3, <3>1, NothingGood DEF BackoffOver
    <3> QED
      BY <2>3, <2>12, <3>1, ResyncSubscribeGood, ReclassifyGood, ReclassifiedGood, ResyncFinishGood
         DEF Resync
  <2>13. CASE Failure
    <3>1. CASE LoadFails
      BY <3>1 DEF LoadFails, Serving
    <3>2. CASE VerifyFails
      BY <2>3, <3>2, VerifyEndGood DEF VerifyFails
    <3> QED
      BY <2>2, <2>3, <2>13, <3>1, <3>2, DeliverFailsGood, ResyncFailsGood DEF Failure
  <2> QED
    BY <2>4, <2>5, <2>6, <2>7, <2>8, <2>9, <2>10, <2>11, <2>12, <2>13 DEF Next
<1> QED
  BY <1>1, <1>2

(* A keeper that waits for its peers owes nothing. *)
LEMMA InitInv == Init => IInv
<1> SUFFICES ASSUME Init PROVE IInv
  OBVIOUS
<1> USE DEF Init
<1>1. TypeTable /\ TypeWalk
  BY KeeperAssumption DEF TypeTable, TypeWalk
<1>2. TypePhase /\ TypeFlags /\ TypeResync
  BY DEF TypePhase, TypeFlags, TypeResync
<1>3. TypeHeld
  BY DEF TypeHeld, Entries
<1>4. repair \in [Repairs -> Repairing]
  BY RepairTypes
<1>5. TypeOK
  BY <1>1, <1>2, <1>3, <1>4, TypeSplits DEF TypeParts, TypeRepair, Repairing, Entries
<1>6. PhaseInv /\ RequestInv /\ WantedInv /\ EventInv
  BY DEF PhaseInv, RequestInv, WantedInv, EventInv, Serving
<1>7. WalkInv
  BY DEF WalkInv, Phantom, HeadRepair, Idle, Repairs
<1>8. ~Serving
  BY DEF Serving
<1> QED
  BY <1>5, <1>6, <1>7, <1>8 DEF IInv, StateInv, OwedInv

(* The two halves of the induction. *)
LEMMA NextInv == IInv /\ [Next]_vars => IInv'
BY StateStep, OwedStep DEF IInv

(* What is due, right but for the configuration, or ahead of a walk that is *)
(* owed, is owed: a walk wanted has its timer or the walk before it.        *)
LEMMA InvOwes == IInv => MismatchOwed
<1> SUFFICES ASSUME IInv, phase = "live", lapsed = {}, NEW k \in Keys PROVE Owed(k)
  BY DEF MismatchOwed
<1>1. KeyInv(k) /\ WantedInv
  BY DEF IInv, OwedInv, StateInv, Serving
<1>2. CASE Due(k)
  BY <1>1, <1>2 DEF Due, AllDue, Owed, WalkOwed, ResyncOwed, WantedInv
<1>3. CASE Right(k)
  BY <1>3 DEF Right, Outdated, Owed, ResyncOwed
<1>4. CASE Ahead(k)
  BY <1>4 DEF Ahead, Phantom, Owed, WalkOwed
<1> QED
  BY <1>1, <1>2, <1>3, <1>4 DEF KeyInv

(* The inductive invariant holds of every behaviour. *)
THEOREM KeeperInvariant == Spec => []IInv
BY InitInv, NextInv, PTL DEF Spec

(* The keeper's variables keep their types: the events not delivered are a   *)
(* sequence of puts and deletions, an entry is a row of the table under some *)
(* configuration, and walks and resyncs run in a live keeper only.          *)
THEOREM KeeperTypeCorrect == Spec => []TypeOK
BY KeeperInvariant, PTL DEF IInv, StateInv

(* An entry of a serving keeper that differs from the table has an event, a *)
(* read of a walk or a resync coming, or a lapse has been made that only the *)
(* periodic walk puts right.                                                *)
THEOREM KeeperMismatchOwed == Spec => []MismatchOwed
BY KeeperInvariant, InvOwes, PTL
=============================================================================
