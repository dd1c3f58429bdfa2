----------------------------- MODULE QueueKeeper -----------------------------
(***************************************************************************)
(* packages/plugin/src/util/queueKeeperService.js: worker 0's index of the *)
(* schedule table.  It is loaded by a walk, kept current by a subscription,*)
(* and repaired by point reads, resyncs and verification walks; all of     *)
(* these run on one thread and interleave at their awaits.  A row is its   *)
(* value (due minute and flags); what the keeper holds of it adds the      *)
(* configuration its class was derived from.  A walk reads one row at a    *)
(* time and applies it in a later step.  start() runs again only after a   *)
(* failed load, so the epoch never changes under a walk.                   *)
(***************************************************************************)
EXTENDS Naturals, Sequences

CONSTANTS
    NumKeys,         \* keys are 1 .. NumKeys, in primary-key order
    Rows,            \* values of a row
    None,            \* no row
    Lists,           \* node lists
    Owned,           \* the keys this node owns under each list
    MaxDisturbances  \* bound: writes to the table, changes of the node list and of the
                     \* config, failures, together

Keys == 1 .. NumKeys

VARIABLES
    table, pending,            \* the table; the events of it not delivered yet, in order
    nodes, config,             \* getNodes(); the version of the routes and default interval
    disturbances,              \* counted against the bound
    phase, settling,           \* phase; live, but start() has not looked at deferred requests
    held,                      \* the keeper's entry for each key
    subscription, nodesKey,
    walker, at, row,           \* the walk that runs, its next key, the row it has read
    touched, seen, phantoms,   \* of that walk: keys events touched, keys seen, keys to re-read
    wanted, walkWanted,        \* verify()'s copy of walkWanted, and walkWanted
    walkRetry, verifySoon,     \* timers.walkRetry, the setImmediate of a further walk
    repair,                    \* repairFromTable of the head check and of the phantom check
    resync, asked, queued,     \* resync(): its place, its request, pendingResync
    rest, resyncNodes,         \* keys to reclassify, the node list they are held by
    backoff,                   \* now() < resyncRetryAt
    lapsed                     \* history: the kinds of mistake that only the periodic walk
                               \* puts right

environment == <<table, pending, nodes, config, disturbances>>
loading     == <<phase, settling, nodesKey>>
walk        == <<walker, at, row, touched, seen, phantoms, wanted>>
walkAsked   == <<walkWanted, walkRetry, verifySoon>>
resyncing   == <<resync, asked, queued, rest, resyncNodes, backoff>>
vars == <<environment, loading, held, subscription, walk, walkAsked, repair, resyncing, lapsed>>

Unread    == "unread"
Idle      == [key |-> 0, before |-> None, row |-> Unread, newer |-> FALSE]
NoRequest == None
Lapses    == {"flap", "repair", "failed", "unwalked"}
Requests  == [resubscribe : BOOLEAN, walk : BOOLEAN]
Entries   == [row : Rows, config : 0 .. MaxDisturbances] \cup {None}
Repairs   == {"head", "phantom"}

ASSUME KeeperAssumption ==
    /\ {NumKeys, MaxDisturbances} \subseteq Nat
    /\ None \notin Rows /\ None \notin Requests
    /\ None \notin [row : Rows, config : 0 .. MaxDisturbances]
    /\ Unread \notin Rows \cup {None}
    /\ Owned \in [Lists -> SUBSET Keys]

(* The keeper's entry for a value: null and rows of other nodes are not held. *)
Classified(k, value) ==
    IF value = None \/ k \notin Owned[nodes] THEN None
    ELSE [row |-> value, config |-> config]

HeldValue(k) == IF held[k] = None THEN None ELSE held[k].row
HeldKeys == {k \in Keys : held[k] # None}

Apply(k, value) == held' = [held EXCEPT ![k] = Classified(k, value)]

(* A walk's variables when none runs. *)
NoWalk == /\ at' = 1 /\ row' = Unread /\ wanted' = FALSE
          /\ touched' = {} /\ seen' = {} /\ phantoms' = {}

Disturbance == disturbances < MaxDisturbances /\ disturbances' = disturbances + 1

-----------------------------------------------------------------------------
(* Requests for a resync. *)

(* Mutant: a request that arrives while one runs is dropped. *)
MergedDropped(r) == queued

Merged(r) ==
    IF queued = NoRequest THEN r
    ELSE [resubscribe |-> r.resubscribe \/ queued.resubscribe, walk |-> r.walk \/ queued.walk]

Begin(r, events) ==
    /\ asked' = r
    /\ resync' = IF r.resubscribe THEN "subscribe" ELSE "reclassify"
    /\ subscription' = IF r.resubscribe THEN "none" ELSE subscription
    /\ pending' = IF r.resubscribe THEN <<>> ELSE events
    /\ rest' = HeldKeys /\ resyncNodes' = nodes

(* resync(why, r), by a handler that leaves events to deliver. *)
Ask(r, events) ==
    IF phase \notin {"loading", "live"}
    THEN pending' = events /\ UNCHANGED <<subscription, resyncing>>
    ELSE IF resync # "idle" \/ phase = "loading"
    THEN /\ queued' = Merged(r) /\ pending' = events
         /\ UNCHANGED <<subscription, resync, asked, rest, resyncNodes, backoff>>
    ELSE Begin(r, events) /\ UNCHANGED <<queued, backoff>>

(* publish(): a subscription that is not open, or a node list that moved. *)
Notice ==
    IF subscription # "open" THEN Begin([resubscribe |-> TRUE, walk |-> TRUE], pending)
    ELSE IF nodes # nodesKey THEN Begin([resubscribe |-> FALSE, walk |-> TRUE], pending)
    ELSE UNCHANGED <<subscription, pending, resync, asked, rest, resyncNodes>>

(* publish(): then it may begin to check a key at the head of what it published. *)
HeadCheck ==
    \/ repair' = repair
    \/ \E k \in HeldKeys :
         repair' = [repair EXCEPT !["head"] = [Idle EXCEPT !.key = k, !.before = held[k]]]

-----------------------------------------------------------------------------
(* The world: the table is written, the cluster and the config change, the  *)
(* subscription closes.                                                     *)

Write(k, value) ==
    /\ Disturbance /\ value # table[k]
    /\ table' = [table EXCEPT ![k] = value]
    /\ pending' = IF subscription = "open"
                  THEN Append(pending, [key |-> k, deleted |-> value = None]) ELSE pending
    /\ UNCHANGED <<nodes, config, loading, held, subscription, walk, walkAsked,
                   repair, resyncing, lapsed>>

(* A list that comes back before anything noticed the other one is a lapse: *)
(* rows were dropped or missed meanwhile, and nothing shows it.             *)
NodesChange(list) ==
    /\ Disturbance /\ list # nodes
    /\ nodes' = list
    /\ lapsed' = lapsed \cup
        (IF list = (IF resync = "reclassify" THEN resyncNodes ELSE nodesKey) THEN {"flap"} ELSE {})
    /\ UNCHANGED <<table, pending, config, loading, held, subscription, walk,
                   walkAsked, repair, resyncing>>

(* onConfigApplied. *)
ConfigChange ==
    /\ Disturbance /\ config' = config + 1
    /\ Ask([resubscribe |-> FALSE, walk |-> FALSE], pending)
    /\ UNCHANGED <<table, nodes, loading, held, walk, walkAsked, repair,
                   lapsed>>

SubscriptionCloses ==
    /\ subscription = "open" /\ Disturbance
    /\ subscription' = "closed" /\ pending' = <<>>
    /\ UNCHANGED <<table, nodes, config, loading, held, walk, walkAsked, repair,
                   resyncing, lapsed>>

-----------------------------------------------------------------------------
(* start(): the load. *)

(* Once the peers are seen, or after the grace period. *)
Start ==
    /\ phase \in {"waiting", "failed"}
    /\ phase' = "loading"
    /\ nodesKey' = nodes
    /\ held' = [k \in Keys |-> None]
    /\ lapsed' = {}
    /\ UNCHANGED <<environment, settling, subscription, walk, walkAsked, repair, resyncing>>

LoadSubscribe ==
    /\ phase = "loading" /\ walker = "none"
    /\ subscription' = "open"
    /\ walker' = "load" /\ NoWalk
    /\ UNCHANGED <<environment, loading, held, walkAsked, repair, resyncing, lapsed>>

LoadFails ==
    /\ phase = "loading" /\ Disturbance
    /\ phase' = "failed"
    /\ held' = [k \in Keys |-> None] /\ queued' = NoRequest
    /\ subscription' = "none" /\ pending' = <<>>
    /\ walker' = "none" /\ NoWalk
    /\ UNCHANGED <<table, nodes, config, settling, nodesKey, walkAsked, repair,
                   resync, asked, rest, resyncNodes, backoff, lapsed>>

LoadEnd ==
    /\ walker = "load" /\ at > NumKeys
    /\ phase' = "live" /\ settling' = TRUE
    /\ walker' = "none" /\ NoWalk
    /\ Notice /\ HeadCheck
    /\ UNCHANGED <<table, nodes, config, disturbances, nodesKey, held, walkAsked, queued,
                   backoff, lapsed>>

(* After its first publish: what was asked for while loading, and a node   *)
(* list that moved under the load.                                         *)
Settle ==
    /\ settling /\ repair["head"] = Idle
    /\ settling' = FALSE
    /\ LET deferred == IF queued = NoRequest THEN [resubscribe |-> FALSE, walk |-> FALSE]
                                             ELSE queued
           moved == nodes # nodesKey
       IN  IF resync # "idle" \/ (~moved /\ queued = NoRequest)
           THEN \* pendingResync is taken and merged again
                /\ queued' = IF moved THEN [deferred EXCEPT !.walk = TRUE] ELSE queued
                /\ UNCHANGED <<pending, subscription, resync, asked, rest, resyncNodes>>
           ELSE /\ Begin([deferred EXCEPT !.walk = deferred.walk \/ moved], pending)
                /\ queued' = NoRequest
    /\ UNCHANGED <<table, nodes, config, disturbances, phase, nodesKey, held, walk,
                   walkAsked, repair, backoff, lapsed>>

-----------------------------------------------------------------------------
(* onEvent: a put carries the row as it is at delivery. *)

(* Mutant: an event does not mark its key for the walk that runs. *)
TouchedNever(k) == touched

Touched(k) == IF walker = "none" THEN touched ELSE touched \cup {k}

(* Repairs of the key that have read it already are overtaken. *)
Overtaken(k) == [p \in Repairs |-> IF repair[p].key = k /\ repair[p].row # Unread
                                   THEN [repair[p] EXCEPT !.newer = TRUE] ELSE repair[p]]

Deliver ==
    /\ subscription = "open" /\ pending # <<>>
    /\ LET k == Head(pending).key
       IN  /\ Apply(k, IF Head(pending).deleted THEN None ELSE table[k])
           /\ touched' = Touched(k)
           /\ repair' = Overtaken(k)
    /\ pending' = Tail(pending)
    /\ UNCHANGED <<table, nodes, config, disturbances, loading, subscription, walker, at,
                   row, seen, phantoms, wanted, walkAsked, resyncing, lapsed>>

(* The keeper could not apply it: the key stays marked, a walk is asked for. *)
DeliverFails ==
    /\ subscription = "open" /\ pending # <<>> /\ Disturbance
    /\ touched' = Touched(Head(pending).key)
    /\ Ask([resubscribe |-> FALSE, walk |-> TRUE], Tail(pending))
    /\ UNCHANGED <<table, nodes, config, loading, held, walker, at, row, seen,
                   phantoms, wanted, walkAsked, repair, lapsed>>

-----------------------------------------------------------------------------
(* walkAll: for the load and for verify().  A row it reads is applied later, *)
(* unless an event has touched its key since the walk began.                 *)

WalkRead ==
    /\ walker \in {"load", "verify"} /\ at <= NumKeys /\ row = Unread
    /\ IF table[at] = None THEN at' = at + 1 /\ row' = row
                           ELSE row' = table[at] /\ at' = at
    /\ UNCHANGED <<environment, loading, held, subscription, walker, touched, seen, phantoms,
                   wanted, walkAsked, repair, resyncing, lapsed>>

WalkApply ==
    /\ walker \in {"load", "verify"} /\ row # Unread
    /\ IF at \in touched THEN UNCHANGED <<held, repair>>
                         ELSE Apply(at, row) /\ repair' = Overtaken(at)
    /\ seen' = IF walker = "verify" /\ at \in Owned[nodes] THEN seen \cup {at} ELSE seen
    /\ at' = at + 1 /\ row' = Unread
    /\ UNCHANGED <<environment, loading, subscription, walker, touched, phantoms, wanted,
                   walkAsked, resyncing, lapsed>>

(* Mutant: a walk asked for while one runs is taken to be that one. *)
WalkWantedLost == FALSE

WalkWanted == walkWanted

(* verify(), with walkWanted as it is when it begins. *)
VerifyBegin(asks) ==
    /\ walker' = "verify" /\ at' = 1 /\ touched' = {} /\ seen' = {}
    /\ wanted' = asks /\ walkWanted' = FALSE
    /\ row' = Unread /\ phantoms' = {}

(* Mutant: a walk begins while the keeper loads. *)
MayVerifyLoading == phase \in {"loading", "live"} /\ walker = "none"

MayVerify == phase = "live" /\ walker = "none"

Verify ==    \* the periodic timer, or the setImmediate
    /\ MayVerify
    /\ VerifyBegin(walkWanted)
    /\ verifySoon' = FALSE
    /\ UNCHANGED <<environment, loading, held, subscription, walkRetry, repair, resyncing, lapsed>>

VerifySoon == verifySoon /\ Verify

VerifyRetry ==    \* timers.walkRetry fires
    /\ walkRetry /\ walkRetry' = FALSE
    /\ IF walker = "none" THEN VerifyBegin(TRUE) ELSE walkWanted' = TRUE /\ UNCHANGED walk
    /\ UNCHANGED <<environment, loading, held, subscription, verifySoon, repair, resyncing, lapsed>>

(* Mutant: the keys a walk has not seen are not read again. *)
PhantomsNone == {}

Phantoms == HeldKeys \ seen

(* The walk is over: the keys held that it has not seen are read again. *)
VerifyWalked ==
    /\ walker = "verify" /\ at > NumKeys
    /\ walker' = "phantoms"
    /\ phantoms' = Phantoms
    /\ UNCHANGED <<environment, loading, held, subscription, at, row, touched, seen, wanted,
                   walkAsked, repair, resyncing, lapsed>>

PhantomCheck(k) ==
    /\ walker = "phantoms" /\ k \in phantoms /\ repair["phantom"] = Idle
    /\ phantoms' = phantoms \ {k}
    /\ repair' = IF k \in touched THEN repair
                 ELSE [repair EXCEPT !["phantom"] = [Idle EXCEPT !.key = k, !.before = held[k]]]
    /\ UNCHANGED <<environment, loading, held, subscription, walker, at, row, touched, seen, wanted,
                   walkAsked, resyncing, lapsed>>

(* Its finally: a walk a resync waits for is retried if it failed, and one *)
(* asked for meanwhile follows.  The resync that awaits it goes on.        *)
VerifyEnd(ok) ==
    /\ walker' = "none" /\ NoWalk
    /\ repair' = [repair EXCEPT !["phantom"] = Idle]
    /\ IF ~ok /\ wanted /\ ~walkRetry
       THEN walkRetry' = TRUE /\ verifySoon' = verifySoon
       ELSE walkRetry' = walkRetry /\ verifySoon' = (verifySoon \/ WalkWanted)
    /\ resync' = IF resync = "verify" THEN "finish" ELSE resync
    /\ UNCHANGED <<table, pending, nodes, config, loading, held, subscription,
                   walkWanted, asked, queued, rest, resyncNodes, backoff, lapsed>>

VerifyDone ==
    /\ walker = "phantoms" /\ phantoms = {} /\ repair["phantom"] = Idle
    /\ VerifyEnd(TRUE) /\ UNCHANGED disturbances

VerifyFails ==
    /\ walker \in {"verify", "phantoms"} /\ Disturbance
    /\ VerifyEnd(FALSE)

-----------------------------------------------------------------------------
(* repairFromTable: describe, read the row, describe again, and apply if the *)
(* keeper's entry did not change.                                            *)

RepairRead(p) ==
    /\ repair[p].key # 0 /\ repair[p].row = Unread
    /\ repair' = [repair EXCEPT ![p].row = table[repair[p].key]]
    /\ UNCHANGED <<environment, loading, held, subscription, walk, walkAsked, resyncing, lapsed>>

Unchanged(p) == held[repair[p].key] = repair[p].before

Differs(p) == held[repair[p].key] # Classified(repair[p].key, repair[p].row)

(* Lapses: the entry changed and changed back, so that an older read is    *)
(* applied; the entry changed by another repair or a reclassification, so  *)
(* that the newer read is not.                                             *)
RepairApply(p) ==
    LET k == repair[p].key
    IN  /\ k # 0 /\ repair[p].row # Unread
        /\ IF Unchanged(p)
           THEN /\ Apply(k, repair[p].row)
                /\ lapsed' = lapsed \cup
                    (IF repair[p].newer /\ Differs(p) THEN {"repair"} ELSE {})
           ELSE /\ held' = held
                /\ lapsed' = lapsed \cup
                    (IF ~repair[p].newer /\ Differs(p) THEN {"repair"} ELSE {})
        /\ repair' = [repair EXCEPT ![p] = Idle]
        /\ UNCHANGED <<environment, loading, subscription, walk, walkAsked, resyncing>>

-----------------------------------------------------------------------------
(* publish(), on its timer. *)

Publish ==
    /\ phase = "live" /\ repair["head"] = Idle
    /\ IF resync # "idle" \/ backoff
       THEN UNCHANGED <<subscription, pending, resync, asked, rest, resyncNodes>>
       ELSE Notice
    /\ HeadCheck
    /\ UNCHANGED <<table, nodes, config, disturbances, loading, held, walk, walkAsked,
                   queued, backoff, lapsed>>

-----------------------------------------------------------------------------
(* resync(): reopen the subscription, reclassify what is held, walk. *)

ResyncSubscribe ==
    /\ resync = "subscribe"
    /\ subscription' = "open"
    /\ resync' = "reclassify" /\ rest' = HeldKeys /\ resyncNodes' = nodes
    /\ UNCHANGED <<environment, loading, held, walk, walkAsked, repair, asked, queued, backoff,
                   lapsed>>

Reclassify(k) ==
    /\ resync = "reclassify" /\ k \in rest
    /\ rest' = rest \ {k}
    /\ Apply(k, HeldValue(k))
    /\ UNCHANGED <<environment, loading, subscription, walk, walkAsked, repair, resync, asked,
                   queued, resyncNodes, backoff, lapsed>>

Reclassified ==
    /\ resync = "reclassify" /\ rest = {}
    /\ nodesKey' = resyncNodes
    /\ lapsed' = lapsed \cup
        (IF resyncNodes # nodesKey /\ ~asked.walk THEN {"unwalked"} ELSE {})
    /\ IF asked.walk /\ walker = "none"
       THEN VerifyBegin(TRUE) /\ resync' = "verify"
       ELSE /\ walkWanted' = (walkWanted \/ asked.walk) /\ resync' = "finish"
            /\ UNCHANGED walk
    /\ UNCHANGED <<environment, phase, settling, held, subscription, walkRetry, verifySoon, repair,
                   asked, queued, rest, resyncNodes, backoff>>

(* A failure to subscribe shows at the next publish; one of the           *)
(* reclassification shows only if the node list differs, and is a lapse.  *)
ResyncFails ==
    /\ resync \in {"subscribe", "reclassify"} /\ Disturbance
    /\ backoff' = TRUE /\ resync' = "finish"
    /\ lapsed' = lapsed \cup (IF resync = "reclassify" THEN {"failed"} ELSE {})
    /\ UNCHANGED <<table, pending, nodes, config, loading, held, subscription, walk,
                   walkAsked, repair, asked, queued, rest, resyncNodes>>

ResyncFinish ==
    /\ resync = "finish"
    /\ queued' = NoRequest
    /\ IF queued = NoRequest
       THEN /\ resync' = "idle" /\ asked' = NoRequest /\ rest' = {} /\ resyncNodes' = nodesKey
            /\ UNCHANGED <<pending, subscription>>
       ELSE Begin(queued, pending)
    /\ UNCHANGED <<table, nodes, config, disturbances, loading, held, walk, walkAsked,
                   repair, backoff, lapsed>>

BackoffOver ==
    /\ backoff /\ backoff' = FALSE
    /\ UNCHANGED <<environment, loading, held, subscription, walk, walkAsked, repair, resync, asked,
                   queued, rest, resyncNodes, lapsed>>

-----------------------------------------------------------------------------
Init ==
    /\ table \in [Keys -> Rows \cup {None}] /\ pending = <<>>
    /\ nodes \in Lists /\ config = 0
    /\ disturbances = 0
    /\ phase = "waiting" /\ settling = FALSE /\ nodesKey = nodes
    /\ held = [k \in Keys |-> None] /\ subscription = "none"
    /\ walker = "none" /\ at = 1 /\ row = Unread
    /\ touched = {} /\ seen = {} /\ phantoms = {} /\ wanted = FALSE
    /\ walkWanted = FALSE /\ walkRetry = FALSE /\ verifySoon = FALSE
    /\ repair = [p \in Repairs |-> Idle]
    /\ resync = "idle" /\ asked = NoRequest /\ queued = NoRequest
    /\ rest = {} /\ resyncNodes = nodes /\ backoff = FALSE
    /\ lapsed = {}

World ==
    \/ \E k \in Keys, value \in Rows \cup {None} : Write(k, value)
    \/ \E list \in Lists : NodesChange(list)
    \/ ConfigChange
    \/ SubscriptionCloses

Load   == Start \/ LoadSubscribe \/ LoadEnd \/ Settle
Walk   == WalkRead \/ WalkApply \/ VerifyWalked \/ (\E k \in Keys : PhantomCheck(k)) \/ VerifyDone
Repair == \E p \in Repairs : RepairRead(p) \/ RepairApply(p)
Resync ==
    \/ ResyncSubscribe \/ (\E k \in Keys : Reclassify(k)) \/ Reclassified \/ ResyncFinish
    \/ BackoffOver
Failure == LoadFails \/ DeliverFails \/ VerifyFails \/ ResyncFails

Next ==
    \/ World \/ Load \/ Deliver \/ Walk \/ Verify \/ VerifySoon \/ VerifyRetry
    \/ Repair \/ Publish \/ Resync \/ Failure

(* The event loop runs what is ready; the timers of publish, of the retries *)
(* and of the backoff fire.  The periodic walk and the head checks, which   *)
(* reach due keys only, need not come.                                      *)
Fairness ==
    /\ WF_vars(Load) /\ WF_vars(Deliver) /\ WF_vars(Walk) /\ WF_vars(Repair)
    /\ WF_vars(Publish /\ repair' = repair)
    /\ WF_vars(VerifySoon) /\ WF_vars(VerifyRetry)
    /\ WF_vars(ResyncSubscribe) /\ WF_vars(\E k \in Keys : Reclassify(k)) /\ WF_vars(Reclassified)
    /\ WF_vars(ResyncFinish) /\ WF_vars(BackoffOver)

Spec == Init /\ [][Next]_vars /\ Fairness

-----------------------------------------------------------------------------
TypeOK ==
    /\ table \in [Keys -> Rows \cup {None}]
    /\ pending \in Seq([key : Keys, deleted : BOOLEAN])
    /\ nodes \in Lists /\ nodesKey \in Lists /\ resyncNodes \in Lists
    /\ {config, disturbances} \subseteq 0 .. MaxDisturbances
    /\ phase \in {"waiting", "loading", "live", "failed"} /\ settling \in BOOLEAN
    /\ held \in [Keys -> Entries]
    /\ subscription \in {"none", "open", "closed"}
    /\ walker \in {"none", "load", "verify", "phantoms"}
    /\ at \in 1 .. NumKeys + 1 /\ row \in Rows \cup {Unread}
    /\ touched \subseteq Keys /\ seen \subseteq Keys /\ phantoms \subseteq Keys
    /\ {wanted, walkWanted, walkRetry, verifySoon, backoff} \subseteq BOOLEAN
    /\ lapsed \subseteq Lapses
    /\ repair \in [Repairs -> [key : 0 .. NumKeys, before : Entries,
                               row : Rows \cup {None, Unread}, newer : BOOLEAN]]
    /\ resync \in {"idle", "subscribe", "reclassify", "verify", "finish"}
    /\ {asked, queued} \subseteq Requests \cup {NoRequest} /\ rest \subseteq Keys
    /\ walker \in {"verify", "phantoms"} => phase = "live"
    /\ resync # "idle" => phase = "live"

Synced(k) == held[k] = Classified(k, table[k])

(* What will still bring the keeper to the table's value of k: an event, a *)
(* read of a walk to come or not past k, a resync asked for or certain to  *)
(* be asked for.                                                           *)
EventOwed(k) == \E i \in DOMAIN pending : pending[i].key = k
WalkOwed(k) ==
    \/ walkWanted /\ (walker # "none" \/ verifySoon)
    \/ walkRetry
    \/ walker = "load" /\ (at <= k)
    \/ walker = "verify" /\ (at <= k \/ (held[k] # None /\ k \notin seen))
    \/ walker = "phantoms" /\ (k \in phantoms \/ repair["phantom"].key = k)
ResyncOwed ==
    \/ subscription # "open" \/ nodes # nodesKey
    \/ queued # NoRequest \/ resync \in {"subscribe", "reclassify"}

Owed(k) == Synced(k) \/ EventOwed(k) \/ WalkOwed(k) \/ ResyncOwed

(* In a keeper that serves, an entry that differs from the table is owed a *)
(* correction, or a lapse has been made (module comment of the code: a     *)
(* missed write is bounded by an interval; only lapses wait that long).    *)
MismatchOwed == phase = "live" /\ lapsed = {} => \A k \in Keys : Owed(k)

(* The code's comment: "a change of cluster membership reclassifies        *)
(* (dropping rows this node no longer owns) and then runs the verification *)
(* walk (adding the rows it now does)".                                    *)
GainedRowsOwed ==
    phase = "live" /\ lapsed \subseteq {"unwalked"} => \A k \in Keys : held[k] = None => Owed(k)

(* The keeper comes to hold the table, without any periodic walk. *)
IndexConverges == <>[](lapsed # {} \/ \A k \in Keys : Synced(k))

(* With it, whatever lapses were made. *)
VerifyHeals == WF_vars(Verify) => <>[](\A k \in Keys : Synced(k))
=============================================================================
