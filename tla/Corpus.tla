------------------------------- MODULE Corpus -------------------------------
(***************************************************************************)
(* The three rows of one URL on the node that owns it: its Target, its     *)
(* RenderSchedule row and its cached page.  They are in separate           *)
(* databases, so everything that creates, retires or repairs a URL writes  *)
(* them one after the other, each on what it read earlier: discovery, the  *)
(* sitemap walk, render results (resources/RenderQueue.js), callers asking *)
(* for a render, the purge of discovered targets, the expiry of pages, the *)
(* schedule reconciler and the sweep of orphaned pages.  Writers may be on *)
(* other nodes: a target they put arrives here by replication, and its     *)
(* schedule row by routing, in either order.                               *)
(*                                                                         *)
(* The lease is a flag, and a due time is left out (RenderQueue has them). *)
(* Times are kept as their outcomes: a page is fresh, or so old that it is *)
(* neither servable nor younger than the sweep's minAge; a deferred row is *)
(* overdue once its target has been missing for graceMs.                   *)
(***************************************************************************)
EXTENDS Naturals

CONSTANTS
    MaxEvents,     \* bound: discoveries, walks, asks, purges, expiries, retirements
    MaxFaults      \* bound: lost writes, failed deletes and crashes

ASSUME BoundsAssumption == MaxEvents \in Nat /\ MaxFaults \in Nat

VARIABLES
    target,        \* the Target row on this node
    row,           \* the RenderSchedule row
    page,          \* the PrerenderedPage row
    leased,        \* the key's lease is out
    puts,          \* per kind of writer: the writes it has issued that have not landed
    render,        \* the render in hand, and what its result read
    purge, repair, sweep, expiry,  \* what each of them read, and where it is
    events, faults,                \* counters, for the bounds
    \* history
    stranded       \* the page was stored by a result that read its target before the
                   \* target was deleted, or that had no rotation to withhold it from

tasks == <<purge, repair, sweep, expiry>>
counters == <<events, faults>>
vars == <<target, row, page, leased, puts, render, tasks, counters, stranded>>

\* A target is active or suppressed, by a verdict on the page it still serves
\* ("held") or because it is gone; "listed" is its sitemapUrl.
States == {"active", "held", "gone"}
NoTarget == [state |-> "none", listed |-> FALSE]
Targets == [state : States, listed : BOOLEAN] \cup {NoTarget}
There == target # NoTarget

\* A row filed with a cadence, one without ("bare"), and one deferred because
\* its target was missing, before and after the end of the grace.
Rows == {"none", "bare", "recurring", "deferred", "overdue"}
Pages == {"none", "stub", "fresh", "old"}
Whole == page \in {"fresh", "old"}

Writers == {"bot", "sitemap", "ask"}
NoPut == [target |-> "no", listed |-> FALSE, row |-> "none"]
Idle == [pc |-> "idle"]
Coming == \E w \in Writers : puts[w].target = "put"

Init ==
    /\ target = NoTarget /\ row = "none" /\ page = "none" /\ leased = FALSE
    /\ puts = [w \in Writers |-> NoPut]
    /\ render = Idle /\ purge = Idle /\ repair = Idle /\ sweep = Idle /\ expiry = Idle
    /\ events = 0 /\ faults = 0
    /\ stranded = FALSE

Event == events < MaxEvents /\ events' = events + 1 /\ UNCHANGED faults
Fault == faults < MaxFaults /\ faults' = faults + 1 /\ UNCHANGED events

\* A patch of a missing target creates it: its key rides the patch.
Patched == IF There THEN target ELSE [state |-> "active", listed |-> FALSE]
LeavesNothing == target' = NoTarget /\ row' = "none" /\ page' = "none"

-----------------------------------------------------------------------------
(* Creation: discovery, the sitemap walk and callers asking for a render.  A
   writer reads its own copy of the target, which may not be here yet. *)

Issue(w, what) ==
    /\ puts[w] = NoPut
    /\ Event
    /\ puts' = [puts EXCEPT ![w] = what]
    /\ UNCHANGED <<target, row, page, leased, render, tasks, stranded>>

\* A miss of a crawler on a URL with no target mints one.
Discover ==
    /\ ~There
    /\ Issue("bot", [target |-> "put", listed |-> FALSE, row |-> "recurring"])

\* A walk creates the target of a listed URL (or, told to revalidate, puts it
\* again), re-attaches one that another sitemap listed or none, bringing a first
\* listing forward, and unlinks one its sitemap no longer lists, filing a departure
\* due now.
WalkCreates ==
    /\ Issue("sitemap", [target |-> "put", listed |-> TRUE, row |-> "recurring"])
WalkAttaches ==
    /\ There
    /\ \E files \in IF target.listed THEN {"none"} ELSE {"none", "recurring"} :
         Issue("sitemap", [target |-> "patch", listed |-> TRUE, row |-> files])
WalkUnlinks ==
    /\ There /\ target.listed
    /\ \E files \in {"none", "recurring"} :
         Issue("sitemap", [target |-> "patch", listed |-> FALSE, row |-> files])

\* A render-now of a URL without a target, and Target.revalidate of one that
\* exists on the node it ran on, both file a row with no cadence.
RenderNow ==
    /\ ~There
    /\ Issue("ask", [target |-> "no", listed |-> FALSE, row |-> "bare"])
Revalidate ==
    /\ There \/ Coming
    /\ Issue("ask", [target |-> "no", listed |-> FALSE, row |-> "bare"])

TargetLands(w) ==
    /\ puts[w].target # "no"
    /\ target' = IF puts[w].target = "put" THEN [state |-> "active", listed |-> puts[w].listed]
                 ELSE [Patched EXCEPT !.listed = puts[w].listed]
    /\ puts' = [puts EXCEPT ![w].target = "no", ![w].listed = FALSE]
    /\ UNCHANGED <<row, page, leased, render, tasks, counters, stranded>>
RowLands(w) ==
    /\ puts[w].row # "none"
    /\ row' = puts[w].row
    /\ puts' = [puts EXCEPT ![w].row = "none"]
    /\ UNCHANGED <<target, page, leased, render, tasks, counters, stranded>>

\* The schedule half is lost: a crash between the two writes, or a routed write
\* to a node whose replication link is unhealthy.
RowLost(w) ==
    /\ puts[w].row # "none" /\ Fault
    /\ puts' = [puts EXCEPT ![w].row = "none"]
    /\ UNCHANGED <<target, row, page, leased, render, tasks, stranded>>

-----------------------------------------------------------------------------
(* The render cycle.  A claim looks at the schedule row alone. *)

Claim ==
    /\ row # "none" /\ ~leased /\ render = Idle
    /\ leased' = TRUE /\ render' = [pc |-> "out"]
    /\ UNCHANGED <<target, row, page, puts, tasks, counters, stranded>>
LeaseEnds ==
    /\ leased /\ leased' = FALSE
    /\ UNCHANGED <<target, row, page, puts, render, tasks, counters, stranded>>

\* The result reads the target and, when there is none, the row.
Outcomes == {"rendered", "failed", "noindex", "gone"}
ResultReads(outcome) ==
    /\ render.pc = "out"
    /\ render' = [pc |-> IF There THEN "found" ELSE "missing", outcome |-> outcome, listed |-> target.listed]
    /\ UNCHANGED <<target, row, page, leased, puts, tasks, counters, stranded>>
ResultReadsRow ==
    /\ render.pc = "missing"
    /\ render' = [pc |-> "targetless", outcome |-> render.outcome, kind |-> row]
    /\ UNCHANGED <<target, row, page, leased, puts, tasks, counters, stranded>>

Settled == leased' = FALSE /\ render' = Idle /\ UNCHANGED <<puts, purge, repair, expiry>>
Stores(alone) ==
    /\ page' = "fresh" /\ stranded' = alone
    /\ sweep' = IF sweep = Idle THEN Idle ELSE [sweep EXCEPT !.written = TRUE]
StoresNothing == UNCHANGED <<page, sweep, stranded>>

\* A result whose target was there stores its page and refiles the row; a
\* failed one may leave both alone.  Clearing strikes, counting one, moving the
\* rung and lifting a suppression each patch the target.
TargetedLands ==
    /\ render.pc = "found" /\ render.outcome \in {"rendered", "failed"}
    /\ IF render.outcome = "rendered" THEN Stores(~There) ELSE StoresNothing
    /\ row' \in IF render.outcome = "rendered" THEN {"recurring"} ELSE {row, "recurring"}
    /\ target' \in {target, Patched}
                     \cup IF render.outcome = "rendered" THEN {[Patched EXCEPT !.state = "active"]} ELSE {}
    /\ Settled /\ UNCHANGED counters

\* Mutants: pages are stored for a rotation without a target too; each deferral
\* restarts the grace.
WithheldNever == FALSE
SettleRestamped ==
    row' = CASE render.kind = "none" -> row
             [] render.kind = "bare" -> "none"
             [] OTHER -> "deferred"

\* What becomes of the row of a URL with no target.
Withheld == render.kind \in {"recurring", "deferred", "overdue"}
SettleTargetless ==
    row' = CASE render.kind = "none" -> row
             [] render.kind \in {"bare", "overdue"} -> "none"
             [] OTHER -> IF row = "overdue" THEN "overdue" ELSE "deferred"
TargetlessLands ==
    /\ render.pc = "targetless" /\ render.outcome # "noindex"
    /\ SettleTargetless
    /\ IF render.outcome = "rendered" /\ ~Withheld THEN Stores(render.kind \in {"none", "bare"}) ELSE StoresNothing
    /\ Settled /\ UNCHANGED <<target, counters>>

\* Mutant: the reason is written as the state.
VerdictLandsReason ==
    /\ render.pc = "found" /\ render.outcome \in {"noindex", "gone"}
    /\ target' = [state |-> render.outcome, listed |-> render.listed]
    /\ row' = "recurring" /\ page' = "none"
    /\ Settled /\ UNCHANGED <<sweep, counters, stranded>>

\* Target.suppress: a verdict keeps the target, as its memory, or after too many
\* of them (for a gone one that no sitemap lists, at the first) deletes it; the
\* verdict on a page that still answers mints a target where there is none.
VerdictLands ==
    /\ render.pc = "found" /\ render.outcome \in {"noindex", "gone"}
    /\ target' = [state |-> IF render.outcome = "gone" THEN "gone" ELSE "held", listed |-> render.listed]
    /\ row' = "recurring" /\ page' = "none"
    /\ Settled /\ UNCHANGED <<sweep, counters, stranded>>
VerdictMints ==
    /\ render.pc = "targetless" /\ render.outcome = "noindex"
    /\ target' = [state |-> "held", listed |-> FALSE]
    /\ row' = "recurring" /\ page' = "none"
    /\ Settled /\ UNCHANGED <<sweep, counters, stranded>>
VerdictRetires ==
    /\ render.pc = "found" /\ render.outcome \in {"noindex", "gone"} /\ Event
    /\ LeavesNothing
    /\ Settled /\ UNCHANGED <<sweep, stranded>>

Result ==
    \/ \E outcome \in Outcomes : ResultReads(outcome)
    \/ ResultReadsRow \/ TargetedLands \/ TargetlessLands
    \/ VerdictLands \/ VerdictMints \/ VerdictRetires

\* graceMs after a row was first deferred; later deferrals keep that instant.
GraceEnds ==
    /\ row = "deferred" /\ row' = "overdue"
    /\ UNCHANGED <<target, page, leased, puts, render, tasks, counters, stranded>>

-----------------------------------------------------------------------------
(* The purge of discovered targets, and the delete of a target *)

PurgeReads ==
    /\ purge = Idle /\ There /\ Event
    /\ purge' = [pc |-> "read", seen |-> target]
    /\ UNCHANGED <<target, row, page, leased, puts, render, repair, sweep, expiry, stranded>>

Purgeable(seen) == ~seen.listed /\ seen.state # "held"
PurgeExamines ==
    /\ purge.pc = "read"
    /\ purge' = IF Purgeable(purge.seen) /\ ~leased THEN [pc |-> "batched"] ELSE Idle
    /\ UNCHANGED <<target, row, page, leased, puts, render, repair, sweep, expiry, counters, stranded>>
DeleteCascades ==
    /\ purge.pc = "batched"
    /\ row' = "none" /\ page' = "none"
    /\ purge' = [pc |-> "cascaded"]
    /\ UNCHANGED <<target, leased, puts, render, repair, sweep, expiry, counters, stranded>>
DeleteLands ==
    /\ purge.pc = "cascaded"
    /\ target' = NoTarget
    /\ stranded' = (stranded \/ Whole)
    /\ purge' = Idle
    /\ UNCHANGED <<row, page, leased, puts, render, repair, sweep, expiry, counters>>
DeleteFails ==
    /\ purge.pc \in {"batched", "cascaded"} /\ Fault
    /\ purge' = Idle
    /\ UNCHANGED <<target, row, page, leased, puts, render, repair, sweep, expiry, stranded>>
Purge == PurgeExamines \/ DeleteCascades \/ DeleteLands

-----------------------------------------------------------------------------
(* The schedule reconciler *)

ReconcileReads ==
    /\ repair = Idle /\ There
    /\ repair' = [pc |-> "read"]
    /\ UNCHANGED <<target, row, page, leased, puts, render, purge, sweep, expiry, counters, stranded>>
ReconcileChecks ==
    /\ repair.pc = "read"
    /\ repair' = IF row = "none" THEN [pc |-> "missing"] ELSE Idle
    /\ UNCHANGED <<target, row, page, leased, puts, render, purge, sweep, expiry, counters, stranded>>
ReconcileRestores ==
    /\ repair.pc = "missing"
    /\ row' = "recurring"
    /\ repair' = Idle
    /\ UNCHANGED <<target, page, leased, puts, render, purge, sweep, expiry, counters, stranded>>
Reconcile == ReconcileReads \/ ReconcileChecks \/ ReconcileRestores

-----------------------------------------------------------------------------
(* Pages: age, expiry and the sweep of orphaned ones *)

PageAges ==
    /\ page = "fresh" /\ page' = "old"
    /\ UNCHANGED <<target, row, leased, puts, render, tasks, counters, stranded>>

\* A probe, a revalidate or a departure patches the expiry of the page it read; a
\* patch of a page deleted since leaves a stub.
ExpiryReads ==
    /\ expiry = Idle /\ page # "none" /\ Event
    /\ expiry' = [pc |-> "read"]
    /\ UNCHANGED <<target, row, page, leased, puts, render, purge, repair, sweep, stranded>>
ExpiryLands ==
    /\ expiry.pc = "read"
    /\ page' = IF page = "none" THEN "stub" ELSE page
    /\ expiry' = Idle
    /\ UNCHANGED <<target, row, leased, puts, render, purge, repair, sweep, counters, stranded>>

\* "written" says that the page's lastCached is no longer the one the walk saw.
SweepReads ==
    /\ sweep = Idle /\ page \in {"stub", "old"}
    /\ sweep' = [pc |-> "read", saw |-> page, written |-> FALSE]
    /\ UNCHANGED <<target, row, page, leased, puts, render, purge, repair, expiry, counters, stranded>>
SweepExamines ==
    /\ sweep.pc = "read"
    /\ sweep' = IF (sweep.saw = "stub" \/ ~There) /\ ~leased THEN [sweep EXCEPT !.pc = "batched"] ELSE Idle
    /\ UNCHANGED <<target, row, page, leased, puts, render, purge, repair, expiry, counters, stranded>>
\* Mutants: the delete trusts the walk about the page; or knows no stubs.
UnchangedUnread == IF sweep.saw = "stub" THEN page = "stub" ELSE Whole /\ ~There
UnchangedWhole == Whole /\ ~sweep.written /\ ~There
Unchanged == IF sweep.saw = "stub" THEN page = "stub" ELSE Whole /\ ~sweep.written /\ ~There
SweepDeletes ==
    /\ sweep.pc = "batched"
    /\ page' = IF Unchanged THEN "none" ELSE page
    /\ sweep' = Idle
    /\ UNCHANGED <<target, row, leased, puts, render, purge, repair, expiry, counters, stranded>>
Sweep == SweepExamines \/ SweepDeletes

-----------------------------------------------------------------------------
(* The node stops: whatever was between its read and its write is forgotten. *)

Crash ==
    /\ Fault
    /\ leased' = FALSE /\ render' = Idle
    /\ purge' = Idle /\ repair' = Idle /\ sweep' = Idle /\ expiry' = Idle
    /\ UNCHANGED <<target, row, page, puts, stranded>>

Next ==
    \/ Discover \/ WalkCreates \/ WalkAttaches \/ WalkUnlinks \/ RenderNow \/ Revalidate
    \/ \E w \in Writers : TargetLands(w) \/ RowLands(w) \/ RowLost(w)
    \/ Claim \/ LeaseEnds \/ Result \/ GraceEnds
    \/ PurgeReads \/ Purge \/ DeleteFails
    \/ Reconcile
    \/ PageAges \/ ExpiryReads \/ ExpiryLands
    \/ SweepReads \/ Sweep
    \/ Crash

Spec == Init /\ [][Next]_vars

\* Writes land, the fleet claims and answers, leases and graces end, and the
\* reconciler's timer keeps firing.  Nothing makes anyone start a sweep of pages,
\* a walk or a purge; one that was started goes on.
Fairness ==
    /\ \A w \in Writers : WF_vars(TargetLands(w)) /\ WF_vars(RowLands(w) \/ RowLost(w))
    /\ WF_vars(Claim) /\ WF_vars(LeaseEnds) /\ WF_vars(Result) /\ WF_vars(GraceEnds)
    /\ WF_vars(Purge) /\ WF_vars(Reconcile) /\ WF_vars(ExpiryLands)
    /\ WF_vars(PageAges) /\ WF_vars(Sweep)
FairSpec == Spec /\ Fairness

-----------------------------------------------------------------------------
(* Properties *)

TypeOK ==
    /\ target \in Targets /\ row \in Rows /\ page \in Pages
    /\ leased \in BOOLEAN /\ stranded \in BOOLEAN
    /\ puts \in [Writers -> [target : {"no", "put", "patch"}, listed : BOOLEAN, row : {"none", "bare", "recurring"}]]
    /\ render.pc \in {"idle", "out", "found", "missing", "targetless"}
    /\ purge.pc \in {"idle", "read", "batched", "cascaded"}
    /\ repair.pc \in {"idle", "read", "missing"}
    /\ sweep.pc \in {"idle", "read", "batched"}
    /\ expiry.pc \in {"idle", "read"}
    /\ events \in 0..MaxEvents /\ faults \in 0..MaxFaults

\* A page with no target is one that a result stored after reading a target that
\* was being deleted, or for a URL with no rotation: a target that has not
\* arrived yet never leaves a page behind it that nothing renders again.
OrphanForCause == Whole /\ ~There => stranded

\* The sweep deletes no page of a target and none rendered since it walked,
\* whatever was created, rendered or deleted while the page waited in its batch.
SweepSparesLive == [][SweepDeletes /\ Whole /\ page' = "none" => page = "old" /\ ~There]_vars

\* Once the writers rest, the URL has a schedule row exactly if it has a target:
\* no interleaving of creations, results, deletes, repairs, lost halves and
\* crashes leaves a target that nothing renders, or a row that renders for ever
\* for nobody.
RowFollowsTarget == <>[](There <=> row # "none")

\* And if someone goes on starting sweeps, no page is left without a target.
PagesReclaimed == WF_vars(SweepReads) => <>[](There \/ page = "none")

=============================================================================
