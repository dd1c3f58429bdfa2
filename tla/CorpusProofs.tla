---------------------------- MODULE CorpusProofs ----------------------------
(***************************************************************************)
(* Proofs about Corpus, for any number of events and faults: no page is    *)
(* left without a target but for the causes named, and the sweep of pages  *)
(* deletes nothing live.                                                   *)
(***************************************************************************)
EXTENDS Corpus, TLAPS

(* What a result keeps of the target, or of the row, it read. *)
RenderOK ==
    /\ render.pc = "found" => render.listed \in BOOLEAN
    /\ render.pc = "targetless" => render.kind \in Rows

SweepOK ==
    \/ sweep = Idle
    \/ sweep \in [pc : {"read", "batched"}, saw : {"stub", "old"}, written : BOOLEAN]

(* A whole page that has not been written since the sweep's walk saw it is  *)
(* as old as it was then.                                                   *)
SeenOld == sweep # Idle /\ Whole /\ ~sweep.written => page = "old"

IInv == TypeOK /\ RenderOK /\ SweepOK /\ OrphanForCause /\ SeenOld

-----------------------------------------------------------------------------
(* The invariant holds at the start. *)
LEMMA InitIInv == ASSUME Init PROVE IInv
<1> USE DEF Init, Idle
<1>1. TypeOK
  <2>1. puts \in [Writers -> [target : {"no", "put", "patch"}, listed : BOOLEAN,
                             row : {"none", "bare", "recurring"}]]
    BY DEF NoPut
  <2>2. leased \in BOOLEAN /\ stranded \in BOOLEAN
    BY Zenon
  <2>3. events \in 0 .. MaxEvents /\ faults \in 0 .. MaxFaults
    BY BoundsAssumption
  <2>4. target \in Targets /\ row \in Rows /\ page \in Pages
    BY DEF Targets, Rows, Pages
  <2> QED
    BY <2>1, <2>2, <2>3, <2>4 DEF TypeOK
<1>2. RenderOK /\ SweepOK /\ SeenOld /\ OrphanForCause
  BY DEF RenderOK, SweepOK, SeenOld, OrphanForCause, Whole
<1> QED
  BY <1>1, <1>2 DEF IInv

(* A target says whether it is listed; none says it is not. *)
LEMMA TargetListed == ASSUME NEW t \in Targets PROVE t.listed \in BOOLEAN
<1>1. CASE t = NoTarget
  BY <1>1 DEF NoTarget
<1>2. CASE t \in [state : States, listed : BOOLEAN]
  BY <1>2
<1> QED
  BY <1>1, <1>2 DEF Targets

(* A writer's calls, and the writes as they land. *)
LEMMA WriterStep ==
    ASSUME IInv,
           \/ Discover \/ WalkCreates \/ WalkAttaches \/ WalkUnlinks \/ RenderNow \/ Revalidate
           \/ \E w \in Writers : TargetLands(w) \/ RowLands(w) \/ RowLost(w)
    PROVE  IInv'
<1>0. TypeOK /\ RenderOK /\ SweepOK /\ OrphanForCause /\ SeenOld
  BY DEF IInv
<1> USE DEF TypeOK, Rows, tasks, counters
<1>1. ASSUME NEW w \in Writers,
             NEW what \in [target : {"no", "put", "patch"}, listed : BOOLEAN,
                           row : {"none", "bare", "recurring"}],
             Issue(w, what)
      PROVE  IInv'
  <2>1. TypeOK'
    BY <1>0, <1>1, BoundsAssumption DEF Issue, Event
  <2>2. (RenderOK /\ SweepOK /\ OrphanForCause /\ SeenOld)'
    BY <1>0, <1>1 DEF Issue, RenderOK, SweepOK, OrphanForCause, SeenOld, Whole, There, Idle
  <2> QED
    BY <2>1, <2>2 DEF IInv
<1>2. CASE Discover \/ WalkCreates \/ WalkAttaches \/ WalkUnlinks \/ RenderNow \/ Revalidate
  <2>1. There => target.listed \in BOOLEAN
    BY <1>0 DEF There, Targets, NoTarget
  <2>2. CASE Discover
    BY <1>1, <2>2 DEF Discover, Writers
  <2>3. CASE WalkCreates
    BY <1>1, <2>3 DEF WalkCreates, Writers
  <2>4. CASE WalkAttaches \/ WalkUnlinks
    BY <1>1, <2>1, <2>4 DEF WalkAttaches, WalkUnlinks, Writers
  <2>5. CASE RenderNow \/ Revalidate
    BY <1>1, <2>5 DEF RenderNow, Revalidate, Writers
  <2> QED
    BY <1>2, <2>2, <2>3, <2>4, <2>5
<1>3. ASSUME NEW w \in Writers, TargetLands(w) PROVE IInv'
  <2>1. target' \in Targets /\ target' # NoTarget
    BY <1>0, <1>3 DEF TargetLands, Patched, There, Targets, NoTarget, States
  <2>2. TypeOK'
    BY <1>0, <1>3, <2>1 DEF TargetLands
  <2>3. (RenderOK /\ SweepOK /\ OrphanForCause /\ SeenOld)'
    BY <1>0, <1>3, <2>1 DEF TargetLands, RenderOK, SweepOK, OrphanForCause, SeenOld, Whole, There, Idle
  <2> QED
    BY <2>2, <2>3 DEF IInv
<1>4. ASSUME NEW w \in Writers, RowLands(w) \/ RowLost(w) PROVE IInv'
  <2>1. TypeOK'
    BY <1>0, <1>4, BoundsAssumption DEF RowLands, RowLost, Fault
  <2>2. (RenderOK /\ SweepOK /\ OrphanForCause /\ SeenOld)'
    BY <1>0, <1>4 DEF RowLands, RowLost, RenderOK, SweepOK, OrphanForCause, SeenOld, Whole, There, Idle
  <2> QED
    BY <2>1, <2>2 DEF IInv
<1> QED
  BY <1>2, <1>3, <1>4

(* The render cycle: a result stores a page without a target only if it had *)
(* read one, or had no rotation to withhold it from.                        *)
LEMMA RenderStep ==
    ASSUME IInv, Claim \/ LeaseEnds \/ Result \/ GraceEnds
    PROVE  IInv'
<1>0. TypeOK /\ RenderOK /\ SweepOK /\ OrphanForCause /\ SeenOld
  BY DEF IInv
<1> USE DEF TypeOK, Rows, Pages, tasks, counters
<1>1. CASE Claim \/ LeaseEnds \/ GraceEnds
  <2>1. TypeOK'
    <3>1. CASE Claim
      <4>1. leased' \in BOOLEAN
        BY <3>1, Zenon DEF Claim
      <4>2. render'.pc = "out"
        BY <3>1 DEF Claim
      <4>3. UNCHANGED <<target, row, page, puts, tasks, counters, stranded>>
        BY <3>1 DEF Claim
      <4> QED
        BY <1>0, <4>1, <4>2, <4>3
    <3>2. CASE LeaseEnds
      <4>1. leased' \in BOOLEAN
        BY <3>2, Zenon DEF LeaseEnds
      <4>2. UNCHANGED <<target, row, page, puts, render, tasks, counters, stranded>>
        BY <3>2 DEF LeaseEnds
      <4> QED
        BY <1>0, <4>1, <4>2
    <3>3. CASE GraceEnds
      BY <1>0, <3>3 DEF GraceEnds
    <3> QED
      BY <1>1, <3>1, <3>2, <3>3
  <2>2. (RenderOK /\ SweepOK /\ OrphanForCause /\ SeenOld)'
    BY <1>0, <1>1 DEF Claim, LeaseEnds, GraceEnds, RenderOK, SweepOK, OrphanForCause, SeenOld, Whole,
                      There, Idle
  <2> QED
    BY <2>1, <2>2 DEF IInv
<1>2. ASSUME NEW outcome \in Outcomes, ResultReads(outcome) PROVE IInv'
  <2>1. target.listed \in BOOLEAN
    BY <1>0, TargetListed
  <2>2. TypeOK' /\ RenderOK'
    BY <1>0, <1>2, <2>1 DEF ResultReads, RenderOK
  <2>3. (SweepOK /\ OrphanForCause /\ SeenOld)'
    BY <1>0, <1>2 DEF ResultReads, SweepOK, OrphanForCause, SeenOld, Whole, There, Idle
  <2> QED
    BY <2>2, <2>3 DEF IInv
<1>3. CASE ResultReadsRow
  <2>1. TypeOK' /\ RenderOK'
    BY <1>0, <1>3 DEF ResultReadsRow, RenderOK, Rows
  <2>2. (SweepOK /\ OrphanForCause /\ SeenOld)'
    BY <1>0, <1>3 DEF ResultReadsRow, SweepOK, OrphanForCause, SeenOld, Whole, There, Idle
  <2> QED
    BY <2>1, <2>2 DEF IInv
<1>s. ASSUME NEW alone \in BOOLEAN, Stores(alone)
      PROVE  page' \in Pages /\ stranded' \in BOOLEAN /\ (SweepOK /\ SeenOld)'
             /\ sweep'.pc \in {"idle", "read", "batched"}
  <2>1. page' = "fresh" /\ sweep' = IF sweep = Idle THEN Idle ELSE [sweep EXCEPT !.written = TRUE]
    BY <1>s DEF Stores
  <2>2. stranded' \in BOOLEAN
    BY <1>s, Zenon DEF Stores
  <2>3. CASE sweep = Idle
    BY <2>1, <2>2, <2>3 DEF SweepOK, SeenOld, Whole, Idle
  <2>4. CASE sweep # Idle
    <3>1. sweep \in [pc : {"read", "batched"}, saw : {"stub", "old"}, written : BOOLEAN]
      BY <1>0, <2>4 DEF SweepOK
    <3>2. sweep' = [sweep EXCEPT !.written = TRUE]
      BY <2>1, <2>4
    <3>3. sweep' \in [pc : {"read", "batched"}, saw : {"stub", "old"}, written : BOOLEAN]
          /\ sweep'.written
      BY <3>1, <3>2
    <3> QED
      BY <2>1, <2>2, <3>3 DEF SweepOK, SeenOld
  <2> QED
    BY <2>3, <2>4
<1>n. ASSUME page' = "none", UNCHANGED <<sweep, stranded>>
      PROVE  (SweepOK /\ OrphanForCause /\ SeenOld)'
  BY <1>0, <1>n DEF SweepOK, OrphanForCause, SeenOld, Whole, Idle
<1>d. ASSUME Settled PROVE leased' \in BOOLEAN /\ RenderOK' /\ render'.pc = "idle"
                           /\ UNCHANGED <<puts, purge, repair, expiry>>
  <2>1. leased' \in BOOLEAN
    BY <1>d, Zenon DEF Settled
  <2> QED
    BY <1>d, <2>1 DEF Settled, RenderOK, Idle
<1>4. CASE TargetedLands
  <2>1. Settled /\ UNCHANGED counters /\ row' \in Rows
    BY <1>0, <1>4 DEF TargetedLands
  <2>2. target' \in Targets /\ (There => There')
    <3>1. Patched \in [state : States, listed : BOOLEAN]
      BY <1>0 DEF Patched, There, Targets, States
    <3>2. target' \in {target, Patched, [Patched EXCEPT !.state = "active"]}
      BY <1>4 DEF TargetedLands
    <3>3. [Patched EXCEPT !.state = "active"] \in [state : States, listed : BOOLEAN]
      BY <3>1 DEF States
    <3>4. \A t \in [state : States, listed : BOOLEAN] : t # NoTarget
      BY DEF NoTarget, States
    <3> QED
      BY <1>0, <3>1, <3>2, <3>3, <3>4 DEF There, Targets
  <2>3. CASE render.outcome = "rendered"
    <3>1. Stores(~There)
      BY <1>4, <2>3 DEF TargetedLands
    <3>2. page' \in Pages /\ stranded' \in BOOLEAN /\ (SweepOK /\ SeenOld)'
          /\ sweep'.pc \in {"idle", "read", "batched"}
      <4>1. (~There) \in BOOLEAN
        BY Zenon
      <4> QED
        BY <3>1, <4>1, <1>s
    <3>3. OrphanForCause'
      BY <2>2, <3>1 DEF Stores, OrphanForCause, There
    <3> QED
      BY <1>0, <1>d, <2>1, <2>2, <3>2, <3>3 DEF IInv
  <2>4. CASE render.outcome # "rendered"
    <3>1. UNCHANGED <<page, sweep, stranded>>
      BY <1>4, <2>4 DEF TargetedLands, StoresNothing
    <3>2. (SweepOK /\ OrphanForCause /\ SeenOld)'
      BY <1>0, <2>2, <3>1 DEF SweepOK, OrphanForCause, SeenOld, Whole, There, Idle
    <3> QED
      BY <1>0, <1>d, <2>1, <2>2, <3>1, <3>2 DEF IInv
  <2> QED
    BY <2>3, <2>4
<1>5. CASE TargetlessLands
  <2>1. Settled /\ UNCHANGED <<target, counters>> /\ row' \in Rows
    BY <1>0, <1>5 DEF TargetlessLands, SettleTargetless
  <2>2. CASE render.outcome = "rendered" /\ ~Withheld
    <3>1. Stores(render.kind \in {"none", "bare"})
      BY <1>5, <2>2 DEF TargetlessLands
    <3>2. render.kind \in {"none", "bare"}
      BY <1>0, <1>5, <2>2 DEF TargetlessLands, RenderOK, Withheld
    <3>3. page' \in Pages /\ stranded' \in BOOLEAN /\ (SweepOK /\ SeenOld)'
          /\ sweep'.pc \in {"idle", "read", "batched"}
      <4>1. (render.kind \in {"none", "bare"}) = TRUE
        BY <3>2
      <4>2. Stores(TRUE)
        BY <3>1, <4>1, Zenon
      <4> QED
        BY <4>2, <1>s
    <3>4. OrphanForCause'
      BY <3>1, <3>2 DEF Stores, OrphanForCause
    <3> QED
      BY <1>0, <1>d, <2>1, <3>3, <3>4 DEF IInv
  <2>3. CASE ~(render.outcome = "rendered" /\ ~Withheld)
    <3>1. UNCHANGED <<page, sweep, stranded>>
      BY <1>5, <2>3 DEF TargetlessLands, StoresNothing
    <3>2. (SweepOK /\ OrphanForCause /\ SeenOld)'
      BY <1>0, <2>1, <3>1 DEF SweepOK, OrphanForCause, SeenOld, Whole, There, Idle
    <3> QED
      BY <1>0, <1>d, <2>1, <3>1, <3>2 DEF IInv
  <2> QED
    BY <2>2, <2>3
<1>6. CASE VerdictLands
  <2>1. Settled /\ row' = "recurring" /\ page' = "none" /\ UNCHANGED <<sweep, counters, stranded>>
    BY <1>6 DEF VerdictLands
  <2>2. target' \in Targets
    BY <1>0, <1>6 DEF VerdictLands, RenderOK, Targets, States
  <2> QED
    BY <1>0, <1>d, <1>n, <2>1, <2>2 DEF IInv
<1>7. CASE VerdictMints
  <2>1. Settled /\ row' = "recurring" /\ page' = "none" /\ UNCHANGED <<sweep, counters, stranded>>
    BY <1>7 DEF VerdictMints
  <2>2. target' \in Targets
    BY <1>7 DEF VerdictMints, Targets, States
  <2> QED
    BY <1>0, <1>d, <1>n, <2>1, <2>2 DEF IInv
<1>8. CASE VerdictRetires
  <2>1. Settled /\ row' = "none" /\ page' = "none" /\ UNCHANGED <<sweep, stranded>>
    BY <1>8 DEF VerdictRetires, LeavesNothing
  <2>2. target' \in Targets /\ events' \in 0 .. MaxEvents /\ faults' = faults
    BY <1>0, <1>8, BoundsAssumption DEF VerdictRetires, LeavesNothing, Targets, Event
  <2> QED
    BY <1>0, <1>d, <1>n, <2>1, <2>2 DEF IInv
<1> QED
  BY <1>1, <1>2, <1>3, <1>4, <1>5, <1>6, <1>7, <1>8 DEF Result

(* The purge deletes the schedule row and the page before the target; a     *)
(* page stored between the two is named.                                    *)
LEMMA PurgeStep ==
    ASSUME IInv, PurgeReads \/ Purge \/ DeleteFails
    PROVE  IInv'
<1>0. TypeOK /\ RenderOK /\ SweepOK /\ OrphanForCause /\ SeenOld
  BY DEF IInv
<1> USE DEF TypeOK, Rows, Pages, tasks, counters
<1>1. CASE PurgeReads \/ PurgeExamines \/ DeleteFails
  <2>1. TypeOK'
    BY <1>0, <1>1, BoundsAssumption DEF PurgeReads, PurgeExamines, DeleteFails, Event, Fault, Idle
  <2>2. (RenderOK /\ SweepOK /\ OrphanForCause /\ SeenOld)'
    BY <1>0, <1>1 DEF PurgeReads, PurgeExamines, DeleteFails, RenderOK, SweepOK, OrphanForCause,
                      SeenOld, Whole, There, Idle
  <2> QED
    BY <2>1, <2>2 DEF IInv
<1>2. CASE DeleteCascades
  <2>1. TypeOK'
    BY <1>0, <1>2 DEF DeleteCascades
  <2>2. (RenderOK /\ SweepOK /\ OrphanForCause /\ SeenOld)'
    BY <1>0, <1>2 DEF DeleteCascades, RenderOK, SweepOK, OrphanForCause, SeenOld, Whole, Idle
  <2> QED
    BY <2>1, <2>2 DEF IInv
<1>3. CASE DeleteLands
  <2>1. stranded' \in BOOLEAN /\ (Whole => stranded') /\ UNCHANGED page
    BY <1>3, Zenon DEF DeleteLands
  <2>2. TypeOK'
    BY <1>0, <1>3, <2>1 DEF DeleteLands, Targets, Idle
  <2>3. (RenderOK /\ SweepOK /\ OrphanForCause /\ SeenOld)'
    BY <1>0, <1>3, <2>1 DEF DeleteLands, RenderOK, SweepOK, OrphanForCause, SeenOld, Whole, Idle
  <2> QED
    BY <2>2, <2>3 DEF IInv
<1> QED
  BY <1>1, <1>2, <1>3 DEF Purge

(* The reconciler, and a page's age and expiry. *)
LEMMA UpkeepStep ==
    ASSUME IInv, Reconcile \/ PageAges \/ ExpiryReads \/ ExpiryLands
    PROVE  IInv'
<1>0. TypeOK /\ RenderOK /\ SweepOK /\ OrphanForCause /\ SeenOld
  BY DEF IInv
<1> USE DEF TypeOK, Rows, Pages, tasks, counters
<1>1. CASE Reconcile
  <2>1. TypeOK'
    BY <1>0, <1>1 DEF Reconcile, ReconcileReads, ReconcileChecks, ReconcileRestores, Idle
  <2>2. (RenderOK /\ SweepOK /\ OrphanForCause /\ SeenOld)'
    BY <1>0, <1>1 DEF Reconcile, ReconcileReads, ReconcileChecks, ReconcileRestores, RenderOK,
                      SweepOK, OrphanForCause, SeenOld, Whole, There, Idle
  <2> QED
    BY <2>1, <2>2 DEF IInv
<1>2. CASE PageAges \/ ExpiryReads \/ ExpiryLands
  <2>1. TypeOK'
    BY <1>0, <1>2, BoundsAssumption DEF PageAges, ExpiryReads, ExpiryLands, Event, Idle
  <2>2. (RenderOK /\ SweepOK /\ OrphanForCause /\ SeenOld)'
    BY <1>0, <1>2 DEF PageAges, ExpiryReads, ExpiryLands, RenderOK, SweepOK, OrphanForCause, SeenOld,
                      Whole, There, Idle
  <2> QED
    BY <2>1, <2>2 DEF IInv
<1> QED
  BY <1>1, <1>2

(* The sweep of pages. *)
LEMMA SweepStep ==
    ASSUME IInv, SweepReads \/ Sweep
    PROVE  IInv'
<1>0. TypeOK /\ RenderOK /\ SweepOK /\ OrphanForCause /\ SeenOld
  BY DEF IInv
<1> USE DEF TypeOK, Rows, Pages, tasks, counters
<1>1. CASE SweepReads
  <2>1. sweep' \in [pc : {"read", "batched"}, saw : {"stub", "old"}, written : BOOLEAN]
    BY <1>1 DEF SweepReads
  <2>2. TypeOK'
    BY <1>0, <1>1, <2>1 DEF SweepReads
  <2>3. (RenderOK /\ SweepOK /\ OrphanForCause /\ SeenOld)'
    BY <1>0, <1>1, <2>1 DEF SweepReads, RenderOK, SweepOK, OrphanForCause, SeenOld, Whole, There
  <2> QED
    BY <2>2, <2>3 DEF IInv
<1>2. CASE SweepExamines
  <2>1. sweep \in [pc : {"read", "batched"}, saw : {"stub", "old"}, written : BOOLEAN]
    BY <1>0, <1>2 DEF SweepExamines, SweepOK, Idle
  <2>2. \/ sweep' = Idle
        \/ /\ sweep' \in [pc : {"read", "batched"}, saw : {"stub", "old"}, written : BOOLEAN]
           /\ sweep'.written = sweep.written
    BY <1>2, <2>1 DEF SweepExamines
  <2>3. sweep # Idle
    BY <1>2 DEF SweepExamines, Idle
  <2>4. TypeOK'
    BY <1>0, <1>2, <2>2 DEF SweepExamines, Idle
  <2>5. (RenderOK /\ SweepOK /\ OrphanForCause /\ SeenOld)'
    BY <1>0, <1>2, <2>2, <2>3 DEF SweepExamines, RenderOK, SweepOK, OrphanForCause, SeenOld, Whole, There
  <2> QED
    BY <2>4, <2>5 DEF IInv
<1>3. CASE SweepDeletes
  <2>1. page' \in {page, "none"} /\ sweep' = Idle
    BY <1>3 DEF SweepDeletes
  <2>2. TypeOK'
    BY <1>0, <1>3, <2>1 DEF SweepDeletes, Idle
  <2>3. (RenderOK /\ SweepOK /\ OrphanForCause /\ SeenOld)'
    BY <1>0, <1>3, <2>1 DEF SweepDeletes, RenderOK, SweepOK, OrphanForCause, SeenOld, Whole, There
  <2> QED
    BY <2>2, <2>3 DEF IInv
<1> QED
  BY <1>1, <1>2, <1>3 DEF Sweep

(* A crash, and a step of nobody. *)
LEMMA StillStep ==
    ASSUME IInv, Crash \/ UNCHANGED vars
    PROVE  IInv'
<1>0. TypeOK /\ RenderOK /\ SweepOK /\ OrphanForCause /\ SeenOld
  BY DEF IInv
<1> USE DEF TypeOK, Rows, Pages, tasks, counters
<1>1. CASE Crash
  <2>1. leased' \in BOOLEAN
    BY <1>1, Zenon DEF Crash
  <2>2. TypeOK'
    BY <1>0, <1>1, <2>1, BoundsAssumption DEF Crash, Fault, Idle
  <2>3. (RenderOK /\ SweepOK /\ OrphanForCause /\ SeenOld)'
    BY <1>0, <1>1 DEF Crash, RenderOK, SweepOK, OrphanForCause, SeenOld, Whole, There, Idle
  <2> QED
    BY <2>2, <2>3 DEF IInv
<1>2. CASE UNCHANGED vars
  BY <1>0, <1>2 DEF vars, IInv, RenderOK, SweepOK, OrphanForCause, SeenOld, Whole, There, Idle
<1> QED
  BY <1>1, <1>2

-----------------------------------------------------------------------------
(* The invariant holds throughout. *)
LEMMA CorpusInvariant == Spec => []IInv
<1>1. IInv /\ [Next]_vars => IInv'
  BY WriterStep, RenderStep, PurgeStep, UpkeepStep, SweepStep, StillStep DEF Next
<1> QED
  BY <1>1, InitIInv, PTL DEF Spec

(* The types, for any number of events and faults. *)
THEOREM CorpusTypeCorrect == Spec => []TypeOK
<1>1. IInv => TypeOK
  BY DEF IInv
<1> QED
  BY <1>1, CorpusInvariant, PTL

(* A page without a target is one that a result stored after reading a      *)
(* target that was being deleted, or for a URL with no rotation.            *)
THEOREM CorpusOrphanForCause == Spec => []OrphanForCause
<1>1. IInv => OrphanForCause
  BY DEF IInv
<1> QED
  BY <1>1, CorpusInvariant, PTL

(* The sweep of pages deletes none that has a target, and none rendered     *)
(* since its walk.                                                          *)
THEOREM CorpusSweepSparesLive == Spec => SweepSparesLive
<1>1. IInv /\ [Next]_vars
        => [SweepDeletes /\ Whole /\ page' = "none" => page = "old" /\ ~There]_vars
  <2> SUFFICES ASSUME IInv, SweepDeletes, Whole, page' = "none"
               PROVE  page = "old" /\ ~There
    OBVIOUS
  <2>1. Unchanged
    BY DEF SweepDeletes, Whole
  <2>2. ~sweep.written /\ ~There
    BY <2>1 DEF Unchanged, Whole
  <2>3. sweep # Idle
    BY DEF SweepDeletes, Idle
  <2> QED
    BY <2>2, <2>3 DEF IInv, SeenOld
<1> QED
  BY <1>1, CorpusInvariant, PTL DEF Spec, SweepSparesLive
=============================================================================
