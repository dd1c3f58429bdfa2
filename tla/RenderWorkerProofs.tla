------------------------- MODULE RenderWorkerProofs -------------------------
(***************************************************************************)
(* Proofs about RenderWorker, for any number of jobs, browsers, slots and  *)
(* faults: what the two counters of a browser count, and where a running   *)
(* Chrome is known.                                                        *)
(***************************************************************************)
EXTENDS RenderWorker, FiniteSetTheorems, TLAPS

(* The renders that hold a reference on browser b, and those with a page    *)
(* that is opening or open.                                                 *)
Holding(b) == {j \in Jobs : on[j] = b /\ stage[j] \in {"page", "render", "close"}}
Paging(b) == {j \in Jobs : on[j] = b /\ stage[j] \in {"page", "render"}}

(* A job is in one place: not pulled, pooled once, in the loop's hand, in a *)
(* render.                                                                  *)
QueueInv ==
    /\ pool \in Seq(Jobs)
    /\ \A i, k \in 1 .. Len(pool) : pool[i] = pool[k] => i = k
    /\ hand # None => hand <= claimed /\ hand \notin Pooled
    /\ \A j \in Inflight : j <= claimed /\ j # hand /\ j \notin Pooled

(* The loop adds a render only to a slot it has seen free. *)
SlotInv ==
    /\ Cardinality(Inflight) <= Concurrency
    /\ loop \in {"waiting", "pace"} => Cardinality(Inflight) < Concurrency

(* A render is on a browser until its post: on the one being launched while *)
(* it waits, else on one that has been up.                                  *)
PlaceInv ==
    \A j \in Jobs :
      /\ stage[j] \in {"none", "post"} => on[j] = None
      /\ stage[j] = "launch" => on[j] \in Browsers /\ on[j] = launching
      /\ stage[j] \in {"context", "page", "render", "close"} =>
           on[j] \in Browsers /\ chrome[on[j]] \in {"up", "down"}

ChromeInv ==
    /\ \A b \in Browsers : chrome[b] = "launching" <=> launching = b
    /\ \A b \in retired : chrome[b] \in {"up", "down"}
    /\ current # None => chrome[current] \in {"up", "down"}
    /\ \A b \in Browsers : chrome[b] \in {"none", "launching"} => disposing[b] = 0

(* jobRefs counts the renders on the browser; activePages their pages and   *)
(* those whose close event is still to come.                                *)
CountInv ==
    \A b \in Browsers :
      /\ refs[b] = Cardinality(Holding(b))
      /\ active[b] = Cardinality(Paging(b)) + disposing[b]

(* Before a teardown every running Chrome is in use, retired or one whose   *)
(* close has failed; a teardown after a drain awaits all the others, and    *)
(* none is launched after it.                                               *)
TeardownInv ==
    /\ phase \in {"draining", "closing", "exited"} => draining
    /\ phase = "running" => ~draining
    /\ phase \in {"running", "draining"} =>
         awaited = {} /\ \A b \in Browsers : Up(b) => b \in Tracked \cup stray \cup unclosed
    /\ phase = "closing" =>
         \A b \in Browsers : chrome[b] \in {"up", "launching"} => b \in awaited \cup stray \cup unclosed

IInv == /\ TypeOK /\ QueueInv /\ SlotInv /\ PlaceInv /\ ChromeInv /\ CountInv
        /\ ChromeKnown /\ TeardownInv /\ NoChromeLeft

-----------------------------------------------------------------------------
(* The finite sets the counters count. *)
LEMMA JobSetsFinite ==
    /\ IsFiniteSet(Inflight)
    /\ \A b : IsFiniteSet(Holding(b)) /\ IsFiniteSet(Paging(b))
    /\ \A b : Holding(b) \subseteq Inflight /\ Paging(b) \subseteq Holding(b)
<1>1. IsFiniteSet(Jobs)
  BY FS_Interval, WorkerAssumption DEF Jobs
<1>2. \A T \in SUBSET Jobs : IsFiniteSet(T)
  BY <1>1, FS_Subset
<1>3. Inflight \in SUBSET Jobs /\ \A b : Holding(b) \in SUBSET Jobs /\ Paging(b) \in SUBSET Jobs
  BY DEF Inflight, Holding, Paging
<1>4. \A b : Holding(b) \subseteq Inflight /\ Paging(b) \subseteq Holding(b)
  BY DEF Inflight, Holding, Paging
<1> QED
  BY <1>2, <1>3, <1>4

(* No browser has more of them than there are. *)
CountsBounded ==
    \A b \in Browsers : /\ Cardinality(Holding(b)) \in Nat /\ Cardinality(Paging(b)) \in Nat
                        /\ Cardinality(Inflight) \in Nat
                        /\ Cardinality(Holding(b)) <= Cardinality(Inflight)

LEMMA CountsAreBounded == CountsBounded
BY JobSetsFinite, FS_Subset, FS_CardinalityType DEF CountsBounded

(* A browser found for the next variant of job j: b is in use and gets a    *)
(* context or a page, or it is being launched, perhaps by this very call.   *)
Placed(j, held, b, s) ==
    /\ b \in Browsers
    /\ on' = [on EXCEPT ![j] = b] /\ stage' = [stage EXCEPT ![j] = s]
    /\ \/ s = "launch" /\ b = launching'
       \/ s \in {"context", "page"} /\ b = current
    /\ IF s = "page"
         THEN refs' = [held EXCEPT ![b] = @ + 1] /\ active' = [active EXCEPT ![b] = @ + 1]
         ELSE refs' = held /\ active' = active
    /\ opened' \in [Browsers -> 0 .. PageCeiling + 1]
    /\ disposing' = disposing /\ aged' = aged
    /\ \/ chrome' = chrome /\ UNCHANGED tracking
       \/ /\ chrome[b] = "none" /\ chrome' = [chrome EXCEPT ![b] = "launching"]
          /\ s = "launch" /\ launching = None
          /\ \/ current = None /\ UNCHANGED <<retired, current, stray>>
             \/ current # None /\ Retire(current)

(* getBrowser does one of these. *)
LEMMA GetBrowserPlaces ==
    ASSUME TypeOK, NEW j \in Jobs, NEW held, GetBrowser(j, held)
    PROVE  \E b \in Browsers, s \in {"launch", "context", "page"} : Placed(j, held, b, s)
<1>1. CASE UseBrowser(j, held)
  <2>1. current \in Browsers
    BY <1>1 DEF TypeOK, UseBrowser
  <2>2. CASE NeedsContext(j, current)
    <3>1. Placed(j, held, current, "context")
      BY <1>1, <2>1, <2>2 DEF UseBrowser, GetBrowser, Placed, TypeOK, tracking
    <3> QED
      BY <2>1, <3>1
  <2>3. CASE ~NeedsContext(j, current)
    <3>1. OpenPage(j, current, held) /\ on' = [on EXCEPT ![j] = current] /\ chrome' = chrome /\ UNCHANGED tracking
      BY <1>1, <2>3 DEF UseBrowser
    <3>2. opened' \in [Browsers -> 0 .. PageCeiling + 1]
      BY <3>1, <2>1, WorkerAssumption DEF OpenPage, Capped, TypeOK
    <3>3. Placed(j, held, current, "page")
      BY <2>1, <3>1, <3>2 DEF OpenPage, GetBrowser, Placed, tracking
    <3> QED
      BY <2>1, <3>3
  <2> QED
    BY <2>2, <2>3
<1>2. CASE WaitForLaunch(j, held)
  <2>1. launching \in Browsers
    BY <1>2 DEF TypeOK, WaitForLaunch
  <2>2. Placed(j, held, launching, "launch")
    BY <1>2, <2>1 DEF WaitForLaunch, GetBrowser, Placed, TypeOK, tracking
  <2> QED
    BY <2>1, <2>2
<1>3. CASE Launch(j, held)
  <2>1. PICK b \in Fresh : /\ chrome' = [chrome EXCEPT ![b] = "launching"]
                           /\ launching' = b
                           /\ on' = [on EXCEPT ![j] = b]
    BY <1>3 DEF Launch
  <2>2. b \in Browsers /\ chrome[b] = "none"
    BY DEF Fresh
  <2>3. launching = None
    BY <1>3 DEF Launch, TypeOK
  <2>4. /\ \/ current = None /\ UNCHANGED <<retired, current, stray>>
           \/ current # None /\ Retire(current)
        /\ stage' = [stage EXCEPT ![j] = "launch"] /\ refs' = held
        /\ UNCHANGED <<active, opened, aged, disposing>>
    BY <1>3 DEF Launch, GetBrowser
  <2>5. opened' \in [Browsers -> 0 .. PageCeiling + 1]
    BY <2>4 DEF TypeOK
  <2>6. Placed(j, held, b, "launch")
    BY <2>1, <2>2, <2>3, <2>4, <2>5 DEF Placed
  <2> QED
    BY <2>2, <2>6
<1> QED
  BY <1>1, <1>2, <1>3 DEF GetBrowser

-----------------------------------------------------------------------------
(* The steps of the two loops but for the start of a render. *)
LoopStep == FillerPulls \/ FillerEnds \/ TakeJob \/ TakeNone \/ StartDropped

(* Everything else that leaves the renders alone. *)
ChromeStep(b) == Reap(b) \/ Reaped(b) \/ ChromeCloses(b) \/ CloseFails(b) \/ ChromeCrashes(b) \/ Age(b)
TeardownStep == Terminate \/ EndDrain \/ Uncaught \/ Unhandled \/ Exit \/ FailExit \/ ForceExit

(* No loop or chrome step touches a render or a counter. *)
LEMMA StepKinds ==
    ASSUME Next
    PROVE  \/ LoopStep
           \/ Start
           \/ \E j \in Jobs : Rendering(j) \/ LeaseRunsShort(j)
           \/ \E b \in Browsers : Launched(b) \/ LaunchFails(b) \/ Disposed(b) \/ ChromeStep(b)
           \/ TeardownStep
BY DEF Next, Loops, LoopStep, ChromeStep, TeardownStep

(* What the loops leave alone, *)
LEMMA LoopStepFrame ==
    ASSUME LoopStep
    PROVE  UNCHANGED <<depth, late, render, chrome, closing, counters, tracking, teardown, faults>>
BY DEF LoopStep, FillerPulls, FillerEnds, TakeJob, TakeNone, StartDropped, jobs

(* and the processes and the teardown. *)
LEMMA ChromeStepFrame ==
    ASSUME TeardownStep \/ \E b \in Browsers : ChromeStep(b)
    PROVE  UNCHANGED <<pipeline, jobs, render, counters, launching, stray>>
BY DEF ChromeStep, TeardownStep, Reap, Reaped, ChromeCloses, CloseFails, ChromeCrashes, Age, Terminate, EndDrain,
       Uncaught, Unhandled, Exit, FailExit, ForceExit, tracking

-----------------------------------------------------------------------------
(* TypeOK in parts: the two loops, the renders, the browsers. *)
PipelineOK ==
    /\ filler \in {"boot", "blocked", "pull", "end"}
    /\ loop \in {"boot", "slot", "waiting", "pace", "end"}
    /\ hand \in Jobs \cup {None} /\ (hand # None <=> loop = "pace")
    /\ claimed \in 0 .. NumJobs /\ Pooled \subseteq 1 .. claimed /\ depth \in Depth .. MaxDepth

RenderOK ==
    /\ fate \in [Jobs -> {"none", "skipped", "abandoned", "failed", "posted"}]
    /\ late \subseteq Jobs
    /\ stage \in [Jobs -> {"none", "launch", "context", "page", "render", "close", "post"}]
    /\ on \in [Jobs -> Browsers \cup {None}] /\ ctx \in [Jobs -> Browsers \cup {None}]
    /\ attempted \in [Jobs -> Nat]

CounterOK ==
    /\ refs \in [Browsers -> 0 .. Concurrency] /\ active \in [Browsers -> Nat]
    /\ opened \in [Browsers -> 0 .. PageCeiling + 1] /\ disposing \in [Browsers -> Nat]

TrackingOK ==
    /\ chrome \in [Browsers -> {"none", "launching", "up", "down"}] /\ closing \subseteq Browsers
    /\ {current, launching} \subseteq Browsers \cup {None} /\ None \in {current, launching}
    /\ aged \subseteq retired /\ retired \subseteq Browsers /\ current \notin retired
    /\ stray \subseteq Browsers /\ awaited \subseteq Browsers
    /\ draining \in BOOLEAN
    /\ phase \in {"running", "draining", "closing", "failing", "exited", "failed", "forced"}
    /\ reaping \subseteq closing /\ unclosed \subseteq closing
    /\ faults \in 0 .. MaxFaults

(* They are all of it. *)
LEMMA TypeParts == TypeOK <=> PipelineOK /\ RenderOK /\ CounterOK /\ TrackingOK
BY DEF TypeOK, PipelineOK, RenderOK, CounterOK, TrackingOK

(* The renders keep their types, and only the start of the job in hand adds *)
(* to those under way.                                                      *)
Added == IF Start THEN {hand} ELSE {}

LEMMA RenderTypes ==
    ASSUME TypeOK, Next
    PROVE  RenderOK' /\ Inflight' \subseteq Inflight \cup Added
<1> USE DEF Inflight
<1>1. CASE LoopStep
  <2>1. late' = late /\ UNCHANGED render
    BY <1>1, LoopStepFrame
  <2>2. fate' \in [Jobs -> {"none", "skipped", "abandoned", "failed", "posted"}]
    BY <1>1 DEF LoopStep, FillerPulls, FillerEnds, TakeJob, TakeNone, StartDropped, Drop, TypeOK, jobs
  <2> QED
    BY <2>1, <2>2 DEF RenderOK, TypeOK, render
<1>2. CASE Start
  <2>1. GetBrowser(hand, refs) /\ UNCHANGED <<jobs, attempted, ctx>> /\ hand \in Jobs
    BY <1>2 DEF Start, TypeOK, Jobs, None
  <2>2. PICK b \in Browsers, s \in {"launch", "context", "page"} : Placed(hand, refs, b, s)
    BY <2>1, GetBrowserPlaces
  <2>3. on' = [on EXCEPT ![hand] = b] /\ stage' = [stage EXCEPT ![hand] = s]
    BY <2>2 DEF Placed
  <2> QED
    BY <1>2, <2>1, <2>3 DEF RenderOK, TypeOK, jobs, Added
<1>3. ASSUME NEW j \in Jobs, Rendering(j) PROVE RenderOK' /\ Inflight' \subseteq Inflight
  <2>1. CASE ContextMade(j)
    BY <2>1 DEF ContextMade, OpenPage, TypeOK, RenderOK, jobs
  <2>2. CASE ContextFails(j)
    BY <2>2 DEF ContextFails, Thrown, Salvaged, TypeOK, RenderOK
  <2>3. CASE PageOpened(j)
    BY <2>3 DEF PageOpened, TypeOK, RenderOK, jobs
  <2>4. CASE PageFails(j)
    BY <2>4 DEF PageFails, TypeOK, RenderOK, jobs
  <2>5. CASE RenderEnds(j) \/ RenderRetires(j)
    BY <2>5 DEF RenderEnds, RenderRetires, ToClose, TypeOK, RenderOK, jobs
  <2>6. CASE VariantDone(j)
    <3>1. attempted' = [attempted EXCEPT ![j] = @ + 1] /\ UNCHANGED jobs /\ stage[j] = "close"
      BY <2>6 DEF VariantDone
    <3>2. CASE GetBrowser(j, [refs EXCEPT ![on[j]] = @ - 1]) /\ UNCHANGED ctx
      <4>1. PICK b \in Browsers, s \in {"launch", "context", "page"} :
              Placed(j, [refs EXCEPT ![on[j]] = @ - 1], b, s)
        BY <3>2, GetBrowserPlaces
      <4>2. on' = [on EXCEPT ![j] = b] /\ stage' = [stage EXCEPT ![j] = s]
        BY <4>1 DEF Placed
      <4> QED
        BY <3>1, <3>2, <4>2 DEF TypeOK, RenderOK, jobs
    <3>3. CASE /\ stage' = [stage EXCEPT ![j] = "post"]
               /\ ctx' = [ctx EXCEPT ![j] = None]
               /\ on' = [on EXCEPT ![j] = None]
      BY <3>1, <3>3 DEF TypeOK, RenderOK, jobs
    <3> QED
      BY <2>6, <3>2, <3>3 DEF VariantDone
  <2>7. CASE Post(j)
    BY <2>7 DEF Post, TypeOK, RenderOK
  <2> QED
    BY <1>3, <2>1, <2>2, <2>3, <2>4, <2>5, <2>6, <2>7 DEF Rendering
<1>4. ASSUME NEW j \in Jobs, LeaseRunsShort(j) PROVE RenderOK' /\ Inflight' \subseteq Inflight
  BY <1>4 DEF LeaseRunsShort, TypeOK, RenderOK, render
<1>5. ASSUME NEW b \in Browsers, Launched(b) PROVE RenderOK' /\ Inflight' \subseteq Inflight
  <2>1. /\ UNCHANGED <<jobs, on, attempted, ctx>>
        /\ \A j \in Jobs : stage'[j] \in {stage[j], "page", "context"} /\ (stage[j] = "none" => stage'[j] = "none")
        /\ stage' = [j \in Jobs |-> stage'[j]]
    BY <1>5 DEF Launched, Waiting
  <2> QED
    BY <2>1 DEF TypeOK, RenderOK, jobs
<1>6. ASSUME NEW b \in Browsers, LaunchFails(b) PROVE RenderOK' /\ Inflight' \subseteq Inflight
  BY <1>6 DEF LaunchFails, Thrown, Salvaged, Waiting, TypeOK, RenderOK
<1>7. ASSUME NEW b \in Browsers, Disposed(b) PROVE RenderOK' /\ Inflight' \subseteq Inflight
  BY <1>7 DEF Disposed, TypeOK, RenderOK, render, jobs
<1>8. ASSUME TeardownStep \/ \E b \in Browsers : ChromeStep(b) PROVE RenderOK' /\ Inflight' \subseteq Inflight
  BY <1>8, ChromeStepFrame DEF TypeOK, RenderOK, render, jobs
<1> QED
  BY StepKinds, <1>1, <1>2, <1>3, <1>4, <1>5, <1>6, <1>7, <1>8 DEF Added

-----------------------------------------------------------------------------
(* Only the loops, a first launch and a post touch the pipeline. *)
LEMMA PipelineFrame ==
    ASSUME Next
    PROVE  \/ LoopStep
           \/ Start
           \/ \E j \in Jobs : Post(j)
           \/ Booted /\ ~Start
           \/ UNCHANGED pipeline /\ ~Start
<1>1. ASSUME Start PROVE Start
  BY <1>1
<1>2. ASSUME NEW j \in Jobs, Rendering(j) \/ LeaseRunsShort(j), ~Post(j) PROVE UNCHANGED pipeline
  BY <1>2 DEF Rendering, LeaseRunsShort, ContextMade, ContextFails, PageOpened, PageFails, RenderEnds,
              RenderRetires, VariantDone
<1>3. ASSUME NEW b \in Browsers, Launched(b) \/ LaunchFails(b) PROVE Booted
  BY <1>3 DEF Launched, LaunchFails
<1>4. ASSUME NEW b \in Browsers, Disposed(b) PROVE UNCHANGED pipeline
  BY <1>4 DEF Disposed
<1> QED
  BY StepKinds, ChromeStepFrame, <1>2, <1>3, <1>4

(* The pool holds pulled jobs, each once, none of them in a render. *)
LEMMA QueueStep ==
    ASSUME TypeOK, QueueInv, Next
    PROVE  PipelineOK' /\ QueueInv'
<1> USE WorkerAssumption DEF Jobs, None
<1>0. /\ Inflight' \subseteq Inflight \cup Added
      /\ \A i \in 1 .. Len(pool) : pool[i] \in 1 .. claimed
      /\ Len(pool) \in Nat /\ claimed \in 0 .. NumJobs
  <2>1. Inflight' \subseteq Inflight \cup Added
    BY RenderTypes
  <2>2. Pooled \subseteq 1 .. claimed /\ claimed \in 0 .. NumJobs
    BY DEF TypeOK
  <2> QED
    BY <2>1, <2>2 DEF Pooled, QueueInv
<1>1. CASE FillerPulls
  <2> DEFINE j == claimed + 1
  <2>1. claimed < NumJobs /\ claimed' = j /\ j \in Jobs /\ depth' = depth /\ Inflight' = Inflight
    BY <1>1, <1>0 DEF FillerPulls, render, Inflight
  <2>2. filler' \in {"blocked", "pull", "end"}
    BY <1>1 DEF FillerPulls, FillerNext
  <2>3. \/ loop' \in {loop, "end"} /\ (loop' # loop => loop = "waiting") /\ UNCHANGED <<hand, pool>>
        \/ loop = "waiting" /\ loop' = "pace" /\ hand' = j /\ pool' = pool
        \/ loop # "waiting" /\ pool' = Append(pool, j) /\ UNCHANGED <<loop, hand>>
    BY <1>1 DEF FillerPulls
  <2>4. CASE pool' = pool
    <3>1. Pooled' = Pooled
      BY <2>4 DEF Pooled
    <3>2. hand' \in {hand, j} /\ loop' \in {"boot", "slot", "waiting", "pace", "end"} /\ (hand' # None <=> loop' = "pace")
      <4>1. CASE loop' \in {loop, "end"} /\ (loop' # loop => loop = "waiting") /\ UNCHANGED <<hand, pool>>
        BY <4>1 DEF TypeOK
      <4>2. CASE loop = "waiting" /\ loop' = "pace" /\ hand' = j /\ pool' = pool
        BY <4>2, <1>0
      <4>3. CASE UNCHANGED <<loop, hand>>
        BY <4>3 DEF TypeOK
      <4> QED
        BY <2>3, <4>1, <4>2, <4>3
    <3>3. PipelineOK'
      BY <1>0, <2>1, <2>2, <3>1, <3>2 DEF PipelineOK, TypeOK
    <3>4. \A k \in Pooled : k <= claimed /\ k # j
      BY <1>0 DEF Pooled
    <3>5. \A k \in Inflight : k # j
      BY <1>0 DEF QueueInv
    <3>6. hand' # None => hand' <= claimed' /\ hand' \notin Pooled'
      <4>1. CASE hand' = j
        BY <1>0, <2>1, <3>1, <3>4, <4>1
      <4>2. CASE hand' = hand
        BY <1>0, <2>1, <3>1, <4>2 DEF QueueInv, TypeOK
      <4> QED
        BY <3>2, <4>1, <4>2
    <3>7. \A k \in Inflight' : k <= claimed' /\ k # hand' /\ k \notin Pooled'
      BY <1>0, <2>1, <3>1, <3>2, <3>5 DEF QueueInv, Inflight
    <3> QED
      BY <2>4, <3>3, <3>6, <3>7 DEF QueueInv
  <2>5. CASE pool' = Append(pool, j) /\ UNCHANGED <<loop, hand>>
    <3>1. /\ pool' \in Seq(Jobs) /\ Len(pool') = Len(pool) + 1
          /\ \A i \in 1 .. Len(pool) : pool'[i] = pool[i]
          /\ pool'[Len(pool) + 1] = j
      BY <2>1, <2>5 DEF QueueInv
    <3> HIDE DEF j
    <3>2. Pooled' = Pooled \cup {j}
      <4>1. 1 .. Len(pool') = (1 .. Len(pool)) \cup {Len(pool) + 1}
        BY <1>0, <3>1
      <4>2. ASSUME NEW x \in Pooled' PROVE x \in Pooled \cup {j}
        BY <3>1, <4>1 DEF Pooled
      <4>3. ASSUME NEW x \in Pooled \cup {j} PROVE x \in Pooled'
        BY <3>1, <4>1 DEF Pooled
      <4> QED
        BY <4>2, <4>3
    <3>3. PipelineOK'
      BY <1>0, <2>1, <2>2, <2>5, <3>2 DEF PipelineOK, TypeOK, j
    <3>4. ASSUME NEW i \in 1 .. Len(pool'), NEW k \in 1 .. Len(pool'), pool'[i] = pool'[k] PROVE i = k
      <4>6. j \notin 1 .. claimed
        BY <1>0 DEF j
      <4>1. \A n \in 1 .. Len(pool) : pool'[n] # j
        BY <1>0, <3>1, <4>6
      <4>2. i \in 1 .. Len(pool) \/ i = Len(pool) + 1
        BY <1>0, <3>1
      <4>3. k \in 1 .. Len(pool) \/ k = Len(pool) + 1
        BY <1>0, <3>1
      <4>4. CASE i \in 1 .. Len(pool) /\ k \in 1 .. Len(pool)
        BY <3>1, <3>4, <4>4 DEF QueueInv
      <4>5. \A n \in 1 .. Len(pool) : pool'[n] # pool'[Len(pool) + 1]
        BY <3>1, <4>1
      <4> QED
        BY <3>4, <4>2, <4>3, <4>4, <4>5
    <3>5. hand' # None => hand' <= claimed' /\ hand' \notin Pooled'
      BY <1>0, <2>1, <2>5, <3>2 DEF QueueInv, TypeOK, j
    <3>6. \A k \in Inflight' : k <= claimed' /\ k # hand' /\ k \notin Pooled'
      BY <1>0, <2>1, <2>5, <3>2 DEF QueueInv, Inflight, j
    <3> QED
      BY <3>1, <3>3, <3>4, <3>5, <3>6 DEF QueueInv
  <2> QED
    BY <2>3, <2>4, <2>5
<1>2. CASE FillerEnds \/ TakeNone \/ StartDropped
  <2>1. UNCHANGED <<claimed, pool, depth>> /\ Inflight' = Inflight /\ Pooled' = Pooled
    BY <1>2 DEF FillerEnds, TakeNone, StartDropped, Inflight, render, Pooled
  <2>2. /\ hand' \in {hand, None} /\ loop' \in {"boot", "slot", "waiting", "pace", "end"}
        /\ (hand' # None <=> loop' = "pace") /\ filler' \in {filler, "end"}
    BY <1>2 DEF FillerEnds, TakeNone, StartDropped, TypeOK
  <2>3. \A k \in Inflight : k # None
    BY DEF Inflight
  <2> QED
    BY <2>1, <2>2, <2>3 DEF PipelineOK, TypeOK, QueueInv
<1>3. CASE TakeJob
  <2> DEFINE j == Head(pool)
  <2>1. /\ pool # << >> /\ pool' = Tail(pool) /\ loop = "slot" /\ hand = None
        /\ UNCHANGED <<claimed, depth>> /\ Inflight' = Inflight
    BY <1>3 DEF TakeJob, TypeOK, Inflight, render
  <2>2. /\ pool' \in Seq(Jobs) /\ Len(pool) >= 1 /\ Len(pool') = Len(pool) - 1 /\ j = pool[1]
        /\ \A i \in 1 .. Len(pool') : pool'[i] = pool[i + 1]
    BY <2>1 DEF QueueInv
  <2> HIDE DEF j
  <2>3. ASSUME NEW i \in 1 .. Len(pool')
        PROVE  i + 1 \in 1 .. Len(pool) /\ pool'[i] = pool[i + 1] /\ pool'[i] # j
    <3>1. i + 1 \in 1 .. Len(pool) /\ 1 \in 1 .. Len(pool) /\ i + 1 # 1
      BY <1>0, <2>2
    <3>2. pool[i + 1] # pool[1]
      BY <3>1 DEF QueueInv
    <3> QED
      BY <2>2, <3>1, <3>2
  <2>31. Pooled' \subseteq Pooled \ {j}
    BY <2>3 DEF Pooled
  <2>32. j \in Pooled /\ 1 \in 1 .. Len(pool)
    BY <1>0, <2>2 DEF Pooled
  <2>4. ASSUME NEW i \in 1 .. Len(pool'), NEW k \in 1 .. Len(pool'), pool'[i] = pool'[k] PROVE i = k
    <3>1. i + 1 = k + 1
      BY <2>3, <2>4 DEF QueueInv
    <3> QED
      BY <2>2, <3>1
  <2>5. filler' \in {"boot", "blocked", "pull", "end"}
    BY <1>3 DEF TakeJob, Woken, TypeOK
  <2>6. (hand' = None /\ loop' = loop) \/ (hand' = j /\ loop' = "pace")
    BY <1>3, <2>1 DEF TakeJob, Drop, j
  <2>61. j \in 1 .. claimed /\ j \in Jobs
    BY <1>0, <2>2, <2>32 DEF Pooled
  <2>7. PipelineOK'
    BY <1>0, <2>1, <2>31, <2>5, <2>6, <2>61 DEF PipelineOK, TypeOK
  <2>8. \A k \in Inflight : k # None
    BY DEF Inflight
  <2> QED
    <3>1. hand' # None => hand' <= claimed' /\ hand' \notin Pooled'
      BY <1>0, <2>1, <2>31, <2>6, <2>61
    <3>2. \A k \in Inflight' : k <= claimed' /\ k # hand' /\ k \notin Pooled'
      BY <2>1, <2>31, <2>32, <2>6, <2>8 DEF QueueInv
    <3> QED
      BY <2>2, <2>4, <2>7, <3>1, <3>2 DEF QueueInv
<1>4. CASE Start
  <2>1. hand' = None /\ loop' = "slot" /\ UNCHANGED <<filler, claimed, pool, depth>> /\ hand # None
    BY <1>4 DEF Start, TypeOK
  <2>2. Pooled' = Pooled
    BY <2>1 DEF Pooled
  <2>3. \A k \in Inflight' : k \in Inflight \cup {hand} /\ k # None
    BY <1>0, <1>4 DEF Added, Inflight
  <2> QED
    BY <2>1, <2>2, <2>3 DEF PipelineOK, TypeOK, QueueInv
<1>5. ASSUME ~Start, UNCHANGED <<hand, claimed, pool>>,
             filler' \in {"boot", "blocked", "pull", "end"}, depth' \in Depth .. MaxDepth,
             loop' \in {"boot", "slot", "waiting", "pace", "end"}, loop' = "pace" <=> loop = "pace"
      PROVE  PipelineOK' /\ QueueInv'
  <2>1. Pooled' = Pooled /\ Inflight' \subseteq Inflight
    BY <1>0, <1>5 DEF Pooled, Added
  <2> QED
    BY <1>5, <2>1 DEF PipelineOK, TypeOK, QueueInv
<1>6. ASSUME NEW j \in Jobs, Post(j), ~Start PROVE PipelineOK' /\ QueueInv'
  <2>1. depth' \in Depth .. MaxDepth
    BY <1>6 DEF Post, TypeOK
  <2>2. UNCHANGED <<hand, claimed, pool, loop>> /\ filler' \in {"boot", "blocked", "pull", "end"}
    BY <1>6 DEF Post, Woken, TypeOK
  <2> QED
    BY <1>5, <1>6, <2>1, <2>2 DEF TypeOK
<1>7. CASE Booted /\ ~Start
  <2>1. UNCHANGED <<hand, claimed, pool, depth>> /\ filler' \in {"boot", "blocked", "pull", "end"}
    BY <1>7 DEF Booted, FillerNext, TypeOK
  <2>2. loop' \in {"boot", "slot", "waiting", "pace", "end"} /\ (loop' = "pace" <=> loop = "pace")
    BY <1>7 DEF Booted, TypeOK
  <2> QED
    BY <1>5, <1>7, <2>1, <2>2 DEF TypeOK
<1>8. CASE UNCHANGED pipeline /\ ~Start
  BY <1>5, <1>8 DEF pipeline, TypeOK
<1> QED
  BY PipelineFrame, <1>1, <1>2, <1>3, <1>4, <1>6, <1>7, <1>8 DEF LoopStep

(* No more renders are under way than there are slots. *)
LEMMA SlotStep ==
    ASSUME TypeOK, SlotInv, Next
    PROVE  SlotInv'
<1>0. /\ Inflight' \subseteq Inflight \cup Added /\ IsFiniteSet(Inflight) /\ Cardinality(Inflight) \in Nat
      /\ Concurrency \in Nat
  BY RenderTypes, JobSetsFinite, FS_CardinalityType, WorkerAssumption
<1>1. CASE Start
  <2>1. loop = "pace" /\ loop' = "slot"
    BY <1>1 DEF Start
  <2>2. IsFiniteSet(Inflight \cup {hand}) /\ Cardinality(Inflight \cup {hand}) <= Cardinality(Inflight) + 1
    BY <1>0, FS_AddElement
  <2>3. Cardinality(Inflight') <= Cardinality(Inflight \cup {hand}) /\ Cardinality(Inflight') \in Nat
    BY <1>0, <1>1, <2>2, FS_Subset, FS_CardinalityType DEF Added
  <2>4. Cardinality(Inflight \cup {hand}) \in Nat
    BY <2>2, FS_CardinalityType
  <2> QED
    BY <1>0, <2>1, <2>2, <2>3, <2>4 DEF SlotInv
<1>2. CASE ~Start
  <2>1. Cardinality(Inflight') <= Cardinality(Inflight) /\ Cardinality(Inflight') \in Nat
    BY <1>0, <1>2, FS_Subset, FS_CardinalityType DEF Added
  <2>2. loop' \in {"waiting", "pace"} => loop \in {"waiting", "pace"} \/ Cardinality(Inflight) < Concurrency
    <3>1. CASE LoopStep
      BY <3>1 DEF LoopStep, FillerPulls, FillerEnds, TakeJob, TakeNone, StartDropped, Drop
    <3>2. ASSUME NEW j \in Jobs, Post(j) PROVE loop' = loop
      BY <3>2 DEF Post
    <3>3. CASE Booted
      BY <3>3 DEF Booted
    <3>4. CASE UNCHANGED pipeline
      BY <3>4 DEF pipeline
    <3> QED
      BY <1>2, PipelineFrame, <3>1, <3>2, <3>3, <3>4
  <2> QED
    BY <1>0, <2>1, <2>2 DEF SlotInv
<1> QED
  BY <1>1, <1>2

-----------------------------------------------------------------------------
(* Where the renders are, and which browsers the worker knows of. *)
Known == PlaceInv /\ ChromeInv /\ TrackingOK

(* Retiring a browser that has been up keeps what is known of the others. *)
LEMMA RetireKnown ==
    ASSUME TypeOK, ChromeInv, NEW b \in Browsers, chrome[b] \in {"up", "down"}, Retire(b),
           launching' = launching, aged' = aged
    PROVE  /\ retired' \subseteq retired \cup {b} /\ stray' \subseteq Browsers
           /\ aged' \subseteq retired' /\ current' \in {current, None} /\ current' \notin retired'
           /\ current \in {current', b, None} \cup stray' /\ stray \subseteq stray'
           /\ retired \subseteq retired' /\ b \in retired'
<1>1. current \notin retired /\ current \in Browsers \cup {None} /\ stray \subseteq Browsers /\ aged \subseteq retired
      /\ retired \subseteq Browsers
  BY DEF TypeOK
<1>2. None \notin Browsers
  BY DEF None, Browsers
<1>3. CASE b \in retired
  BY <1>1, <1>3 DEF Retire
<1>4. CASE b \notin retired
  <2>1. retired' = retired \cup {b} /\ current' = None /\ stray' = stray \cup ({current} \ {None, b})
    BY <1>4 DEF Retire
  <2>2. current' \notin retired'
    BY <1>1, <1>2, <2>1
  <2> QED
    BY <1>1, <2>1, <2>2
<1> QED
  BY <1>3, <1>4

(* A job placed on a browser keeps it. *)
LEMMA PlacedKnown ==
    ASSUME TypeOK, PlaceInv, ChromeInv, NEW j \in Jobs, NEW held, NEW b \in Browsers, NEW s,
           Placed(j, held, b, s), UNCHANGED <<closing, teardown, faults>>
    PROVE  Known'
<1> USE DEF None
<1>1. /\ chrome[b] = "none" => s = "launch"
      /\ s # "launch" => chrome[b] \in {"up", "down"} /\ chrome' = chrome
      /\ s \in {"launch", "context", "page"}
  BY DEF Placed, ChromeInv, Browsers
<1>2. /\ \A c \in Browsers : chrome'[c] \in {chrome[c], "launching"}
      /\ \A c \in Browsers : chrome[c] \in {"up", "down"} => chrome'[c] = chrome[c]
      /\ chrome' \in [Browsers -> {"none", "launching", "up", "down"}]
      /\ \A c \in Browsers : chrome'[c] = "launching" <=> launching' = c
  <2>1. CASE chrome' = chrome /\ UNCHANGED tracking
    BY <2>1 DEF TypeOK, ChromeInv, tracking
  <2>2. CASE /\ chrome[b] = "none" /\ chrome' = [chrome EXCEPT ![b] = "launching"]
             /\ s = "launch" /\ launching = None
    <3>1. launching' = b
      BY <2>2 DEF Placed
    <3> QED
      BY <2>2, <3>1 DEF TypeOK, ChromeInv, Browsers
  <2> QED
    BY <2>1, <2>2 DEF Placed
<1>3. PlaceInv'
  <2>1. on' = [on EXCEPT ![j] = b] /\ stage' = [stage EXCEPT ![j] = s]
    BY DEF Placed
  <2>2. s = "launch" => b = launching'
    BY DEF Placed
  <2>3. (\E k \in Jobs : stage[k] = "launch") => launching' = launching
    BY DEF Placed, PlaceInv, tracking, Browsers
  <2> QED
    BY <1>1, <1>2, <2>1, <2>2, <2>3 DEF PlaceInv, TypeOK
<1>4. /\ retired' \subseteq retired \cup {current} /\ retired' \subseteq Browsers
      /\ stray' \subseteq Browsers
      /\ aged' \subseteq retired' /\ current' \in {current, None} /\ current' \notin retired'
      /\ launching' \in Browsers => current' = None
      /\ launching' \in Browsers \cup {None}
      /\ \A c \in retired' : chrome[c] \in {"up", "down"}
  <2>1. CASE UNCHANGED tracking
    BY <2>1 DEF tracking, TypeOK, ChromeInv, Placed, Browsers
  <2>2. CASE current = None /\ UNCHANGED <<retired, current, stray>>
    BY <2>2 DEF TypeOK, ChromeInv, Placed, tracking
  <2>3. CASE current # None /\ Retire(current) /\ s = "launch"
    <3>1. current \in Browsers /\ chrome[current] \in {"up", "down"} /\ launching' = b /\ aged' = aged
      BY <2>3 DEF TypeOK, ChromeInv, Placed
    <3> QED
      BY <2>3, <3>1 DEF TypeOK, ChromeInv, Retire
  <2> QED
    BY <2>1, <2>2, <2>3 DEF Placed
<1>5. TrackingOK'
  BY <1>2, <1>4 DEF TrackingOK, TypeOK, teardown
<1>6. ChromeInv'
  <2>1. disposing' = disposing /\ \A c \in Browsers : chrome'[c] \in {"none", "launching"} => disposing'[c] = 0
    BY <1>2 DEF Placed, ChromeInv, TypeOK
  <2>2. current' # None => chrome'[current'] \in {"up", "down"}
    BY <1>2, <1>4 DEF ChromeInv, TypeOK
  <2>3. \A c \in retired' : chrome'[c] \in {"up", "down"}
    BY <1>2, <1>4
  <2> QED
    BY <1>2, <2>1, <2>2, <2>3 DEF ChromeInv
<1> QED
  BY <1>3, <1>5, <1>6 DEF Known

(* A render that throws leaves its browser. *)
LEMMA ThrownKnown ==
    ASSUME RenderOK, PlaceInv, NEW js \in SUBSET Jobs, Thrown(js),
           \A j \in Jobs \ js : stage[j] # "launch" \/ launching' = launching,
           \A b \in Browsers : chrome[b] \in {"up", "down"} => chrome'[b] \in {"up", "down"}
    PROVE  PlaceInv'
BY DEF Thrown, Salvaged, PlaceInv, RenderOK

(* Every step keeps what is known. *)
LEMMA KnownStep ==
    ASSUME TypeOK, Known, Next
    PROVE  Known'
<1>0. PlaceInv /\ ChromeInv /\ TrackingOK /\ RenderOK /\ CounterOK
  BY TypeParts DEF Known
<1> USE DEF None
<1>1. CASE LoopStep
  <2>1. UNCHANGED <<render, chrome, closing, counters, tracking, teardown, faults>>
    BY <1>1, LoopStepFrame
  <2> QED
    BY <1>0, <2>1 DEF Known, PlaceInv, ChromeInv, TrackingOK, render, counters, tracking, teardown
<1>2. CASE Start
  <2>1. GetBrowser(hand, refs) /\ hand \in Jobs /\ UNCHANGED <<closing, teardown, faults>>
    BY <1>2 DEF Start, TypeOK
  <2> QED
    BY <1>0, <2>1, GetBrowserPlaces, PlacedKnown
<1>3. ASSUME NEW j \in Jobs, Rendering(j) PROVE Known'
  <2>1. CASE ContextMade(j)
    <3>1. /\ stage' = [stage EXCEPT ![j] = "page"] /\ stage[j] = "context"
          /\ UNCHANGED <<on, chrome, closing, disposing, tracking, teardown, faults>>
      BY <2>1 DEF ContextMade, OpenPage
    <3> QED
      BY <1>0, <3>1 DEF Known, PlaceInv, ChromeInv, TrackingOK, tracking, teardown, RenderOK
  <2>2. CASE ContextFails(j)
    <3>1. stage[j] = "context" /\ Thrown({j}) /\ UNCHANGED <<chrome, closing, counters, tracking, teardown>>
      BY <2>2 DEF ContextFails
    <3>2. faults' \in 0 .. MaxFaults
      BY <1>0, <2>2, WorkerAssumption DEF ContextFails, Fault, TrackingOK
    <3>3. PlaceInv'
      BY <1>0, <3>1, ThrownKnown DEF tracking
    <3> QED
      BY <1>0, <3>1, <3>2, <3>3 DEF Known, ChromeInv, TrackingOK, tracking, teardown, counters
  <2>3. CASE PageOpened(j)
    BY <1>0, <2>3 DEF PageOpened, Known, PlaceInv, ChromeInv, TrackingOK, tracking, teardown, counters, RenderOK
  <2>4. CASE PageFails(j) \/ RenderRetires(j)
    <3>1. stage[j] \in {"page", "render"} /\ Retire(on[j]) /\ UNCHANGED <<on, chrome, closing, launching, aged, teardown>>
      BY <2>4 DEF PageFails, RenderRetires
    <3>2. on[j] \in Browsers /\ chrome[on[j]] \in {"up", "down"}
      BY <1>0, <3>1 DEF PlaceInv
    <3>3. faults' \in 0 .. MaxFaults
      BY <1>0, <2>4, WorkerAssumption DEF PageFails, RenderRetires, Fault, TrackingOK
    <3>4. /\ stage' = [stage EXCEPT ![j] = "close"]
          /\ disposing' = disposing \/ disposing' = [disposing EXCEPT ![on[j]] = @ + 1]
      BY <2>4 DEF PageFails, RenderRetires, ToClose
    <3>5. PlaceInv'
      BY <1>0, <3>1, <3>2, <3>4 DEF PlaceInv, RenderOK
    <3>6. ChromeInv' /\ TrackingOK'
      <4>1. \A c \in Browsers : chrome'[c] \in {"none", "launching"} => disposing'[c] = 0
        BY <1>0, <3>1, <3>2, <3>4 DEF ChromeInv, CounterOK
      <4>2. /\ retired' \subseteq retired \cup {on[j]} /\ stray' \subseteq Browsers
            /\ aged' \subseteq retired' /\ current' \in {current, None} /\ current' \notin retired'
        BY <1>0, <3>1, <3>2, RetireKnown
      <4>3. ChromeInv'
        BY <1>0, <3>1, <3>2, <4>1, <4>2 DEF ChromeInv
      <4>4. TrackingOK'
        BY <1>0, <3>1, <3>2, <3>3, <4>2 DEF TrackingOK, teardown
      <4> QED
        BY <4>3, <4>4
    <3> QED
      BY <3>5, <3>6 DEF Known
  <2>5. CASE RenderEnds(j)
    <3>1. /\ stage[j] = "render" /\ UNCHANGED <<on, chrome, closing, tracking, teardown, faults>>
          /\ stage' = [stage EXCEPT ![j] = "close"]
          /\ disposing' = [disposing EXCEPT ![on[j]] = @ + 1]
      BY <2>5 DEF RenderEnds, ToClose
    <3>2. on[j] \in Browsers /\ chrome[on[j]] \in {"up", "down"}
      BY <1>0, <3>1 DEF PlaceInv
    <3> QED
      BY <1>0, <3>1, <3>2 DEF Known, PlaceInv, ChromeInv, TrackingOK, tracking, teardown, RenderOK, CounterOK
  <2>6. CASE VariantDone(j)
    <3>1. UNCHANGED <<closing, teardown, faults>> /\ stage[j] = "close"
      BY <2>6 DEF VariantDone
    <3>2. CASE GetBrowser(j, [refs EXCEPT ![on[j]] = @ - 1])
      BY <1>0, <3>1, <3>2, GetBrowserPlaces, PlacedKnown
    <3>3. CASE /\ stage' = [stage EXCEPT ![j] = "post"]
               /\ on' = [on EXCEPT ![j] = None]
               /\ UNCHANGED <<chrome, active, opened, disposing, tracking>>
      BY <1>0, <3>1, <3>3 DEF Known, PlaceInv, ChromeInv, TrackingOK, tracking, teardown, RenderOK
    <3> QED
      BY <2>6, <3>2, <3>3 DEF VariantDone
  <2>7. CASE Post(j)
    BY <1>0, <2>7 DEF Post, Known, PlaceInv, ChromeInv, TrackingOK, tracking, teardown, RenderOK, counters
  <2> QED
    BY <1>3, <2>1, <2>2, <2>3, <2>4, <2>5, <2>6, <2>7 DEF Rendering
<1>4. ASSUME NEW j \in Jobs, LeaseRunsShort(j) PROVE Known'
  BY <1>0, <1>4 DEF LeaseRunsShort, Known, PlaceInv, ChromeInv, TrackingOK, tracking, teardown, render, counters
<1>5. ASSUME NEW b \in Browsers, Launched(b) PROVE Known'
  <2>1. /\ launching = b /\ launching' = None /\ current' = b /\ chrome' = [chrome EXCEPT ![b] = "up"]
        /\ UNCHANGED <<on, disposing, retired, aged, stray, teardown, faults>>
        /\ closing' = closing \/ closing' = closing \cup {b}
    BY <1>5 DEF Launched, ClosedAtBirth
  <2>2. /\ \A j \in Waiting(b) : stage'[j] \in {"page", "context"}
        /\ \A j \in Jobs \ Waiting(b) : stage'[j] = stage[j]
    BY <1>5 DEF Launched, Waiting
  <2>3. chrome[b] = "launching" /\ chrome' \in [Browsers -> {"none", "launching", "up", "down"}]
    BY <1>0, <2>1 DEF ChromeInv, TrackingOK
  <2>4. PlaceInv'
    BY <1>0, <2>1, <2>2, <2>3 DEF PlaceInv, Waiting, TrackingOK
  <2>5. b \notin retired
    BY <1>0, <2>3 DEF ChromeInv
  <2>6. TrackingOK'
    BY <1>0, <2>1, <2>3, <2>5 DEF TrackingOK, teardown
  <2>7. ChromeInv'
    BY <1>0, <2>1, <2>3 DEF ChromeInv, TrackingOK, Browsers
  <2> QED
    BY <2>4, <2>6, <2>7 DEF Known
<1>6. ASSUME NEW b \in Browsers, LaunchFails(b) PROVE Known'
  <2>1. /\ launching = b /\ launching' = None /\ chrome' = [chrome EXCEPT ![b] = "down"] /\ Thrown(Waiting(b))
        /\ UNCHANGED <<closing, counters, current, retired, aged, stray, teardown>>
    BY <1>6 DEF LaunchFails
  <2>2. faults' \in 0 .. MaxFaults
    BY <1>0, <1>6, WorkerAssumption DEF LaunchFails, Fault, TrackingOK
  <2>3. PlaceInv'
    <3>1. \A j \in Jobs \ Waiting(b) : stage[j] # "launch"
      BY <1>0, <2>1 DEF PlaceInv, Waiting
    <3>2. \A c \in Browsers : chrome[c] \in {"up", "down"} => chrome'[c] \in {"up", "down"}
      BY <1>0, <2>1 DEF TrackingOK
    <3>3. Waiting(b) \in SUBSET Jobs
      BY DEF Waiting
    <3> QED
      BY <1>0, <2>1, <3>1, <3>2, <3>3, ThrownKnown
  <2>4. TrackingOK'
    BY <1>0, <2>1, <2>2 DEF TrackingOK, teardown
  <2>5. ChromeInv'
    BY <1>0, <2>1 DEF ChromeInv, TrackingOK, Browsers, counters
  <2> QED
    BY <2>3, <2>4, <2>5 DEF Known
<1>7. ASSUME NEW b \in Browsers, Disposed(b) PROVE Known'
  BY <1>0, <1>7 DEF Disposed, Known, PlaceInv, ChromeInv, TrackingOK, tracking, teardown, render, CounterOK
<1>8. ASSUME NEW b \in Browsers, ChromeStep(b) PROVE Known'
  <2>1. UNCHANGED <<render, counters, launching, stray, current, draining, phase, awaited>>
    BY <1>8 DEF ChromeStep, Reap, Reaped, ChromeCloses, CloseFails, ChromeCrashes, Age, tracking, teardown
  <2>2. /\ chrome' = chrome \/ (Up(b) /\ chrome' = [chrome EXCEPT ![b] = "down"])
        /\ closing' = closing \/ closing' = closing \cup {b}
        /\ reaping' \subseteq closing' /\ unclosed' \subseteq closing'
        /\ retired' \subseteq retired /\ aged' \subseteq retired'
    BY <1>0, <1>8 DEF ChromeStep, Reap, Reaped, ChromeCloses, CloseFails, ChromeCrashes, Age, tracking, teardown, TrackingOK
  <2>3. faults' \in 0 .. MaxFaults
    BY <1>0, <1>8, WorkerAssumption
       DEF ChromeStep, Reap, Reaped, ChromeCloses, CloseFails, ChromeCrashes, Age, Fault, TrackingOK
  <2>4. /\ chrome' \in [Browsers -> {"none", "launching", "up", "down"}]
        /\ \A c \in Browsers : chrome'[c] = chrome[c] \/ (chrome[c] = "up" /\ chrome'[c] = "down")
    BY <1>0, <2>2 DEF TrackingOK, Up
  <2>5. PlaceInv'
    BY <1>0, <2>1, <2>4 DEF PlaceInv, render
  <2>6. ChromeInv'
    BY <1>0, <2>1, <2>2, <2>4 DEF ChromeInv, counters, TrackingOK
  <2>7. TrackingOK'
    BY <1>0, <2>1, <2>2, <2>3, <2>4 DEF TrackingOK
  <2> QED
    BY <2>5, <2>6, <2>7 DEF Known
<1>9. CASE TeardownStep
  <2>1. UNCHANGED <<render, counters, launching, stray>>
    BY <1>9, ChromeStepFrame
  <2>2. /\ \/ UNCHANGED <<current, retired, aged>>
           \/ current' = None /\ retired' = {} /\ aged' = {}
        /\ closing' = closing \/ closing' = closing \cup Tracked
        /\ UNCHANGED <<reaping, unclosed>>
        /\ awaited' \subseteq awaited \cup ((Tracked \cup {launching}) \ {None})
    BY <1>9 DEF TeardownStep, Terminate, EndDrain, Uncaught, Unhandled, Exit, FailExit, ForceExit, Destroyed, tracking
  <2>3. /\ chrome' \in [Browsers -> {"none", "launching", "up", "down"}]
        /\ \A c \in Browsers : chrome'[c] = chrome[c] \/ (c \in Tracked /\ chrome'[c] = "down")
    <3>1. chrome' = chrome \/ chrome' = [b \in Browsers |-> IF b \in Tracked THEN "down" ELSE chrome[b]]
      BY <1>9 DEF TeardownStep, Terminate, EndDrain, Uncaught, Unhandled, Exit, FailExit, ForceExit
    <3> QED
      BY <1>0, <3>1 DEF TrackingOK
  <2>4. faults' \in 0 .. MaxFaults
    BY <1>0, <1>9, WorkerAssumption
       DEF TeardownStep, Terminate, EndDrain, Uncaught, Unhandled, Exit, FailExit, ForceExit, Fault, TrackingOK
  <2>5. draining' \in BOOLEAN /\ phase' \in {"running", "draining", "closing", "failing", "exited", "failed", "forced"}
    <3>1. draining' \in BOOLEAN
      BY Zenon, <1>0, <1>9 DEF TeardownStep, Terminate, EndDrain, Uncaught, Unhandled, Exit, FailExit, ForceExit, TrackingOK
    <3>2. phase' \in {"running", "draining", "closing", "failing", "exited", "failed", "forced"}
      BY <1>0, <1>9 DEF TeardownStep, Terminate, EndDrain, Uncaught, Unhandled, Exit, FailExit, ForceExit, TrackingOK, Destroyed
    <3> QED
      BY <3>1, <3>2
  <2>6. Tracked \subseteq Browsers /\ \A c \in Tracked : chrome[c] \in {"up", "down"}
    BY <1>0 DEF Tracked, TrackingOK, ChromeInv
  <2>7. PlaceInv'
    BY <1>0, <2>1, <2>3 DEF PlaceInv, render
  <2>8. ChromeInv'
    BY <1>0, <2>1, <2>2, <2>3, <2>6 DEF ChromeInv, counters, TrackingOK
  <2>9. TrackingOK'
    BY <1>0, <2>1, <2>2, <2>3, <2>4, <2>5, <2>6 DEF TrackingOK
  <2> QED
    BY <2>7, <2>8, <2>9 DEF Known
<1> QED
  BY StepKinds, <1>1, <1>2, <1>3, <1>4, <1>5, <1>6, <1>7, <1>8, <1>9

-----------------------------------------------------------------------------
(* A count goes up by one with its set, and down by one. *)
LEMMA OneMore ==
    ASSUME NEW S, NEW x, IsFiniteSet(S), x \notin S
    PROVE  Cardinality(S \cup {x}) = Cardinality(S) + 1 /\ Cardinality(S) \in Nat
BY FS_AddElement, FS_CardinalityType

LEMMA OneLess ==
    ASSUME NEW S, NEW x, IsFiniteSet(S), x \in S
    PROVE  Cardinality(S \ {x}) = Cardinality(S) - 1 /\ Cardinality(S) \in Nat
BY FS_RemoveElement, FS_CardinalityType

(* The counters count, and are numbers. *)
Counted ==
    /\ CountInv
    /\ refs \in [Browsers -> Int] /\ active \in [Browsers -> Int]
    /\ opened \in [Browsers -> 0 .. PageCeiling + 1] /\ disposing \in [Browsers -> Nat]

(* A job without a page that is placed on a browser, its reference dropped. *)
LEMMA PlacedCounts ==
    ASSUME TypeOK, Counted, NEW j \in Jobs, stage[j] \notin {"page", "render"},
           NEW held \in [Browsers -> Int], \A c \in Browsers : held[c] = Cardinality(Holding(c) \ {j}),
           NEW b \in Browsers, NEW s, Placed(j, held, b, s)
    PROVE  Counted'
<1>1. /\ on' = [on EXCEPT ![j] = b] /\ stage' = [stage EXCEPT ![j] = s] /\ s \in {"launch", "context", "page"}
      /\ disposing' = disposing /\ opened' \in [Browsers -> 0 .. PageCeiling + 1]
  BY DEF Placed
<1>2. \A c \in Browsers : IsFiniteSet(Holding(c) \ {j}) /\ IsFiniteSet(Paging(c)) /\ j \notin Paging(c)
  BY JobSetsFinite, FS_RemoveElement DEF Paging
<1>3. \A c \in Browsers : c # b \/ s # "page" => Holding(c)' = Holding(c) \ {j} /\ Paging(c)' = Paging(c)
  BY <1>1 DEF Holding, Paging, TypeOK
<1>4. CASE s = "page"
  <2>1. refs' = [held EXCEPT ![b] = @ + 1] /\ active' = [active EXCEPT ![b] = @ + 1]
    BY <1>4 DEF Placed
  <2>2. Holding(b)' = (Holding(b) \ {j}) \cup {j} /\ Paging(b)' = Paging(b) \cup {j}
    BY <1>1, <1>4 DEF Holding, Paging, TypeOK
  <2>3. /\ Cardinality(Holding(b)') = Cardinality(Holding(b) \ {j}) + 1
        /\ Cardinality(Paging(b)') = Cardinality(Paging(b)) + 1
        /\ Cardinality(Paging(b)) \in Nat
    BY <1>2, <2>2, OneMore
  <2>4. \A c \in Browsers : /\ refs'[c] = Cardinality(Holding(c)')
                            /\ active'[c] = Cardinality(Paging(c)') + disposing[c]
    BY <1>3, <2>1, <2>3 DEF Counted, CountInv
  <2> QED
    BY <1>1, <2>1, <2>4 DEF Counted, CountInv
<1>5. CASE s # "page"
  <2>1. refs' = held /\ active' = active
    BY <1>5 DEF Placed
  <2> QED
    BY <1>1, <1>3, <1>5, <2>1 DEF Counted, CountInv
<1> QED
  BY <1>4, <1>5

(* Every step keeps the counts. *)
LEMMA CountStep ==
    ASSUME TypeOK, Counted, QueueInv, PlaceInv, ChromeInv, Next
    PROVE  Counted'
<1>0. /\ RenderOK /\ TrackingOK
      /\ \A b \in Browsers : /\ IsFiniteSet(Holding(b)) /\ IsFiniteSet(Paging(b))
                             /\ Cardinality(Holding(b)) \in Nat /\ Cardinality(Paging(b)) \in Nat
  BY TypeParts, JobSetsFinite, FS_CardinalityType
<1> USE DEF None
<1>1. ASSUME UNCHANGED <<render, counters>> PROVE Counted'
  BY <1>1 DEF Counted, CountInv, Holding, Paging, render, counters
<1>2. CASE Start
  <2>1. GetBrowser(hand, refs) /\ hand \in Jobs
    BY <1>2 DEF Start, TypeOK
  <2>2. PICK b \in Browsers, s \in {"launch", "context", "page"} : Placed(hand, refs, b, s)
    BY <2>1, GetBrowserPlaces
  <2>3. stage[hand] = "none" /\ \A c \in Browsers : Holding(c) \ {hand} = Holding(c)
    BY <2>1 DEF QueueInv, Inflight, Holding
  <2>4. refs \in [Browsers -> Int] /\ \A c \in Browsers : refs[c] = Cardinality(Holding(c) \ {hand})
    BY <2>3 DEF Counted, CountInv
  <2> QED
    BY <2>1, <2>2, <2>3, <2>4, PlacedCounts
<1>3. ASSUME NEW j \in Jobs, Rendering(j) PROVE Counted'
  <2>1. CASE ContextMade(j)
    <3>1. PICK b \in Browsers : b = on[j]
      BY <2>1 DEF ContextMade, PlaceInv
    <3>2. stage[j] = "context" /\ OpenPage(j, b, refs) /\ UNCHANGED <<on, disposing>>
      BY <2>1, <3>1 DEF ContextMade
    <3>3. opened' \in [Browsers -> 0 .. PageCeiling + 1]
      BY <3>2, WorkerAssumption DEF OpenPage, Capped, Counted
    <3>4. /\ \A c \in Browsers \ {b} : Holding(c)' = Holding(c) /\ Paging(c)' = Paging(c)
          /\ Holding(b)' = Holding(b) \cup {j} /\ Paging(b)' = Paging(b) \cup {j}
          /\ j \notin Holding(b) /\ j \notin Paging(b)
      BY <1>0, <3>1, <3>2 DEF OpenPage, Holding, Paging, RenderOK
    <3>5. /\ Cardinality(Holding(b)') = Cardinality(Holding(b)) + 1
          /\ Cardinality(Paging(b)') = Cardinality(Paging(b)) + 1
      BY <1>0, <3>4, OneMore
    <3>6. refs' = [refs EXCEPT ![b] = @ + 1] /\ active' = [active EXCEPT ![b] = @ + 1]
      BY <3>2 DEF OpenPage
    <3>7. \A c \in Browsers : /\ refs'[c] = Cardinality(Holding(c)')
                              /\ active'[c] = Cardinality(Paging(c)') + disposing[c]
      <4>1. ASSUME NEW c \in Browsers \ {b}
            PROVE  /\ refs'[c] = Cardinality(Holding(c)')
                   /\ active'[c] = Cardinality(Paging(c)') + disposing[c]
        BY <3>4, <3>6 DEF Counted, CountInv
      <4>2. /\ refs'[b] = refs[b] + 1 /\ active'[b] = active[b] + 1
            /\ refs[b] = Cardinality(Holding(b)) /\ active[b] = Cardinality(Paging(b)) + disposing[b]
            /\ disposing[b] \in Nat
        BY <3>6 DEF Counted, CountInv
      <4>3. refs'[b] = Cardinality(Holding(b)') /\ active'[b] = Cardinality(Paging(b)') + disposing[b]
        BY <1>0, <3>5, <4>2
      <4> QED
        BY <4>1, <4>3
    <3> QED
      BY <3>2, <3>3, <3>6, <3>7 DEF Counted, CountInv
  <2>2. CASE ContextFails(j)
    <3>1. stage[j] = "context" /\ Thrown({j}) /\ UNCHANGED counters
      BY <2>2 DEF ContextFails
    <3>2. \A c \in Browsers : Holding(c)' = Holding(c) /\ Paging(c)' = Paging(c)
      BY <1>0, <3>1 DEF Thrown, Salvaged, Holding, Paging, RenderOK, Browsers
    <3> QED
      BY <3>1, <3>2 DEF Counted, CountInv, counters
  <2>3. CASE PageOpened(j)
    <3>1. \A c \in Browsers : Holding(c)' = Holding(c) /\ Paging(c)' = Paging(c)
      BY <1>0, <2>3 DEF PageOpened, Holding, Paging, RenderOK
    <3> QED
      BY <2>3, <3>1 DEF PageOpened, Counted, CountInv, counters
  <2>4. CASE PageFails(j) \/ RenderEnds(j) \/ RenderRetires(j)
    <3>1. PICK b \in Browsers : b = on[j]
      BY <2>4 DEF PageFails, RenderEnds, RenderRetires, PlaceInv
    <3>2. /\ stage[j] \in {"page", "render"} /\ stage' = [stage EXCEPT ![j] = "close"]
          /\ UNCHANGED <<on, refs, opened>>
          /\ \/ active' = [active EXCEPT ![b] = @ - 1] /\ disposing' = disposing
             \/ disposing' = [disposing EXCEPT ![b] = @ + 1] /\ active' = active
      BY <2>4, <3>1 DEF PageFails, RenderEnds, RenderRetires, ToClose
    <3>3. /\ \A c \in Browsers : Holding(c)' = Holding(c)
          /\ \A c \in Browsers \ {b} : Paging(c)' = Paging(c)
          /\ Paging(b)' = Paging(b) \ {j} /\ j \in Paging(b)
      BY <1>0, <3>1, <3>2 DEF Holding, Paging, RenderOK
    <3>4. Cardinality(Paging(b)') = Cardinality(Paging(b)) - 1
      BY <1>0, <3>3, OneLess
    <3>5. active' \in [Browsers -> Int] /\ disposing' \in [Browsers -> Nat]
      BY <3>2 DEF Counted
    <3>6. \A c \in Browsers : active'[c] = Cardinality(Paging(c)') + disposing'[c]
      <4>1. ASSUME NEW c \in Browsers \ {b} PROVE active'[c] = Cardinality(Paging(c)') + disposing'[c]
        BY <3>2, <3>3 DEF Counted, CountInv
      <4>2. /\ active[b] = Cardinality(Paging(b)) + disposing[b] /\ disposing[b] \in Nat
            /\ \/ active'[b] = active[b] - 1 /\ disposing'[b] = disposing[b]
               \/ active'[b] = active[b] /\ disposing'[b] = disposing[b] + 1
        BY <3>2 DEF Counted, CountInv
      <4>3. active'[b] = Cardinality(Paging(b)') + disposing'[b]
        BY <1>0, <3>4, <4>2
      <4> QED
        BY <4>1, <4>3
    <3> QED
      BY <3>2, <3>3, <3>5, <3>6 DEF Counted, CountInv
  <2>6. CASE VariantDone(j)
    <3> DEFINE held == [refs EXCEPT ![on[j]] = @ - 1]
    <3>1. PICK b \in Browsers : b = on[j]
      BY <2>6 DEF VariantDone, PlaceInv
    <3>2. stage[j] = "close" /\ held = [refs EXCEPT ![b] = @ - 1]
      BY <2>6, <3>1 DEF VariantDone
    <3>3. j \in Holding(b) /\ \A c \in Browsers \ {b} : Holding(c) \ {j} = Holding(c)
      BY <3>1, <3>2 DEF Holding
    <3>4. held \in [Browsers -> Int] /\ \A c \in Browsers : held[c] = Cardinality(Holding(c) \ {j})
      <4>1. Cardinality(Holding(b) \ {j}) = Cardinality(Holding(b)) - 1
        BY <1>0, <3>3, OneLess
      <4> QED
        BY <3>2, <3>3, <4>1 DEF Counted, CountInv
    <3>5. CASE GetBrowser(j, held)
      <4>1. PICK c \in Browsers, s \in {"launch", "context", "page"} : Placed(j, held, c, s)
        BY <3>5, GetBrowserPlaces
      <4> HIDE DEF held
      <4> QED
        BY <3>2, <3>4, <4>1, PlacedCounts
    <3>6. CASE /\ stage' = [stage EXCEPT ![j] = "post"]
               /\ refs' = held
               /\ on' = [on EXCEPT ![j] = None]
               /\ UNCHANGED <<active, opened, disposing>>
      <4>1. \A c \in Browsers : Holding(c)' = Holding(c) \ {j} /\ Paging(c)' = Paging(c)
        BY <1>0, <3>2, <3>6 DEF Holding, Paging, RenderOK, Browsers
      <4> HIDE DEF held
      <4> QED
        BY <3>4, <3>6, <4>1 DEF Counted, CountInv
    <3> QED
      BY <2>6, <3>5, <3>6 DEF VariantDone
  <2>7. CASE Post(j)
    <3>1. \A c \in Browsers : Holding(c)' = Holding(c) /\ Paging(c)' = Paging(c)
      BY <1>0, <2>7 DEF Post, Holding, Paging, RenderOK
    <3> QED
      BY <2>7, <3>1 DEF Post, Counted, CountInv, counters
  <2> QED
    BY <1>3, <2>1, <2>2, <2>3, <2>4, <2>6, <2>7 DEF Rendering
<1>4. ASSUME NEW j \in Jobs, LeaseRunsShort(j) PROVE Counted'
  BY <1>1, <1>4 DEF LeaseRunsShort
<1>5. ASSUME NEW b \in Browsers, Launched(b) PROVE Counted'
  <2> DEFINE paging == {j \in Waiting(b) : ~NeedsContext(j, b)}
  <2>1. /\ stage' = [j \in Jobs |-> IF j \notin Waiting(b) THEN stage[j]
                                    ELSE IF j \in paging THEN "page" ELSE "context"]
        /\ refs' = [refs EXCEPT ![b] = Cardinality(paging)]
        /\ active' = [active EXCEPT ![b] = Cardinality(paging)]
        /\ opened' = [opened EXCEPT ![b] = Capped(Cardinality(paging))]
        /\ UNCHANGED <<on, disposing>> /\ launching = b
    BY <1>5 DEF Launched
  <2>2. paging \subseteq Waiting(b) /\ paging \subseteq Jobs
    BY DEF Waiting
  <2> HIDE DEF paging
  <2>3. chrome[b] = "launching" /\ disposing[b] = 0
    BY <2>1 DEF ChromeInv
  <2>4. /\ Holding(b)' = paging /\ Paging(b)' = paging
        /\ \A c \in Browsers \ {b} : Holding(c)' = Holding(c) /\ Paging(c)' = Paging(c)
    BY <2>1, <2>2, <2>3 DEF Holding, Paging, Waiting, PlaceInv
  <2>5. Cardinality(paging) \in Nat
    <3>1. IsFiniteSet(Jobs)
      BY FS_Interval, WorkerAssumption DEF Jobs
    <3> QED
      BY <2>2, <3>1, FS_Subset, FS_CardinalityType
  <2>6. opened' \in [Browsers -> 0 .. PageCeiling + 1]
    BY <2>1, <2>5, WorkerAssumption DEF Capped, Counted
  <2> QED
    BY <2>1, <2>3, <2>4, <2>5, <2>6 DEF Counted, CountInv
<1>6. ASSUME NEW b \in Browsers, LaunchFails(b) PROVE Counted'
  <2>1. Thrown(Waiting(b)) /\ UNCHANGED counters
    BY <1>6 DEF LaunchFails
  <2>2. \A c \in Browsers : Holding(c)' = Holding(c) /\ Paging(c)' = Paging(c)
    BY <1>0, <2>1 DEF Thrown, Salvaged, Waiting, Holding, Paging, RenderOK, Browsers
  <2> QED
    BY <2>1, <2>2 DEF Counted, CountInv, counters
<1>7. ASSUME NEW b \in Browsers, Disposed(b) PROVE Counted'
  <2>1. /\ disposing[b] > 0 /\ UNCHANGED <<render, refs, opened>>
        /\ disposing' = [disposing EXCEPT ![b] = @ - 1] /\ active' = [active EXCEPT ![b] = @ - 1]
    BY <1>7 DEF Disposed
  <2>2. \A c \in Browsers : Holding(c)' = Holding(c) /\ Paging(c)' = Paging(c)
    BY <2>1 DEF Holding, Paging, render
  <2> QED
    BY <1>0, <2>1, <2>2 DEF Counted, CountInv
<1> QED
  BY StepKinds, LoopStepFrame, ChromeStepFrame, <1>1, <1>2, <1>3, <1>4, <1>5, <1>6, <1>7

-----------------------------------------------------------------------------
(* Where a running Chrome is known.  A step outside the teardown brings one *)
(* up only as the current one, forgets none that is up, and launches none   *)
(* once the worker drains.                                                  *)
Keeps ==
    /\ UNCHANGED <<draining, phase, awaited>>
    /\ closing \subseteq closing' /\ stray \subseteq stray' /\ unclosed \subseteq unclosed'
    /\ \A b \in Browsers :
         /\ Up(b)' => Up(b) \/ b = current'
         /\ Up(b)' /\ b \in Tracked => b \in Tracked' \cup stray' \cup unclosed'
         /\ draining /\ chrome'[b] \in {"up", "launching"} => chrome[b] \in {"up", "launching"}

(* Placing a job does so when the worker does not drain. *)
LEMMA PlacedKeeps ==
    ASSUME TypeOK, ChromeInv, NEW j \in Jobs, NEW held, NEW b \in Browsers, NEW s,
           Placed(j, held, b, s), UNCHANGED <<closing, teardown>>, ~draining
    PROVE  Keeps
<1>1. \A c \in Browsers : Up(c)' => Up(c)
  <2>1. CASE chrome' = chrome
    BY <2>1 DEF Up
  <2>2. CASE chrome' = [chrome EXCEPT ![b] = "launching"]
    BY <2>2 DEF Up, TypeOK
  <2> QED
    BY <2>1, <2>2 DEF Placed
<1>2. CASE UNCHANGED tracking
  BY <1>1, <1>2 DEF Keeps, Tracked, tracking, teardown
<1>3. CASE current = None /\ UNCHANGED <<retired, current, stray>>
  BY <1>1, <1>3 DEF Keeps, Tracked, teardown
<1>4. CASE current # None /\ Retire(current)
  BY <1>1, <1>4 DEF Keeps, Tracked, Retire, TypeOK, None, Browsers, teardown
<1> QED
  BY <1>2, <1>3, <1>4 DEF Placed

(* And so does every step outside the teardown. *)
LEMMA StepKeeps ==
    ASSUME TypeOK, PlaceInv, ChromeInv, Next, ~TeardownStep
    PROVE  Keeps
<1> USE DEF None
<1>1. ASSUME UNCHANGED <<chrome, tracking, teardown>>, closing \subseteq closing' PROVE Keeps
  BY <1>1 DEF Keeps, Tracked, Up, tracking, teardown
<1>2. CASE LoopStep
  BY <1>1, <1>2, LoopStepFrame
<1>3. CASE Start
  <2>1. GetBrowser(hand, refs) /\ hand \in Jobs /\ UNCHANGED <<closing, teardown>> /\ ~draining
    BY <1>3 DEF Start, StartRefused, TypeOK
  <2> QED
    BY <2>1, GetBrowserPlaces, PlacedKeeps
<1>4. ASSUME NEW j \in Jobs, Rendering(j) PROVE Keeps
  <2>1. CASE ContextMade(j) \/ ContextFails(j) \/ PageOpened(j) \/ RenderEnds(j) \/ Post(j)
    BY <1>1, <2>1 DEF ContextMade, ContextFails, PageOpened, RenderEnds, Post
  <2>2. CASE PageFails(j) \/ RenderRetires(j)
    <3>1. PICK b \in Browsers : b = on[j] /\ chrome[b] \in {"up", "down"}
      BY <2>2 DEF PageFails, RenderRetires, PlaceInv
    <3>2. Retire(b) /\ UNCHANGED <<chrome, closing, launching, aged, teardown>>
      BY <2>2, <3>1 DEF PageFails, RenderRetires
    <3>3. /\ current \in {current', b, None} \cup stray' /\ stray \subseteq stray'
          /\ retired \subseteq retired' /\ b \in retired'
      BY <3>1, <3>2, RetireKnown
    <3> QED
      BY <3>2, <3>3 DEF Keeps, Tracked, Up, Browsers, teardown
  <2>3. CASE VariantDone(j)
    <3>1. UNCHANGED <<closing, teardown>>
      BY <2>3 DEF VariantDone
    <3>2. CASE GetBrowser(j, [refs EXCEPT ![on[j]] = @ - 1]) /\ ~Partial(j)
      BY <3>1, <3>2, GetBrowserPlaces, PlacedKeeps DEF Partial
    <3>3. CASE UNCHANGED <<chrome, tracking>>
      BY <1>1, <3>1, <3>3
    <3> QED
      BY <2>3, <3>2, <3>3 DEF VariantDone
  <2> QED
    BY <1>4, <2>1, <2>2, <2>3 DEF Rendering
<1>5. ASSUME NEW j \in Jobs, LeaseRunsShort(j) PROVE Keeps
  BY <1>1, <1>5 DEF LeaseRunsShort
<1>6. ASSUME NEW b \in Browsers, Launched(b) PROVE Keeps
  <2>1. /\ launching = b /\ current' = b /\ chrome' = [chrome EXCEPT ![b] = "up"]
        /\ UNCHANGED <<retired, stray, teardown>> /\ closing \subseteq closing'
    BY <1>6 DEF Launched, ClosedAtBirth
  <2>2. current = None /\ chrome[b] = "launching"
    BY <2>1 DEF TypeOK, ChromeInv, Browsers
  <2> QED
    BY <2>1, <2>2 DEF Keeps, Tracked, Up, TypeOK, teardown
<1>7. ASSUME NEW b \in Browsers, LaunchFails(b) PROVE Keeps
  BY <1>7 DEF LaunchFails, Keeps, Tracked, Up, TypeOK, teardown
<1>8. ASSUME NEW b \in Browsers, Disposed(b) PROVE Keeps
  BY <1>1, <1>8 DEF Disposed
<1>9. ASSUME NEW b \in Browsers, ChromeStep(b) PROVE Keeps
  <2>1. CASE Reap(b) \/ Age(b) \/ CloseFails(b)
    BY <2>1 DEF Reap, Age, CloseFails, Keeps, Tracked, Up, tracking, teardown
  <2>2. CASE Reaped(b)
    BY <2>2 DEF Reaped, CloseReturned, Keeps, Tracked, Up
  <2>3. CASE ChromeCloses(b) \/ ChromeCrashes(b)
    BY <2>3 DEF ChromeCloses, ChromeCrashes, Keeps, Tracked, Up, tracking, teardown, TypeOK
  <2> QED
    BY <1>9, <2>1, <2>2, <2>3 DEF ChromeStep
<1> QED
  BY StepKinds, <1>2, <1>3, <1>4, <1>5, <1>6, <1>7, <1>8, <1>9

(* No running Chrome is lost sight of, and none is left by a drain. *)
LEMMA TeardownSafe ==
    ASSUME TypeOK, Known, ChromeKnown, TeardownInv, Next
    PROVE  ChromeKnown' /\ TeardownInv' /\ NoChromeLeft'
<1>0. ~Ended
  BY DEF Next
<1>1. CASE ~TeardownStep
  <2>1. Keeps
    BY <1>1, StepKeeps DEF Known
  <2>2. unclosed' \subseteq closing'
    BY KnownStep DEF Known, TrackingOK
  <2>3. ChromeKnown'
    BY <1>0, <2>1, <2>2 DEF Keeps, ChromeKnown, Tracked, Ended, Browsers, None
  <2>4. TeardownInv'
    BY <2>1 DEF Keeps, TeardownInv, Tracked, Browsers, None, TypeOK
  <2>5. NoChromeLeft'
    BY <1>0, <2>1 DEF Keeps, NoChromeLeft, Ended
  <2> QED
    BY <2>3, <2>4, <2>5
<1>2. CASE Terminate
  BY <1>2 DEF Terminate, ChromeKnown, TeardownInv, NoChromeLeft, Ended, Tracked, Up, tracking
<1>3. CASE EndDrain
  <2>1. /\ Destroyed /\ UNCHANGED <<chrome, launching, stray, draining, unclosed>>
        /\ phase = "draining" /\ phase' = "closing" /\ draining
    BY <1>3 DEF EndDrain, TeardownInv
  <2>2. ChromeKnown'
    BY <2>1 DEF Destroyed, ChromeKnown, Tracked, Up, Ended
  <2>3. \A b \in Browsers : chrome[b] \in {"up", "launching"} => b \in awaited' \cup stray \cup unclosed
    BY <2>1 DEF Destroyed, TeardownInv, Known, ChromeInv, Tracked, Up, None, Browsers
  <2>4. TeardownInv' /\ NoChromeLeft'
    BY <2>1, <2>3 DEF TeardownInv, NoChromeLeft
  <2> QED
    BY <2>2, <2>4
<1>4. CASE Uncaught
  <2>1. Destroyed /\ UNCHANGED <<chrome, stray>> /\ phase' = "failing"
    BY <1>4 DEF Uncaught
  <2>2. ChromeKnown'
    BY <1>0, <2>1 DEF Destroyed, ChromeKnown, Tracked, Up
  <2> QED
    BY <2>1, <2>2 DEF TeardownInv, NoChromeLeft
<1>5. CASE Exit
  BY <1>5 DEF Exit, CloseReturned, ChromeKnown, TeardownInv, NoChromeLeft, Ended, Up, tracking
<1>6. CASE FailExit \/ Unhandled
  BY <1>6 DEF FailExit, Unhandled, ChromeKnown, TeardownInv, NoChromeLeft, Ended, Up, tracking
<1>7. CASE ForceExit
  BY <1>7 DEF ForceExit, ChromeKnown, TeardownInv, NoChromeLeft, Ended, Up, tracking
<1> QED
  BY <1>1, <1>2, <1>3, <1>4, <1>5, <1>6, <1>7 DEF TeardownStep

-----------------------------------------------------------------------------
(* The invariant holds at the start, *)
LEMMA InitHolds == ASSUME Init PROVE IInv
<1> USE DEF Init, None, Jobs, Browsers
<1>1. 1 \in Browsers /\ 0 \notin Browsers /\ 0 \notin Jobs
  BY WorkerAssumption
<1>2. Inflight = {} /\ \A b \in Browsers : Holding(b) = {} /\ Paging(b) = {}
  BY DEF Inflight, Holding, Paging
<1>3. Cardinality({}) = 0
  BY FS_EmptySet
<1>4. Pooled = {}
  BY DEF Pooled
<1>5. PipelineOK
  BY <1>4, WorkerAssumption DEF PipelineOK
<1>6. RenderOK
  BY DEF RenderOK
<1>7. CounterOK
  BY WorkerAssumption DEF CounterOK
<1>8. TrackingOK
  <2>1. draining \in BOOLEAN
    BY Zenon
  <2> QED
    BY <1>1, <2>1, WorkerAssumption DEF TrackingOK
<1>9. QueueInv
  BY <1>2, <1>4 DEF QueueInv
<1>10. SlotInv
  BY <1>2, <1>3, WorkerAssumption DEF SlotInv
<1>11. PlaceInv /\ ChromeInv
  BY <1>1 DEF PlaceInv, ChromeInv
<1>12. CountInv
  <2>1. \A b \in Browsers : refs[b] = 0 /\ active[b] = 0 /\ disposing[b] = 0
    OBVIOUS
  <2> HIDE DEF Init, Browsers
  <2> QED
    BY <1>2, <1>3, <2>1 DEF CountInv
<1>13. ChromeKnown /\ TeardownInv /\ NoChromeLeft
  BY DEF ChromeKnown, TeardownInv, NoChromeLeft, Up
<1> QED
  BY TypeParts, <1>5, <1>6, <1>7, <1>8, <1>9, <1>10, <1>11, <1>12, <1>13 DEF IInv

(* and every step keeps it: no counter exceeds the renders under way. *)
LEMMA StepHolds == ASSUME IInv, [Next]_vars PROVE IInv'
<1>1. CASE Next
  <2>1. TypeOK /\ Known /\ Counted /\ QueueInv /\ SlotInv /\ ChromeKnown /\ TeardownInv /\ PlaceInv /\ ChromeInv
    <3>1. Counted
      BY WorkerAssumption DEF IInv, TypeOK, Counted
    <3> QED
      BY <3>1, TypeParts DEF IInv, Known
  <2>2. PipelineOK' /\ QueueInv' /\ SlotInv' /\ RenderOK' /\ Known' /\ Counted'
    BY <1>1, <2>1, QueueStep, SlotStep, RenderTypes, KnownStep, CountStep
  <2>3. ChromeKnown' /\ TeardownInv' /\ NoChromeLeft'
    BY <1>1, <2>1, TeardownSafe
  <2>4. CounterOK'
    <3>1. CountsBounded'
      BY CountsAreBounded, PTL
    <3>2. /\ refs' \in [Browsers -> Int] /\ active' \in [Browsers -> Int]
          /\ opened' \in [Browsers -> 0 .. PageCeiling + 1] /\ disposing' \in [Browsers -> Nat]
          /\ Concurrency \in Nat
      BY <2>2, WorkerAssumption DEF Counted
    <3>3. ASSUME NEW b \in Browsers PROVE refs'[b] \in 0 .. Concurrency /\ active'[b] \in Nat
      <4>1. /\ refs'[b] = Cardinality(Holding(b)') /\ active'[b] = Cardinality(Paging(b)') + disposing'[b]
            /\ Cardinality(Inflight') <= Concurrency
        BY <2>2 DEF Counted, CountInv, SlotInv
      <4>2. /\ Cardinality(Holding(b)') \in Nat /\ Cardinality(Paging(b)') \in Nat /\ Cardinality(Inflight') \in Nat
            /\ Cardinality(Holding(b)') <= Cardinality(Inflight')
        BY <3>1 DEF CountsBounded
      <4> QED
        BY <3>2, <4>1, <4>2
    <3> QED
      BY <3>2, <3>3 DEF CounterOK
  <2>5. TypeOK'
    BY <2>2, <2>4, TypeParts, PTL DEF Known
  <2> QED
    BY <2>2, <2>3, <2>5 DEF Known, Counted, IInv
<1>2. CASE UNCHANGED vars
  <2>1. UNCHANGED <<filler, loop, hand, claimed, pool, depth, fate, late, stage, on, attempted, ctx, chrome, closing,
                    refs, active, opened, disposing, current, launching, retired, aged, stray, draining, phase,
                    awaited, reaping, unclosed, faults>>
    BY <1>2 DEF vars, pipeline, jobs, render, counters, tracking, teardown
  <2>2. /\ UNCHANGED <<Inflight, Pooled, Tracked, Ended>>
        /\ \A b : Holding(b)' = Holding(b) /\ Paging(b)' = Paging(b) /\ Up(b)' = Up(b)
    BY <2>1 DEF Inflight, Pooled, Tracked, Ended, Holding, Paging, Up
  <2>3. TypeOK'
    BY <2>1, <2>2 DEF IInv, TypeOK
  <2>4. (QueueInv /\ SlotInv /\ PlaceInv /\ ChromeInv /\ CountInv)'
    BY <2>1, <2>2 DEF IInv, QueueInv, SlotInv, PlaceInv, ChromeInv, CountInv
  <2>5. (ChromeKnown /\ TeardownInv /\ NoChromeLeft)'
    BY <2>1, <2>2 DEF IInv, ChromeKnown, TeardownInv, NoChromeLeft
  <2> QED
    BY <2>3, <2>4, <2>5 DEF IInv
<1> QED
  BY <1>1, <1>2

(* IInv is an invariant of the worker. *)
LEMMA InvHolds == Spec => []IInv
BY InitHolds, StepHolds, PTL DEF Spec

-----------------------------------------------------------------------------
(* The loops, the renders, the browsers and their counters keep their types *)
(* for any number of jobs, browsers, slots and faults: no browser has more  *)
(* references than there are slots, and no counter of it goes below zero    *)
(* (Worker.ts, ManagedBrowser.ts).                                          *)
THEOREM WorkerTypeCorrect == Spec => []TypeOK
BY InvHolds, PTL DEF IInv

(* However many renders fail late, and on whatever browsers, a running      *)
(* Chrome the worker has lost sight of was in use when a browser reaped     *)
(* before was retired again (Worker.ts retireBrowser).                      *)
THEOREM WorkerChromeKnown == Spec => []ChromeKnown
BY InvHolds, PTL DEF IInv

(* Whatever is being rendered, launched or closed when SIGTERM comes, an    *)
(* exit after the drain leaves no other Chrome behind, but for one whose    *)
(* close() failed (Worker.ts shutdown, destroy, start).                     *)
THEOREM WorkerNoChromeLeft == Spec => []NoChromeLeft
BY InvHolds, PTL DEF IInv

(* However the loops, the renders and the faults wake and stop each other, a *)
(* job is in one place, no more renders are under way than there are slots,  *)
(* and each browser's two counters count its renders and its pages           *)
(* (asyncQueue.ts, Worker.ts run and admit, ManagedBrowser.ts).              *)
THEOREM WorkerCountsTrue == Spec => [](QueueInv /\ SlotInv /\ CountInv)
BY InvHolds, PTL DEF IInv

(* Idle counters mean idle: a step that closes a retired browser before its *)
(* deadline closes one no render has a page on.                             *)
LEMMA StepReapsIdle ==
    ASSUME IInv, [Next]_vars
    PROVE  \A b \in retired : b \in closing' \ (closing \cup aged) /\ phase' = phase =>
             /\ \A j \in Jobs : on[j] = b => stage[j] \notin {"page", "render", "close"}
             /\ disposing[b] = 0
<1> SUFFICES ASSUME NEW b \in retired, b \in closing' \ (closing \cup aged), phase' = phase
             PROVE  /\ \A j \in Jobs : on[j] = b => stage[j] \notin {"page", "render", "close"}
                    /\ disposing[b] = 0
  OBVIOUS
<1>1. b \in Browsers /\ chrome[b] \in {"up", "down"}
  BY DEF IInv, TypeOK, ChromeInv
<1>2. Reap(b)
  <2>1. Next /\ closing' # closing
    BY DEF vars
  <2>2. ~LoopStep
    BY <2>1, LoopStepFrame
  <2>3. ~Start /\ \A j \in Jobs : ~Rendering(j) /\ ~LeaseRunsShort(j)
    BY <2>1 DEF Start, Rendering, ContextMade, ContextFails, PageOpened, PageFails, RenderEnds, RenderRetires,
                VariantDone, Post, LeaseRunsShort
  <2>4. \A c \in Browsers : ~LaunchFails(c) /\ ~Disposed(c)
    BY <2>1 DEF LaunchFails, Disposed
  <2>5. \A c \in Browsers : ~Launched(c)
    BY <1>1 DEF Launched, ClosedAtBirth, IInv, ChromeInv
  <2>6. ~TeardownStep
    BY <2>1 DEF TeardownStep, Terminate, EndDrain, Uncaught, Unhandled, Exit, FailExit, ForceExit, Destroyed, Next, Ended
  <2>7. PICK c \in Browsers : ChromeStep(c)
    BY <2>1, <2>2, <2>3, <2>4, <2>5, <2>6, StepKinds
  <2>8. Reap(c) /\ closing' = closing \cup {c}
    BY <2>1, <2>7 DEF ChromeStep, Reap, Reaped, ChromeCloses, CloseFails, ChromeCrashes, Age
  <2> QED
    BY <2>8
<1>3. active[b] = 0 /\ refs[b] = 0
  BY <1>2 DEF Reap, Reapable, Idle
<1>4. Cardinality(Holding(b)) = 0 /\ disposing[b] = 0
  BY <1>1, <1>3, CountsAreBounded DEF CountsBounded, IInv, CountInv, TypeOK
<1>5. Holding(b) = {}
  BY <1>4, JobSetsFinite, FS_EmptySet
<1> QED
  BY <1>4, <1>5 DEF Holding

(* With any number of renders on it, failing, closing or waiting for a      *)
(* page's close event, a retired browser is closed before its deadline only *)
(* when its counters have come down to what they count: nothing (Worker.ts  *)
(* closeRetiredBrowsers).                                                   *)
THEOREM WorkerReapedIdle == Spec => ReapedIdle
<1>1. IInv /\ [Next]_vars => [\A b \in retired : b \in closing' \ (closing \cup aged) /\ phase' = phase =>
         /\ \A j \in Jobs : on[j] = b => stage[j] \notin {"page", "render", "close"}
         /\ disposing[b] = 0]_vars
  BY StepReapsIdle
<1> QED
  BY <1>1, InvHolds, PTL DEF Spec, ReapedIdle
=============================================================================
