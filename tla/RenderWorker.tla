---------------------------- MODULE RenderWorker -----------------------------
(***************************************************************************)
(* packages/browser/src/Worker.ts, ManagedBrowser.ts, util/asyncQueue.ts   *)
(* and errorHandler.ts: one worker of the render fleet.  A filler pulls    *)
(* claimed jobs into a bounded pool, a loop takes them one by one as slots *)
(* free, each render goes through its job's variants on the shared         *)
(* browser, and a browser that failed or has opened enough pages is        *)
(* retired, reaped when idle, and replaced.  SIGTERM drains and tears      *)
(* down.  An action is what runs between two awaits on something outside   *)
(* the process.  A wipe of a shared context that fails, and the fetch of a *)
(* document, are left out.                                                 *)
(***************************************************************************)
EXTENDS Naturals, Sequences, FiniteSets

CONSTANTS
    NumJobs,        \* bound: jobs the consumer yields
    Variants,       \* [job -> number of devices to render]
    Sharing,        \* jobs whose variants share a browser context
    NumBrowsers,    \* bound: launches
    Concurrency,    \* CONCURRENCY
    Depth,          \* prefetch.depth
    MaxDepth,       \* prefetch.maxDepth
    PageCeiling,    \* BROWSER_MAX_TOTAL_PAGES
    MaxFaults,      \* bound: failed launches, pages and closes, renders timed out, crashes, uncaught errors
    ShortLeases     \* bound: jobs whose lease may run short

Jobs == 1 .. NumJobs
Browsers == 1 .. NumBrowsers
None == 0

(* start() launches a browser before anything else; the configuration is     *)
(* refused unless prefetch.maxDepth >= depth (packages/browser config.ts).   *)
ASSUME WorkerAssumption ==
    /\ {NumJobs, Concurrency, PageCeiling, MaxFaults} \subseteq Nat
    /\ NumBrowsers \in Nat \ {0}
    /\ Depth \in Nat /\ MaxDepth \in Nat /\ Depth <= MaxDepth

VARIABLES
    filler, loop, hand,          \* the two loops of run(), the job the second one holds
    claimed, pool, depth,        \* jobs pulled, the pool and its capacity
    fate, late,                  \* of each job: how it ended, its lease has too little left
    stage, on, attempted, ctx,   \* of its render: place, browser, variants attempted, browser of the session's context
    chrome, closing,             \* of each browser: its process, close() was called
    refs, active, opened,        \* jobRefs, activePages, totalOpenedPages
    disposing,                   \* pages told to close whose close event is still to come
    current, launching,          \* this.browser, this.browserPromise
    retired, aged,               \* retiredBrowsers, those in it for RETIRED_BROWSER_MAX_MS
    draining, phase,             \* shuttingDown, how far a teardown is
    awaited,                     \* the browsers destroy() is closing
    reaping, unclosed,           \* those closeRetiredBrowsers is closing, those whose close() has failed
    faults,
    stray                        \* history: browsers in use when one reaped before was retired again

pipeline == <<filler, loop, hand, claimed, pool, depth>>
jobs     == <<fate, late>>
render   == <<stage, on, attempted, ctx>>
counters == <<refs, active, opened, disposing>>
tracking == <<current, launching, retired, aged, stray>>
teardown == <<draining, phase, awaited, reaping, unclosed>>
vars == <<pipeline, jobs, render, chrome, closing, counters, tracking, teardown, faults>>

Inflight == {j \in Jobs : stage[j] # "none"}
Pooled == {pool[i] : i \in 1 .. Len(pool)}
Closed == filler = "end"          \* the filler closes the pool as it ends
Fault == faults < MaxFaults /\ faults' = faults + 1
Up(b) == chrome[b] = "up"
Fresh == {b \in Browsers : chrome[b] = "none"}

Init ==
    /\ filler = "boot" /\ loop = "boot" /\ hand = None
    /\ claimed = 0 /\ pool = << >> /\ depth = Depth
    /\ fate = [j \in Jobs |-> "none"] /\ late = {}
    /\ stage = [j \in Jobs |-> "none"]
    /\ on = [j \in Jobs |-> None] /\ attempted = [j \in Jobs |-> 0] /\ ctx = [j \in Jobs |-> None]
    /\ chrome = [b \in Browsers |-> IF b = 1 THEN "launching" ELSE "none"]
    /\ closing = {}
    /\ refs = [b \in Browsers |-> 0] /\ active = refs /\ opened = refs /\ disposing = refs
    /\ current = None /\ launching = 1
    /\ retired = {} /\ aged = {} /\ stray = {}
    /\ draining = FALSE /\ phase = "running" /\ awaited = {} /\ reaping = {} /\ unclosed = {}
    /\ faults = 0

-----------------------------------------------------------------------------
(* The pool, and the two loops that share it. *)

Room(p) == Len(p) < depth

(* waitForRoom, after a pull that has left the pool p. *)
FillerNext(p) == IF draining THEN "end" ELSE IF Room(p) THEN "pull" ELSE "blocked"

(* The consumer yields a job: abandoned, skipped, handed to a waiting take, or pooled. *)
FillerPulls ==
    /\ filler = "pull" /\ claimed < NumJobs
    /\ claimed' = claimed + 1
    /\ LET j == claimed + 1 IN
         \/ /\ draining
            /\ fate' = [fate EXCEPT ![j] = "abandoned"]
            /\ loop' = IF loop = "waiting" THEN "end" ELSE loop
            /\ UNCHANGED <<hand, pool>>
         \/ /\ ~draining /\ j \in late
            /\ fate' = [fate EXCEPT ![j] = "skipped"]
            /\ UNCHANGED <<loop, hand, pool>>
         \/ /\ ~draining /\ j \notin late /\ loop = "waiting"
            /\ loop' = "pace" /\ hand' = j
            /\ UNCHANGED <<fate, pool>>
         \/ /\ ~draining /\ j \notin late /\ loop # "waiting"
            /\ pool' = Append(pool, j)
            /\ UNCHANGED <<fate, loop, hand>>
    /\ filler' = FillerNext(pool')
    /\ UNCHANGED <<depth, late, render, chrome, closing, counters, tracking, teardown, faults>>

(* The aborted consumer ends: the pool is closed. *)
FillerEnds ==
    /\ filler = "pull" /\ draining
    /\ filler' = "end"
    /\ loop' = IF loop = "waiting" THEN "end" ELSE loop
    /\ UNCHANGED <<hand, claimed, pool, depth, jobs, render, chrome, closing, counters, tracking, teardown, faults>>

(* Mutant: a take leaves the filler asleep. *)
WokenNever == filler

Woken == IF filler = "blocked" THEN "pull" ELSE filler

(* A slot is free (the loop is the only one to add to inflight): the oldest  *)
(* job is taken, and dropped at shutdown, skipped for its lease, or paced.   *)
Drop(j, how) == fate' = [fate EXCEPT ![j] = how] /\ UNCHANGED <<hand, loop>>

TakeJob ==
    /\ loop = "slot" /\ Cardinality(Inflight) < Concurrency
    /\ pool # << >>
    /\ pool' = Tail(pool) /\ filler' = Woken
    /\ LET j == Head(pool) IN
         \/ draining /\ Drop(j, "abandoned")
         \/ ~draining /\ j \in late /\ Drop(j, "skipped")
         \/ ~draining /\ j \notin late /\ hand' = j /\ loop' = "pace" /\ UNCHANGED fate
    /\ UNCHANGED <<claimed, depth, late, render, chrome, closing, counters, tracking, teardown, faults>>

TakeNone ==
    /\ loop = "slot" /\ Cardinality(Inflight) < Concurrency
    /\ pool = << >>
    /\ loop' = IF Closed THEN "end" ELSE "waiting"
    /\ UNCHANGED <<filler, hand, claimed, pool, depth, jobs, render, chrome, closing, counters, tracking, teardown, faults>>

-----------------------------------------------------------------------------
(* getBrowser, for the next variant of job j; held is jobRefs before it. *)

(* On the browser b: a context of the session first, or the page. *)
NeedsContext(j, b) == j \in Sharing /\ ctx[j] # b

(* Pages opened are counted until there are too many. *)
Capped(n) == IF n > PageCeiling THEN PageCeiling + 1 ELSE n

OpenPage(j, b, held) ==
    /\ refs' = [held EXCEPT ![b] = @ + 1]
    /\ active' = [active EXCEPT ![b] = @ + 1]
    /\ opened' = [opened EXCEPT ![b] = Capped(@ + 1)]
    /\ stage' = [stage EXCEPT ![j] = "page"]

UseBrowser(j, held) ==
    /\ current # None /\ opened[current] <= PageCeiling
    /\ on' = [on EXCEPT ![j] = current]
    /\ IF NeedsContext(j, current)
         THEN stage' = [stage EXCEPT ![j] = "context"] /\ refs' = held /\ UNCHANGED <<active, opened>>
         ELSE OpenPage(j, current, held)
    /\ UNCHANGED <<chrome, tracking>>

WaitForLaunch(j, held) ==
    /\ current = None /\ launching # None
    /\ on' = [on EXCEPT ![j] = launching]
    /\ stage' = [stage EXCEPT ![j] = "launch"]
    /\ refs' = held
    /\ UNCHANGED <<chrome, active, opened, tracking>>

(* Mutant: a browser retired stays in use. *)
RetireKeepsCurrent(b) ==
    /\ retired' = retired \cup {b}
    /\ UNCHANGED <<current, stray>>

(* Mutant: a browser retired is forgotten. *)
RetireForgets(b) ==
    /\ current' = None
    /\ UNCHANGED <<retired, stray>>

(* retireBrowser drops the browser in use, be it b or not. *)
Retire(b) ==
    IF b \in retired
      THEN UNCHANGED <<retired, current, stray>>
      ELSE /\ retired' = retired \cup {b}
           /\ current' = None
           /\ stray' = stray \cup ({current} \ {None, b})

Launch(j, held) ==
    /\ \/ current = None /\ launching = None /\ UNCHANGED <<retired, current, stray>>
       \/ current # None /\ opened[current] > PageCeiling /\ Retire(current)
    /\ \E b \in Fresh :
         /\ \A c \in Fresh : b <= c
         /\ chrome' = [chrome EXCEPT ![b] = "launching"]
         /\ launching' = b
         /\ on' = [on EXCEPT ![j] = b]
    /\ stage' = [stage EXCEPT ![j] = "launch"]
    /\ refs' = held
    /\ UNCHANGED <<active, opened, aged>>

GetBrowser(j, held) ==
    /\ UseBrowser(j, held) \/ WaitForLaunch(j, held) \/ Launch(j, held)
    /\ UNCHANGED disposing

(* The launch is done: it is the current browser, and all who waited go on. *)
Waiting(b) == {j \in Jobs : stage[j] = "launch" /\ on[j] = b}

Booted ==
    /\ filler' = IF filler = "boot" THEN FillerNext(pool) ELSE filler
    /\ loop' = IF loop = "boot" THEN "slot" ELSE loop
    /\ UNCHANGED <<hand, claimed, pool, depth>>

ClosedAtBirth(b) == IF b \in awaited THEN closing \cup {b} ELSE closing

Launched(b) ==
    /\ launching = b
    /\ chrome' = [chrome EXCEPT ![b] = "up"]
    /\ closing' = ClosedAtBirth(b)
    /\ launching' = None /\ current' = b
    /\ LET paging == {j \in Waiting(b) : ~NeedsContext(j, b)} IN
         /\ stage' = [j \in Jobs |-> IF j \notin Waiting(b) THEN stage[j]
                                     ELSE IF j \in paging THEN "page" ELSE "context"]
         /\ refs' = [refs EXCEPT ![b] = Cardinality(paging)]
         /\ active' = [active EXCEPT ![b] = Cardinality(paging)]
         /\ opened' = [opened EXCEPT ![b] = Capped(Cardinality(paging))]
    /\ Booted
    /\ UNCHANGED <<jobs, on, attempted, ctx, disposing, retired, aged, stray, teardown, faults>>

(* A variant that gets no browser, or no context, throws: the job posts what it has, if anything. *)

Salvaged(j) == attempted[j] > 0

Thrown(js) ==
    /\ stage' = [j \in Jobs |-> IF j \notin js THEN stage[j] ELSE IF Salvaged(j) THEN "post" ELSE "none"]
    /\ fate' = [j \in Jobs |-> IF j \in js /\ ~Salvaged(j) THEN "failed" ELSE fate[j]]
    /\ on' = [j \in Jobs |-> IF j \in js THEN None ELSE on[j]]
    /\ ctx' = [j \in Jobs |-> IF j \in js THEN None ELSE ctx[j]]

LaunchFails(b) ==
    /\ launching = b /\ Fault
    /\ chrome' = [chrome EXCEPT ![b] = "down"]
    /\ launching' = None
    /\ Thrown(Waiting(b))
    /\ Booted
    /\ UNCHANGED <<late, attempted, closing, counters, current, retired, aged, stray, teardown>>

-----------------------------------------------------------------------------
(* The render of a job: its variants in turn, then one post. *)

(* Mutant: the pacing delay is not followed by a second look at shuttingDown. *)
StartRefusedNever == FALSE

StartRefused == draining

StartDropped ==
    /\ loop = "pace" /\ StartRefused
    /\ fate' = [fate EXCEPT ![hand] = "abandoned"]
    /\ hand' = None /\ loop' = "slot"
    /\ UNCHANGED <<filler, claimed, pool, depth, late, render, chrome, closing, counters, tracking, teardown, faults>>

Start ==
    /\ loop = "pace" /\ ~StartRefused
    /\ GetBrowser(hand, refs)
    /\ hand' = None /\ loop' = "slot"
    /\ UNCHANGED <<filler, claimed, pool, depth, jobs, attempted, ctx, closing, teardown, faults>>

ContextMade(j) ==
    /\ stage[j] = "context" /\ Up(on[j])
    /\ ctx' = [ctx EXCEPT ![j] = on[j]]
    /\ OpenPage(j, on[j], refs)
    /\ UNCHANGED <<pipeline, jobs, on, attempted, chrome, closing, disposing, tracking, teardown, faults>>

ContextFails(j) ==
    /\ stage[j] = "context"
    /\ IF Up(on[j]) THEN Fault ELSE UNCHANGED faults
    /\ Thrown({j})
    /\ UNCHANGED <<pipeline, late, attempted, chrome, closing, counters, tracking, teardown>>

PageOpened(j) ==
    /\ stage[j] = "page" /\ Up(on[j])
    /\ stage' = [stage EXCEPT ![j] = "render"]
    /\ UNCHANGED <<pipeline, jobs, on, attempted, ctx, chrome, closing, counters, tracking, teardown, faults>>

(* getPage throws: the browser is retired, the variant is over. *)
PageFails(j) ==
    /\ stage[j] = "page"
    /\ IF Up(on[j]) THEN Fault ELSE UNCHANGED faults
    /\ Retire(on[j])
    /\ active' = [active EXCEPT ![on[j]] = @ - 1]
    /\ stage' = [stage EXCEPT ![j] = "close"]
    /\ UNCHANGED <<pipeline, jobs, on, attempted, ctx, chrome, closing, refs, opened, disposing, launching, aged, teardown>>

(* The page is told to close, whose close event is another matter. *)
ToClose(j) ==
    /\ stage' = [stage EXCEPT ![j] = "close"]
    /\ disposing' = [disposing EXCEPT ![on[j]] = @ + 1]

(* A render that ends well, or with an error that leaves the browser in use. *)
RenderEnds(j) ==
    /\ stage[j] = "render"
    /\ ToClose(j)
    /\ UNCHANGED <<pipeline, jobs, on, attempted, ctx, chrome, closing, refs, active, opened, tracking, teardown, faults>>

(* A timeout or a protocol error retires the browser. *)
RenderRetires(j) ==
    /\ stage[j] = "render" /\ ~draining
    /\ IF Up(on[j]) THEN Fault ELSE UNCHANGED faults
    /\ Retire(on[j])
    /\ ToClose(j)
    /\ UNCHANGED <<pipeline, jobs, on, attempted, ctx, chrome, closing, refs, active, opened, launching, aged, teardown>>

(* The page is closed and the job's reference dropped: the next variant, or the post. *)
Partial(j) == j \in late \/ draining

VariantDone(j) ==
    /\ stage[j] = "close"
    /\ attempted' = [attempted EXCEPT ![j] = @ + 1]
    /\ LET held == [refs EXCEPT ![on[j]] = @ - 1] IN
         \/ /\ attempted'[j] < Variants[j] /\ ~Partial(j)
            /\ GetBrowser(j, held)
            /\ UNCHANGED ctx
         \/ /\ attempted'[j] = Variants[j] \/ Partial(j)
            /\ stage' = [stage EXCEPT ![j] = "post"]
            /\ refs' = held
            /\ ctx' = [ctx EXCEPT ![j] = None]
            /\ on' = [on EXCEPT ![j] = None]
            /\ UNCHANGED <<chrome, active, opened, disposing, tracking>>
    /\ UNCHANGED <<pipeline, jobs, closing, teardown, faults>>

(* The page's close event has disposed its context. *)
Disposed(b) ==
    /\ disposing[b] > 0
    /\ disposing' = [disposing EXCEPT ![b] = @ - 1]
    /\ active' = [active EXCEPT ![b] = @ - 1]
    /\ UNCHANGED <<pipeline, jobs, render, chrome, closing, refs, opened, tracking, teardown, faults>>

(* A render whose document came late deepens the pool. *)
Post(j) ==
    /\ stage[j] = "post"
    /\ stage' = [stage EXCEPT ![j] = "none"]
    /\ fate' = [fate EXCEPT ![j] = "posted"]
    /\ \/ depth < MaxDepth /\ depth' = depth + 1 /\ filler' = Woken
       \/ UNCHANGED <<depth, filler>>
    /\ UNCHANGED <<loop, hand, claimed, pool, late, on, attempted, ctx, chrome, closing, counters, tracking, teardown, faults>>

-----------------------------------------------------------------------------
(* closeRetiredBrowsers, every ten seconds until a teardown. *)

(* Mutant: either counter at zero is idle. *)
IdleEither(b) == active[b] = 0 \/ refs[b] = 0

Idle(b) == active[b] = 0 /\ refs[b] = 0

(* Mutant: a browser that never goes idle is left. *)
ReapableIdle(b) == Idle(b)

Reapable(b) == Idle(b) \/ b \in aged

Reap(b) ==
    /\ phase \in {"running", "draining"}
    /\ b \in retired \ closing /\ Reapable(b)
    /\ closing' = closing \cup {b} /\ reaping' = reaping \cup {b}
    /\ UNCHANGED <<pipeline, jobs, render, chrome, counters, tracking, draining, phase, awaited, unclosed, faults>>

(* close() has returned.  A browser retired again after that stays retired, for it is not closed twice. *)
CloseReturned(b) == chrome[b] = "down" \/ b \in unclosed

Reaped(b) ==
    /\ b \in reaping /\ CloseReturned(b)
    /\ reaping' = reaping \ {b}
    /\ retired' = retired \ {b}
    /\ aged' = aged \ {b}
    /\ UNCHANGED <<pipeline, jobs, render, chrome, closing, counters, current, launching, stray, draining, phase,
                   awaited, unclosed, faults>>

(* By itself, or killed by the timer close() leaves behind. *)
ChromeCloses(b) ==
    /\ Up(b) /\ b \in closing
    /\ chrome' = [chrome EXCEPT ![b] = "down"]
    /\ UNCHANGED <<pipeline, jobs, render, closing, counters, tracking, teardown, faults>>

(* close() swallows the error and returns, with Chrome still up. *)
CloseFails(b) ==
    /\ Up(b) /\ b \in closing \ unclosed /\ Fault
    /\ unclosed' = unclosed \cup {b}
    /\ UNCHANGED <<pipeline, jobs, render, chrome, closing, counters, tracking, draining, phase, awaited, reaping>>

ChromeCrashes(b) ==
    /\ Up(b) /\ Fault
    /\ chrome' = [chrome EXCEPT ![b] = "down"]
    /\ UNCHANGED <<pipeline, jobs, render, closing, counters, tracking, teardown>>

Age(b) ==
    /\ b \in retired \ aged
    /\ aged' = aged \cup {b}
    /\ UNCHANGED <<pipeline, jobs, render, chrome, closing, counters, current, launching, retired, stray, teardown, faults>>

LeaseRunsShort(j) ==
    /\ j \notin late /\ fate[j] = "none" /\ j \in ShortLeases
    /\ late' = late \cup {j}
    /\ UNCHANGED <<pipeline, fate, render, chrome, closing, counters, tracking, teardown, faults>>

-----------------------------------------------------------------------------
(* SIGTERM: shutdown(), destroy(), exit.  An uncaught exception destroys without draining, an  *)
(* unhandled rejection not even that.                                                          *)

Tracked == (retired \cup {current}) \ {None}

(* Mutant: the launch under way is not looked at. *)
DestroyedIgnoringLaunch ==
    /\ closing' = closing \cup Tracked
    /\ awaited' = Tracked
    /\ current' = None /\ retired' = {} /\ aged' = {}

Destroyed ==
    /\ closing' = closing \cup Tracked
    /\ awaited' = (Tracked \cup {launching}) \ {None}
    /\ current' = None /\ retired' = {} /\ aged' = {}

(* A signal after an uncaught exception drains too, but the exit does not wait for it. *)
Terminate ==
    /\ ~draining
    /\ phase' = IF phase = "running" THEN "draining" ELSE phase
    /\ draining' = TRUE
    /\ UNCHANGED <<pipeline, jobs, render, chrome, closing, counters, tracking, awaited, reaping, unclosed, faults>>

(* The renders under way are over, or the drain has taken too long: at any time. *)
EndDrain ==
    /\ phase = "draining"
    /\ Destroyed /\ phase' = "closing"
    /\ UNCHANGED <<pipeline, jobs, render, chrome, counters, launching, stray, draining, reaping, unclosed, faults>>

Uncaught ==
    /\ phase # "failing" /\ Fault
    /\ Destroyed /\ phase' = "failing"
    /\ UNCHANGED <<pipeline, jobs, render, chrome, counters, launching, stray, draining, reaping, unclosed>>

(* Every close that destroy() awaits has returned. *)
Exit ==
    /\ phase = "closing" /\ \A b \in awaited : CloseReturned(b)
    /\ phase' = "exited"
    /\ UNCHANGED <<pipeline, jobs, render, chrome, closing, counters, tracking, draining, awaited, reaping, unclosed,
                   faults>>

(* After an uncaught exception: when destroy() is done, or a second later whatever it has done. *)
FailExit ==
    /\ phase = "failing"
    /\ phase' = "failed"
    /\ UNCHANGED <<pipeline, jobs, render, chrome, closing, counters, tracking, draining, awaited, reaping, unclosed,
                   faults>>

(* A second after an unhandled rejection, of which only ErrorHandler takes notice. *)
Unhandled ==
    /\ Fault
    /\ phase' = "failed"
    /\ UNCHANGED <<pipeline, jobs, render, chrome, closing, counters, tracking, draining, awaited, reaping, unclosed>>

(* A second signal, or the backstop: killBrowsersSync, and exit. *)
ForceExit ==
    /\ draining
    /\ chrome' = [b \in Browsers |-> IF b \in Tracked THEN "down" ELSE chrome[b]]
    /\ closing' = closing \cup Tracked
    /\ phase' = "forced"
    /\ UNCHANGED <<pipeline, jobs, render, counters, tracking, draining, awaited, reaping, unclosed, faults>>

-----------------------------------------------------------------------------
Ended == phase \in {"exited", "failed", "forced"}

Loops == FillerPulls \/ FillerEnds \/ TakeJob \/ TakeNone \/ StartDropped \/ Start

Rendering(j) ==
    \/ ContextMade(j) \/ ContextFails(j) \/ PageOpened(j) \/ PageFails(j) \/ RenderEnds(j)
    \/ RenderRetires(j) \/ VariantDone(j) \/ Post(j)

Next ==
    /\ ~Ended
    /\ \/ Loops
       \/ \E j \in Jobs : Rendering(j) \/ LeaseRunsShort(j)
       \/ \E b \in Browsers :
            \/ Launched(b) \/ LaunchFails(b) \/ Disposed(b) \/ Reap(b) \/ Reaped(b)
            \/ ChromeCloses(b) \/ CloseFails(b) \/ ChromeCrashes(b) \/ Age(b)
       \/ Terminate \/ EndDrain \/ Uncaught \/ Unhandled \/ Exit \/ FailExit \/ ForceExit

Spec == Init /\ [][Next]_vars

(* What is sure to come: launches, renders, closes and the loops go on, a    *)
(* retired browser ages, the reaper runs.  A page's close event is not, and  *)
(* no fault is.  No step is ever undone, so that fairness of the disjunction *)
(* is fairness of each.                                                      *)
Scheduled ==
    \/ Loops
    \/ \E j \in Jobs :
         \/ ContextMade(j) \/ PageOpened(j) \/ RenderEnds(j) \/ VariantDone(j) \/ Post(j)
         \/ on[j] # None /\ ~Up(on[j]) /\ (ContextFails(j) \/ PageFails(j))
    \/ \E b \in Browsers : Launched(b) \/ Age(b) \/ Reap(b) \/ Reaped(b) \/ ChromeCloses(b)

FairSpec == Spec /\ WF_vars(~Ended /\ Scheduled)

-----------------------------------------------------------------------------
TypeOK ==
    /\ filler \in {"boot", "blocked", "pull", "end"}
    /\ loop \in {"boot", "slot", "waiting", "pace", "end"}
    /\ hand \in Jobs \cup {None} /\ (hand # None <=> loop = "pace")
    /\ claimed \in 0 .. NumJobs /\ Pooled \subseteq 1 .. claimed /\ depth \in Depth .. MaxDepth
    /\ fate \in [Jobs -> {"none", "skipped", "abandoned", "failed", "posted"}]
    /\ late \subseteq Jobs
    /\ stage \in [Jobs -> {"none", "launch", "context", "page", "render", "close", "post"}]
    /\ on \in [Jobs -> Browsers \cup {None}] /\ ctx \in [Jobs -> Browsers \cup {None}]
    /\ attempted \in [Jobs -> Nat]
    /\ chrome \in [Browsers -> {"none", "launching", "up", "down"}] /\ closing \subseteq Browsers
    /\ refs \in [Browsers -> 0 .. Concurrency] /\ active \in [Browsers -> Nat]
    /\ opened \in [Browsers -> 0 .. PageCeiling + 1] /\ disposing \in [Browsers -> Nat]
    /\ {current, launching} \subseteq Browsers \cup {None} /\ None \in {current, launching}
    /\ aged \subseteq retired /\ retired \subseteq Browsers /\ current \notin retired
    /\ stray \subseteq Browsers /\ awaited \subseteq Browsers
    /\ draining \in BOOLEAN
    /\ phase \in {"running", "draining", "closing", "failing", "exited", "failed", "forced"}
    /\ reaping \subseteq closing /\ unclosed \subseteq closing
    /\ faults \in 0 .. MaxFaults

(* Every running Chrome is one the worker still knows of: the current one,   *)
(* a retired one or one told to close - but for the one in use when a        *)
(* browser reaped before is retired a second time (Worker.ts retireBrowser). *)
ChromeKnown ==
    ~Ended => \A b \in Browsers : Up(b) => b \in closing \cup Tracked \cup stray

(* A worker that has drained and exits leaves no Chrome behind, running or   *)
(* launching, whatever the teardown met, but for one whose close() failed    *)
(* (Worker.ts shutdown, destroy, start, ManagedBrowser.ts close).            *)
NoChromeLeft ==
    phase = "exited" => \A b \in Browsers : chrome[b] \in {"up", "launching"} => b \in stray \cup unclosed

(* A retired browser is closed before its deadline only when no render has   *)
(* a page on it, open, opening or closing (Worker.ts closeRetiredBrowsers).  *)
ReapedIdle ==
    [][\A b \in retired : b \in closing' \ (closing \cup aged) /\ phase' = phase =>
         /\ \A j \in Jobs : on[j] = b => stage[j] \notin {"page", "render", "close"}
         /\ disposing[b] = 0]_vars

(* Every job the consumer has is in the end pulled, and posted, skipped or   *)
(* failed, or the worker is torn down: neither loop sleeps through its turn, *)
(* no render keeps its slot for ever (Worker.ts run, asyncQueue.ts).         *)
JobsSettle == <>(phase # "running" \/ \A j \in Jobs : fate[j] # "none")

(* Retired browsers are in the end closed, even one with a page whose close  *)
(* event never comes or whose close() failed, or the worker is torn down:    *)
(* none runs for ever (Worker.ts closeRetiredBrowsers, ManagedBrowser.ts).   *)
RetiredReaped ==
    []<>(phase \notin {"running", "draining"} \/ \A b \in retired \cup unclosed : chrome[b] = "down")
=============================================================================
