---------------------------- MODULE RenderQueue ----------------------------
(***************************************************************************)
(* The render cycle of one URL: its RenderSchedule row, the claim that     *)
(* leases it (util/renderSchedule.js claimSchedules), the renders the      *)
(* fleet makes of it, and the results it posts back                        *)
(* (resources/RenderQueue.js processJobResult), beside the change probe,   *)
(* callers asking for a render, lost and repeated results, failing commits *)
(* and restarts of the node.  URLs share no state of the cycle: their      *)
(* competition for slots and ready-set entries is in RenderLease and       *)
(* ReadyQueue, whose lease is one atomic word here.                        *)
(*                                                                         *)
(* The code compares instants (a grant, a mark, an ask, the start of a     *)
(* render) and due minutes only for order and equality, so the model keeps *)
(* the outcome of the comparison instead of a clock: row.same says that    *)
(* the row's due minute is the one the latest lease was granted for, and a *)
(* render carries which marks were filed after its grant and its fetch.    *)
(***************************************************************************)
EXTENDS Integers, FiniteSets

CONSTANTS
    Claims,        \* claims in progress (workers answering the fleet)
    Jobs,          \* renders the fleet can have in hand
    Results,       \* result requests being handled
    FastRetries,   \* render.failureRetry.fastRetries
    MaxMisses,     \* bound: the miss count is told apart up to this
    MaxEvents,     \* bound: changes of the origin's page and renders asked for
    MaxRestarts    \* bound: restarts of the node

MissLimit == FastRetries + 1

ASSUME CycleAssumption ==
    /\ {FastRetries, MaxMisses, MaxEvents, MaxRestarts} \subseteq Nat
    /\ MaxMisses > MissLimit

VARIABLES
    row,       \* the committed schedule row
    lease,     \* the key's slot in the lease table
    misses,    \* ... its miss count
    leftDue,   \* ... its granted due minute is forgotten (GRANT_LEFT_DUE)
    strikes,   \* the target's strike count
    page,      \* what the cached page shows
    filing,    \* due-now filings that have read the row and not put it yet
    claims, jobs, results,
    events, restarts,  \* counters, for the bounds
    \* history
    streak,    \* leases granted since the row last moved or the key was held,
               \* but for those whose result left the row due on purpose
    landed,    \* a failure that keeps the latest lease, decided while it was live, is committed
    cause,     \* since the misses were reset a lease ran out unanswered, or was
               \* released with the row still, or again, due at its minute, or the
               \* result of an older lease wrote the strikes, or one that cleared
               \* them left the misses to be carried
    raced      \* since the latest lease's render was stored a mark was overwritten by a
               \* writer that had read the row before it, or the page by such a result;
               \* or either was by a result of another render: one that arrived after a
               \* restart, or after a later grant without proof that it was older, or
               \* was overtaken by a grant while handled

table == <<lease, misses, leftDue>>
counters == <<events, restarts>>
history == <<streak, landed, cause, raced>>
vars == <<row, table, strikes, page, filing, claims, jobs, results, counters, history>>

\* What a render (or the page) shows, against the origin: the current document,
\* one the origin has changed since, one it has changed since and the probe has
\* found changed, or one found changed while the row still carried a mark filed
\* before the render's grant.  A render that has fetched none, or failed, shows nothing.
Shows == {"nothing", "current", "changed", "found", "missed"}
Aged(shows) == IF shows = "current" THEN "changed" ELSE shows
FoundOut(shows, since) ==
    IF shows # "changed" THEN shows
    ELSE IF row.mark /\ "mark" \notin since THEN "missed" ELSE "found"

\* Slots: none, a live lease, an expired one, a released one in its grace and
\* after it, one released when it had run out, a key held back and one whose
\* hold has ended.
LeaseStates == {"none", "live", "expired", "grace", "released", "lapsed", "held", "unheld"}
Released == lease \in {"released", "lapsed"}
IsLeased == lease \in {"live", "grace", "held"}
HasGrant == lease # "none"

NoClaim  == [pc |-> "none"]
NoJob    == [pc |-> "none"]
NoResult == [pc |-> "none"]
NoFiling == [pc |-> "none"]

Claiming == {c \in Claims : claims[c] # NoClaim}
Out      == {j \in Jobs : jobs[j] # NoJob}
Busy     == {r \in Results : results[r] # NoResult}
AtMost(n, bound) == IF n < bound THEN n ELSE bound

Init ==
    /\ row = [due |-> FALSE, same |-> FALSE, mark |-> FALSE, ask |-> FALSE]
    /\ lease = "none" /\ misses = 0 /\ leftDue = FALSE
    /\ strikes = 0
    /\ page = "current"
    /\ filing = [what \in {"ask", "mark"} |-> NoFiling]
    /\ claims = [c \in Claims |-> NoClaim]
    /\ jobs = [j \in Jobs |-> NoJob]
    /\ results = [r \in Results |-> NoResult]
    /\ events = 0 /\ restarts = 0
    /\ streak = 0 /\ landed = FALSE /\ cause = FALSE /\ raced = FALSE

\* The claims, and the filings, under way have read a row that has since moved.
MovedUnder(readers) ==
    [x \in DOMAIN readers |-> IF readers[x].pc = "none" THEN readers[x] ELSE [readers[x] EXCEPT !.moved = TRUE]]

-----------------------------------------------------------------------------
(* Time *)

\* The row's cadence, backoff or recheck runs out.
ComeDue ==
    /\ ~row.due
    /\ row' = [row EXCEPT !.due = TRUE]
    /\ UNCHANGED <<table, strikes, page, filing, claims, jobs, results, counters, history>>

\* A lease lasts minutes and a grace seconds; a claim or a filing in progress has
\* one local operation left, so neither ends under it.
Idle == Claiming = {} /\ \A what \in DOMAIN filing : filing[what] = NoFiling
LeaseExpires ==
    /\ lease = "live" /\ Idle
    /\ lease' = "expired"
    /\ UNCHANGED <<row, misses, leftDue, strikes, page, filing, claims, jobs, results, counters, history>>

\* The grace outlasts the commit of the request that released the lease, which
\* is what it is for.
GraceEnds ==
    /\ lease = "grace" /\ Idle
    /\ \A r \in Busy : results[r].pc # "commit"
    /\ lease' = "released"
    /\ UNCHANGED <<row, misses, leftDue, strikes, page, filing, claims, jobs, results, counters, history>>

HoldEnds ==
    /\ lease = "held" /\ Idle
    /\ lease' = "unheld"
    /\ UNCHANGED <<row, misses, leftDue, strikes, page, filing, claims, jobs, results, counters, history>>

-----------------------------------------------------------------------------
(* The origin, the change probe, and the callers that ask for a render *)

OriginChanges ==
    /\ events < MaxEvents
    /\ events' = events + 1
    /\ page' = Aged(page)
    /\ jobs' = [j \in Jobs |-> IF j \in Out THEN [jobs[j] EXCEPT !.shows = Aged(@)] ELSE NoJob]
    /\ results' = [r \in Results |-> IF r \in Busy
                                     THEN [results[r] EXCEPT !.shows = Aged(@)] ELSE results[r]]
    /\ UNCHANGED <<row, table, strikes, filing, claims, restarts, history>>

\* A mark or an ask filed for the first time is later than every grant so far,
\* and than every fetch.  (sinceGrant counts from the latest grant of the key.)
JobSince(job, what) ==
    IF job = NoJob THEN NoJob
    ELSE [job EXCEPT !.sinceGrant = @ \cup {what},
                     !.sinceFetch = IF job.pc = "granted" THEN @ ELSE @ \cup {what}]
ResultSince(res, what) == IF res = NoResult THEN NoResult ELSE [res EXCEPT !.since = @ \cup {what}]

\* fileDueNow keeps a due minute no lease has answered, and files at the current
\* minute otherwise, which can still be the one the latest lease was granted for.
KeepsMinute == row.due /\ (leftDue \/ ~row.same)
FiledMinutes ==
    IF ~KeepsMinute /\ ~leftDue /\ lease \in {"live", "grace", "released"} THEN BOOLEAN ELSE {FALSE}

\* A row with a mark carries no ask.
FiledRow(what, same) ==
    LET marked == row.mark \/ what = "mark"
    IN  [due |-> TRUE, same |-> same, mark |-> marked, ask |-> (row.ask \/ what = "ask") /\ ~marked]
FileDueNow(what) ==
    /\ filing[what] = NoFiling
    /\ \E same \in FiledMinutes :
         filing' = [filing EXCEPT ![what] =
                      [pc |-> "put", row |-> FiledRow(what, same),
                       moved |-> ~KeepsMinute /\ ~(row.due /\ row.same /\ same)]]
Filed(what) ==
    /\ jobs' = [j \in Jobs |-> JobSince(jobs[j], what)]
    /\ results' = [r \in Results |-> ResultSince(results[r], what)]

\* A render-now, an admin revalidate or rejoin: an ask already on the row keeps
\* its instant, a marked row takes none.
AskForRender ==
    /\ events < MaxEvents
    /\ events' = events + 1
    /\ FileDueNow("ask")
    /\ IF row.mark \/ row.ask THEN UNCHANGED <<jobs, results>> ELSE Filed("ask")
    /\ UNCHANGED <<row, table, strikes, page, claims, restarts, history>>

\* The probe finds the cached page changed (actOnChange), again if the origin has
\* changed since it last did: every copy of the document the origin no longer
\* serves is known to be out of date from here on.  A mark already on the row keeps
\* its instant.  A pass that finds the change it found before is left out.
UnfoundCopy ==
    \/ page = "changed"
    \/ \E j \in Out : jobs[j].shows = "changed"
    \/ \E r \in Busy : results[r].shows = "changed"
ProbeFindsChange ==
    LET Known(x) == [x EXCEPT !.shows = FoundOut(@, x.sinceGrant)]
        KnownResult(x) == [x EXCEPT !.shows = FoundOut(@, x.since)]
    IN  /\ page # "current" /\ UnfoundCopy
        /\ page' = "found"
        /\ FileDueNow("mark")
        /\ jobs' = [j \in Jobs |-> IF j \notin Out THEN NoJob
                                   ELSE IF row.mark THEN Known(jobs[j]) ELSE JobSince(Known(jobs[j]), "mark")]
        /\ results' = [r \in Results |-> IF r \notin Busy THEN NoResult
                                         ELSE IF row.mark THEN KnownResult(results[r])
                                         ELSE ResultSince(KnownResult(results[r]), "mark")]
        /\ UNCHANGED <<row, table, strikes, claims, counters, history>>

\* A handler that has read the row does not see what is put on it from then on.
NewlyPut(before, after) == {what \in {"mark", "ask"} : after[what] /\ ~before[what]}
UnseenBy(res, put) == IF res.pc \in {"write", "commit"} THEN [res EXCEPT !.unseen = @ \cup put] ELSE res

\* The filing's put replaces the row it read, and whatever was written since.
FilingWrites(what) ==
    LET filed  == filing[what].row
        moves  == filing[what].moved
    IN  /\ filing[what] # NoFiling
        /\ row' = filed
        /\ claims' = IF moves THEN MovedUnder(claims) ELSE claims
        /\ results' = [r \in Results |-> UnseenBy(results[r], NewlyPut(row, filed))]
        /\ streak' = IF moves /\ ~filed.same THEN 0 ELSE streak
        /\ raced' = (raced \/ (row.mark /\ ~filed.mark))
        /\ filing' = LET others == [filing EXCEPT ![what] = NoFiling]
                     IN  IF moves THEN MovedUnder(others) ELSE others
        /\ UNCHANGED <<table, strikes, page, jobs, counters, landed, cause>>

(* The claim (claimSchedules, one entry): the lease is checked, the row read, *)
(* and after the read yields the key is held back, refused or granted.        *)

ClaimReads(c) ==
    /\ claims[c] = NoClaim
    /\ Cardinality(Out) + Cardinality(Claiming) < Cardinality(Jobs)
    /\ ~IsLeased
    /\ row.due
    /\ claims' = [claims EXCEPT ![c] = [pc |-> "read", same |-> row.same, moved |-> FALSE]]
    /\ UNCHANGED <<row, table, strikes, page, filing, jobs, results, counters, history>>

\* missesOf: the misses a grant at the minute read would carry.  (Mutants: only an
\* expired lease counts; no release resets.)
CountedExpired(same) == lease = "expired"
Counted(same) ==
    \/ lease = "expired"
    \/ Released /\ ~leftDue /\ same
ResetNever(same) == lease = "none"
Reset(same) ==
    \/ lease = "none"
    \/ Released /\ ~leftDue /\ ~same
MissesOf(same) ==
    CASE Reset(same)   -> 0
      [] Counted(same) -> AtMost(misses + 1, MaxMisses)
      [] OTHER         -> misses

\* The attempt after a hold is always granted.  (Mutant: it is not.)
MissesOfHold(same) == MissesOf(same)
MissesBeforeGrant(same) == IF lease = "unheld" THEN 0 ELSE MissesOf(same)

CauseOf(same) ==
    CASE lease = "none" \/ (Released /\ ~leftDue /\ ~same) -> FALSE
      [] lease = "expired"                                 -> cause \/ ~landed
      [] Released /\ ~leftDue /\ same                      -> TRUE
      [] OTHER                                             -> cause

ClaimRefused(c) ==
    /\ claims[c] # NoClaim /\ IsLeased
    /\ claims' = [claims EXCEPT ![c] = NoClaim]
    /\ UNCHANGED <<row, table, strikes, page, filing, jobs, results, counters, history>>

ClaimHolds(c) ==
    LET same == claims[c].same
    IN  /\ claims[c] # NoClaim /\ ~IsLeased
        /\ MissesBeforeGrant(same) > MissLimit
        /\ lease' = "held" /\ misses' = MissesOf(same)
        /\ cause' = CauseOf(same) /\ streak' = 0
        /\ claims' = [claims EXCEPT ![c] = NoClaim]
        /\ UNCHANGED <<row, leftDue, strikes, page, filing, jobs, results, counters, landed, raced>>

\* A grant stores the due minute it was made for over GRANT_LEFT_DUE.  (Mutant:
\* it keeps the mark.)
GrantKeepsLeftDue == leftDue
GrantLeftDue == FALSE
ClaimGrants(c) ==
    LET same == claims[c].same
    IN  /\ claims[c] # NoClaim /\ ~IsLeased
        /\ MissesBeforeGrant(same) <= MissLimit
        /\ lease' = "live" /\ misses' = MissesOf(same) /\ leftDue' = GrantLeftDue
        /\ row' = [row EXCEPT !.same = ~claims[c].moved]
        /\ filing' = [w \in DOMAIN filing |->
                         IF filing[w] = NoFiling THEN NoFiling
                         ELSE [filing[w] EXCEPT !.row.same = ~filing[w].moved /\ ~claims[c].moved]]
        /\ \E j \in Jobs \ Out :
             jobs' = [i \in Jobs |->
                        IF i = j THEN [pc |-> "granted", latest |-> TRUE, shows |-> "nothing",
                                       sinceGrant |-> {}, sinceFetch |-> {}]
                        ELSE IF i \in Out THEN [jobs[i] EXCEPT !.latest = FALSE, !.sinceGrant = {}] ELSE NoJob]
        /\ results' = [r \in Results |-> IF r \in Busy
                                         THEN [results[r] EXCEPT !.latest = FALSE, !.own = FALSE, !.stale = FALSE]
                                         ELSE NoResult]
        /\ claims' = [claims EXCEPT ![c] = NoClaim]
        /\ cause' = CauseOf(same) /\ landed' = FALSE
        /\ streak' = IF claims[c].moved THEN 0 ELSE streak + 1
        /\ UNCHANGED <<strikes, page, counters, raced>>

-----------------------------------------------------------------------------
(* The fleet *)

Fetch(j) ==
    /\ jobs[j].pc = "granted"
    /\ jobs' = [jobs EXCEPT ![j].pc = "fetched", ![j].shows = "current"]
    /\ UNCHANGED <<row, table, strikes, page, filing, claims, results, counters, history>>

\* The renderer is done with the job: answered, crashed, or out of retries.
JobEnds(j) ==
    /\ j \in Out
    /\ jobs' = [jobs EXCEPT ![j] = NoJob]
    /\ UNCHANGED <<row, table, strikes, page, filing, claims, results, counters, history>>

-----------------------------------------------------------------------------
(* A result (processJobResult).  A renderer retries a post that did not answer, *)
(* so a render's result can arrive any number of times, several at once, and    *)
(* long after the render.  The handler knows when the render began only from    *)
(* the time of arrival less the render times the result reports: a bound that   *)
(* is of no use in a repeated or delayed post, or one that reports no times.    *)

\* A result that proves its render began before the key was granted again is dropped
\* whole; one that proves nothing is taken for the latest lease's.  (Mutant: none is
\* dropped.)
LateNever(j, timed) == FALSE
Late(j, timed) == HasGrant /\ ~jobs[j].latest /\ timed

\* What the result is older than: marks and asks filed since the key was last granted
\* or, with no lease, since the render began, if it tells.
Since(j, timed) ==
    CASE HasGrant           -> jobs[j].sinceGrant
      [] ~HasGrant /\ timed -> jobs[j].sinceFetch
      [] OTHER              -> {}

ResultArrives(r, j, outcome, timed) ==
    LET shows == IF outcome = "failed" THEN "nothing" ELSE jobs[j].shows
    IN  /\ results[r] = NoResult
        /\ jobs[j].pc = "fetched" \/ jobs[j].pc = outcome \/ (jobs[j].pc = "granted" /\ outcome = "failed")
        /\ jobs' = [jobs EXCEPT ![j].pc = outcome, ![j].shows = shows]
        /\ ~Late(j, timed)
        /\ results' = [results EXCEPT ![r] =
             [pc |-> "read", outcome |-> outcome, lane |-> "none", shows |-> shows,
              latest |-> HasGrant, own |-> jobs[j].latest, stale |-> HasGrant /\ ~jobs[j].latest /\ ~timed,
              since |-> Since(j, timed), unseen |-> {},
              timely |-> FALSE, asked |-> FALSE, same |-> FALSE, mark |-> FALSE, strikes |-> 0]]
        /\ UNCHANGED <<row, table, strikes, page, filing, claims, counters, history>>

\* The lease the result is taken for is still live.
Timely(r) == results[r].latest /\ lease = "live"

\* The release: of the lease the result arrived under, unless it has been
\* released or the key granted again since.  It starts the grace, and never
\* lengthens a lease or a hold that has run out.  (Mutant: it starts no grace.)
Releases(r) == results[r].latest /\ lease \in {"live", "expired", "held", "unheld"}
ReleasedToFree == "lapsed"
ReleasedTo == IF lease \in {"live", "held"} THEN "grace" ELSE "lapsed"
Release(r, asLeftDue) ==
    IF Releases(r)
    THEN /\ lease' = ReleasedTo
         /\ leftDue' = (leftDue \/ asLeftDue)
         /\ streak' = IF asLeftDue /\ streak > 0 THEN streak - 1 ELSE streak
         /\ UNCHANGED misses
    ELSE UNCHANGED <<table, streak>>

\* A change mark filed since the render's grant: the render may predate the
\* change, and is dropped with the row left due.  (Mutant: none is.)
SupersededNever(r) == FALSE
Superseded(r) == row.mark /\ "mark" \in results[r].since

ResultSuperseded(r) ==
    /\ results[r].pc = "read" /\ Superseded(r)
    /\ Release(r, TRUE)
    /\ results' = [results EXCEPT ![r] = NoResult]
    /\ UNCHANGED <<row, strikes, page, filing, claims, jobs, counters, landed, cause, raced>>

\* What the handler of a render that is stored needs of the row: an ask the render
\* does not answer, which is put back at the minute it was filed for.
ResultReads(r) ==
    LET asked == results[r].outcome = "rendered" /\ row.ask /\ "ask" \in results[r].since
    IN  /\ results[r].pc = "read" /\ ~Superseded(r)
        /\ results' = [results EXCEPT ![r].pc = "write", ![r].asked = asked, ![r].same = asked /\ row.same]
        /\ UNCHANGED <<row, table, strikes, page, filing, claims, jobs, counters, history>>

\* Every write of the handler joins the request's transaction; the release does
\* not wait for it.  (Mutant: an ask filed during the render is not kept.)
KeepAskNever(r) == FALSE
KeepAsk(r) == results[r].asked
ResultRendered(r) ==
    /\ results[r].pc = "write" /\ results[r].outcome = "rendered"
    /\ results' = [results EXCEPT ![r].pc = "commit",
                                  ![r].lane = IF KeepAsk(r) THEN "ask" ELSE "landed",
                                  ![r].timely = Timely(r)]
    /\ Release(r, KeepAsk(r))
    /\ UNCHANGED <<row, strikes, page, filing, claims, jobs, counters, landed, cause, raced>>

\* retryAfterFailure, the fast lane: a strike, and the lease paces the retry.
ResultFailsFast(r) ==
    /\ results[r].pc = "write" /\ results[r].outcome = "failed"
    /\ strikes + 1 <= FastRetries
    /\ results' = [results EXCEPT ![r].pc = "commit", ![r].lane = "fast", ![r].strikes = strikes + 1,
                                  ![r].timely = Timely(r)]
    /\ UNCHANGED <<row, table, strikes, page, filing, claims, jobs, counters, history>>

\* The slow lane: the row is filed forward, with the mark it has now.  (Mutant:
\* with none.)
CarriedMarkNone == FALSE
CarriedMark == row.mark
ResultFailsSlow(r) ==
    /\ results[r].pc = "write" /\ results[r].outcome = "failed"
    /\ strikes + 1 > FastRetries
    /\ results' = [results EXCEPT ![r].pc = "commit", ![r].lane = "slow",
                                  ![r].strikes = AtMost(strikes + 1, MissLimit),
                                  ![r].mark = CarriedMark, ![r].unseen = @ \ {"mark"},
                                  ![r].timely = Timely(r)]
    /\ Release(r, FALSE)
    /\ UNCHANGED <<row, strikes, page, filing, claims, jobs, counters, landed, cause, raced>>

\* A read or a write of the handler throws: the transaction is aborted and the
\* lease held.
ResultThrows(r) ==
    /\ results[r].pc \in {"read", "write"}
    /\ results' = [results EXCEPT ![r] = NoResult]
    /\ UNCHANGED <<row, table, strikes, page, filing, claims, jobs, counters, history>>

\* The transaction's commit, after the answer.
Rotated == [due |-> FALSE, same |-> FALSE, mark |-> FALSE, ask |-> FALSE]
CommittedRows(res) ==
    CASE res.lane = "fast"   -> {row}
      [] res.lane = "landed" -> {Rotated}
      [] res.lane = "slow"   -> {[Rotated EXCEPT !.mark = res.mark]}
      [] res.lane = "ask"    -> {[due |-> TRUE, same |-> same, mark |-> FALSE, ask |-> TRUE] :
                                   same \in IF ~HasGrant THEN {FALSE}
                                            ELSE IF res.latest THEN {res.same} ELSE BOOLEAN}

CommitLands(r) ==
    LET res    == results[r]
        stored == res.lane \in {"landed", "ask"}
        fresh  == res.shows \notin {"found", "missed"}
    IN  /\ res.pc = "commit"
        /\ row' \in CommittedRows(res)
        /\ page' = IF stored THEN res.shows ELSE page
        /\ strikes' = IF stored THEN 0 ELSE res.strikes
        /\ IF res.lane = "fast" THEN UNCHANGED <<claims, filing>>
           ELSE claims' = MovedUnder(claims) /\ filing' = MovedUnder(filing)
        /\ streak' = IF res.lane = "fast" \/ row'.same THEN streak ELSE 0
        /\ landed' = (landed \/ (res.own /\ res.timely /\ res.lane = "fast"))
        /\ cause' = (cause \/ ~res.own \/ (stored /\ leftDue /\ misses > 0))
        /\ raced' = IF stored /\ res.own /\ fresh THEN FALSE
                    ELSE \/ raced \/ (stored /\ ~res.own /\ (row.mark \/ ~fresh))
                         \/ "mark" \in res.unseen /\ (stored \/ (row.mark /\ ~row'.mark))
        /\ results' = [q \in Results |-> IF q = r THEN NoResult ELSE UnseenBy(results[q], NewlyPut(row, row'))]
        /\ UNCHANGED <<table, jobs, counters>>

CommitFails(r) ==
    /\ results[r].pc = "commit"
    /\ results' = [results EXCEPT ![r] = NoResult]
    /\ UNCHANGED <<row, table, strikes, page, filing, claims, jobs, counters, history>>

\* The lease table, the claims and the requests under way are the process's.  A
\* filing that carries a mark is taken to have been put.
Restart ==
    /\ restarts < MaxRestarts /\ filing["mark"] = NoFiling
    /\ restarts' = restarts + 1
    /\ lease' = "none" /\ misses' = 0 /\ leftDue' = FALSE
    /\ row' = [row EXCEPT !.same = FALSE]
    /\ filing' = [what \in {"ask", "mark"} |-> NoFiling]
    /\ claims' = [c \in Claims |-> NoClaim]
    /\ results' = [r \in Results |-> NoResult]
    /\ jobs' = [j \in Jobs |-> IF j \in Out THEN [jobs[j] EXCEPT !.latest = FALSE] ELSE NoJob]
    /\ streak' = 0 /\ landed' = FALSE /\ cause' = FALSE
    /\ UNCHANGED <<strikes, page, events, raced>>

-----------------------------------------------------------------------------
Claim(c)  == ClaimReads(c) \/ ClaimRefused(c) \/ ClaimHolds(c) \/ ClaimGrants(c)
Result(r) ==
    \/ \E j \in Jobs, outcome \in {"rendered", "failed"}, timed \in BOOLEAN : ResultArrives(r, j, outcome, timed)
    \/ ResultSuperseded(r) \/ ResultReads(r) \/ ResultThrows(r)
    \/ ResultRendered(r) \/ ResultFailsFast(r) \/ ResultFailsSlow(r)
    \/ CommitLands(r) \/ CommitFails(r)

Next ==
    \/ ComeDue \/ LeaseExpires \/ GraceEnds \/ HoldEnds
    \/ OriginChanges \/ ProbeFindsChange \/ AskForRender \/ \E what \in {"ask", "mark"} : FilingWrites(what)
    \/ \E c \in Claims : Claim(c)
    \/ \E j \in Jobs : Fetch(j) \/ JobEnds(j)
    \/ \E r \in Results : Result(r)
    \/ Restart

Spec == Init /\ [][Next]_vars

\* Time passes, the fleet keeps claiming, renderers finish and handlers run; and
\* a key granted again and again is in the end rendered, and its result in the
\* end committed.
Answered == \E r \in Results, j \in Out : jobs[j].latest /\ ResultArrives(r, j, "rendered", TRUE)
Fairness ==
    /\ WF_vars(ComeDue) /\ WF_vars(LeaseExpires) /\ WF_vars(GraceEnds) /\ WF_vars(HoldEnds)
    /\ \A what \in {"ask", "mark"} : WF_vars(FilingWrites(what))
    /\ \A c \in Claims : SF_vars(ClaimReads(c)) /\ WF_vars(ClaimRefused(c) \/ ClaimHolds(c) \/ ClaimGrants(c))
    /\ \A j \in Jobs : WF_vars(Fetch(j)) /\ WF_vars(JobEnds(j))
    /\ []<><<\E c \in Claims : ClaimGrants(c)>>_vars => []<><<Answered>>_vars
    /\ \A r \in Results :
         /\ WF_vars(ResultSuperseded(r)) /\ WF_vars(ResultReads(r))
         /\ WF_vars(ResultFailsFast(r)) /\ WF_vars(ResultFailsSlow(r)) /\ WF_vars(CommitLands(r) \/ CommitFails(r))
         /\ SF_vars(r \in Busy /\ results[r].outcome = "rendered" /\ ResultReads(r))
         /\ SF_vars(ResultRendered(r))
         /\ SF_vars(r \in Busy /\ results[r].lane \in {"landed", "ask"} /\ CommitLands(r))
FairSpec == Spec /\ Fairness

-----------------------------------------------------------------------------
(* Properties *)

TypeOK ==
    /\ row \in [due : BOOLEAN, same : BOOLEAN, mark : BOOLEAN, ask : BOOLEAN]
    /\ ~(row.mark /\ row.ask)
    /\ lease \in LeaseStates /\ misses \in 0..MaxMisses /\ leftDue \in BOOLEAN
    /\ strikes \in 0..MissLimit
    /\ page \in Shows
    /\ lease = "none" => misses = 0 /\ ~leftDue /\ ~row.same
    /\ lease = "live" => ~leftDue

\* A key whose leases end without moving its row is held back after fastRetries
\* + 2 of them, however they end: expired under a renderer that never answers,
\* or released by results whose commits keep failing.
WedgeBound == streak <= MissLimit + 1

\* A key is held back only for cause.  The lane that keeps the lease after a
\* failure never holds back a key by itself: it ends before the misses its
\* expired leases add up to reach the limit, as long as the strikes that end it
\* and the misses are cleared together.  A result that is stored but leaves its
\* row due clears the strikes and carries the misses, and one of an older lease
\* may set the strikes back: those are causes too.
HeldForCause == lease = "held" => cause

\* While a result that gave up its live lease is being committed the key is not
\* granted: the claim would render again what is about to be stored.
NoGrantBehindCommit ==
    [][\A r \in Results :
         lease # "live" /\ lease' = "live" =>
           ~(results[r].pc = "commit" /\ results[r].timely /\ results[r].lane # "fast")]_vars

\* A live lease is given up only by a result of the render it was granted for, or by
\* one that arrived under it and could not tell when its render began: never by one
\* that proves itself older, nor by one that was in hand when the lease was granted,
\* or came before there was one.
ForeignLeaseKept ==
    [][lease = "live" /\ lease' = "grace" =>
         \E r \in Busy : (results[r].own \/ results[r].stale) /\ results'[r] # results[r]]_vars

\* An ask filed while a render runs is not cleared by that render's success: it
\* goes only to a mark, to a result taken for a lease granted after it (the render's
\* own, but for a result that cannot tell when its render began), to the slow lane
\* (whose attempts answer it), or to a result that read the row before the ask was
\* put.
AskOutlivesRender ==
    [][row.ask /\ ~row'.ask =>
         \/ row'.mark
         \/ \E r \in Busy : /\ results[r].pc = "commit" /\ results'[r] # results[r]
                            /\ \/ results[r].lane = "slow"
                               \/ "ask" \notin results[r].since
                               \/ "ask" \in results[r].unseen]_vars

\* A page the probe found changed stays marked until a render granted after the
\* mark replaces it, through renders granted before the change, failures, restarts
\* and asks: but for a mark lost to a write already under way, and a page stored by
\* a result that a restart or a later grant overtook and nothing proved older.
FoundChangeKept == page = "found" /\ ~row.mark => raced \/ filing["mark"] # NoFiling

\* That "exactness cannot let a stale render through" (processJobResult) says
\* more: nor does a render granted after the mark clear the mark with a document
\* the probe has found changed since.
NoStaleLanding == page \in {"found", "missed"} /\ ~row.mark => raced \/ filing["mark"] # NoFiling

\* And such a render does replace it, if the fleet goes on answering: no drop,
\* hold or lane keeps the page out of rotation for ever.
FoundChangeRendered == page = "found" ~> page # "found"

=============================================================================
