------------------------------ MODULE RunState -------------------------------
(***************************************************************************)
(* packages/plugin/src/util/runState.js: the row that says which run of a  *)
(* sweep a node makes, claimed, beaten, stopped and finished by any of its *)
(* workers.  publishRunState reads the row, merges and writes it, in two   *)
(* steps; only claims hold the lock.  A claim and a finish set every field *)
(* kept here, so what they read is left out.  A sweep (discoveredPurge.js, *)
(* pageOrphanSweep.js) is its run's calls on the row; the age of the       *)
(* heartbeat is one bit.                                                   *)
(***************************************************************************)
EXTENDS Naturals

CONSTANTS
    MaxRuns,                \* bound: attempts to start a run
    MaxStops,               \* bound: requests to stop
    MaxFaults               \* bound: crashes, failed reads of a claim, failed writes, runs silent
                            \* for staleMs, together

ASSUME RunAssumption == MaxRuns \in Nat /\ MaxStops \in Nat /\ MaxFaults \in Nat

Runs == 1 .. MaxRuns
Stops == 1 .. MaxStops

VARIABLES
    row,         \* running, fresh (heartbeatAt is within staleMs), cancel
    lock,        \* the run that claims under the mutex, 0 for none
    pc, seen,    \* of each run: its place, the row its first progress has read
    beating, beat,    \* its heartbeat, which is not awaited: under way, the row it has read
    canceled,    \* the latch of its cancel poller
    spc, sseen,  \* of each request to stop: its place, the row it has read
    faults,
    stopped,     \* history: runs whose stop was reported as requested
    erased,      \* history: a write that had read the row before a stop erased it, or failed
    unclaimed,   \* history: a stop wrote back a row it had read before a claim
    unread,      \* history: a claim whose read failed went over a live one
    carried,     \* history: a run wrote back a cancel it had read before the row was reset
    aged         \* history: runs whose claim aged while they were alive

run  == <<pc, seen, beating, beat, canceled>>
stop == <<spc, sseen>>
past == <<stopped, erased, unclaimed, unread, carried, aged>>
vars == <<row, lock, run, stop, faults, past>>

Row    == [running : BOOLEAN, fresh : BOOLEAN, cancel : BOOLEAN]
NoRow  == [running |-> FALSE, fresh |-> FALSE, cancel |-> FALSE]

IsRunning(r) == r.running /\ r.fresh

Alive(r) == pc[r] \in {"publish", "published", "sweep", "finish"}

Fault == faults < MaxFaults /\ faults' = faults + 1

(* Mutant: a claim does not reset the cancel flag. *)
ClaimedNoReset == [running |-> TRUE, fresh |-> TRUE]

(* Mutant: a claim leaves the cancel flag as it finds it. *)
ClaimedKeepsCancel == [running |-> TRUE, fresh |-> TRUE, cancel |-> row.cancel]

Claimed == [running |-> TRUE, fresh |-> TRUE, cancel |-> FALSE]
Finished == [running |-> FALSE, fresh |-> TRUE, cancel |-> FALSE]
Beaten(r) == [beat[r] EXCEPT !.fresh = TRUE]

(* A write that loses a stop: it had read the row before the stop wrote it. *)
Erases(new) == row.cancel /\ ~new.cancel

(* One that brings a stop back: it had read the row before a claim or a    *)
(* finish reset it.                                                        *)
Carries(new) == new.cancel /\ ~row.cancel

-----------------------------------------------------------------------------
(* claimRun, under the mutex: read, refuse a live claim, write. *)

(* Mutant: the mutex is not taken. *)
LockFreeAlways(r) == TRUE

LockFree(r) == lock = 0

ClaimLock(r) ==
    /\ pc[r] = "none" /\ LockFree(r)
    /\ \A s \in 1 .. r - 1 : pc[s] # "none"    \* runs are numbered as they are attempted
    /\ IF IsRunning(row) THEN pc' = [pc EXCEPT ![r] = "done"] /\ lock' = lock
                         ELSE pc' = [pc EXCEPT ![r] = "claim"] /\ lock' = r
    /\ UNCHANGED <<row, seen, beating, beat, canceled, stop, faults, past>>

(* The read fails: readRunState answers null, which is no claim.  Over a    *)
(* row that is not live that is the claim above.                            *)
ClaimUnread(r) ==
    /\ pc[r] = "none" /\ LockFree(r) /\ IsRunning(row) /\ Fault
    /\ \A s \in 1 .. r - 1 : pc[s] # "none"
    /\ pc' = [pc EXCEPT ![r] = "claim"] /\ lock' = r
    /\ unread' = TRUE
    /\ UNCHANGED <<row, seen, beating, beat, canceled, stop, stopped, erased, unclaimed, carried,
                   aged>>

ClaimPut(r) ==
    /\ pc[r] = "claim"
    /\ row' = Claimed
    /\ pc' = [pc EXCEPT ![r] = "publish"]
    /\ lock' = 0
    /\ UNCHANGED <<seen, beating, beat, canceled, stop, faults, past>>

(* A claim that cannot be written, or merged with what it reads for that, is *)
(* given up.                                                                 *)
ClaimFails(r) ==
    /\ pc[r] = "claim" /\ Fault
    /\ pc' = [pc EXCEPT ![r] = "done"]
    /\ lock' = 0
    /\ UNCHANGED <<row, seen, beating, beat, canceled, stop, past>>

-----------------------------------------------------------------------------
(* The run: it publishes its first progress, sweeps, and finishes. *)

ProgressGet(r) ==
    /\ pc[r] = "publish"
    /\ seen' = [seen EXCEPT ![r] = row]
    /\ pc' = [pc EXCEPT ![r] = "published"]
    /\ UNCHANGED <<row, lock, beating, beat, canceled, stop, faults, past>>

ProgressPut(r) ==
    /\ pc[r] = "published"
    /\ row' = seen[r]
    /\ erased' = (erased \/ Erases(seen[r]))
    /\ carried' = (carried \/ Carries(seen[r]))
    /\ pc' = [pc EXCEPT ![r] = "sweep"]
    /\ seen' = [seen EXCEPT ![r] = NoRow]
    /\ UNCHANGED <<lock, beating, beat, canceled, stop, faults, stopped, unclaimed, unread, aged>>

FinishPut(r) ==
    /\ pc[r] = "finish"
    /\ row' = Finished
    /\ pc' = [pc EXCEPT ![r] = "done"]
    /\ canceled' = [canceled EXCEPT ![r] = FALSE]
    /\ UNCHANGED <<lock, seen, beating, beat, stop, faults, past>>

(* A write that fails is given up; the run goes on. *)
RunPutFails(r) ==
    /\ pc[r] \in {"published", "finish"} /\ Fault
    /\ pc' = [pc EXCEPT ![r] = IF @ = "published" THEN "sweep" ELSE "done"]
    /\ seen' = [seen EXCEPT ![r] = NoRow]
    /\ UNCHANGED <<row, lock, beating, beat, canceled, stop, past>>

(* makeHeartbeat: fire and forget, at the sweep's yields. *)
BeatGet(r) ==
    /\ pc[r] = "sweep" /\ ~beating[r]
    /\ beating' = [beating EXCEPT ![r] = TRUE]
    /\ beat' = [beat EXCEPT ![r] = row]
    /\ UNCHANGED <<row, lock, pc, seen, canceled, stop, faults, past>>

BeatPut(r) ==
    /\ beating[r]
    /\ row' = Beaten(r)
    /\ erased' = (erased \/ Erases(Beaten(r)))
    /\ carried' = (carried \/ Carries(Beaten(r)))
    /\ beating' = [beating EXCEPT ![r] = FALSE]
    /\ beat' = [beat EXCEPT ![r] = NoRow]
    /\ UNCHANGED <<lock, pc, seen, canceled, stop, faults, stopped, unclaimed, unread, aged>>

(* A heartbeat that cannot be written is given up. *)
BeatFails(r) ==
    /\ beating[r] /\ Fault
    /\ beating' = [beating EXCEPT ![r] = FALSE]
    /\ beat' = [beat EXCEPT ![r] = NoRow]
    /\ UNCHANGED <<row, lock, pc, seen, canceled, stop, past>>

(* Mutant: the poller never latches. *)
LatchNever(r) == FALSE

Latch(r) == canceled[r] \/ row.cancel

(* makeCancelPoller: reads the row in the background and latches a cancel; *)
(* a read that fails latches nothing.                                      *)
Poll(r) ==
    /\ pc[r] = "sweep"
    /\ canceled' = [canceled EXCEPT ![r] = Latch(r)]
    /\ UNCHANGED <<row, lock, pc, seen, beating, beat, stop, faults, past>>

(* The sweep ends when its walk does, or at the next row after a cancel. *)
SweepEnd(r) ==
    /\ pc[r] = "sweep"
    /\ pc' = [pc EXCEPT ![r] = "finish"]
    /\ UNCHANGED <<row, lock, seen, beating, beat, canceled, stop, faults, past>>

SweepCanceled(r) == canceled[r] /\ SweepEnd(r)

(* Its worker dies, and a heartbeat under way with it. *)
Crash(r) ==
    /\ Alive(r) /\ Fault
    /\ pc' = [pc EXCEPT ![r] = "crashed"]
    /\ beating' = [beating EXCEPT ![r] = FALSE] /\ beat' = [beat EXCEPT ![r] = NoRow]
    /\ seen' = [seen EXCEPT ![r] = NoRow] /\ canceled' = [canceled EXCEPT ![r] = FALSE]
    /\ UNCHANGED <<row, lock, stop, past>>

-----------------------------------------------------------------------------
(* requestCancel: read, refuse if nothing runs, merge the flag.  It reports *)
(* the stop as requested whether or not the write went through.  A read that *)
(* fails reports that nothing runs, as if the stop were not asked for.       *)

StopRead(c) ==
    /\ spc[c] = "none"
    /\ spc' = [spc EXCEPT ![c] = IF IsRunning(row) THEN "get" ELSE "done"]
    /\ UNCHANGED <<row, lock, run, sseen, faults, past>>

StopGet(c) ==
    /\ spc[c] = "get"
    /\ sseen' = [sseen EXCEPT ![c] = row]
    /\ spc' = [spc EXCEPT ![c] = "put"]
    /\ UNCHANGED <<row, lock, run, faults, past>>

StopPut(c) ==
    /\ spc[c] = "put"
    /\ row' = [sseen[c] EXCEPT !.cancel = TRUE]
    /\ spc' = [spc EXCEPT ![c] = "done"]
    /\ stopped' = stopped \cup {r \in Runs : Alive(r)}
    /\ unclaimed' = (unclaimed \/ (IsRunning(row) /\ ~IsRunning(sseen[c])))
    /\ sseen' = [sseen EXCEPT ![c] = NoRow]
    /\ UNCHANGED <<lock, run, faults, erased, unread, carried, aged>>

StopPutFails(c) ==
    /\ spc[c] = "put" /\ Fault
    /\ spc' = [spc EXCEPT ![c] = "done"]
    /\ stopped' = stopped \cup {r \in Runs : Alive(r)}
    /\ erased' = TRUE
    /\ sseen' = [sseen EXCEPT ![c] = NoRow]
    /\ UNCHANGED <<row, lock, run, unclaimed, unread, carried, aged>>

-----------------------------------------------------------------------------
(* staleMs pass without a heartbeat: for a claim nobody makes good any more,*)
(* or for a run paused that long by its pacing, or whose heartbeats failed  *)
(* that long (discoveredPurge.js and pageOrphanSweep.js beat at a yield     *)
(* every so many rows).                                                     *)

Orphaned == IsRunning(row) /\ \A r \in Runs : ~Alive(r) /\ ~beating[r]

Age ==
    /\ Orphaned
    /\ row' = [row EXCEPT !.fresh = FALSE]
    /\ UNCHANGED <<lock, run, stop, faults, past>>

Pause(r) ==
    /\ IsRunning(row) /\ pc[r] = "sweep" /\ ~beating[r] /\ Fault
    /\ \A s \in Runs \ {r} : ~Alive(s)
    /\ row' = [row EXCEPT !.fresh = FALSE]
    /\ aged' = aged \cup {r}
    /\ UNCHANGED <<lock, run, stop, stopped, erased, unclaimed, unread, carried>>

-----------------------------------------------------------------------------
Init ==
    /\ row = NoRow /\ lock = 0
    /\ pc = [r \in Runs |-> "none"] /\ seen = [r \in Runs |-> NoRow]
    /\ beating = [r \in Runs |-> FALSE] /\ beat = [r \in Runs |-> NoRow]
    /\ canceled = [r \in Runs |-> FALSE]
    /\ spc = [c \in Stops |-> "none"] /\ sseen = [c \in Stops |-> NoRow]
    /\ faults = 0
    /\ stopped = {} /\ aged = {}
    /\ erased = FALSE /\ unclaimed = FALSE /\ unread = FALSE /\ carried = FALSE

Claim(r)  == ClaimLock(r) \/ ClaimUnread(r) \/ ClaimPut(r) \/ ClaimFails(r)
Write(r)  == ProgressGet(r) \/ ProgressPut(r) \/ FinishPut(r) \/ BeatPut(r)
Stop(c)   == StopRead(c) \/ StopGet(c) \/ StopPut(c) \/ StopPutFails(c)

Next ==
    \/ \E r \in Runs : \/ Claim(r) \/ Write(r) \/ RunPutFails(r) \/ BeatGet(r) \/ BeatFails(r)
                       \/ Poll(r) \/ SweepEnd(r) \/ Crash(r) \/ Pause(r)
    \/ \E c \in Stops : Stop(c)
    \/ Age

(* Store operations end, a sweep polls and obeys.  Nothing says that a sweep *)
(* ends by itself, that anyone starts or stops one, or that a claim ages.    *)
Fairness ==
    /\ \A r \in Runs : /\ WF_vars(ClaimPut(r)) /\ WF_vars(Write(r))
                       /\ WF_vars(Poll(r)) /\ WF_vars(SweepCanceled(r))
    /\ \A c \in Stops : WF_vars(StopGet(c)) /\ WF_vars(StopPut(c))

Spec == Init /\ [][Next]_vars /\ Fairness

-----------------------------------------------------------------------------
TypeOK ==
    /\ row \in Row
    /\ lock \in 0 .. MaxRuns
    /\ pc \in [Runs -> {"none", "claim", "publish", "published", "sweep", "finish", "done",
                        "crashed"}]
    /\ seen \in [Runs -> Row] /\ beat \in [Runs -> Row]
    /\ beating \in [Runs -> BOOLEAN] /\ canceled \in [Runs -> BOOLEAN]
    /\ spc \in [Stops -> {"none", "get", "put", "done"}] /\ sseen \in [Stops -> Row]
    /\ faults \in 0 .. MaxFaults
    /\ stopped \subseteq Runs /\ aged \subseteq Runs
    /\ {erased, unclaimed, unread, carried} \subseteq BOOLEAN

Twice == \E r, s \in Runs : r # s /\ Alive(r) /\ Alive(s)

(* The module comment: "a genuine cross-worker mutex".  Two runs are alive *)
(* at once only after a run was silent for staleMs.                        *)
ClaimIsMutex == Twice => aged # {}

(* The claim, which alone is locked, is never lost to an overlapping       *)
(* heartbeat, progress or finish: only to a stop that had read the row     *)
(* before, or to a claim whose own read failed.                            *)
OneRunner == Twice => aged # {} \/ unclaimed \/ unread

(* A run is cancelled only by a stop requested while it was alive: one     *)
(* meant for an earlier run, in whatever order it crosses that run's       *)
(* finish and the next claim, ends no later run, but by a write of the     *)
(* earlier run that had read it and lands after the claim.                 *)
CanceledForCause == \A r \in Runs : canceled[r] => r \in stopped \/ carried

(* A stop reported as requested ends its run, but for one that a write     *)
(* under way erased or that failed, of a run that was silent too long, or  *)
(* of one that a claim which could not read it went over.                  *)
StopHeeded ==
    \A r \in Runs : r \in stopped ~> (~Alive(r) \/ erased \/ unclaimed \/ unread \/ aged # {})
=============================================================================
