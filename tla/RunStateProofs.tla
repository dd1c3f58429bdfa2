--------------------------- MODULE RunStateProofs ---------------------------
(***************************************************************************)
(* Proofs about RunState, for any number of runs, stops and faults: the    *)
(* claim is lost only to a silence, a stop that read the row before or a   *)
(* claim that could not read it, and a run is cancelled only by a stop of  *)
(* its own or by an earlier run's late write.                              *)
(***************************************************************************)
EXTENDS RunState, TLAPS

(* The lock is held by the run that claims. *)
LockInv == \A r \in Runs : pc[r] = "claim" <=> lock = r

(* Nobody has been silent, no stop has written back an older row, and no   *)
(* claim has gone over a live row it could not read.                       *)
Undisturbed == aged = {} /\ ~unclaimed /\ ~unread

(* Then a run that is alive is the only one, nobody claims beside it, the   *)
(* row says so, and so does every row a progress or heartbeat may put.      *)
Sole(r) ==
    /\ \A s \in Runs : Alive(s) => s = r
    /\ lock = 0
    /\ IsRunning(row)
    /\ pc[r] = "published" => IsRunning(seen[r])

ClaimInv ==
    Undisturbed => \A r \in Runs : /\ Alive(r) => Sole(r)
                                   /\ beating[r] => beat[r].running

IInv == TypeOK /\ LockInv /\ ClaimInv

(* While no run has brought back a cancel it had read, one that is on the  *)
(* row was asked of every run alive, and one latched was asked of its run. *)
CancelInv ==
    ~carried => \A r \in Runs : /\ Alive(r) /\ row.cancel => r \in stopped
                                /\ canceled[r] => r \in stopped

-----------------------------------------------------------------------------
(* The types hold at the start, and every step keeps them. *)
LEMMA InitTypes == ASSUME Init PROVE TypeOK
<1>1. NoRow \in Row
  BY DEF NoRow, Row
<1>2. {erased, unclaimed, unread, carried} \subseteq BOOLEAN /\ stopped \subseteq Runs /\ aged \subseteq Runs
  BY Zenon DEF Init
<1>3. lock \in 0 .. MaxRuns /\ faults \in 0 .. MaxFaults
  BY RunAssumption DEF Init
<1> QED
  BY <1>1, <1>2, <1>3 DEF Init, TypeOK

(* The calls of a run, *)
LEMMA RunTypes ==
    ASSUME TypeOK, NEW r \in Runs,
           Claim(r) \/ Write(r) \/ RunPutFails(r) \/ BeatGet(r) \/ BeatFails(r)
             \/ Poll(r) \/ SweepEnd(r) \/ Crash(r) \/ Pause(r)
    PROVE  TypeOK'
<1> USE RunAssumption DEF TypeOK, Row, NoRow, Runs, run, stop, past
<1>1. CASE Claim(r)
  <2>1. CASE ClaimLock(r)
    <3>1. pc' \in [1 .. MaxRuns -> {"none", "claim", "publish", "published", "sweep", "finish",
                                   "done", "crashed"}]
      BY <2>1 DEF ClaimLock
    <3>2. lock' \in 0 .. MaxRuns
      BY <2>1 DEF ClaimLock
    <3>3. UNCHANGED <<row, seen, beating, beat, canceled, spc, sseen, faults, past>>
      BY <2>1 DEF ClaimLock
    <3> QED
      BY <3>1, <3>2, <3>3
  <2>2. CASE ClaimPut(r)
    BY <2>2 DEF ClaimPut, Claimed
  <2>3. CASE ClaimFails(r)
    BY <2>3 DEF ClaimFails, Fault
  <2>4. CASE ClaimUnread(r)
    <3>1. {erased', unclaimed', unread', carried'} \subseteq BOOLEAN
      BY <2>4, Zenon DEF ClaimUnread
    <3>2. lock' \in 0 .. MaxRuns /\ faults' \in 0 .. MaxFaults
      BY <2>4 DEF ClaimUnread, Fault
    <3>3. pc' \in [1 .. MaxRuns -> {"none", "claim", "publish", "published", "sweep", "finish",
                                   "done", "crashed"}]
      BY <2>4 DEF ClaimUnread
    <3>4. UNCHANGED <<row, seen, beating, beat, canceled, spc, sseen, stopped, aged>>
      BY <2>4 DEF ClaimUnread
    <3> QED
      BY <3>1, <3>2, <3>3, <3>4
  <2> QED
    BY <1>1, <2>1, <2>2, <2>3, <2>4 DEF Claim
<1>2. CASE Write(r)
  <2>1. CASE ProgressGet(r)
    BY <2>1 DEF ProgressGet
  <2>2. CASE ProgressPut(r)
    BY <2>2 DEF ProgressPut, Erases, Carries
  <2>3. CASE FinishPut(r)
    BY <2>3 DEF FinishPut, Finished
  <2>4. CASE BeatPut(r)
    BY <2>4 DEF BeatPut, Beaten, Erases, Carries
  <2> QED
    BY <1>2, <2>1, <2>2, <2>3, <2>4 DEF Write
<1>3. CASE RunPutFails(r)
  BY <1>3 DEF RunPutFails, Fault
<1>4. CASE BeatGet(r)
  BY <1>4 DEF BeatGet
<1>5. CASE Poll(r)
  BY <1>5 DEF Poll, Latch
<1>6. CASE SweepEnd(r)
  BY <1>6 DEF SweepEnd
<1>7. CASE Crash(r)
  BY <1>7 DEF Crash, Fault
<1>8. CASE Pause(r)
  <2>1. aged' \subseteq 1 .. MaxRuns /\ faults' \in 0 .. MaxFaults
    BY <1>8 DEF Pause, Fault
  <2>2. row' \in Row
    BY <1>8 DEF Pause
  <2> QED
    BY <1>8, <2>1, <2>2 DEF Pause
<1>9. CASE BeatFails(r)
  BY <1>9 DEF BeatFails, Fault
<1> QED
  BY <1>1, <1>2, <1>3, <1>4, <1>5, <1>6, <1>7, <1>8, <1>9

(* ... the requests to stop one, *)
LEMMA StopTypes ==
    ASSUME TypeOK, NEW c \in Stops, Stop(c)
    PROVE  TypeOK'
<1> USE RunAssumption DEF TypeOK, Row, NoRow, Runs, Stops, run, stop, past
<1>1. CASE StopRead(c)
  BY <1>1 DEF StopRead
<1>2. CASE StopGet(c)
  BY <1>2 DEF StopGet
<1>3. CASE StopPut(c)
  BY <1>3 DEF StopPut, IsRunning
<1>4. CASE StopPutFails(c)
  <2>1. {erased', unclaimed', unread', carried'} \subseteq BOOLEAN
    BY <1>4, Zenon DEF StopPutFails
  <2>2. stopped' \subseteq 1 .. MaxRuns
    BY <1>4 DEF StopPutFails
  <2>3. faults' \in 0 .. MaxFaults
    BY <1>4 DEF StopPutFails, Fault
  <2>4. sseen' \in [1 .. MaxStops -> Row]
    BY <1>4 DEF StopPutFails
  <2>5. spc' \in [1 .. MaxStops -> {"none", "get", "put", "done"}]
    BY <1>4 DEF StopPutFails
  <2>6. UNCHANGED <<row, lock, run, aged>>
    BY <1>4 DEF StopPutFails
  <2> QED
    BY <2>1, <2>2, <2>3, <2>4, <2>5, <2>6
<1> QED
  BY <1>1, <1>2, <1>3, <1>4 DEF Stop

(* ... and hence every step. *)
LEMMA TypeStep == ASSUME TypeOK, [Next]_vars PROVE TypeOK'
<1>1. CASE Age
  BY <1>1 DEF Age, TypeOK, Row, run, stop, past
<1>2. CASE UNCHANGED vars
  BY <1>2 DEF vars, TypeOK, run, stop, past
<1> QED
  BY <1>1, <1>2, RunTypes, StopTypes DEF Next

-----------------------------------------------------------------------------
(* Every step keeps the lock with the run that claims. *)
LEMMA LockStep == ASSUME TypeOK, LockInv, [Next]_vars PROVE LockInv'
<1> USE DEF TypeOK, LockInv, Runs, run, stop, past
<1>1. ASSUME NEW r \in Runs, ClaimLock(r) PROVE LockInv'
  BY <1>1, RunAssumption DEF ClaimLock, LockFree
<1>5. ASSUME NEW r \in Runs, ClaimUnread(r) PROVE LockInv'
  BY <1>5, RunAssumption DEF ClaimUnread, LockFree
<1>2. ASSUME NEW r \in Runs, ClaimPut(r) \/ ClaimFails(r) PROVE LockInv'
  BY <1>2, RunAssumption DEF ClaimPut, ClaimFails
<1>3. ASSUME NEW r \in Runs,
             Write(r) \/ RunPutFails(r) \/ BeatGet(r) \/ BeatFails(r) \/ Poll(r) \/ SweepEnd(r)
               \/ Crash(r) \/ Pause(r)
      PROVE  LockInv'
  <2>1. lock' = lock
    BY <1>3 DEF Write, ProgressGet, ProgressPut, FinishPut, BeatPut, RunPutFails, BeatGet, BeatFails, Poll,
                SweepEnd, Crash, Pause
  <2>2. \A s \in Runs : pc'[s] = "claim" <=> pc[s] = "claim"
    BY <1>3 DEF Write, ProgressGet, ProgressPut, FinishPut, BeatPut, RunPutFails, BeatGet, BeatFails, Poll,
                SweepEnd, Crash, Pause, Alive
  <2> QED
    BY <2>1, <2>2
<1>4. ASSUME (\E c \in Stops : Stop(c)) \/ Age \/ UNCHANGED vars PROVE LockInv'
  BY <1>4 DEF Stop, StopRead, StopGet, StopPut, StopPutFails, Age, vars
<1> QED
  BY <1>1, <1>2, <1>3, <1>4, <1>5 DEF Next, Claim
-----------------------------------------------------------------------------
(* No step takes back a silence or an overwritten claim. *)
LEMMA DisturbedStays == ASSUME TypeOK, [Next]_vars PROVE Undisturbed' => Undisturbed
<1>1. aged \subseteq aged'
  BY DEF Next, vars, run, past, Claim, ClaimLock, ClaimUnread, ClaimPut, ClaimFails, Write, ProgressGet, ProgressPut,
         FinishPut, BeatPut, RunPutFails, BeatGet, BeatFails, Poll, SweepEnd, SweepCanceled, Crash, Pause,
         Stop, StopRead, StopGet, StopPut, StopPutFails, Age
<1>2. unclaimed => unclaimed'
  BY DEF Next, vars, run, past, Claim, ClaimLock, ClaimUnread, ClaimPut, ClaimFails, Write, ProgressGet, ProgressPut,
         FinishPut, BeatPut, RunPutFails, BeatGet, BeatFails, Poll, SweepEnd, Crash, Pause,
         Stop, StopRead, StopGet, StopPut, StopPutFails, Age
<1>3. unread => unread'
  BY DEF Next, vars, run, past, Claim, ClaimLock, ClaimUnread, ClaimPut, ClaimFails, Write,
         ProgressGet, ProgressPut, FinishPut, BeatPut, RunPutFails, BeatGet, BeatFails, Poll,
         SweepEnd, Crash, Pause, Stop, StopRead, StopGet, StopPut, StopPutFails, Age
<1> QED
  BY <1>1, <1>2, <1>3 DEF Undisturbed

(* Every step of a run keeps the claim. *)
LEMMA RunClaim ==
    ASSUME IInv, NEW r \in Runs, Undisturbed, Undisturbed',
           Claim(r) \/ Write(r) \/ RunPutFails(r) \/ BeatGet(r) \/ BeatFails(r)
             \/ Poll(r) \/ SweepEnd(r) \/ Crash(r) \/ Pause(r)
    PROVE  ClaimInv'
<1>0. TypeOK /\ LockInv /\ ClaimInv
  BY DEF IInv
<1>t. r # 0 /\ \A s \in Runs : s # 0
  BY RunAssumption DEF Runs
<1> USE DEF Alive, IsRunning, TypeOK
<1>1. CASE ClaimLock(r)
  <2>1. CASE IsRunning(row)
    BY <1>0, <1>1, <2>1 DEF ClaimLock, LockFree, ClaimInv, Sole
  <2>2. CASE ~IsRunning(row)
    <3>1. \A s \in Runs : ~Alive(s)
      BY <1>0, <2>2 DEF ClaimInv, Sole
    <3> QED
      BY <1>0, <1>1, <2>2, <3>1 DEF ClaimLock, ClaimInv, Sole
  <2> QED
    BY <2>1, <2>2
<1>2. CASE ClaimPut(r)
  <2>1. \A s \in Runs : ~Alive(s)
    BY <1>0, <1>2, <1>t DEF ClaimPut, LockInv, ClaimInv, Sole
  <2>2. row'.running /\ row'.fresh
    BY <1>2 DEF ClaimPut, Claimed
  <2> QED
    BY <1>0, <1>2, <2>1, <2>2 DEF ClaimPut, ClaimInv, Sole
<1>3. CASE ClaimFails(r)
  BY <1>0, <1>3, <1>t DEF ClaimFails, LockInv, ClaimInv, Sole
<1>4. CASE ProgressGet(r)
  BY <1>0, <1>4 DEF ProgressGet, ClaimInv, Sole
<1>5. CASE ProgressPut(r)
  BY <1>0, <1>5 DEF ProgressPut, ClaimInv, Sole
<1>6. CASE FinishPut(r)
  <2>1. \A s \in Runs : ~Alive(s)'
    BY <1>0, <1>6 DEF FinishPut, ClaimInv, Sole
  <2> QED
    BY <1>0, <1>6, <2>1 DEF FinishPut, ClaimInv, Sole
<1>7. CASE BeatPut(r)
  <2>1. row'.running /\ row'.fresh
    BY <1>0, <1>7 DEF BeatPut, Beaten, ClaimInv, Row
  <2> QED
    BY <1>0, <1>7, <2>1 DEF BeatPut, ClaimInv, Sole
<1>8. CASE RunPutFails(r)
  BY <1>0, <1>8 DEF RunPutFails, ClaimInv, Sole
<1>9. CASE BeatGet(r)
  BY <1>0, <1>9 DEF BeatGet, ClaimInv, Sole
<1>10. CASE Poll(r) \/ SweepEnd(r)
  BY <1>0, <1>10 DEF Poll, SweepEnd, ClaimInv, Sole
<1>11. CASE Crash(r)
  BY <1>0, <1>11 DEF Crash, ClaimInv, Sole
<1>12. CASE Pause(r)
  BY <1>12 DEF Pause, Undisturbed
<1>13. CASE ClaimUnread(r)
  BY <1>13 DEF ClaimUnread, Undisturbed
<1>14. CASE BeatFails(r)
  BY <1>0, <1>14 DEF BeatFails, ClaimInv, Sole
<1> QED
  BY <1>1, <1>2, <1>3, <1>4, <1>5, <1>6, <1>7, <1>8, <1>9, <1>10, <1>11, <1>12, <1>13, <1>14
     DEF Claim, Write

(* So does every step of a stop: one that read the row before a claim is    *)
(* the disturbance.                                                         *)
LEMMA StopClaim ==
    ASSUME IInv, NEW c \in Stops, Undisturbed, Undisturbed', Stop(c)
    PROVE  ClaimInv'
<1>0. TypeOK /\ ClaimInv
  BY DEF IInv
<1> USE DEF Alive, IsRunning, run
<1>1. CASE StopRead(c) \/ StopGet(c) \/ StopPutFails(c)
  BY <1>0, <1>1 DEF StopRead, StopGet, StopPutFails, ClaimInv, Sole
<1>2. CASE StopPut(c)
  <2>1. IsRunning(row) => IsRunning(row')
    <3>1. IsRunning(row) => IsRunning(sseen[c])
      BY <1>2 DEF StopPut, Undisturbed
    <3>2. sseen[c] \in Row
      BY <1>0 DEF TypeOK
    <3> QED
      BY <1>2, <3>1, <3>2 DEF StopPut, Row
  <2> QED
    BY <1>0, <1>2, <2>1 DEF StopPut, ClaimInv, Sole
<1> QED
  BY <1>1, <1>2 DEF Stop

(* Every step keeps the claim. *)
LEMMA ClaimStep == ASSUME IInv, [Next]_vars PROVE ClaimInv'
<1>0. TypeOK /\ ClaimInv
  BY DEF IInv
<1>1. CASE ~Undisturbed'
  BY <1>1 DEF ClaimInv
<1>2. CASE Undisturbed'
  <2>0. Undisturbed
    BY <1>0, <1>2, DisturbedStays
  <2>1. CASE Age
    <3>1. \A r \in Runs : ~Alive(r)' /\ ~beating'[r]
      BY <2>1 DEF Age, Orphaned, run, Alive
    <3> QED
      BY <3>1 DEF ClaimInv
  <2>2. CASE UNCHANGED vars
    BY <1>0, <2>2 DEF vars, run, past, ClaimInv, Sole, Undisturbed, Alive, IsRunning
  <2> QED
    BY <1>2, <2>0, <2>1, <2>2, RunClaim, StopClaim DEF Next
<1> QED
  BY <1>1, <1>2

-----------------------------------------------------------------------------
(* Every step of a run keeps the causes of its cancels: a claim resets the *)
(* flag before its run is alive, a poll latches what was asked of it.      *)
LEMMA RunCancel ==
    ASSUME TypeOK, CancelInv, ~carried', NEW r \in Runs,
           Claim(r) \/ Write(r) \/ RunPutFails(r) \/ BeatGet(r) \/ BeatFails(r)
             \/ Poll(r) \/ SweepEnd(r) \/ Crash(r) \/ Pause(r)
    PROVE  CancelInv'
<1> USE DEF CancelInv, Alive, TypeOK, run, past
<1>1. CASE ClaimLock(r) \/ ClaimUnread(r) \/ ClaimFails(r)
  BY <1>1 DEF ClaimLock, ClaimUnread, ClaimFails
<1>2. CASE ClaimPut(r)
  BY <1>2 DEF ClaimPut, Claimed
<1>3. CASE ProgressGet(r)
  BY <1>3 DEF ProgressGet
<1>4. CASE ProgressPut(r)
  BY <1>4 DEF ProgressPut, Carries
<1>5. CASE FinishPut(r)
  BY <1>5 DEF FinishPut, Finished
<1>6. CASE BeatPut(r)
  BY <1>6 DEF BeatPut, Carries
<1>7. CASE RunPutFails(r)
  BY <1>7 DEF RunPutFails
<1>8. CASE BeatGet(r) \/ BeatFails(r) \/ SweepEnd(r)
  BY <1>8 DEF BeatGet, BeatFails, SweepEnd
<1>9. CASE Poll(r)
  BY <1>9 DEF Poll, Latch
<1>10. CASE Crash(r)
  BY <1>10 DEF Crash
<1>11. CASE Pause(r)
  BY <1>11 DEF Pause, Row
<1> QED
  BY <1>1, <1>2, <1>3, <1>4, <1>5, <1>6, <1>7, <1>8, <1>9, <1>10, <1>11 DEF Claim, Write

(* So does every other: a stop is asked of all that are alive. *)
LEMMA CancelStep == ASSUME TypeOK, CancelInv, [Next]_vars PROVE CancelInv'
<1> USE DEF CancelInv, Alive, TypeOK, run, past
<1>1. CASE carried'
  BY <1>1
<1>2. ASSUME NEW c \in Stops, Stop(c) PROVE CancelInv'
  BY <1>2 DEF Stop, StopRead, StopGet, StopPut, StopPutFails
<1>3. CASE Age
  BY <1>3 DEF Age, Row
<1>4. CASE UNCHANGED vars
  BY <1>4 DEF vars
<1> QED
  BY <1>1, <1>2, <1>3, <1>4, RunCancel DEF Next

-----------------------------------------------------------------------------
(* The invariant holds throughout. *)
LEMMA RunInvariant == Spec => []IInv
<1>1. Init => IInv
  <2> SUFFICES ASSUME Init PROVE IInv
    OBVIOUS
  <2>1. TypeOK
    BY InitTypes
  <2>2. LockInv
    BY RunAssumption DEF Init, LockInv, Runs
  <2>3. ClaimInv
    BY DEF Init, ClaimInv, Alive
  <2> QED
    BY <2>1, <2>2, <2>3 DEF IInv
<1>2. IInv /\ [Next]_vars => IInv'
  BY TypeStep, LockStep, ClaimStep DEF IInv
<1> QED
  BY <1>1, <1>2, PTL DEF Spec

(* The types, for any number of runs and of requests to stop. *)
THEOREM RunTypeCorrect == Spec => []TypeOK
<1>1. IInv => TypeOK
  BY DEF IInv
<1> QED
  BY <1>1, RunInvariant, PTL

(* Two runs of a sweep are alive at once only after one was silent for      *)
(* staleMs, a stop wrote back a row it had read before a claim, or a claim  *)
(* that could not read the row went over a live one.                        *)
THEOREM RunOneRunner == Spec => []OneRunner
<1>1. IInv => OneRunner
  BY DEF IInv, ClaimInv, Sole, OneRunner, Twice, Undisturbed
<1> QED
  BY <1>1, RunInvariant, PTL

(* A run is cancelled only by a stop requested while it was alive, or by an *)
(* earlier run's write that had read one and landed after the claim.        *)
THEOREM RunCanceledForCause == Spec => []CanceledForCause
<1>1. Init => CancelInv
  BY DEF Init, CancelInv, Alive
<1>2. TypeOK /\ CancelInv /\ [Next]_vars => CancelInv'
  BY CancelStep
<1>3. CancelInv => CanceledForCause
  BY DEF CancelInv, CanceledForCause
<1> QED
  BY <1>1, <1>2, <1>3, RunTypeCorrect, PTL DEF Spec
=============================================================================
