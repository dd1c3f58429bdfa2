------------------------- MODULE RenderQueueProofs --------------------------
(***************************************************************************)
(* Proofs about RenderQueue, for any number of claims, renders and results *)
(* in progress, of retries, events and restarts.                           *)
(***************************************************************************)
EXTENDS RenderQueue, TLAPS

Whats == {"ask", "mark"}
Row   == [due : BOOLEAN, same : BOOLEAN, mark : BOOLEAN, ask : BOOLEAN]

ClaimRecord  == [pc : {"read"}, same : BOOLEAN, moved : BOOLEAN]
FilingRecord == [pc : {"put"}, row : Row, moved : BOOLEAN]
JobRecord    == [pc : {"granted", "fetched", "rendered", "failed"}, latest : BOOLEAN, shows : Shows,
                 sinceGrant : SUBSET Whats, sinceFetch : SUBSET Whats]
ResultRecord == [pc : {"read", "write", "commit"}, outcome : {"rendered", "failed"},
                 lane : {"none", "fast", "slow", "landed", "ask"}, shows : Shows,
                 latest : BOOLEAN, own : BOOLEAN, stale : BOOLEAN,
                 since : SUBSET Whats, unseen : SUBSET Whats,
                 timely : BOOLEAN, asked : BOOLEAN, same : BOOLEAN, mark : BOOLEAN,
                 strikes : 0 .. MissLimit]

RecordsOK ==
    /\ claims \in [Claims -> ClaimRecord \cup {NoClaim}]
    /\ filing \in [Whats -> FilingRecord \cup {NoFiling}]
    /\ jobs \in [Jobs -> JobRecord \cup {NoJob}]
    /\ results \in [Results -> ResultRecord \cup {NoResult}]

-----------------------------------------------------------------------------
(* What is in progress is told from an empty place by its pc: of claims, *)
LEMMA ClaimPlace ==
    ASSUME NEW x \in ClaimRecord \cup {NoClaim}
    PROVE  (x \in ClaimRecord <=> x.pc # "none") /\ (x = NoClaim <=> x.pc = "none")
BY DEF ClaimRecord, NoClaim
(* ... of filings, *)
LEMMA FilingPlace ==
    ASSUME NEW x \in FilingRecord \cup {NoFiling}
    PROVE  (x \in FilingRecord <=> x.pc # "none") /\ (x = NoFiling <=> x.pc = "none")
BY DEF FilingRecord, NoFiling
(* ... of renders, *)
LEMMA JobPlace ==
    ASSUME NEW x \in JobRecord \cup {NoJob}
    PROVE  (x \in JobRecord <=> x.pc # "none") /\ (x = NoJob <=> x.pc = "none")
BY DEF JobRecord, NoJob
(* ... and of results. *)
LEMMA ResultPlace ==
    ASSUME NEW x \in ResultRecord \cup {NoResult}
    PROVE  (x \in ResultRecord <=> x.pc # "none") /\ (x = NoResult <=> x.pc = "none")
BY DEF ResultRecord, NoResult

(* The helpers keep the kinds of record they are given. *)
LEMMA MovedClaims ==
    ASSUME claims \in [Claims -> ClaimRecord \cup {NoClaim}]
    PROVE  /\ MovedUnder(claims) \in [Claims -> ClaimRecord \cup {NoClaim}]
           /\ \A c \in Claims : /\ MovedUnder(claims)[c].pc = claims[c].pc
                                /\ claims[c].pc # "none" => MovedUnder(claims)[c].moved
BY ClaimPlace DEF MovedUnder, ClaimRecord, NoClaim
(* A filing that read a row which has moved keeps the row it will put. *)
LEMMA MovedFiling ==
    ASSUME NEW f \in [Whats -> FilingRecord \cup {NoFiling}]
    PROVE  /\ MovedUnder(f) \in [Whats -> FilingRecord \cup {NoFiling}]
           /\ \A w \in Whats : /\ MovedUnder(f)[w].pc = f[w].pc
                               /\ f[w].pc # "none" => MovedUnder(f)[w].moved /\ MovedUnder(f)[w].row = f[w].row
BY FilingPlace DEF MovedUnder, FilingRecord, NoFiling
(* What a copy shows after a change, and after the probe has found it. *)
LEMMA ShowsAged ==
    ASSUME NEW s \in Shows
    PROVE  Aged(s) \in Shows /\ \A since : FoundOut(s, since) \in Shows
BY DEF Shows, Aged, FoundOut

(* A render, and a result, but for what it shows and what has been filed since. *)
SameJob(old, new) == new.pc = old.pc /\ new.latest = old.latest
SameResult(old, new) ==
    /\ new.pc = old.pc /\ new.outcome = old.outcome /\ new.lane = old.lane
    /\ new.latest = old.latest /\ new.own = old.own /\ new.stale = old.stale
    /\ new.timely = old.timely /\ new.asked = old.asked /\ new.same = old.same
    /\ new.mark = old.mark /\ new.strikes = old.strikes

(* What has been filed since a render is granted, or fetched. *)
LEMMA JobSinceType ==
    ASSUME NEW x \in JobRecord \cup {NoJob}, NEW w \in Whats
    PROVE  /\ JobSince(x, w) \in JobRecord \cup {NoJob}
           /\ JobSince(x, w).pc = x.pc
           /\ x.pc # "none" => /\ SameJob(x, JobSince(x, w)) /\ JobSince(x, w).shows = x.shows
                               /\ JobSince(x, w).sinceGrant = x.sinceGrant \cup {w}
BY JobPlace DEF JobSince, JobRecord, SameJob
(* The same of a result, which keeps the state of its handler. *)
LEMMA ResultSinceType ==
    ASSUME NEW x \in ResultRecord \cup {NoResult}, NEW w \in Whats
    PROVE  /\ ResultSince(x, w) \in ResultRecord \cup {NoResult}
           /\ ResultSince(x, w).pc = x.pc
           /\ x.pc # "none" => /\ SameResult(x, ResultSince(x, w)) /\ ResultSince(x, w).shows = x.shows
                               /\ ResultSince(x, w).since = x.since \cup {w}
                               /\ ResultSince(x, w).unseen = x.unseen
<1>1. CASE x = NoResult
  BY <1>1 DEF ResultSince, NoResult
<1>2. CASE x # NoResult
  <2>1. x \in ResultRecord /\ ResultSince(x, w) = [x EXCEPT !.since = @ \cup {w}]
    BY <1>2 DEF ResultSince
  <2> QED
    BY <2>1 DEF ResultRecord, SameResult
<1> QED
  BY <1>1, <1>2
(* A handler that has read the row takes note of what it does not see. *)
LEMMA UnseenByType ==
    ASSUME NEW x \in ResultRecord \cup {NoResult}, NEW put \in SUBSET Whats
    PROVE  /\ UnseenBy(x, put) \in ResultRecord \cup {NoResult}
           /\ UnseenBy(x, put).pc = x.pc
           /\ x.pc # "none" =>
                /\ SameResult(x, UnseenBy(x, put)) /\ UnseenBy(x, put).shows = x.shows
                /\ UnseenBy(x, put).since = x.since
                /\ UnseenBy(x, put).unseen = IF x.pc \in {"write", "commit"} THEN x.unseen \cup put ELSE x.unseen
<1>1. CASE x.pc \notin {"write", "commit"}
  BY <1>1 DEF UnseenBy, SameResult
<1>2. CASE x.pc \in {"write", "commit"}
  <2>1. x \in ResultRecord /\ UnseenBy(x, put) = [x EXCEPT !.unseen = @ \cup put]
    BY <1>2, ResultPlace DEF UnseenBy
  <2> QED
    BY <1>2, <2>1 DEF ResultRecord, SameResult
<1> QED
  BY <1>1, <1>2
(* What is put on the row is marks and asks. *)
LEMMA NewlyPutType == ASSUME NEW before, NEW after PROVE NewlyPut(before, after) \in SUBSET Whats
BY DEF NewlyPut, Whats

(* What the probe, or a change of the origin, makes of a render, *)
LEMMA JobShows ==
    ASSUME NEW x \in JobRecord, NEW s \in Shows
    PROVE  LET new == [x EXCEPT !.shows = s]
           IN  new \in JobRecord /\ SameJob(x, new) /\ new.shows = s /\ new.sinceGrant = x.sinceGrant
BY DEF JobRecord, SameJob
(* ... and of a result. *)
LEMMA ResultShows ==
    ASSUME NEW x \in ResultRecord, NEW s \in Shows
    PROVE  LET new == [x EXCEPT !.shows = s]
           IN  /\ new \in ResultRecord /\ SameResult(x, new) /\ new.shows = s
               /\ new.since = x.since /\ new.unseen = x.unseen
BY DEF ResultRecord, SameResult

(* A change of the origin ages the renders out and the results in hand. *)
LEMMA OriginRecords ==
    ASSUME RecordsOK, OriginChanges
    PROVE  /\ jobs' \in [Jobs -> JobRecord \cup {NoJob}]
           /\ results' \in [Results -> ResultRecord \cup {NoResult}]
           /\ \A j \in Jobs : /\ jobs'[j].pc = jobs[j].pc
                              /\ jobs[j].pc # "none" =>
                                   /\ SameJob(jobs[j], jobs'[j]) /\ jobs'[j].shows = Aged(jobs[j].shows)
                                   /\ jobs'[j].sinceGrant = jobs[j].sinceGrant
           /\ \A r \in Results : /\ results'[r].pc = results[r].pc
                                 /\ results[r].pc # "none" =>
                                      /\ SameResult(results[r], results'[r])
                                      /\ results'[r].shows = Aged(results[r].shows)
                                      /\ results'[r].since = results[r].since
                                      /\ results'[r].unseen = results[r].unseen
<1>1. ASSUME NEW j \in Jobs
      PROVE  /\ jobs'[j] \in JobRecord \cup {NoJob} /\ jobs'[j].pc = jobs[j].pc
             /\ jobs[j].pc # "none" => /\ SameJob(jobs[j], jobs'[j]) /\ jobs'[j].shows = Aged(jobs[j].shows)
                                       /\ jobs'[j].sinceGrant = jobs[j].sinceGrant
  <2>1. CASE j \in Out
    <3>1. jobs[j] \in JobRecord /\ jobs'[j] = [jobs[j] EXCEPT !.shows = Aged(jobs[j].shows)]
      BY <2>1 DEF OriginChanges, Out, RecordsOK
    <3>2. Aged(jobs[j].shows) \in Shows
      BY <3>1, ShowsAged DEF JobRecord
    <3> QED
      BY <3>1, <3>2, JobShows DEF SameJob
  <2>2. CASE j \notin Out
    BY <2>2 DEF OriginChanges, Out, NoJob
  <2> QED
    BY <2>1, <2>2
<1>2. ASSUME NEW r \in Results
      PROVE  /\ results'[r] \in ResultRecord \cup {NoResult} /\ results'[r].pc = results[r].pc
             /\ results[r].pc # "none" =>
                  /\ SameResult(results[r], results'[r]) /\ results'[r].shows = Aged(results[r].shows)
                  /\ results'[r].since = results[r].since /\ results'[r].unseen = results[r].unseen
  <2>1. CASE r \in Busy
    <3>1. results[r] \in ResultRecord /\ results'[r] = [results[r] EXCEPT !.shows = Aged(results[r].shows)]
      BY <2>1 DEF OriginChanges, Busy, RecordsOK
    <3>2. Aged(results[r].shows) \in Shows
      BY <3>1, ShowsAged DEF ResultRecord
    <3> QED
      BY <3>1, <3>2, ResultShows DEF SameResult
  <2>2. CASE r \notin Busy
    BY <2>2 DEF OriginChanges, Busy, NoResult
  <2> QED
    BY <2>1, <2>2
<1> QED
  BY <1>1, <1>2 DEF OriginChanges

(* A change the probe finds makes the copies of the old document known to be so. *)
SinceMark(since) == IF row.mark THEN since ELSE since \cup {"mark"}
LEMMA ProbeRecords ==
    ASSUME RecordsOK, ProbeFindsChange
    PROVE  /\ jobs' \in [Jobs -> JobRecord \cup {NoJob}]
           /\ results' \in [Results -> ResultRecord \cup {NoResult}]
           /\ \A j \in Jobs : /\ jobs'[j].pc = jobs[j].pc
                              /\ jobs[j].pc # "none" =>
                                   /\ SameJob(jobs[j], jobs'[j])
                                   /\ jobs'[j].shows = FoundOut(jobs[j].shows, jobs[j].sinceGrant)
                                   /\ jobs'[j].sinceGrant = SinceMark(jobs[j].sinceGrant)
           /\ \A r \in Results : /\ results'[r].pc = results[r].pc
                                 /\ results[r].pc # "none" =>
                                      /\ SameResult(results[r], results'[r])
                                      /\ results'[r].shows = FoundOut(results[r].shows, results[r].since)
                                      /\ results'[r].since = SinceMark(results[r].since)
                                      /\ results'[r].unseen = results[r].unseen
<1>1. ASSUME NEW j \in Jobs
      PROVE  /\ jobs'[j] \in JobRecord \cup {NoJob} /\ jobs'[j].pc = jobs[j].pc
             /\ jobs[j].pc # "none" =>
                  /\ SameJob(jobs[j], jobs'[j])
                  /\ jobs'[j].shows = FoundOut(jobs[j].shows, jobs[j].sinceGrant)
                  /\ jobs'[j].sinceGrant = SinceMark(jobs[j].sinceGrant)
  <2>1. CASE j \in Out
    <3> DEFINE s == FoundOut(jobs[j].shows, jobs[j].sinceGrant)
               known == [jobs[j] EXCEPT !.shows = s]
    <3>1. jobs[j] \in JobRecord /\ jobs'[j] = IF row.mark THEN known ELSE JobSince(known, "mark")
      BY <2>1 DEF ProbeFindsChange, Out, RecordsOK
    <3>2. s \in Shows
      BY <3>1, ShowsAged DEF JobRecord
    <3> HIDE DEF s
    <3>3. known \in JobRecord /\ SameJob(jobs[j], known) /\ known.shows = s
          /\ known.sinceGrant = jobs[j].sinceGrant
      BY <3>1, <3>2, JobShows
    <3> HIDE DEF known
    <3>4. CASE row.mark
      BY <3>1, <3>3, <3>4 DEF s, SinceMark, SameJob
    <3>5. CASE ~row.mark
      <4>1. jobs'[j] = JobSince(known, "mark")
        BY <3>1, <3>5
      <4>2. known.pc # "none"
        BY <3>3, JobPlace
      <4>3. /\ JobSince(known, "mark") \in JobRecord \cup {NoJob}
            /\ SameJob(known, JobSince(known, "mark")) /\ JobSince(known, "mark").shows = known.shows
            /\ JobSince(known, "mark").sinceGrant = known.sinceGrant \cup {"mark"}
        BY <3>3, <4>2, JobSinceType DEF Whats
      <4> QED
        BY <3>3, <3>5, <4>1, <4>3 DEF s, SinceMark, SameJob
    <3> QED
      BY <3>4, <3>5
  <2>2. CASE j \notin Out
    BY <2>2 DEF ProbeFindsChange, Out, NoJob
  <2> QED
    BY <2>1, <2>2
<1>2. ASSUME NEW r \in Results
      PROVE  /\ results'[r] \in ResultRecord \cup {NoResult} /\ results'[r].pc = results[r].pc
             /\ results[r].pc # "none" =>
                  /\ SameResult(results[r], results'[r])
                  /\ results'[r].shows = FoundOut(results[r].shows, results[r].since)
                  /\ results'[r].since = SinceMark(results[r].since)
                  /\ results'[r].unseen = results[r].unseen
  <2>1. CASE r \in Busy
    <3> DEFINE s == FoundOut(results[r].shows, results[r].since)
               known == [results[r] EXCEPT !.shows = s]
    <3>1. results[r] \in ResultRecord /\ results'[r] = IF row.mark THEN known ELSE ResultSince(known, "mark")
      BY <2>1 DEF ProbeFindsChange, Busy, RecordsOK
    <3>2. s \in Shows
      BY <3>1, ShowsAged DEF ResultRecord
    <3> HIDE DEF s
    <3>3. known \in ResultRecord /\ SameResult(results[r], known) /\ known.shows = s
          /\ known.since = results[r].since /\ known.unseen = results[r].unseen
      BY <3>1, <3>2, ResultShows
    <3> HIDE DEF known
    <3>4. CASE row.mark
      BY <3>1, <3>3, <3>4 DEF s, SinceMark, SameResult
    <3>5. CASE ~row.mark
      <4>1. results'[r] = ResultSince(known, "mark")
        BY <3>1, <3>5
      <4>2. known.pc # "none"
        BY <3>3, ResultPlace
      <4>3. /\ ResultSince(known, "mark") \in ResultRecord \cup {NoResult}
            /\ SameResult(known, ResultSince(known, "mark")) /\ ResultSince(known, "mark").shows = known.shows
            /\ ResultSince(known, "mark").since = known.since \cup {"mark"}
            /\ ResultSince(known, "mark").unseen = known.unseen
        BY <3>3, <4>2, ResultSinceType DEF Whats
      <4> QED
        BY <3>3, <3>5, <4>1, <4>3 DEF s, SinceMark, SameResult
    <3> QED
      BY <3>4, <3>5
  <2>2. CASE r \notin Busy
    BY <2>2 DEF ProbeFindsChange, Busy, NoResult
  <2> QED
    BY <2>1, <2>2
<1> QED
  BY <1>1, <1>2 DEF ProbeFindsChange

(* An ask filed for the first time is later than every render and result. *)
LEMMA AskRecords ==
    ASSUME RecordsOK, AskForRender
    PROVE  /\ jobs' \in [Jobs -> JobRecord \cup {NoJob}]
           /\ results' \in [Results -> ResultRecord \cup {NoResult}]
           /\ \A j \in Jobs : /\ jobs'[j].pc = jobs[j].pc
                              /\ jobs[j].pc # "none" =>
                                   /\ SameJob(jobs[j], jobs'[j]) /\ jobs'[j].shows = jobs[j].shows
                                   /\ jobs'[j].sinceGrant \in {jobs[j].sinceGrant, jobs[j].sinceGrant \cup {"ask"}}
           /\ \A r \in Results : /\ results'[r].pc = results[r].pc
                                 /\ results[r].pc # "none" =>
                                      /\ SameResult(results[r], results'[r])
                                      /\ results'[r].shows = results[r].shows
                                      /\ results'[r].since \in {results[r].since, results[r].since \cup {"ask"}}
                                      /\ results'[r].unseen = results[r].unseen
<1>1. CASE UNCHANGED <<jobs, results>>
  BY <1>1 DEF RecordsOK, SameJob, SameResult
<1>2. CASE Filed("ask")
  BY <1>2, JobSinceType, ResultSinceType DEF Filed, Whats, RecordsOK
<1> QED
  BY <1>1, <1>2 DEF AskForRender

(* The put of a filing is unseen by the handlers that have read the row. *)
LEMMA PutResults ==
    ASSUME RecordsOK, NEW what \in Whats, FilingWrites(what)
    PROVE  /\ results' \in [Results -> ResultRecord \cup {NoResult}]
           /\ \A r \in Results : /\ results'[r].pc = results[r].pc
                                 /\ results[r].pc # "none" =>
                                      /\ SameResult(results[r], results'[r])
                                      /\ results'[r].shows = results[r].shows
                                      /\ results'[r].since = results[r].since
                                      /\ results'[r].unseen = IF results[r].pc \in {"write", "commit"}
                                                              THEN results[r].unseen \cup NewlyPut(row, row')
                                                              ELSE results[r].unseen
<1>1. results' = [r \in Results |-> UnseenBy(results[r], NewlyPut(row, row'))]
  BY DEF FilingWrites
<1> QED
  BY <1>1, UnseenByType, NewlyPutType DEF RecordsOK

-----------------------------------------------------------------------------
(* Every step keeps the kinds of the records. *)
LEMMA RecordsInit == ASSUME Init PROVE RecordsOK
BY DEF Init, RecordsOK, Whats

(* Time, the origin, the probe, and asks for a render. *)
LEMMA RecordsOutside ==
    ASSUME TypeOK, RecordsOK,
           \/ ComeDue \/ LeaseExpires \/ GraceEnds \/ HoldEnds
           \/ OriginChanges \/ ProbeFindsChange \/ AskForRender
           \/ \E what \in Whats : FilingWrites(what)
    PROVE  RecordsOK'
<1> USE DEF RecordsOK
<1>1. CASE ComeDue \/ LeaseExpires \/ GraceEnds \/ HoldEnds
  BY <1>1 DEF ComeDue, LeaseExpires, GraceEnds, HoldEnds
<1>2. CASE OriginChanges
  BY <1>2, OriginRecords DEF OriginChanges
<1>f. ASSUME NEW what \in Whats, FileDueNow(what)
      PROVE  filing' \in [Whats -> FilingRecord \cup {NoFiling}]
  <2>1. PICK same \in FiledMinutes :
          filing' = [filing EXCEPT ![what] =
                      [pc |-> "put", row |-> FiledRow(what, same),
                       moved |-> ~KeepsMinute /\ ~(row.due /\ row.same /\ same)]]
    BY <1>f DEF FileDueNow
  <2>2. same \in BOOLEAN
    BY <2>1 DEF FiledMinutes
  <2>3. FiledRow(what, same) \in Row
    BY <2>2 DEF FiledRow, Row
  <2>4. (~KeepsMinute /\ ~(row.due /\ row.same /\ same)) \in BOOLEAN
    OBVIOUS
  <2> QED
    BY <2>1, <2>3, <2>4 DEF FilingRecord
<1>3. CASE ProbeFindsChange
  <2>1. filing' \in [Whats -> FilingRecord \cup {NoFiling}] /\ claims' = claims
    BY <1>3, <1>f DEF ProbeFindsChange, Whats
  <2> QED
    BY <1>3, <2>1, ProbeRecords
<1>4. CASE AskForRender
  <2>1. filing' \in [Whats -> FilingRecord \cup {NoFiling}] /\ claims' = claims
    BY <1>4, <1>f DEF AskForRender, Whats
  <2> QED
    BY <1>4, <2>1, AskRecords
<1>5. ASSUME NEW what \in Whats, FilingWrites(what) PROVE RecordsOK'
  <2>1. [filing EXCEPT ![what] = NoFiling] \in [Whats -> FilingRecord \cup {NoFiling}]
    OBVIOUS
  <2>2. filing' \in [Whats -> FilingRecord \cup {NoFiling}]
    BY <1>5, <2>1, MovedFiling DEF FilingWrites
  <2>3. claims' \in [Claims -> ClaimRecord \cup {NoClaim}] /\ jobs' = jobs
    BY <1>5, MovedClaims DEF FilingWrites
  <2> QED
    BY <1>5, <2>2, <2>3, PutResults
<1> QED
  BY <1>1, <1>2, <1>3, <1>4, <1>5

(* Claims and the fleet. *)
LEMMA RecordsFleet ==
    ASSUME TypeOK, RecordsOK,
           (\E c \in Claims : Claim(c)) \/ (\E j \in Jobs : Fetch(j) \/ JobEnds(j))
    PROVE  RecordsOK'
<1> USE DEF RecordsOK
<1>1. ASSUME NEW c \in Claims, ClaimReads(c) PROVE RecordsOK'
  BY <1>1 DEF ClaimReads, ClaimRecord, TypeOK
<1>2. ASSUME NEW c \in Claims, ClaimRefused(c) \/ ClaimHolds(c) PROVE RecordsOK'
  BY <1>2 DEF ClaimRefused, ClaimHolds
<1>3. ASSUME NEW c \in Claims, ClaimGrants(c) PROVE RecordsOK'
  <2>1. claims' \in [Claims -> ClaimRecord \cup {NoClaim}]
    BY <1>3 DEF ClaimGrants
  <2>2. claims[c] \in ClaimRecord
    BY <1>3 DEF ClaimGrants
  <2>3. \A w \in Whats : filing[w] \in FilingRecord =>
          [filing[w] EXCEPT !.row.same = ~filing[w].moved /\ ~claims[c].moved] \in FilingRecord
    <3> SUFFICES ASSUME NEW w \in Whats, filing[w] \in FilingRecord
                 PROVE  [filing[w] EXCEPT !.row.same = ~filing[w].moved /\ ~claims[c].moved] \in FilingRecord
      OBVIOUS
    <3> DEFINE s == ~filing[w].moved /\ ~claims[c].moved
    <3>1. s \in BOOLEAN
      OBVIOUS
    <3>2. filing[w].row \in Row
      BY DEF FilingRecord
    <3>3. [filing[w] EXCEPT !.row.same = s] \in FilingRecord
      <4> HIDE DEF s
      <4>1. [filing[w].row EXCEPT !.same = s] \in Row
        BY <3>1, <3>2 DEF Row
      <4>2. [filing[w] EXCEPT !.row = [filing[w].row EXCEPT !.same = s]] \in FilingRecord
        BY <4>1 DEF FilingRecord
      <4> QED
        BY <4>2 DEF FilingRecord
    <3> QED
      BY <3>3
  <2>4. filing' \in [Whats -> FilingRecord \cup {NoFiling}]
    BY <1>3, <2>3 DEF ClaimGrants
  <2>5. jobs' \in [Jobs -> JobRecord \cup {NoJob}]
    <3>1. \A i \in Out : [jobs[i] EXCEPT !.latest = FALSE, !.sinceGrant = {}] \in JobRecord
      BY DEF Out, JobRecord
    <3>2. [pc |-> "granted", latest |-> TRUE, shows |-> "nothing", sinceGrant |-> {}, sinceFetch |-> {}]
             \in JobRecord
      BY DEF JobRecord, Shows
    <3>3. PICK j \in Jobs \ Out :
             jobs' = [i \in Jobs |->
                        IF i = j THEN [pc |-> "granted", latest |-> TRUE, shows |-> "nothing",
                                       sinceGrant |-> {}, sinceFetch |-> {}]
                        ELSE IF i \in Out THEN [jobs[i] EXCEPT !.latest = FALSE, !.sinceGrant = {}] ELSE NoJob]
      BY <1>3, Zenon DEF ClaimGrants
    <3> QED
      BY <3>1, <3>2, <3>3
  <2>6. results' \in [Results -> ResultRecord \cup {NoResult}]
    <3>1. \A r \in Busy : [results[r] EXCEPT !.latest = FALSE, !.own = FALSE, !.stale = FALSE] \in ResultRecord
      BY DEF Busy, ResultRecord
    <3> QED
      BY <1>3, <3>1 DEF ClaimGrants
  <2> QED
    BY <2>1, <2>4, <2>5, <2>6
<1>4. ASSUME NEW j \in Jobs, Fetch(j) PROVE RecordsOK'
  <2>1. jobs[j] \in JobRecord
    BY <1>4, JobPlace DEF Fetch
  <2>2. [jobs[j] EXCEPT !.pc = "fetched", !.shows = "current"] \in JobRecord
    BY <2>1 DEF JobRecord, Shows
  <2>3. jobs' = [jobs EXCEPT ![j] = [jobs[j] EXCEPT !.pc = "fetched", !.shows = "current"]]
    BY <1>4 DEF Fetch
  <2> QED
    BY <1>4, <2>2, <2>3 DEF Fetch
<1>5. ASSUME NEW j \in Jobs, JobEnds(j) PROVE RecordsOK'
  BY <1>5 DEF JobEnds
<1> QED
  BY <1>1, <1>2, <1>3, <1>4, <1>5 DEF Claim

(* A release touches no record. *)
LEMMA ReleaseFrame ==
    ASSUME NEW r, NEW asLeftDue, Release(r, asLeftDue)
    PROVE  /\ lease' \in {lease, "grace", "lapsed"} /\ misses' = misses
           /\ ~Releases(r) => UNCHANGED <<lease, leftDue, streak>>
           /\ Releases(r) => /\ lease' = ReleasedTo
                             /\ leftDue' = (leftDue \/ asLeftDue)
                             /\ streak' = IF asLeftDue /\ streak > 0 THEN streak - 1 ELSE streak
BY DEF Release, ReleasedTo, table

(* A commit takes its own result out, and what it puts is unseen by the others. *)
LEMMA CommitResults ==
    ASSUME RecordsOK, NEW r \in Results, CommitLands(r)
    PROVE  /\ results' \in [Results -> ResultRecord \cup {NoResult}]
           /\ results'[r].pc = "none"
           /\ \A q \in Results : results'[q].pc # "none" =>
                /\ q # r /\ SameResult(results[q], results'[q])
                /\ results'[q].shows = results[q].shows /\ results'[q].since = results[q].since
                /\ results'[q].unseen = IF results[q].pc \in {"write", "commit"}
                                        THEN results[q].unseen \cup NewlyPut(row, row') ELSE results[q].unseen
<1>1. results' = [q \in Results |-> IF q = r THEN NoResult ELSE UnseenBy(results[q], NewlyPut(row, row'))]
  BY DEF CommitLands
<1>2. \A q \in Results \ {r} : results'[q] = UnseenBy(results[q], NewlyPut(row, row'))
  BY <1>1
<1>3. results'[r] = NoResult /\ NoResult.pc = "none"
  BY <1>1 DEF NoResult
<1> DEFINE put == NewlyPut(row, row')
<1>4. put \in SUBSET Whats
  BY NewlyPutType
<1> HIDE DEF put
<1>5. ASSUME NEW q \in Results \ {r}
      PROVE  /\ results'[q] \in ResultRecord \cup {NoResult}
             /\ results'[q].pc = results[q].pc
             /\ results[q].pc # "none" =>
                  /\ SameResult(results[q], results'[q])
                  /\ results'[q].shows = results[q].shows /\ results'[q].since = results[q].since
                  /\ results'[q].unseen = IF results[q].pc \in {"write", "commit"}
                                          THEN results[q].unseen \cup put ELSE results[q].unseen
  <2>1. results[q] \in ResultRecord \cup {NoResult} /\ results'[q] = UnseenBy(results[q], put)
    BY <1>2 DEF RecordsOK, put
  <2> QED
    BY <1>4, <2>1, UnseenByType
<1>6. results' \in [Results -> ResultRecord \cup {NoResult}]
  BY <1>1, <1>3, <1>5
<1> QED
  BY <1>3, <1>5, <1>6 DEF put

(* Results. *)
LEMMA RecordsResult ==
    ASSUME TypeOK, RecordsOK, NEW r \in Results, Result(r)
    PROVE  RecordsOK'
<1> USE DEF RecordsOK
<1>1. ASSUME NEW j \in Jobs, NEW outcome \in {"rendered", "failed"}, NEW timed \in BOOLEAN,
             ResultArrives(r, j, outcome, timed)
      PROVE  RecordsOK'
  <2> DEFINE shows == IF outcome = "failed" THEN "nothing" ELSE jobs[j].shows
             stale == HasGrant /\ ~jobs[j].latest /\ ~timed
  <2>1. jobs[j] \in JobRecord
    BY <1>1, JobPlace DEF ResultArrives
  <2>s. shows \in Shows
    BY <2>1 DEF JobRecord, Shows
  <2>2. jobs' = [jobs EXCEPT ![j] = [jobs[j] EXCEPT !.pc = outcome, !.shows = shows]]
    BY <1>1 DEF ResultArrives
  <2>4. HasGrant \in BOOLEAN /\ stale \in BOOLEAN /\ jobs[j].latest \in BOOLEAN
    BY <2>1 DEF HasGrant, JobRecord
  <2>5. Since(j, timed) \in SUBSET Whats
    BY <2>1 DEF Since, JobRecord
  <2>6. results' = [results EXCEPT ![r] =
          [pc |-> "read", outcome |-> outcome, lane |-> "none", shows |-> shows,
           latest |-> HasGrant, own |-> jobs[j].latest, stale |-> stale,
           since |-> Since(j, timed), unseen |-> {},
           timely |-> FALSE, asked |-> FALSE, same |-> FALSE, mark |-> FALSE, strikes |-> 0]]
    BY <1>1 DEF ResultArrives
  <2> HIDE DEF shows, stale
  <2>7. [jobs[j] EXCEPT !.pc = outcome, !.shows = shows] \in JobRecord
    BY <2>1, <2>s DEF JobRecord
  <2>8. [pc |-> "read", outcome |-> outcome, lane |-> "none", shows |-> shows,
         latest |-> HasGrant, own |-> jobs[j].latest, stale |-> stale,
         since |-> Since(j, timed), unseen |-> {},
         timely |-> FALSE, asked |-> FALSE, same |-> FALSE, mark |-> FALSE, strikes |-> 0] \in ResultRecord
    BY <2>s, <2>4, <2>5, CycleAssumption DEF ResultRecord, MissLimit
  <2>9. UNCHANGED <<claims, filing>>
    BY <1>1 DEF ResultArrives
  <2> QED
    BY <2>2, <2>6, <2>7, <2>8, <2>9
<1>2. CASE ResultSuperseded(r)
  BY <1>2 DEF ResultSuperseded
<1>3. CASE ResultThrows(r) \/ CommitFails(r)
  BY <1>3 DEF ResultThrows, CommitFails
<1>4. CASE ResultReads(r)
  <2> DEFINE a == results[r].outcome = "rendered" /\ row.ask /\ "ask" \in results[r].since
             m == a /\ row.same
  <2>1. a \in BOOLEAN /\ m \in BOOLEAN
    OBVIOUS
  <2>2. results[r] \in ResultRecord
    BY <1>4, ResultPlace DEF ResultReads
  <2>3. results' = [results EXCEPT ![r] = [results[r] EXCEPT !.pc = "write", !.asked = a, !.same = m]]
    BY <1>4 DEF ResultReads
  <2> HIDE DEF a, m
  <2>4. [results[r] EXCEPT !.pc = "write", !.asked = a, !.same = m] \in ResultRecord
    BY <2>1, <2>2 DEF ResultRecord
  <2> QED
    BY <1>4, <2>3, <2>4 DEF ResultReads
<1>t. Timely(r) \in BOOLEAN /\ (results[r].pc # "none" => results[r] \in ResultRecord)
  BY ResultPlace DEF Timely
<1>5. CASE ResultRendered(r)
  <2>1. results[r] \in ResultRecord /\ KeepAsk(r) \in BOOLEAN
    BY <1>5, <1>t DEF ResultRendered, KeepAsk, ResultRecord
  <2>2. results' = [results EXCEPT ![r] =
          [results[r] EXCEPT !.pc = "commit", !.lane = IF KeepAsk(r) THEN "ask" ELSE "landed",
                             !.timely = Timely(r)]]
    BY <1>5 DEF ResultRendered
  <2>3. [results[r] EXCEPT !.pc = "commit", !.lane = IF KeepAsk(r) THEN "ask" ELSE "landed",
                           !.timely = Timely(r)] \in ResultRecord
    BY <1>t, <2>1 DEF ResultRecord
  <2> QED
    BY <1>5, <2>2, <2>3 DEF ResultRendered
<1>6. CASE ResultFailsFast(r)
  <2>1. results[r] \in ResultRecord /\ strikes + 1 \in 0 .. MissLimit
    BY <1>6, <1>t, CycleAssumption DEF ResultFailsFast, TypeOK, MissLimit
  <2>2. results' = [results EXCEPT ![r] =
          [results[r] EXCEPT !.pc = "commit", !.lane = "fast", !.strikes = strikes + 1, !.timely = Timely(r)]]
    BY <1>6 DEF ResultFailsFast
  <2>3. [results[r] EXCEPT !.pc = "commit", !.lane = "fast", !.strikes = strikes + 1, !.timely = Timely(r)]
          \in ResultRecord
    BY <1>t, <2>1 DEF ResultRecord
  <2> QED
    BY <1>6, <2>2, <2>3 DEF ResultFailsFast
<1>7. CASE ResultFailsSlow(r)
  <2>1. /\ results[r] \in ResultRecord /\ AtMost(strikes + 1, MissLimit) \in 0 .. MissLimit
        /\ CarriedMark \in BOOLEAN
    BY <1>7, <1>t, CycleAssumption DEF ResultFailsSlow, TypeOK, MissLimit, AtMost, CarriedMark
  <2>2. results' = [results EXCEPT ![r] =
          [results[r] EXCEPT !.pc = "commit", !.lane = "slow", !.strikes = AtMost(strikes + 1, MissLimit),
                             !.mark = CarriedMark, !.unseen = @ \ {"mark"}, !.timely = Timely(r)]]
    BY <1>7 DEF ResultFailsSlow
  <2>3. [results[r] EXCEPT !.pc = "commit", !.lane = "slow", !.strikes = AtMost(strikes + 1, MissLimit),
                           !.mark = CarriedMark, !.unseen = @ \ {"mark"}, !.timely = Timely(r)]
          \in ResultRecord
    BY <1>t, <2>1 DEF ResultRecord
  <2> QED
    BY <1>7, <2>2, <2>3 DEF ResultFailsSlow
<1>8. CASE CommitLands(r)
  <2>1. claims' \in [Claims -> ClaimRecord \cup {NoClaim}] /\ filing' \in [Whats -> FilingRecord \cup {NoFiling}]
    BY <1>8, MovedClaims, MovedFiling DEF CommitLands
  <2>2. results' \in [Results -> ResultRecord \cup {NoResult}] /\ jobs' = jobs
    BY <1>8, CommitResults DEF CommitLands
  <2> QED
    BY <2>1, <2>2
<1> QED
  BY <1>1, <1>2, <1>3, <1>4, <1>5, <1>6, <1>7, <1>8 DEF Result

(* A restart, and a step of nobody. *)
LEMMA RecordsStill ==
    ASSUME RecordsOK, Restart \/ UNCHANGED vars
    PROVE  RecordsOK'
<1> USE DEF RecordsOK
<1>1. CASE Restart
  <2>1. \A j \in Out : [jobs[j] EXCEPT !.latest = FALSE] \in JobRecord
    BY DEF Out, JobRecord
  <2> QED
    BY <1>1, <2>1 DEF Restart, Whats
<1>2. CASE UNCHANGED vars
  BY <1>2 DEF vars
<1> QED
  BY <1>1, <1>2

(* Hence every step does. *)
LEMMA RecordsStep == ASSUME TypeOK, RecordsOK, [Next]_vars PROVE RecordsOK'
BY RecordsOutside, RecordsFleet, RecordsResult, RecordsStill DEF Next, Whats

-----------------------------------------------------------------------------
(* The wedge bound.  No more leases have been granted than the misses that  *)
(* the next grant would carry; and a row, or what a filing or claim has     *)
(* read of it, is no longer at its minute only if the count started again.  *)
FilingInv ==
    \A w \in Whats : filing[w].pc # "none" =>
        /\ ~(filing[w].row.mark /\ filing[w].row.ask)
        /\ lease = "none" => ~filing[w].row.same
StreakInv ==
    /\ streak \in Nat /\ streak <= MissLimit + 1 /\ streak <= misses + 1
    /\ leftDue => streak <= misses
    /\ lease \in {"none", "held", "unheld"} => streak = 0
MinuteInv ==
    ~leftDue =>
      /\ ~row.same => streak = 0
      /\ \A w \in Whats : filing[w].pc # "none" /\ ~filing[w].moved /\ ~filing[w].row.same => streak = 0
      /\ ~IsLeased =>
           \A c \in Claims : claims[c].pc # "none" /\ ~claims[c].moved /\ ~claims[c].same => streak = 0

ResultInv ==
    \A r \in Results : results[r].pc # "none" =>
        /\ results[r].latest => results[r].own \/ results[r].stale
        /\ results[r].pc = "commit" => results[r].lane # "none"
        /\ results[r].lane \in {"landed", "ask"} => results[r].outcome = "rendered"
        /\ results[r].pc = "commit" /\ results[r].timely /\ results[r].lane # "fast" => lease = "grace"

RowInv == TypeOK /\ FilingInv /\ StreakInv /\ MinuteInv

IInv == RecordsOK /\ RowInv /\ ResultInv

(* The row of a URL just discovered, under an empty slot. *)
LEMMA RowInit == ASSUME Init PROVE RowInv
<1>1. TypeOK
  <2>1. row = [due |-> FALSE, same |-> FALSE, mark |-> FALSE, ask |-> FALSE] /\ leftDue = FALSE
    BY DEF Init
  <2>2. misses \in 0 .. MaxMisses /\ strikes \in 0 .. MissLimit
    BY CycleAssumption DEF Init, MissLimit
  <2>3. lease = "none" /\ misses = 0 /\ page = "current"
    BY DEF Init
  <2> QED
    BY <2>1, <2>2, <2>3 DEF TypeOK, LeaseStates, Shows
<1>2. FilingInv /\ StreakInv /\ MinuteInv
  BY CycleAssumption DEF Init, FilingInv, StreakInv, MinuteInv, Whats, NoFiling, NoClaim, MissLimit
<1> QED
  BY <1>1, <1>2 DEF RowInv

(* Time passes. *)
LEMMA RowTime ==
    ASSUME IInv, ComeDue \/ LeaseExpires \/ GraceEnds \/ HoldEnds
    PROVE  RowInv'
<1>0. RecordsOK /\ TypeOK /\ FilingInv /\ StreakInv /\ MinuteInv
  BY DEF IInv, RowInv
<1>1. CASE ComeDue
  <2>1. row' = [row EXCEPT !.due = TRUE] /\ row \in Row
    BY <1>0, <1>1 DEF ComeDue, TypeOK, Row
  <2>2. row' \in Row /\ row'.same = row.same /\ row'.mark = row.mark /\ row'.ask = row.ask
    BY <2>1 DEF Row
  <2>3. UNCHANGED <<lease, misses, leftDue, strikes, page, filing, claims, streak>>
    BY <1>1 DEF ComeDue, table, history
  <2> QED
    BY <1>0, <2>2, <2>3 DEF RowInv, TypeOK, Row, FilingInv, StreakInv, MinuteInv, IsLeased
<1>2. CASE LeaseExpires \/ GraceEnds \/ HoldEnds
  <2>1. /\ UNCHANGED <<row, misses, leftDue, strikes, page, filing, claims, streak>>
        /\ lease \in {"live", "grace", "held"} /\ lease' \in {"expired", "released", "unheld"}
        /\ (lease' = "unheld" <=> lease = "held")
    BY <1>2 DEF LeaseExpires, GraceEnds, HoldEnds, history
  <2>2. \A c \in Claims : claims[c].pc = "none"
    <3>1. Claiming = {}
      BY <1>2 DEF LeaseExpires, GraceEnds, HoldEnds, Idle
    <3> QED
      BY <3>1 DEF Claiming, NoClaim
  <2> QED
    BY <1>0, <2>1, <2>2 DEF RowInv, TypeOK, LeaseStates, FilingInv, StreakInv, MinuteInv
<1> QED
  BY <1>1, <1>2

(* A filing under way is at the row's minute if it keeps it. *)
LEMMA RowFiles ==
    ASSUME IInv, NEW what \in Whats, FileDueNow(what), page' \in Shows,
           UNCHANGED <<row, lease, misses, leftDue, strikes, claims, streak>>
    PROVE  RowInv'
<1>0. RecordsOK /\ TypeOK /\ FilingInv /\ StreakInv /\ MinuteInv
  BY DEF IInv, RowInv
<1>1. PICK same \in FiledMinutes :
        filing' = [filing EXCEPT ![what] =
                    [pc |-> "put", row |-> FiledRow(what, same),
                     moved |-> ~KeepsMinute /\ ~(row.due /\ row.same /\ same)]]
  BY DEF FileDueNow
<1>2. same \in BOOLEAN /\ (lease = "none" => ~same)
  BY <1>1 DEF FiledMinutes
<1>3. /\ filing'[what].row.same = same
      /\ ~(filing'[what].row.mark /\ filing'[what].row.ask)
      /\ filing'[what].moved = (~KeepsMinute /\ ~(row.due /\ row.same /\ same))
      /\ \A w \in Whats : w # what => filing'[w] = filing[w]
  BY <1>0, <1>1, <1>2 DEF RecordsOK, FiledRow
<1>4. TypeOK' /\ FilingInv' /\ StreakInv'
  BY <1>0, <1>2, <1>3 DEF TypeOK, FilingInv, StreakInv
<1>5. ~leftDue /\ ~filing'[what].moved /\ ~same => streak = 0
  BY <1>0, <1>3 DEF KeepsMinute, MinuteInv
<1> QED
  BY <1>0, <1>3, <1>4, <1>5 DEF RowInv, MinuteInv, IsLeased

(* The origin changes, the probe files a mark, a caller asks for a render. *)
LEMMA RowOutside ==
    ASSUME IInv, OriginChanges \/ ProbeFindsChange \/ AskForRender
    PROVE  RowInv'
<1>0. RecordsOK /\ TypeOK /\ FilingInv /\ StreakInv /\ MinuteInv
  BY DEF IInv, RowInv
<1>1. CASE OriginChanges
  <2>1. page' \in Shows /\ UNCHANGED <<row, lease, misses, leftDue, strikes, filing, claims, streak>>
    BY <1>0, <1>1, ShowsAged DEF OriginChanges, TypeOK, table, history
  <2> QED
    BY <1>0, <2>1 DEF RowInv, TypeOK, FilingInv, StreakInv, MinuteInv, IsLeased
<1>2. CASE ProbeFindsChange
  <2>1. page' \in Shows /\ FileDueNow("mark") /\ "mark" \in Whats
    BY <1>2 DEF ProbeFindsChange, Whats, Shows
  <2>2. UNCHANGED <<row, lease, misses, leftDue, strikes, claims, streak>>
    BY <1>2 DEF ProbeFindsChange, table, history
  <2> QED
    BY <2>1, <2>2, RowFiles
<1>3. CASE AskForRender
  BY <1>0, <1>3, RowFiles DEF AskForRender, Whats, TypeOK, table, history
<1> QED
  BY <1>1, <1>2, <1>3

(* A filing's put. *)
LEMMA RowPut ==
    ASSUME IInv, NEW what \in Whats, FilingWrites(what)
    PROVE  RowInv'
<1>0. RecordsOK /\ TypeOK /\ FilingInv /\ StreakInv /\ MinuteInv
  BY DEF IInv, RowInv
<1> DEFINE filed == filing[what].row
           moves == filing[what].moved
           others == [filing EXCEPT ![what] = NoFiling]
<1>1. filing[what] \in FilingRecord /\ filing[what].pc # "none"
  BY <1>0, FilingPlace DEF FilingWrites, RecordsOK
<1>2. filed \in Row /\ moves \in BOOLEAN
  BY <1>1 DEF FilingRecord
<1>3. /\ row' = filed /\ claims' = (IF moves THEN MovedUnder(claims) ELSE claims)
      /\ streak' = (IF moves /\ ~filed.same THEN 0 ELSE streak)
      /\ filing' = (IF moves THEN MovedUnder(others) ELSE others)
      /\ UNCHANGED <<lease, misses, leftDue, strikes, page>>
  BY DEF FilingWrites, table
<1>4. others \in [Whats -> FilingRecord \cup {NoFiling}] /\ others[what].pc = "none"
      /\ \A w \in Whats : w # what => others[w] = filing[w]
  BY <1>0 DEF RecordsOK, NoFiling
<1>5. \A w \in Whats : filing'[w].pc # "none" =>
        /\ filing[w].pc # "none" /\ filing'[w].row = filing[w].row
        /\ ~filing'[w].moved => ~filing[w].moved
  BY <1>3, <1>4, MovedFiling
<1>6. \A c \in Claims : claims'[c].pc # "none" /\ ~claims'[c].moved => claims'[c] = claims[c]
  BY <1>0, <1>3, MovedClaims DEF RecordsOK
<1> HIDE DEF others
<1>7. TypeOK'
  BY <1>0, <1>1, <1>2, <1>3 DEF TypeOK, Row, FilingInv
<1>8. FilingInv' /\ StreakInv'
  <2>1. FilingInv'
    BY <1>0, <1>3, <1>5 DEF FilingInv
  <2>2. StreakInv'
    BY <1>0, <1>3, CycleAssumption DEF StreakInv, TypeOK, MissLimit
  <2> QED
    BY <2>1, <2>2
<1>9. MinuteInv'
  <2> SUFFICES ASSUME ~leftDue', streak' # 0
               PROVE  /\ row'.same
                      /\ \A w \in Whats : filing'[w].pc # "none" /\ ~filing'[w].moved => filing'[w].row.same
                      /\ ~IsLeased' => \A c \in Claims : claims'[c].pc # "none" /\ ~claims'[c].moved
                                                           => claims'[c].same
    BY DEF MinuteInv
  <2>1. ~leftDue /\ streak # 0 /\ (IsLeased' <=> IsLeased)
    BY <1>3 DEF IsLeased
  <2>2. row'.same
    BY <1>0, <1>1, <1>3, <2>1 DEF MinuteInv
  <2> QED
    BY <1>0, <1>5, <1>6, <2>1, <2>2 DEF MinuteInv
<1> QED
  BY <1>7, <1>8, <1>9 DEF RowInv

(* A claim: what it holds back or grants carries the misses so far. *)
LEMMA RowClaim ==
    ASSUME IInv, NEW c \in Claims, Claim(c)
    PROVE  RowInv'
<1>0. RecordsOK /\ TypeOK /\ FilingInv /\ StreakInv /\ MinuteInv
  BY DEF IInv, RowInv
<1>1. CASE ClaimReads(c)
  <2>1. UNCHANGED <<row, lease, misses, leftDue, strikes, page, filing, streak>>
    BY <1>1 DEF ClaimReads, table, history
  <2>2. claims'[c].same = row.same /\ \A d \in Claims : d # c => claims'[d] = claims[d]
    BY <1>0, <1>1 DEF ClaimReads, RecordsOK
  <2> QED
    BY <1>0, <2>1, <2>2 DEF RowInv, TypeOK, FilingInv, StreakInv, MinuteInv, IsLeased
<1>2. CASE ClaimRefused(c)
  <2>1. UNCHANGED <<row, lease, misses, leftDue, strikes, page, filing, streak>>
    BY <1>2 DEF ClaimRefused, table, history
  <2>2. claims'[c].pc = "none" /\ \A d \in Claims : d # c => claims'[d] = claims[d]
    BY <1>0, <1>2 DEF ClaimRefused, RecordsOK, NoClaim
  <2> QED
    BY <1>0, <2>1, <2>2 DEF RowInv, TypeOK, FilingInv, StreakInv, MinuteInv, IsLeased
<1> DEFINE same == claims[c].same
<1>m. MissesOf(same) \in 0 .. MaxMisses
  BY <1>0, CycleAssumption DEF MissesOf, AtMost, TypeOK, MissLimit
<1>3. CASE ClaimHolds(c)
  <2>1. UNCHANGED <<row, leftDue, strikes, page, filing>> /\ lease' = "held" /\ streak' = 0
        /\ misses' = MissesOf(same)
    BY <1>3 DEF ClaimHolds
  <2>2. lease # "none"
    <3>1. lease = "none" => MissesOf(same) = 0
      BY DEF MissesOf, Reset, Counted, Released
    <3>2. MissesBeforeGrant(same) > MissLimit
      BY <1>3 DEF ClaimHolds
    <3> QED
      BY <3>1, <3>2, CycleAssumption DEF MissesBeforeGrant, MissLimit
  <2>3. StreakInv' /\ MinuteInv'
    <3>1. StreakInv'
      BY <1>m, <2>1, CycleAssumption DEF StreakInv, MissLimit
    <3>2. MinuteInv'
      BY <2>1 DEF MinuteInv
    <3> QED
      BY <3>1, <3>2
  <2> QED
    BY <1>0, <1>m, <2>1, <2>2, <2>3 DEF RowInv, TypeOK, LeaseStates, FilingInv
<1>4. CASE ClaimGrants(c)
  <2>1. /\ claims[c].pc # "none" /\ claims[c] \in ClaimRecord /\ ~IsLeased
        /\ MissesBeforeGrant(same) <= MissLimit
        /\ lease' = "live" /\ misses' = MissesOf(same) /\ leftDue' = FALSE
        /\ row' = [row EXCEPT !.same = ~claims[c].moved]
        /\ streak' = (IF claims[c].moved THEN 0 ELSE streak + 1)
        /\ UNCHANGED <<strikes, page>>
    BY <1>0, <1>4, ClaimPlace DEF ClaimGrants, RecordsOK, GrantLeftDue
  <2>2. row' \in Row /\ row'.same = ~claims[c].moved /\ row'.mark = row.mark /\ row'.ask = row.ask
    BY <1>0, <2>1 DEF TypeOK, Row, ClaimRecord
  <2>3. \A w \in Whats : filing'[w].pc # "none" =>
          /\ filing[w].pc # "none" /\ filing'[w].moved = filing[w].moved
          /\ filing'[w].row.same = (~filing[w].moved /\ ~claims[c].moved)
          /\ filing'[w].row.mark = filing[w].row.mark /\ filing'[w].row.ask = filing[w].row.ask
    <3> SUFFICES ASSUME NEW w \in Whats, filing'[w].pc # "none"
                 PROVE  /\ filing[w].pc # "none" /\ filing'[w].moved = filing[w].moved
                        /\ filing'[w].row.same = (~filing[w].moved /\ ~claims[c].moved)
                        /\ filing'[w].row.mark = filing[w].row.mark /\ filing'[w].row.ask = filing[w].row.ask
      OBVIOUS
    <3> DEFINE s == ~filing[w].moved /\ ~claims[c].moved
    <3>1. filing'[w] = IF filing[w] = NoFiling THEN NoFiling ELSE [filing[w] EXCEPT !.row.same = s]
      BY <1>0, <1>4 DEF ClaimGrants, RecordsOK
    <3> HIDE DEF s
    <3>2. filing[w] \in FilingRecord
      BY <1>0, <3>1, FilingPlace DEF RecordsOK, NoFiling
    <3>3. filing'[w] = [filing[w] EXCEPT !.row.same = s] /\ filing[w].pc # "none"
      BY <3>1, <3>2, FilingPlace
    <3>4. filing'[w].row.same = s /\ filing'[w].moved = filing[w].moved
          /\ filing'[w].row.mark = filing[w].row.mark /\ filing'[w].row.ask = filing[w].row.ask
      BY <3>2, <3>3 DEF FilingRecord, Row
    <3> QED
      BY <3>3, <3>4 DEF s
  <2>4. TypeOK' /\ FilingInv'
    BY <1>0, <1>m, <2>1, <2>2, <2>3 DEF TypeOK, Row, LeaseStates, FilingInv
  <2>5. CASE claims[c].moved
    BY <1>m, <2>1, <2>4, <2>5, CycleAssumption DEF RowInv, StreakInv, MinuteInv, MissLimit
  <2>6. CASE ~claims[c].moved
    <3>1. streak <= MissesOf(same) /\ streak <= MissLimit
      <4>1. lease \in {"none", "expired", "released", "lapsed", "unheld"}
        BY <1>0, <2>1 DEF TypeOK, LeaseStates, IsLeased
      <4>2. /\ streak \in Nat /\ misses \in 0 .. MaxMisses
            /\ streak <= MissLimit + 1 /\ streak <= misses + 1 /\ (leftDue => streak <= misses)
            /\ MissLimit \in Nat /\ MaxMisses \in Nat /\ MissLimit < MaxMisses
        BY <1>0, CycleAssumption DEF StreakInv, TypeOK, MissLimit
      <4>3. Reset(same) => streak = 0
        BY <1>0, <2>1, <2>6 DEF Reset, Released, StreakInv, MinuteInv
      <4>4. Counted(same) => AtMost(misses + 1, MaxMisses) >= streak
        BY <4>2 DEF AtMost
      <4>5. ~Reset(same) /\ ~Counted(same) => streak <= misses
        BY <1>0, <4>1, <4>2 DEF Reset, Counted, Released, StreakInv
      <4>6. streak <= MissesOf(same)
        BY <4>2, <4>3, <4>4, <4>5 DEF MissesOf
      <4>7. lease = "unheld" => streak = 0
        BY <1>0 DEF StreakInv
      <4>8. lease # "unheld" => MissesOf(same) <= MissLimit
        BY <2>1 DEF MissesBeforeGrant
      <4> QED
        BY <1>m, <4>2, <4>6, <4>7, <4>8
    <3>2. StreakInv'
      BY <1>0, <1>m, <2>1, <2>6, <3>1, CycleAssumption DEF StreakInv, MissLimit
    <3>3. MinuteInv'
      BY <2>1, <2>2, <2>3, <2>6 DEF MinuteInv, IsLeased
    <3> QED
      BY <2>4, <3>2, <3>3 DEF RowInv
  <2> QED
    BY <2>5, <2>6
<1> QED
  BY <1>1, <1>2, <1>3, <1>4 DEF Claim

(* The fleet, and a result up to its commit. *)
LEMMA RowResult ==
    ASSUME IInv,
           \/ \E j \in Jobs : Fetch(j) \/ JobEnds(j)
           \/ \E r \in Results : /\ Result(r)
                                 /\ ~CommitLands(r)
    PROVE  RowInv'
<1>0. RecordsOK /\ TypeOK /\ FilingInv /\ StreakInv /\ MinuteInv
  BY DEF IInv, RowInv
<1>1. ASSUME UNCHANGED <<row, table, strikes, page, filing, claims, streak>>
      PROVE  RowInv'
  BY <1>0, <1>1 DEF table, RowInv, TypeOK, FilingInv, StreakInv, MinuteInv, IsLeased
<1>2. ASSUME NEW r \in Results, NEW asLeftDue \in BOOLEAN, Release(r, asLeftDue),
             UNCHANGED <<row, strikes, page, filing, claims>>
      PROVE  RowInv'
  <2>1. CASE ~Releases(r)
    BY <1>1, <1>2, <2>1, ReleaseFrame DEF table
  <2>2. CASE Releases(r)
    <3>1. /\ lease \in {"live", "expired", "held", "unheld"} /\ lease' \in {"grace", "lapsed"}
          /\ misses' = misses /\ leftDue' = (leftDue \/ asLeftDue)
          /\ (lease' = "grace" <=> lease \in {"live", "held"})
          /\ streak' = (IF asLeftDue /\ streak > 0 THEN streak - 1 ELSE streak)
      BY <1>2, <2>2, ReleaseFrame DEF Releases, ReleasedTo
    <3>2. leftDue' \in BOOLEAN
      BY <1>0, <3>1 DEF TypeOK
    <3>3. StreakInv'
      BY <1>0, <3>1, CycleAssumption DEF StreakInv, TypeOK, MissLimit
    <3>4. MinuteInv'
      BY <1>0, <1>2, <3>1 DEF MinuteInv, StreakInv, IsLeased
    <3> QED
      BY <1>0, <1>2, <3>1, <3>2, <3>3, <3>4 DEF RowInv, TypeOK, LeaseStates, FilingInv
  <2> QED
    BY <2>1, <2>2
<1>3. ASSUME NEW j \in Jobs, Fetch(j) \/ JobEnds(j) PROVE RowInv'
  BY <1>1, <1>3 DEF Fetch, JobEnds, history
<1>4. ASSUME NEW r \in Results, Result(r), ~CommitLands(r) PROVE RowInv'
  <2>1. ASSUME NEW j \in Jobs, NEW outcome \in {"rendered", "failed"}, NEW timed \in BOOLEAN,
               ResultArrives(r, j, outcome, timed)
        PROVE  RowInv'
    BY <1>1, <2>1 DEF ResultArrives, history
  <2>2. CASE ResultReads(r) \/ ResultThrows(r) \/ ResultFailsFast(r) \/ CommitFails(r)
    BY <1>1, <2>2 DEF ResultReads, ResultThrows, ResultFailsFast, CommitFails, history
  <2>3. CASE ResultSuperseded(r)
    BY <1>2, <2>3 DEF ResultSuperseded
  <2>4. CASE ResultRendered(r)
    <3>1. KeepAsk(r) \in BOOLEAN
      BY <1>0, <2>4, ResultPlace DEF ResultRendered, KeepAsk, RecordsOK, ResultRecord
    <3> QED
      BY <1>2, <2>4, <3>1 DEF ResultRendered
  <2>5. CASE ResultFailsSlow(r)
    BY <1>2, <2>5 DEF ResultFailsSlow
  <2> QED
    BY <1>4, <2>1, <2>2, <2>3, <2>4, <2>5 DEF Result
<1> QED
  BY <1>3, <1>4

(* A commit rotates the row or leaves it alone. *)
LEMMA RowCommit ==
    ASSUME IInv, NEW r \in Results, CommitLands(r)
    PROVE  RowInv'
<1>0. RecordsOK /\ TypeOK /\ FilingInv /\ StreakInv /\ MinuteInv /\ ResultInv
  BY DEF IInv, RowInv
<1> DEFINE res == results[r]
<1>1. res \in ResultRecord /\ res.pc = "commit" /\ res.lane \in {"fast", "slow", "landed", "ask"}
  BY <1>0, ResultPlace DEF CommitLands, RecordsOK, ResultInv, ResultRecord
<1>2. /\ row' \in CommittedRows(res)
      /\ page' \in {page, res.shows} /\ strikes' \in {0, res.strikes}
      /\ streak' = (IF res.lane = "fast" \/ row'.same THEN streak ELSE 0)
      /\ UNCHANGED <<lease, misses, leftDue>>
      /\ (res.lane = "fast" => UNCHANGED <<claims, filing>>)
      /\ (res.lane # "fast" => claims' = MovedUnder(claims) /\ filing' = MovedUnder(filing))
  BY DEF CommitLands, table
<1> HIDE DEF res
<1>3. row' \in Row /\ ~(row'.mark /\ row'.ask) /\ (lease = "none" => ~row'.same)
      /\ (res.lane = "fast" => row' = row)
  <2>1. CASE res.lane = "fast"
    BY <1>0, <1>2, <2>1 DEF CommittedRows, TypeOK, Row
  <2>2. CASE res.lane = "landed"
    <3>1. row' = Rotated
      BY <1>2, <2>2 DEF CommittedRows
    <3>2. Rotated \in Row /\ ~Rotated.same /\ ~Rotated.mark
      BY DEF Rotated, Row
    <3> QED
      BY <2>2, <3>1, <3>2
  <2>3. CASE res.lane = "slow"
    <3>1. row' = [Rotated EXCEPT !.mark = res.mark] /\ res.mark \in BOOLEAN
      BY <1>1, <1>2, <2>3 DEF CommittedRows, ResultRecord
    <3> QED
      BY <2>3, <3>1 DEF Rotated, Row
  <2>4. CASE res.lane = "ask"
    <3>1. PICK same \in (IF ~HasGrant THEN {FALSE} ELSE IF res.latest THEN {res.same} ELSE BOOLEAN) :
             row' = [due |-> TRUE, same |-> same, mark |-> FALSE, ask |-> TRUE]
      BY <1>2, <2>4 DEF CommittedRows
    <3>2. same \in BOOLEAN /\ (lease = "none" => same = FALSE)
      BY <1>1, <3>1 DEF HasGrant, ResultRecord
    <3> QED
      BY <2>4, <3>1, <3>2 DEF Row
  <2> QED
    BY <1>1, <2>1, <2>2, <2>3, <2>4
<1>4. \A w \in Whats : filing'[w].pc # "none" =>
        /\ filing[w].pc # "none" /\ filing'[w].row = filing[w].row
        /\ res.lane = "fast" => filing'[w] = filing[w]
        /\ res.lane # "fast" => filing'[w].moved
  BY <1>0, <1>2, MovedFiling DEF RecordsOK
<1>5. \A c \in Claims : claims'[c].pc # "none" =>
        /\ res.lane = "fast" => claims'[c] = claims[c]
        /\ res.lane # "fast" => claims'[c].moved
  BY <1>0, <1>2, MovedClaims DEF RecordsOK
<1>6. TypeOK'
  BY <1>0, <1>1, <1>2, <1>3, CycleAssumption DEF TypeOK, Row, ResultRecord, MissLimit
<1>7. FilingInv'
  BY <1>0, <1>2, <1>4 DEF FilingInv
<1>8. StreakInv'
  BY <1>0, <1>2, CycleAssumption DEF StreakInv, TypeOK, MissLimit
<1>9. MinuteInv'
  <2>1. CASE res.lane = "fast"
    BY <1>0, <1>2, <1>3, <1>4, <1>5, <2>1 DEF MinuteInv, IsLeased
  <2>2. CASE res.lane # "fast"
    BY <1>2, <1>4, <1>5, <2>2 DEF MinuteInv
  <2> QED
    BY <2>1, <2>2
<1> QED
  BY <1>6, <1>7, <1>8, <1>9 DEF RowInv

(* A restart, and a step of nobody. *)
LEMMA RowStill ==
    ASSUME IInv, Restart \/ UNCHANGED vars
    PROVE  RowInv'
<1>0. RecordsOK /\ TypeOK /\ FilingInv /\ StreakInv /\ MinuteInv
  BY DEF IInv, RowInv
<1>1. CASE Restart
  <2>1. /\ lease' = "none" /\ misses' = 0 /\ leftDue' = FALSE /\ streak' = 0
        /\ row' = [row EXCEPT !.same = FALSE] /\ UNCHANGED <<strikes, page>>
        /\ filing' = [what \in {"ask", "mark"} |-> NoFiling]
    BY <1>1 DEF Restart
  <2>r. row' \in Row /\ ~row'.same /\ row'.mark = row.mark /\ row'.ask = row.ask
    BY <1>0, <2>1 DEF TypeOK, Row
  <2>2. TypeOK'
    <3>m. misses' \in 0 .. MaxMisses
      BY <2>1, CycleAssumption
    <3>l. lease' \in LeaseStates /\ leftDue' \in BOOLEAN
      BY <2>1 DEF LeaseStates
    <3>1. /\ lease' \in LeaseStates /\ misses' \in 0 .. MaxMisses /\ leftDue' \in BOOLEAN
          /\ strikes' \in 0 .. MissLimit /\ page' \in Shows
      BY <1>0, <2>1, <3>m, <3>l DEF TypeOK
    <3>2. (lease' = "none" => misses' = 0 /\ ~leftDue' /\ ~row'.same) /\ (lease' = "live" => ~leftDue')
      BY <2>1, <2>r
    <3>3. ~(row'.mark /\ row'.ask)
      BY <1>0, <2>r DEF TypeOK
    <3> QED
      BY <2>r, <3>1, <3>2, <3>3 DEF TypeOK, Row
  <2>3. FilingInv' /\ StreakInv' /\ MinuteInv'
    BY <2>1, CycleAssumption DEF FilingInv, StreakInv, MinuteInv, NoFiling, Whats, MissLimit
  <2> QED
    BY <2>2, <2>3 DEF RowInv
<1>2. CASE UNCHANGED vars
  BY <1>0, <1>2 DEF vars, table, history, RowInv, TypeOK, FilingInv, StreakInv, MinuteInv, IsLeased
<1> QED
  BY <1>1, <1>2

(* Hence every step keeps the row and the lease within the bound. *)
LEMMA RowStep == ASSUME IInv, [Next]_vars PROVE RowInv'
BY RowTime, RowOutside, RowPut, RowClaim, RowResult, RowCommit, RowStill DEF Next, Whats

-----------------------------------------------------------------------------
(* Results.  What is committed under a lease it gave up is under its grace. *)
LEMMA ResultInit == ASSUME Init PROVE ResultInv
BY DEF Init, ResultInv, NoResult

(* A step that writes no handler's progress, and ends no grace. *)
LEMMA ResultKept ==
    ASSUME ResultInv, lease = "grace" => lease' = "grace",
           \A r \in Results : results'[r].pc # "none" =>
             /\ results'[r].pc = results[r].pc /\ results'[r].lane = results[r].lane
             /\ results'[r].timely = results[r].timely
             /\ results'[r].outcome = results[r].outcome
             /\ (results'[r].latest => /\ results[r].latest /\ results'[r].own = results[r].own
                                       /\ results'[r].stale = results[r].stale)
    PROVE  ResultInv'
BY DEF ResultInv

(* The handler's own steps: each writes the progress of one result. *)
LEMMA ResultMoves ==
    ASSUME IInv, NEW r \in Results, Result(r)
    PROVE  ResultInv'
<1>0. RecordsOK /\ ResultInv
  BY DEF IInv
<1>o. ASSUME NEW new, results' = [results EXCEPT ![r] = new], lease = "grace" => lease' = "grace",
             new.pc # "none" =>
               /\ new.latest => new.own \/ new.stale
               /\ new.pc = "commit" => new.lane # "none"
               /\ new.lane \in {"landed", "ask"} => new.outcome = "rendered"
               /\ new.pc = "commit" /\ new.timely /\ new.lane # "fast" => lease' = "grace"
      PROVE  ResultInv'
  BY <1>0, <1>o DEF RecordsOK, ResultInv
<1>1. ASSUME NEW j \in Jobs, NEW outcome \in {"rendered", "failed"}, NEW timed \in BOOLEAN,
             ResultArrives(r, j, outcome, timed)
      PROVE  ResultInv'
  <2> DEFINE stale == HasGrant /\ ~jobs[j].latest /\ ~timed
             new == [pc |-> "read", outcome |-> outcome, lane |-> "none",
                     shows |-> IF outcome = "failed" THEN "nothing" ELSE jobs[j].shows,
                     latest |-> HasGrant, own |-> jobs[j].latest, stale |-> stale,
                     since |-> Since(j, timed), unseen |-> {},
                     timely |-> FALSE, asked |-> FALSE, same |-> FALSE, mark |-> FALSE, strikes |-> 0]
  <2>1. results' = [results EXCEPT ![r] = new] /\ lease' = lease
    BY <1>1 DEF ResultArrives, table
  <2>2. /\ new.pc = "read" /\ new.lane = "none" /\ new.latest = HasGrant
        /\ new.own = jobs[j].latest /\ new.stale = stale
    OBVIOUS
  <2>3. HasGrant => jobs[j].latest \/ stale
    BY <1>1 DEF ResultArrives, Late
  <2> HIDE DEF new, stale
  <2> QED
    BY <1>o, <2>1, <2>2, <2>3
<1>2. CASE ResultSuperseded(r) \/ ResultThrows(r) \/ CommitFails(r)
  <2>1. results' = [results EXCEPT ![r] = NoResult]
    BY <1>2 DEF ResultSuperseded, ResultThrows, CommitFails
  <2>2. lease = "grace" => lease' = "grace"
    BY <1>2, ReleaseFrame DEF ResultSuperseded, ResultThrows, CommitFails, Releases, table
  <2> QED
    BY <1>o, <2>1, <2>2 DEF NoResult
<1>5. CASE CommitLands(r)
  <2>1. lease' = lease
    BY <1>5 DEF CommitLands, table
  <2>2. \A q \in Results : results'[q].pc # "none" => SameResult(results[q], results'[q])
    BY <1>0, <1>5, CommitResults
  <2> QED
    BY <1>0, <2>1, <2>2, ResultKept DEF SameResult
<1> DEFINE res == results[r]
<1>3. CASE ResultReads(r)
  <2> DEFINE a == res.outcome = "rendered" /\ row.ask /\ "ask" \in res.since
             new == [res EXCEPT !.pc = "write", !.asked = a, !.same = a /\ row.same]
  <2>1. res \in ResultRecord /\ (res.latest => res.own \/ res.stale)
        /\ (res.lane \in {"landed", "ask"} => res.outcome = "rendered")
    BY <1>0, <1>3, ResultPlace DEF ResultReads, RecordsOK, ResultInv
  <2>2. results' = [results EXCEPT ![r] = new] /\ lease' = lease
    BY <1>3 DEF ResultReads, table
  <2>3. /\ new.pc = "write" /\ new.latest = res.latest /\ new.own = res.own /\ new.stale = res.stale
        /\ new.lane = res.lane /\ new.outcome = res.outcome
    BY <2>1 DEF ResultRecord
  <2> HIDE DEF new
  <2> QED
    BY <1>o, <2>1, <2>2, <2>3
<1>4. CASE ResultRendered(r) \/ ResultFailsFast(r) \/ ResultFailsSlow(r)
  <2>1. res \in ResultRecord /\ (res.latest => res.own \/ res.stale)
    BY <1>0, <1>4, ResultPlace DEF ResultRendered, ResultFailsFast, ResultFailsSlow, RecordsOK, ResultInv
  <2>2. PICK new : /\ results' = [results EXCEPT ![r] = new]
                   /\ new.pc = "commit" /\ new.lane # "none" /\ new.timely = Timely(r)
                   /\ new.latest = res.latest /\ new.own = res.own /\ new.stale = res.stale
                   /\ (new.lane \in {"landed", "ask"} => new.outcome = "rendered")
                   /\ (new.lane # "fast" => ResultRendered(r) \/ ResultFailsSlow(r))
    <3>1. CASE ResultRendered(r)
      <4> DEFINE new == [res EXCEPT !.pc = "commit", !.lane = IF KeepAsk(r) THEN "ask" ELSE "landed",
                                    !.timely = Timely(r)]
      <4>1. results' = [results EXCEPT ![r] = new]
        BY <3>1 DEF ResultRendered
      <4>2. new.pc = "commit" /\ new.lane \in {"ask", "landed"} /\ new.timely = Timely(r)
            /\ new.latest = res.latest /\ new.own = res.own /\ new.stale = res.stale
            /\ new.outcome = "rendered"
        BY <2>1, <3>1 DEF ResultRecord, ResultRendered
      <4> QED
        BY <3>1, <4>1, <4>2
    <3>2. CASE ResultFailsFast(r)
      <4> DEFINE new == [res EXCEPT !.pc = "commit", !.lane = "fast", !.strikes = strikes + 1,
                                    !.timely = Timely(r)]
      <4>1. results' = [results EXCEPT ![r] = new]
        BY <3>2 DEF ResultFailsFast
      <4>2. new.pc = "commit" /\ new.lane = "fast" /\ new.timely = Timely(r)
            /\ new.latest = res.latest /\ new.own = res.own /\ new.stale = res.stale
        BY <2>1 DEF ResultRecord
      <4> QED
        BY <3>2, <4>1, <4>2
    <3>3. CASE ResultFailsSlow(r)
      <4> DEFINE new == [res EXCEPT !.pc = "commit", !.lane = "slow", !.strikes = AtMost(strikes + 1, MissLimit),
                                    !.mark = CarriedMark, !.unseen = @ \ {"mark"}, !.timely = Timely(r)]
      <4>1. results' = [results EXCEPT ![r] = new]
        BY <3>3 DEF ResultFailsSlow
      <4>2. new.pc = "commit" /\ new.lane = "slow" /\ new.timely = Timely(r)
            /\ new.latest = res.latest /\ new.own = res.own /\ new.stale = res.stale
        BY <2>1 DEF ResultRecord
      <4> QED
        BY <3>3, <4>1, <4>2
    <3> QED
      BY <1>4, <3>1, <3>2, <3>3
  <2>3. lease = "grace" => lease' = "grace"
    BY <1>4, ReleaseFrame DEF ResultRendered, ResultFailsFast, ResultFailsSlow, Releases, table
  <2>4. (ResultRendered(r) \/ ResultFailsSlow(r)) /\ Timely(r) => lease' = "grace"
    BY ReleaseFrame DEF ResultRendered, ResultFailsSlow, Timely, Releases, ReleasedTo
  <2> QED
    BY <1>o, <2>1, <2>2, <2>3, <2>4
<1> QED
  BY <1>1, <1>2, <1>3, <1>4, <1>5 DEF Result

(* Every step keeps the handlers within the invariant. *)
LEMMA ResultStep == ASSUME IInv, [Next]_vars PROVE ResultInv'
<1>0. RecordsOK /\ ResultInv
  BY DEF IInv
<1>1. CASE GraceEnds
  <2>1. \A r \in Results : results[r].pc # "commit"
    BY <1>0, <1>1, ResultPlace DEF GraceEnds, Busy, RecordsOK
  <2> QED
    BY <1>0, <1>1, <2>1 DEF GraceEnds, ResultInv
<1>2. CASE ComeDue \/ LeaseExpires \/ HoldEnds \/ UNCHANGED vars \/ \E j \in Jobs : Fetch(j) \/ JobEnds(j)
  <2>1. results' = results /\ (lease = "grace" => lease' = "grace")
    BY <1>2 DEF ComeDue, LeaseExpires, HoldEnds, vars, table, Fetch, JobEnds
  <2> QED
    BY <1>0, <2>1, ResultKept
<1>3. CASE OriginChanges \/ ProbeFindsChange \/ AskForRender \/ \E what \in Whats : FilingWrites(what)
  <2>1. lease' = lease
    BY <1>3 DEF OriginChanges, ProbeFindsChange, AskForRender, FilingWrites, table
  <2>2. \A r \in Results : results'[r].pc = results[r].pc
          /\ (results[r].pc # "none" => SameResult(results[r], results'[r]))
    BY <1>0, <1>3, OriginRecords, ProbeRecords, AskRecords, PutResults
  <2> QED
    BY <1>0, <2>1, <2>2, ResultKept DEF SameResult
<1>7. ASSUME NEW c \in Claims, Claim(c) PROVE ResultInv'
  <2>1. lease = "grace" => lease' = "grace"
    BY <1>7 DEF Claim, ClaimReads, ClaimRefused, ClaimHolds, ClaimGrants, IsLeased, table
  <2>2. CASE ~ClaimGrants(c)
    <3>1. results' = results
      BY <1>7, <2>2 DEF Claim, ClaimReads, ClaimRefused, ClaimHolds
    <3> QED
      BY <1>0, <2>1, <3>1, ResultKept
  <2>3. CASE ClaimGrants(c)
    <3>1. results' = [r \in Results |-> IF r \in Busy
                                        THEN [results[r] EXCEPT !.latest = FALSE, !.own = FALSE, !.stale = FALSE]
                                        ELSE NoResult]
      BY <2>3 DEF ClaimGrants
    <3>2. \A r \in Busy : results[r] \in ResultRecord
      BY <1>0 DEF Busy, RecordsOK
    <3>3. \A r \in Busy :
            LET new == [results[r] EXCEPT !.latest = FALSE, !.own = FALSE, !.stale = FALSE]
            IN  /\ new.pc = results[r].pc /\ new.lane = results[r].lane /\ new.timely = results[r].timely
                /\ new.outcome = results[r].outcome /\ ~new.latest
      BY <3>2 DEF ResultRecord
    <3>4. \A r \in Results \ Busy : results'[r].pc = "none"
      BY <3>1 DEF NoResult
    <3> QED
      BY <1>0, <2>1, <3>1, <3>3, <3>4, ResultKept DEF Busy
  <2> QED
    BY <2>2, <2>3
<1>8. CASE Restart
  BY <1>8 DEF Restart, ResultInv, NoResult
<1> QED
  BY <1>1, <1>2, <1>3, <1>7, <1>8, ResultMoves DEF Next, Whats

(* The invariant is inductive. *)
LEMMA Inductive == Spec => []IInv
<1>1. Init => IInv
  BY RecordsInit, RowInit, ResultInit DEF IInv
<1>2. IInv /\ [Next]_vars => IInv'
  BY RecordsStep, RowStep, ResultStep DEF IInv, RowInv
<1> QED
  BY <1>1, <1>2, PTL DEF Spec

(* The table, the row and the strikes keep their types.  The row never      *)
(* carries a mark and an ask, and an empty slot answers for no due minute.  *)
THEOREM RenderTypeCorrect == Spec => []TypeOK
<1>1. IInv => TypeOK
  BY DEF IInv, RowInv
<1> QED
  BY <1>1, Inductive, PTL

(* A key whose leases end without moving its row (claimSchedules' misses)   *)
(* is granted at most fastRetries + 2 times before it is held back, with    *)
(* any number of renders, results and filings under way.                    *)
THEOREM RenderWedgeBound == Spec => []WedgeBound
<1>1. IInv => WedgeBound
  BY DEF IInv, RowInv, StreakInv, WedgeBound
<1> QED
  BY <1>1, Inductive, PTL

(* While a result that gave up its live lease is being committed (the       *)
(* grace of completeLease), no claim is granted the key.                    *)
THEOREM RenderNoGrantBehindCommit == Spec => NoGrantBehindCommit
<1>1. ASSUME IInv, [Next]_vars, NEW r \in Results, lease # "live", lease' = "live",
             results[r].pc = "commit", results[r].timely, results[r].lane # "fast"
      PROVE  FALSE
  <2>1. lease = "grace"
    BY <1>1 DEF IInv, ResultInv
  <2>2. PICK c \in Claims : ClaimGrants(c)
    <3>1. ASSUME NEW q \in Results, Result(q) PROVE lease' # "live"
      BY <1>1, <3>1, ReleaseFrame DEF Result, ResultArrives, ResultSuperseded, ResultReads, ResultThrows,
           ResultRendered, ResultFailsFast, ResultFailsSlow, CommitLands, CommitFails, table
    <3> QED
      BY <1>1, <3>1, Zenon DEF Next, vars, table, ComeDue, LeaseExpires, GraceEnds, HoldEnds, OriginChanges,
           ProbeFindsChange, AskForRender, FilingWrites, Claim, ClaimReads, ClaimRefused, ClaimHolds,
           Fetch, JobEnds, Restart
  <2> QED
    BY <2>1, <2>2 DEF ClaimGrants, IsLeased
<1>2. IInv /\ [Next]_vars => [\A r \in Results :
         lease # "live" /\ lease' = "live" =>
           ~(results[r].pc = "commit" /\ results[r].timely /\ results[r].lane # "fast")]_vars
  BY <1>1
<1> QED
  BY <1>2, Inductive, PTL DEF Spec, NoGrantBehindCommit

(* A live lease is given up only by a result of the render it was granted   *)
(* for, or by one that arrived under it without proof of when its render    *)
(* began: the handler drops a result that proves itself older, and the      *)
(* release tests the instant of the lease it arrived under (completeLease), *)
(* with any number of late, repeated and overlapping results.               *)
THEOREM RenderForeignLeaseKept == Spec => ForeignLeaseKept
<1>1. ASSUME IInv, [Next]_vars, lease = "live", lease' = "grace"
      PROVE  \E r \in Busy : (results[r].own \/ results[r].stale) /\ results'[r] # results[r]
  <2>1. PICK r \in Results : ResultSuperseded(r) \/ ResultRendered(r) \/ ResultFailsSlow(r)
    BY <1>1 DEF Next, vars, table, ComeDue, LeaseExpires, GraceEnds, HoldEnds, OriginChanges,
         ProbeFindsChange, AskForRender, FilingWrites, Claim, ClaimReads, ClaimRefused, ClaimHolds, ClaimGrants,
         Fetch, JobEnds, Result, ResultArrives, ResultReads, ResultThrows,
         ResultFailsFast, CommitLands, CommitFails, Restart
  <2>2. results[r].latest
    BY <1>1, <2>1, ReleaseFrame DEF ResultSuperseded, ResultRendered, ResultFailsSlow, Releases
  <2>3. /\ results[r] \in ResultRecord /\ (results[r].own \/ results[r].stale)
        /\ results[r].pc \in {"read", "write"} /\ r \in Busy
    BY <1>1, <2>1, <2>2, ResultPlace
       DEF IInv, RecordsOK, ResultInv, ResultSuperseded, ResultRendered, ResultFailsSlow, Busy, NoResult
  <2>4. results'[r].pc \in {"none", "commit"}
    <3>1. CASE ResultSuperseded(r)
      BY <1>1, <3>1 DEF IInv, RecordsOK, ResultSuperseded, NoResult
    <3>2. CASE ResultRendered(r)
      BY <1>1, <2>3, <3>2 DEF IInv, RecordsOK, ResultRendered, ResultRecord
    <3>3. CASE ResultFailsSlow(r)
      BY <1>1, <2>3, <3>3 DEF IInv, RecordsOK, ResultFailsSlow, ResultRecord
    <3> QED
      BY <2>1, <3>1, <3>2, <3>3
  <2> QED
    BY <2>3, <2>4
<1>2. IInv /\ [Next]_vars =>
        [lease = "live" /\ lease' = "grace" =>
           \E r \in Busy : (results[r].own \/ results[r].stale) /\ results'[r] # results[r]]_vars
  BY <1>1
<1> QED
  BY <1>2, Inductive, PTL DEF Spec, ForeignLeaseKept

-----------------------------------------------------------------------------
(* Asks.  A filing puts a mark or an ask; and what a handler knows of an ask    *)
(* filed since its render was granted, if it was rendered: it saw it when it    *)
(* read the row, or the ask was put on the row after that.                      *)
FilingAsk == \A w \in Whats : filing[w].pc # "none" => filing[w].row.mark \/ filing[w].row.ask
Answers(r) == row.ask /\ "ask" \in results[r].since
ResultAsk ==
    \A r \in Results : results[r].pc \in {"write", "commit"} =>
        /\ results[r].outcome = "rendered" /\ Answers(r) =>
             results[r].asked \/ "ask" \in results[r].unseen
        /\ results[r].pc = "commit" /\ results[r].lane = "landed" => ~results[r].asked
AskInv == FilingAsk /\ ResultAsk

(* A filing carries a mark or the ask it was made for. *)
LEMMA FilingAskMade ==
    ASSUME RecordsOK, FilingAsk, NEW what \in Whats, FileDueNow(what) PROVE FilingAsk'
<1>1. PICK same, moved :
        filing' = [filing EXCEPT ![what] = [pc |-> "put", row |-> FiledRow(what, same), moved |-> moved]]
  BY DEF FileDueNow
<1>2. FiledRow(what, same).mark \/ FiledRow(what, same).ask
  BY DEF FiledRow, Whats
<1> QED
  BY <1>1, <1>2 DEF FilingAsk, RecordsOK

(* A claim that is granted changes no more of a filing than its minute. *)
LEMMA FilingAskGranted ==
    ASSUME RecordsOK, FilingAsk, NEW c \in Claims, ClaimGrants(c) PROVE FilingAsk'
<1>1. filing' = [w \in Whats |-> IF filing[w] = NoFiling THEN NoFiling
                   ELSE [filing[w] EXCEPT !.row.same = ~filing[w].moved /\ ~claims[c].moved]]
  BY DEF ClaimGrants, RecordsOK
<1>2. \A w \in Whats : filing[w] # NoFiling => filing[w] \in FilingRecord /\ filing[w].pc # "none"
  BY FilingPlace DEF RecordsOK
<1>3. ASSUME NEW w \in Whats, filing'[w].pc # "none"
      PROVE  filing'[w].row.mark \/ filing'[w].row.ask
  <2>1. filing[w] # NoFiling
    BY <1>1, <1>3 DEF NoFiling
  <2>2. filing[w] \in FilingRecord /\ filing[w].pc # "none"
    BY <1>2, <2>1
  <2>3. filing'[w] = [filing[w] EXCEPT !.row.same = ~filing[w].moved /\ ~claims[c].moved]
    BY <1>1, <2>1
  <2>4. filing'[w].row.mark = filing[w].row.mark /\ filing'[w].row.ask = filing[w].row.ask
    BY <2>2, <2>3 DEF FilingRecord, Row
  <2> QED
    BY <2>2, <2>4 DEF FilingAsk
<1> QED
  BY <1>3 DEF FilingAsk

(* Every step keeps what is filed an ask or a mark. *)
LEMMA FilingAskStep == ASSUME IInv, FilingAsk, [Next]_vars PROVE FilingAsk'
<1>0. RecordsOK
  BY DEF IInv
<1>1. ASSUME NEW what \in Whats, FilingWrites(what) PROVE FilingAsk'
  <2> DEFINE others == [filing EXCEPT ![what] = NoFiling]
  <2>1. filing' = (IF filing[what].moved THEN MovedUnder(others) ELSE others)
    BY <1>1 DEF FilingWrites
  <2>2. others \in [Whats -> FilingRecord \cup {NoFiling}] /\ others[what].pc = "none"
        /\ \A w \in Whats : w # what => others[w] = filing[w]
    BY <1>0 DEF RecordsOK, NoFiling
  <2> HIDE DEF others
  <2>3. \A w \in Whats : filing'[w].pc # "none" => filing[w].pc # "none" /\ filing'[w].row = filing[w].row
    BY <2>1, <2>2, MovedFiling
  <2> QED
    BY <2>3 DEF FilingAsk
<1>2. ASSUME NEW r \in Results, CommitLands(r) PROVE FilingAsk'
  <2>1. \A w \in Whats : filing'[w].pc # "none" => filing[w].pc # "none" /\ filing'[w].row = filing[w].row
    BY <1>0, <1>2, MovedFiling DEF CommitLands, RecordsOK
  <2> QED
    BY <2>1 DEF FilingAsk
<1>3. ASSUME NEW r \in Results, Result(r), ~CommitLands(r) PROVE FilingAsk'
  BY <1>3 DEF Result, ResultArrives, ResultSuperseded, ResultReads, ResultThrows, ResultRendered,
              ResultFailsFast, ResultFailsSlow, CommitFails, FilingAsk
<1>4. ASSUME NEW c \in Claims, Claim(c) PROVE FilingAsk'
  <2>1. CASE ClaimGrants(c)
    BY <1>0, <2>1, FilingAskGranted
  <2>2. CASE ~ClaimGrants(c)
    BY <1>4, <2>2 DEF Claim, ClaimReads, ClaimRefused, ClaimHolds, FilingAsk
  <2> QED
    BY <2>1, <2>2
<1>5. CASE ProbeFindsChange \/ AskForRender
  BY <1>0, <1>5, FilingAskMade DEF ProbeFindsChange, AskForRender, Whats
<1>6. CASE ComeDue \/ LeaseExpires \/ GraceEnds \/ HoldEnds \/ OriginChanges \/ UNCHANGED vars
             \/ \E j \in Jobs : Fetch(j) \/ JobEnds(j)
  BY <1>6 DEF ComeDue, LeaseExpires, GraceEnds, HoldEnds, OriginChanges, vars, Fetch, JobEnds, FilingAsk
<1>7. CASE Restart
  BY <1>7 DEF Restart, FilingAsk, NoFiling, Whats
<1> QED
  BY <1>1, <1>2, <1>3, <1>4, <1>5, <1>6, <1>7 DEF Next, Whats

(* A step that leaves the handlers where they are, and shows them the asks it puts. *)
LEMMA ResultAskKept ==
    ASSUME ResultAsk,
           \A r \in Results : results'[r].pc \in {"write", "commit"} =>
             /\ results'[r].pc = results[r].pc /\ results'[r].lane = results[r].lane
             /\ results'[r].asked = results[r].asked /\ results'[r].outcome = results[r].outcome
             /\ "ask" \in results[r].unseen => "ask" \in results'[r].unseen
             /\ row'.ask /\ "ask" \in results'[r].since => Answers(r) \/ "ask" \in results'[r].unseen
    PROVE  ResultAsk'
<1> SUFFICES ASSUME NEW r \in Results, results'[r].pc \in {"write", "commit"}
             PROVE  /\ results'[r].outcome = "rendered" /\ Answers(r)' =>
                         results'[r].asked \/ "ask" \in results'[r].unseen
                    /\ results'[r].pc = "commit" /\ results'[r].lane = "landed" => ~results'[r].asked
  BY DEF ResultAsk
<1>1. /\ results[r].outcome = "rendered" /\ Answers(r) => results[r].asked \/ "ask" \in results[r].unseen
      /\ results[r].pc = "commit" /\ results[r].lane = "landed" => ~results[r].asked
  BY DEF ResultAsk
<1> QED
  BY <1>1 DEF Answers

(* The handler's own steps. *)
LEMMA ResultAskMoves ==
    ASSUME IInv, AskInv, NEW r \in Results, Result(r) PROVE ResultAsk'
<1>0. RecordsOK /\ ResultAsk /\ TypeOK
  BY DEF IInv, RowInv, AskInv
<1>o. ASSUME NEW new, results' = [results EXCEPT ![r] = new], row' = row,
             new.pc \in {"write", "commit"} =>
               /\ new.outcome = "rendered" /\ row.ask /\ "ask" \in new.since =>
                    new.asked \/ "ask" \in new.unseen
               /\ new.pc = "commit" /\ new.lane = "landed" => ~new.asked
      PROVE  ResultAsk'
  <2>1. results'[r] = new /\ \A q \in Results : q # r => results'[q] = results[q]
    BY <1>0, <1>o DEF RecordsOK
  <2> QED
    BY <1>0, <1>o, <2>1 DEF ResultAsk, Answers
<1> DEFINE res == results[r]
<1>1. ASSUME NEW j \in Jobs, NEW outcome \in {"rendered", "failed"}, NEW timed \in BOOLEAN,
             ResultArrives(r, j, outcome, timed)
      PROVE  ResultAsk'
  <2> DEFINE new == [pc |-> "read", outcome |-> outcome, lane |-> "none",
                     shows |-> IF outcome = "failed" THEN "nothing" ELSE jobs[j].shows,
                     latest |-> HasGrant, own |-> jobs[j].latest,
                     stale |-> HasGrant /\ ~jobs[j].latest /\ ~timed,
                     since |-> Since(j, timed), unseen |-> {},
                     timely |-> FALSE, asked |-> FALSE, same |-> FALSE, mark |-> FALSE, strikes |-> 0]
  <2>1. results' = [results EXCEPT ![r] = new] /\ row' = row
    BY <1>1 DEF ResultArrives
  <2>2. new.pc = "read"
    OBVIOUS
  <2> HIDE DEF new
  <2> QED
    BY <1>o, <2>1, <2>2
<1>2. CASE ResultSuperseded(r) \/ ResultThrows(r) \/ CommitFails(r)
  <2>1. results' = [results EXCEPT ![r] = NoResult] /\ row' = row
    BY <1>2 DEF ResultSuperseded, ResultThrows, CommitFails
  <2> QED
    BY <1>o, <2>1 DEF NoResult
<1>3. CASE ResultReads(r)
  <2> DEFINE a == res.outcome = "rendered" /\ row.ask /\ "ask" \in res.since
             new == [res EXCEPT !.pc = "write", !.asked = a, !.same = a /\ row.same]
  <2>1. res \in ResultRecord
    BY <1>0, <1>3, ResultPlace DEF ResultReads, RecordsOK
  <2>2. results' = [results EXCEPT ![r] = new] /\ row' = row
    BY <1>3 DEF ResultReads
  <2>3. new.pc = "write" /\ new.since = res.since /\ new.outcome = res.outcome
    BY <2>1 DEF ResultRecord
  <2>4. new.asked = (res.outcome = "rendered" /\ row.ask /\ "ask" \in res.since)
    BY <2>1 DEF ResultRecord
  <2> HIDE DEF new
  <2> QED
    BY <1>o, <2>2, <2>3, <2>4
<1>4. CASE ResultRendered(r)
  <2> DEFINE lane == IF res.asked THEN "ask" ELSE "landed"
             new  == [res EXCEPT !.pc = "commit", !.lane = lane, !.timely = Timely(r)]
  <2>1. res \in ResultRecord /\ res.pc = "write"
    BY <1>0, <1>4, ResultPlace DEF ResultRendered, RecordsOK
  <2>2. results' = [results EXCEPT ![r] = new] /\ row' = row
    BY <1>4 DEF ResultRendered, KeepAsk
  <2>3. /\ new.lane = lane /\ new.asked = res.asked /\ new.since = res.since /\ new.unseen = res.unseen
        /\ new.outcome = res.outcome
    BY <2>1 DEF ResultRecord
  <2>4. res.outcome = "rendered" /\ row.ask /\ "ask" \in res.since => res.asked \/ "ask" \in res.unseen
    BY <1>0, <2>1 DEF ResultAsk, Answers
  <2>5. lane = "landed" => ~res.asked
    OBVIOUS
  <2> HIDE DEF new, lane
  <2> QED
    BY <1>o, <2>2, <2>3, <2>4, <2>5
<1>5. CASE ResultFailsFast(r)
  <2> DEFINE new == [res EXCEPT !.pc = "commit", !.lane = "fast", !.strikes = strikes + 1, !.timely = Timely(r)]
  <2>1. res \in ResultRecord /\ res.pc = "write"
    BY <1>0, <1>5, ResultPlace DEF ResultFailsFast, RecordsOK
  <2>2. results' = [results EXCEPT ![r] = new] /\ row' = row
    BY <1>5 DEF ResultFailsFast
  <2>3. /\ new.lane = "fast" /\ new.asked = res.asked /\ new.since = res.since /\ new.unseen = res.unseen
        /\ new.outcome = res.outcome
    BY <2>1 DEF ResultRecord
  <2>4. res.outcome = "rendered" /\ row.ask /\ "ask" \in res.since => res.asked \/ "ask" \in res.unseen
    BY <1>0, <2>1 DEF ResultAsk, Answers
  <2> HIDE DEF new
  <2> QED
    BY <1>o, <2>2, <2>3, <2>4
<1>6. CASE ResultFailsSlow(r)
  <2> DEFINE new == [res EXCEPT !.pc = "commit", !.lane = "slow", !.strikes = AtMost(strikes + 1, MissLimit),
                                !.mark = CarriedMark, !.unseen = @ \ {"mark"}, !.timely = Timely(r)]
  <2>1. res \in ResultRecord /\ res.pc = "write"
    BY <1>0, <1>6, ResultPlace DEF ResultFailsSlow, RecordsOK
  <2>2. results' = [results EXCEPT ![r] = new] /\ row' = row
    BY <1>6 DEF ResultFailsSlow
  <2>3. /\ new.lane = "slow" /\ new.asked = res.asked /\ new.since = res.since /\ new.unseen = res.unseen \ {"mark"}
        /\ new.outcome = res.outcome
    BY <2>1 DEF ResultRecord
  <2>4. res.outcome = "rendered" /\ row.ask /\ "ask" \in res.since => res.asked \/ "ask" \in res.unseen
    BY <1>0, <2>1 DEF ResultAsk, Answers
  <2> HIDE DEF new
  <2> QED
    BY <1>o, <2>2, <2>3, <2>4
<1>7. CASE CommitLands(r)
  <2>1. ASSUME NEW q \in Results, results'[q].pc \in {"write", "commit"}
        PROVE  /\ results'[q].pc = results[q].pc /\ results'[q].lane = results[q].lane
               /\ results'[q].asked = results[q].asked /\ results'[q].outcome = results[q].outcome
               /\ "ask" \in results[q].unseen => "ask" \in results'[q].unseen
               /\ row'.ask /\ "ask" \in results'[q].since => Answers(q) \/ "ask" \in results'[q].unseen
    <3>1. /\ SameResult(results[q], results'[q]) /\ results'[q].since = results[q].since
          /\ results'[q].unseen = IF results[q].pc \in {"write", "commit"}
                                  THEN results[q].unseen \cup NewlyPut(row, row') ELSE results[q].unseen
      BY <1>0, <1>7, <2>1, CommitResults
    <3>2. row'.ask /\ ~row.ask => "ask" \in NewlyPut(row, row')
      BY DEF NewlyPut
    <3> QED
      BY <2>1, <3>1, <3>2 DEF Answers, SameResult
  <2> QED
    BY <1>0, <2>1, ResultAskKept
<1> QED
  BY <1>1, <1>2, <1>3, <1>4, <1>5, <1>6, <1>7 DEF Result

(* Every step keeps what the handlers know of the asks. *)
LEMMA ResultAskStep == ASSUME IInv, AskInv, [Next]_vars PROVE ResultAsk'
<1>0. RecordsOK /\ ResultAsk /\ TypeOK
  BY DEF IInv, RowInv, AskInv
<1>r. \A r \in Results : results[r].pc # "none" => results[r] \in ResultRecord
  BY <1>0, ResultPlace DEF RecordsOK
<1>1. CASE LeaseExpires \/ GraceEnds \/ HoldEnds \/ UNCHANGED vars \/ \E j \in Jobs : Fetch(j) \/ JobEnds(j)
  BY <1>0, <1>1 DEF LeaseExpires, GraceEnds, HoldEnds, vars, Fetch, JobEnds, ResultAsk, Answers
<1>2. CASE ComeDue
  <2>1. row'.ask = row.ask /\ results' = results
    BY <1>0, <1>2 DEF ComeDue, TypeOK
  <2> QED
    BY <1>0, <2>1 DEF ResultAsk, Answers
<1>3. CASE OriginChanges
  <2>1. row' = row
    BY <1>3 DEF OriginChanges
  <2> QED
    BY <1>0, <1>3, <2>1, OriginRecords, ResultAskKept DEF Answers, SameResult
<1>4. CASE AskForRender
  <2>1. CASE row.mark \/ row.ask
    BY <1>0, <1>4, <2>1 DEF AskForRender, ResultAsk, Answers
  <2>2. CASE ~(row.mark \/ row.ask)
    <3>1. ~row'.ask
      BY <1>4, <2>2 DEF AskForRender
    <3>2. ASSUME NEW r \in Results, results'[r].pc \in {"write", "commit"}
          PROVE  SameResult(results[r], results'[r]) /\ results'[r].unseen = results[r].unseen
      BY <1>0, <1>4, <3>2, AskRecords
    <3> QED
      BY <1>0, <3>1, <3>2, ResultAskKept DEF SameResult
  <2> QED
    BY <2>1, <2>2
<1>5. CASE ProbeFindsChange
  <2>1. row' = row
    BY <1>5 DEF ProbeFindsChange
  <2>2. ASSUME NEW r \in Results, results'[r].pc \in {"write", "commit"}
        PROVE  /\ results'[r].pc = results[r].pc /\ results'[r].lane = results[r].lane
               /\ results'[r].asked = results[r].asked /\ results'[r].outcome = results[r].outcome
               /\ "ask" \in results[r].unseen => "ask" \in results'[r].unseen
               /\ row'.ask /\ "ask" \in results'[r].since => Answers(r) \/ "ask" \in results'[r].unseen
    <3>1. /\ SameResult(results[r], results'[r]) /\ results'[r].unseen = results[r].unseen
          /\ results'[r].since = SinceMark(results[r].since)
      BY <1>0, <1>5, <2>2, ProbeRecords
    <3>2. "ask" \in results'[r].since => "ask" \in results[r].since
      BY <3>1 DEF SinceMark
    <3> QED
      BY <2>1, <3>1, <3>2 DEF Answers, SameResult
  <2> QED
    BY <1>0, <2>2, ResultAskKept
<1>6. ASSUME NEW what \in Whats, FilingWrites(what) PROVE ResultAsk'
  <2>1. row'.ask /\ ~row.ask => "ask" \in NewlyPut(row, row')
    BY DEF NewlyPut
  <2> QED
    BY <1>0, <1>6, <2>1, PutResults, ResultAskKept DEF Answers, SameResult
<1>7. ASSUME NEW c \in Claims, Claim(c) PROVE ResultAsk'
  <2>1. CASE ~ClaimGrants(c)
    BY <1>0, <1>7, <2>1 DEF Claim, ClaimReads, ClaimRefused, ClaimHolds, ResultAsk, Answers
  <2>2. CASE ClaimGrants(c)
    <3>1. results' = [r \in Results |-> IF r \in Busy
                                        THEN [results[r] EXCEPT !.latest = FALSE, !.own = FALSE, !.stale = FALSE]
                                        ELSE NoResult]
      BY <2>2 DEF ClaimGrants
    <3>2. row'.ask = row.ask
      BY <1>0, <2>2 DEF ClaimGrants, TypeOK
    <3>3. ASSUME NEW r \in Results, results'[r].pc \in {"write", "commit"}
          PROVE  /\ results'[r].pc = results[r].pc /\ results'[r].lane = results[r].lane
                 /\ results'[r].asked = results[r].asked /\ results'[r].since = results[r].since
                 /\ results'[r].unseen = results[r].unseen /\ results'[r].outcome = results[r].outcome
      <4>1. r \in Busy /\ results'[r] = [results[r] EXCEPT !.latest = FALSE, !.own = FALSE, !.stale = FALSE]
        BY <3>1, <3>3 DEF NoResult
      <4>2. results[r] \in ResultRecord
        BY <1>0, <4>1 DEF Busy, RecordsOK
      <4> QED
        BY <4>1, <4>2 DEF ResultRecord
    <3> QED
      BY <1>0, <3>2, <3>3, ResultAskKept DEF Answers
  <2> QED
    BY <2>1, <2>2
<1>8. CASE Restart
  BY <1>8 DEF Restart, ResultAsk, NoResult
<1> QED
  BY <1>1, <1>2, <1>3, <1>4, <1>5, <1>6, <1>7, <1>8, ResultAskMoves DEF Next, Whats

(* What the handlers know of the asks holds throughout. *)
LEMMA AskInductive == Spec => []AskInv
<1>1. Init => AskInv
  BY DEF Init, AskInv, FilingAsk, ResultAsk, NoFiling, NoResult, Whats
<1>2. IInv /\ AskInv /\ [Next]_vars => AskInv'
  BY FilingAskStep, ResultAskStep DEF AskInv
<1> QED
  BY <1>1, <1>2, Inductive, PTL DEF Spec

(* An ask filed while a render runs is not cleared by that render's success     *)
(* (processJobResult's keepAsk), with any number of renders, results and        *)
(* filings under way.                                                           *)
THEOREM RenderAskOutlives == Spec => AskOutlivesRender
<1>1. ASSUME IInv, AskInv, [Next]_vars, row.ask, ~row'.ask, ~row'.mark
      PROVE  \E r \in Busy : /\ results[r].pc = "commit" /\ results'[r] # results[r]
                             /\ \/ results[r].lane = "slow"
                                \/ "ask" \notin results[r].since
                                \/ "ask" \in results[r].unseen
  <2>0. RecordsOK /\ TypeOK /\ FilingAsk /\ ResultAsk /\ ResultInv
    BY <1>1 DEF IInv, RowInv, AskInv
  <2>1. CASE \E r \in Results : CommitLands(r)
    <3>1. PICK r \in Results : CommitLands(r)
      BY <2>1
    <3> DEFINE res == results[r]
    <3>2. res.pc = "commit" /\ row' \in CommittedRows(res)
      BY <3>1 DEF CommitLands
    <3>3. res \in ResultRecord /\ res # NoResult
      BY <2>0, <3>2, ResultPlace DEF RecordsOK
    <3>4. res.lane \in {"slow", "landed"}
      <4>1. res.lane \in {"fast", "slow", "landed", "ask"}
        BY <2>0, <3>2, <3>3 DEF ResultInv, ResultRecord
      <4>2. res.lane # "fast"
        BY <1>1, <3>2 DEF CommittedRows
      <4>3. res.lane # "ask"
        <5>1. SUFFICES ASSUME res.lane = "ask" PROVE FALSE
          OBVIOUS
        <5>2. PICK same \in BOOLEAN : row' = [due |-> TRUE, same |-> same, mark |-> FALSE, ask |-> TRUE]
          <6>1. (IF ~HasGrant THEN {FALSE} ELSE IF res.latest THEN {res.same} ELSE BOOLEAN) \subseteq BOOLEAN
            BY <3>3 DEF ResultRecord
          <6>2. row' \in {[due |-> TRUE, same |-> same, mark |-> FALSE, ask |-> TRUE] :
                           same \in IF ~HasGrant THEN {FALSE} ELSE IF res.latest THEN {res.same} ELSE BOOLEAN}
            BY <3>2, <5>1 DEF CommittedRows
          <6> HIDE DEF res
          <6> QED
            BY <6>1, <6>2
        <5> QED
          BY <1>1, <5>2
      <4> QED
        BY <4>1, <4>2, <4>3
    <3>5. res.lane = "landed" /\ "ask" \in res.since => "ask" \in res.unseen
      BY <1>1, <2>0, <3>2 DEF ResultAsk, ResultInv, Answers
    <3>6. results'[r] # results[r]
      <4>1. results'[r].pc = "none"
        BY <2>0, <3>1, CommitResults
      <4> QED
        BY <3>2, <4>1
    <3> QED
      BY <3>2, <3>3, <3>4, <3>5, <3>6 DEF Busy
  <2>2. CASE \E what \in Whats : FilingWrites(what)
    <3>1. PICK what \in Whats : FilingWrites(what)
      BY <2>2
    <3>2. row' = filing[what].row /\ filing[what].pc # "none"
      BY <2>0, <3>1, FilingPlace DEF FilingWrites, RecordsOK
    <3> QED
      BY <1>1, <2>0, <3>2 DEF FilingAsk
  <2>3. CASE ComeDue \/ Restart \/ \E c \in Claims : ClaimGrants(c)
    <3>1. row'.ask = row.ask
      BY <2>0, <2>3 DEF ComeDue, Restart, ClaimGrants, TypeOK
    <3> QED
      BY <1>1, <3>1
  <2>4. CASE ~(\E r \in Results : CommitLands(r)) /\ ~(\E what \in Whats : FilingWrites(what))
             /\ ~(ComeDue \/ Restart \/ \E c \in Claims : ClaimGrants(c))
    <3>1. ASSUME NEW r \in Results, Result(r) PROVE row' = row
      BY <2>4, <3>1 DEF Result, ResultArrives, ResultSuperseded, ResultReads, ResultThrows, ResultRendered,
           ResultFailsFast, ResultFailsSlow, CommitFails
    <3>2. row' = row
      BY <1>1, <2>4, <3>1 DEF Next, Whats, vars, LeaseExpires, GraceEnds, HoldEnds, OriginChanges,
           ProbeFindsChange, AskForRender, Claim, ClaimReads, ClaimRefused, ClaimHolds, Fetch, JobEnds
    <3> QED
      BY <1>1, <3>2
  <2> QED
    BY <2>1, <2>2, <2>3, <2>4
<1>2. IInv /\ AskInv /\ [Next]_vars =>
        [row.ask /\ ~row'.ask =>
           \/ row'.mark
           \/ \E r \in Busy : /\ results[r].pc = "commit" /\ results'[r] # results[r]
                              /\ \/ results[r].lane = "slow"
                                 \/ "ask" \notin results[r].since
                                 \/ "ask" \in results[r].unseen]_vars
  BY <1>1
<1> QED
  BY <1>2, Inductive, AskInductive, PTL DEF Spec, AskOutlivesRender

-----------------------------------------------------------------------------
(* Holds.  While no other cause is known every counted miss is an expired     *)
(* lease under which a failure of its own render was committed, so that the   *)
(* misses a grant would carry stay within the strikes, and the strikes of the *)
(* failures still to be committed above them.  Misses are carried from a      *)
(* lease that runs out and from one released as left due.                     *)
Carried == lease \in {"live", "expired"} \/ leftDue
MissInv ==
    /\ lease \in {"held", "unheld"} => cause
    /\ ~cause /\ Carried =>
         /\ misses <= strikes
         /\ landed /\ lease \in {"live", "expired"} => misses < strikes
OwnInv == lease = "none" => \A j \in Jobs : jobs[j].pc # "none" => ~jobs[j].latest
PendingInv ==
    \A r \in Results : results[r].pc # "none" /\ results[r].own =>
        /\ results[r].latest
        /\ results[r].pc = "commit" =>
             /\ results[r].lane # "fast" => lease \notin {"live", "expired"}
             /\ ~cause /\ Carried =>
                  /\ results[r].lane = "fast" => misses < results[r].strikes
                  /\ results[r].lane = "slow" => misses <= results[r].strikes
HoldInv == MissInv /\ OwnInv /\ PendingInv

(* A handler left where it is. *)
SameHandler(r) ==
    /\ results'[r].pc = results[r].pc /\ results'[r].lane = results[r].lane
    /\ results'[r].own = results[r].own /\ results'[r].latest = results[r].latest
    /\ results'[r].strikes = results[r].strikes

(* The origin, the probe and the filings move no handler. *)
LEMMA HandlersKept ==
    ASSUME RecordsOK,
           \/ OriginChanges \/ ProbeFindsChange \/ AskForRender
           \/ \E what \in Whats : FilingWrites(what)
    PROVE  \A r \in Results : results'[r].pc # "none" => SameHandler(r)
BY OriginRecords, ProbeRecords, AskRecords, PutResults DEF SameResult, SameHandler

(* A step that moves no handler, and carries no more than before. *)
LEMMA PendingKept ==
    ASSUME PendingInv, misses' = misses,
           lease' \in {"live", "expired"} => lease \in {"live", "expired"},
           ~cause' => ~cause, ~cause' /\ Carried' => Carried,
           \A r \in Results : results'[r].pc # "none" => SameHandler(r)
    PROVE  PendingInv'
<1> SUFFICES ASSUME NEW r \in Results, results'[r].pc # "none", results'[r].own
             PROVE  /\ results'[r].latest
                    /\ results'[r].pc = "commit" =>
                         /\ results'[r].lane # "fast" => lease' \notin {"live", "expired"}
                         /\ ~cause' /\ Carried' =>
                              /\ results'[r].lane = "fast" => misses' < results'[r].strikes
                              /\ results'[r].lane = "slow" => misses' <= results'[r].strikes
  BY DEF PendingInv
<1>1. SameHandler(r)
  OBVIOUS
<1>2. results[r].pc # "none" /\ results[r].own
  BY <1>1 DEF SameHandler
<1>3. /\ results[r].latest
      /\ results[r].pc = "commit" =>
           /\ results[r].lane # "fast" => lease \notin {"live", "expired"}
           /\ ~cause /\ Carried =>
                /\ results[r].lane = "fast" => misses < results[r].strikes
                /\ results[r].lane = "slow" => misses <= results[r].strikes
  BY <1>2 DEF PendingInv
<1> QED
  BY <1>1, <1>3 DEF SameHandler

(* A step that leaves the table alone. *)
LEMMA HoldKept ==
    ASSUME HoldInv, UNCHANGED <<lease, misses, leftDue, strikes, landed, cause>>,
           \A j \in Jobs : jobs'[j].pc # "none" => jobs[j].pc # "none" /\ jobs'[j].latest = jobs[j].latest,
           \A r \in Results : results'[r].pc # "none" => SameHandler(r)
    PROVE  HoldInv'
<1>1. MissInv' /\ OwnInv'
  BY DEF HoldInv, MissInv, OwnInv, Carried
<1>2. PendingInv'
  BY PendingKept DEF HoldInv, Carried
<1> QED
  BY <1>1, <1>2 DEF HoldInv

(* The renders keep what they were granted. *)
LEMMA RendersKept ==
    ASSUME RecordsOK, OriginChanges \/ ProbeFindsChange \/ AskForRender
    PROVE  \A j \in Jobs : jobs'[j].pc # "none" => jobs[j].pc # "none" /\ jobs'[j].latest = jobs[j].latest
BY OriginRecords, ProbeRecords, AskRecords DEF SameJob

(* Time, the origin, the probe, the filings and the fleet. *)
LEMMA HoldOutside ==
    ASSUME IInv, HoldInv,
           \/ ComeDue \/ LeaseExpires \/ GraceEnds \/ HoldEnds
           \/ OriginChanges \/ ProbeFindsChange \/ AskForRender
           \/ \E what \in Whats : FilingWrites(what)
           \/ \E j \in Jobs : Fetch(j) \/ JobEnds(j)
           \/ UNCHANGED vars
    PROVE  HoldInv'
<1>0. RecordsOK /\ TypeOK
  BY DEF IInv, RowInv
<1>1. CASE OriginChanges \/ ProbeFindsChange \/ AskForRender
  <2>1. UNCHANGED <<lease, misses, leftDue, strikes, landed, cause>>
    BY <1>1 DEF OriginChanges, ProbeFindsChange, AskForRender, table, history
  <2> QED
    BY <1>0, <1>1, <2>1, HandlersKept, RendersKept, HoldKept
<1>2. ASSUME NEW what \in Whats, FilingWrites(what) PROVE HoldInv'
  <2>1. UNCHANGED <<lease, misses, leftDue, strikes, landed, cause, jobs>>
    BY <1>2 DEF FilingWrites, table
  <2>2. \A r \in Results : results'[r].pc # "none" => SameHandler(r)
    BY <1>0, <1>2, HandlersKept
  <2> QED
    BY <2>1, <2>2, HoldKept
<1>3. ASSUME NEW j \in Jobs, Fetch(j) \/ JobEnds(j) PROVE HoldInv'
  <2>1. UNCHANGED <<lease, misses, leftDue, strikes, landed, cause, results>>
    BY <1>3 DEF Fetch, JobEnds, table, history
  <2>2. \A i \in Jobs : jobs'[i].pc # "none" => jobs[i].pc # "none" /\ jobs'[i].latest = jobs[i].latest
    <3>1. CASE Fetch(j)
      <4>1. jobs[j] \in JobRecord /\ jobs[j].pc # "none"
        BY <1>0, <3>1, JobPlace DEF Fetch, RecordsOK
      <4>2. jobs' = [jobs EXCEPT ![j] = [jobs[j] EXCEPT !.pc = "fetched", !.shows = "current"]]
        BY <1>0, <3>1, <4>1 DEF Fetch, RecordsOK, JobRecord
      <4> QED
        BY <1>0, <4>1, <4>2 DEF RecordsOK, JobRecord
    <3>2. CASE JobEnds(j)
      BY <1>0, <3>2 DEF JobEnds, RecordsOK, NoJob
    <3> QED
      BY <1>3, <3>1, <3>2
  <2>3. \A r \in Results : SameHandler(r)
    BY <2>1 DEF SameHandler
  <2> QED
    BY <2>1, <2>2, <2>3, HoldKept
<1>4. CASE ComeDue \/ UNCHANGED vars
  <2>1. UNCHANGED <<lease, misses, leftDue, strikes, landed, cause, results, jobs>>
    BY <1>4 DEF ComeDue, vars, table, history
  <2>2. \A r \in Results : SameHandler(r)
    BY <2>1 DEF SameHandler
  <2> QED
    BY <2>1, <2>2, HoldKept
<1>5. CASE LeaseExpires \/ GraceEnds \/ HoldEnds
  <2>1. /\ UNCHANGED <<misses, leftDue, strikes, landed, cause, results, jobs>>
        /\ \/ lease = "live" /\ lease' = "expired"
           \/ lease = "grace" /\ lease' = "released"
           \/ lease = "held" /\ lease' = "unheld"
    BY <1>5 DEF LeaseExpires, GraceEnds, HoldEnds, history
  <2>2. \A r \in Results : SameHandler(r)
    BY <2>1 DEF SameHandler
  <2>3. MissInv' /\ OwnInv'
    BY <2>1 DEF HoldInv, MissInv, OwnInv, Carried
  <2>4. PendingInv'
    BY <2>1, <2>2, PendingKept DEF HoldInv, Carried
  <2> QED
    BY <2>3, <2>4 DEF HoldInv
<1> QED
  BY <1>1, <1>2, <1>3, <1>4, <1>5

(* Claims: a key without a cause is granted with its misses within its strikes, *)
(* and so is never held.                                                        *)
LEMMA HoldClaim ==
    ASSUME IInv, HoldInv, NEW c \in Claims, Claim(c) PROVE HoldInv'
<1>0. RecordsOK /\ TypeOK /\ MissInv /\ OwnInv /\ PendingInv
  BY DEF IInv, RowInv, HoldInv
<1>1. CASE ClaimReads(c) \/ ClaimRefused(c)
  <2>1. UNCHANGED <<lease, misses, leftDue, strikes, landed, cause, results, jobs>>
    BY <1>1 DEF ClaimReads, ClaimRefused, table, history
  <2>2. \A r \in Results : SameHandler(r)
    BY <2>1 DEF SameHandler
  <2> QED
    BY <2>1, <2>2, HoldKept
<1> DEFINE same == claims[c].same
<1>m. ~IsLeased /\ ~CauseOf(same) =>
        /\ MissesOf(same) <= strikes /\ lease # "unheld"
        /\ MissesOf(same) \in Nat
  <2> SUFFICES ASSUME ~IsLeased, ~CauseOf(same)
               PROVE  MissesOf(same) <= strikes /\ lease # "unheld" /\ MissesOf(same) \in Nat
    OBVIOUS
  <2>t. misses \in Nat /\ strikes \in Nat /\ lease \in {"none", "expired", "released", "lapsed", "unheld"}
    BY <1>0 DEF TypeOK, LeaseStates, IsLeased
  <2>1. CASE lease = "none" \/ (Released /\ ~leftDue /\ ~same)
    <3>1. MissesOf(same) = 0 /\ lease # "unheld"
      BY <2>1 DEF MissesOf, Reset, Counted, Released
    <3> QED
      BY <2>t, <3>1
  <2>2. CASE lease = "expired"
    <3>0. CauseOf(same) = (cause \/ ~landed)
      BY <2>2 DEF CauseOf, Released
    <3>1. ~cause /\ landed
      BY <3>0, Zenon
    <3>2. misses < strikes
      BY <1>0, <2>2, <3>1 DEF MissInv, Carried
    <3>3. MissesOf(same) = AtMost(misses + 1, MaxMisses)
      BY <2>2 DEF MissesOf, Reset, Counted, Released
    <3>m. MaxMisses \in Nat
      BY CycleAssumption DEF CycleAssumption
    <3> DEFINE n == misses + 1
    <3>n. n \in Nat
      BY <2>t
    <3> HIDE DEF n
    <3>4. AtMost(n, MaxMisses) \in Nat /\ AtMost(n, MaxMisses) <= n
      BY <3>m, <3>n DEF AtMost
    <3> QED
      BY <2>t, <2>2, <3>2, <3>3, <3>4 DEF n
  <2>3. CASE ~(lease = "none" \/ (Released /\ ~leftDue /\ ~same)) /\ lease # "expired"
    <3>1. ~cause /\ leftDue
      BY <2>t, <2>3, <1>0 DEF CauseOf, Released, MissInv
    <3>2. misses <= strikes
      BY <1>0, <3>1 DEF MissInv, Carried
    <3>3. lease # "unheld"
      BY <1>0, <3>1 DEF MissInv
    <3>4. MissesOf(same) = misses
      BY <2>3, <3>1 DEF MissesOf, Reset, Counted
    <3> QED
      BY <2>t, <3>2, <3>3, <3>4
  <2> QED
    BY <2>1, <2>2, <2>3
<1>2. CASE ClaimHolds(c)
  <2>1. /\ lease' = "held" /\ cause' = CauseOf(same) /\ ~IsLeased /\ MissesBeforeGrant(same) > MissLimit
        /\ UNCHANGED <<leftDue, strikes, results, jobs, landed>>
    BY <1>2 DEF ClaimHolds
  <2>2. cause'
    <3>1. SUFFICES ASSUME ~CauseOf(same) PROVE FALSE
      BY <2>1
    <3>2. MissesOf(same) <= strikes /\ MissesBeforeGrant(same) = MissesOf(same) /\ MissesOf(same) \in Nat
      BY <1>m, <2>1, <3>1 DEF MissesBeforeGrant
    <3> QED
      BY <1>0, <2>1, <3>2, CycleAssumption DEF TypeOK, MissLimit
  <2>3. MissInv' /\ OwnInv'
    BY <2>1, <2>2 DEF MissInv, OwnInv
  <2>4. PendingInv'
    BY <1>0, <2>1, <2>2 DEF PendingInv
  <2> QED
    BY <2>3, <2>4 DEF HoldInv
<1>3. CASE ClaimGrants(c)
  <2>1. /\ lease' = "live" /\ misses' = MissesOf(same) /\ cause' = CauseOf(same) /\ ~IsLeased
        /\ landed' = FALSE /\ strikes' = strikes
        /\ results' = [r \in Results |-> IF r \in Busy
                                         THEN [results[r] EXCEPT !.latest = FALSE, !.own = FALSE, !.stale = FALSE]
                                         ELSE NoResult]
    BY <1>3 DEF ClaimGrants
  <2>2. MissInv'
    BY <1>m, <2>1 DEF MissInv
  <2>3. OwnInv'
    BY <2>1 DEF OwnInv
  <2>4. \A r \in Results : results'[r].pc # "none" => ~results'[r].own
    <3>1. \A r \in Busy : results[r] \in ResultRecord
      BY <1>0 DEF Busy, RecordsOK
    <3> QED
      BY <2>1, <3>1 DEF ResultRecord, NoResult
  <2> QED
    BY <2>2, <2>3, <2>4 DEF HoldInv, PendingInv
<1> QED
  BY <1>1, <1>2, <1>3 DEF Claim

(* A handler's own step writes the progress of one result. *)
LEMMA PendingOwn ==
    ASSUME RecordsOK, PendingInv, UNCHANGED misses, UNCHANGED cause,
           lease' \in {"live", "expired"} => lease \in {"live", "expired"},
           ~cause /\ Carried' => Carried,
           NEW r \in Results, NEW new, results' = [results EXCEPT ![r] = new],
           new.pc # "none" /\ new.own =>
             /\ new.latest
             /\ new.pc = "commit" =>
                  /\ new.lane # "fast" => lease' \notin {"live", "expired"}
                  /\ ~cause' /\ Carried' =>
                       /\ new.lane = "fast" => misses < new.strikes
                       /\ new.lane = "slow" => misses <= new.strikes
    PROVE  PendingInv'
<1>1. results'[r] = new /\ \A q \in Results : q # r => results'[q] = results[q]
  BY DEF RecordsOK
<1>2. ASSUME NEW q \in Results, q # r, results'[q].pc # "none", results'[q].own
      PROVE  /\ results'[q].latest
             /\ results'[q].pc = "commit" =>
                  /\ results'[q].lane # "fast" => lease' \notin {"live", "expired"}
                  /\ ~cause' /\ Carried' =>
                       /\ results'[q].lane = "fast" => misses' < results'[q].strikes
                       /\ results'[q].lane = "slow" => misses' <= results'[q].strikes
  <2>1. results'[q] = results[q]
    BY <1>1, <1>2
  <2> QED
    BY <1>2, <2>1 DEF PendingInv
<1> QED
  BY <1>1, <1>2 DEF PendingInv

(* What a release does to what is carried, when no other cause is known. *)
LEMMA ReleaseCarries ==
    ASSUME TypeOK, MissInv, UNCHANGED cause, NEW r \in Results, NEW asLeftDue \in BOOLEAN, Release(r, asLeftDue)
    PROVE  /\ UNCHANGED misses
           /\ lease' \in {"live", "expired"} => lease \in {"live", "expired"}
           /\ lease' \in {"held", "unheld"} => lease \in {"held", "unheld"}
           /\ lease' = "none" => lease = "none"
           /\ ~cause /\ Carried' => Carried
           /\ results[r].latest => lease' \notin {"live", "expired"}
<1>1. CASE Releases(r)
  <2>1. lease' \in {"grace", "lapsed"} /\ UNCHANGED misses
    BY <1>1, ReleaseFrame DEF ReleasedTo
  <2>2. ~cause => lease \in {"live", "expired"}
    BY <1>1 DEF Releases, MissInv
  <2> QED
    BY <2>1, <2>2 DEF Carried
<1>2. CASE ~Releases(r)
  <2>1. UNCHANGED <<lease, misses, leftDue>>
    BY <1>2, ReleaseFrame
  <2>2. results[r].latest => lease \notin {"live", "expired"}
    BY <1>2 DEF Releases
  <2> QED
    BY <2>1, <2>2 DEF Carried
<1> QED
  BY <1>1, <1>2

(* Results: a failure's commit puts the strikes above the misses, and what *)
(* clears the strikes while misses are carried is a cause.                 *)
LEMMA HoldResult ==
    ASSUME IInv, HoldInv, NEW r \in Results, Result(r) PROVE HoldInv'
<1>0. RecordsOK /\ TypeOK /\ MissInv /\ OwnInv /\ PendingInv
  BY DEF IInv, RowInv, HoldInv
<1> DEFINE res == results[r]
<1>1. ASSUME NEW j \in Jobs, NEW outcome \in {"rendered", "failed"}, NEW timed \in BOOLEAN,
             ResultArrives(r, j, outcome, timed)
      PROVE  HoldInv'
  <2> DEFINE shows == IF outcome = "failed" THEN "nothing" ELSE jobs[j].shows
             new == [pc |-> "read", outcome |-> outcome, lane |-> "none", shows |-> shows,
                     latest |-> HasGrant, own |-> jobs[j].latest,
                     stale |-> HasGrant /\ ~jobs[j].latest /\ ~timed,
                     since |-> Since(j, timed), unseen |-> {},
                     timely |-> FALSE, asked |-> FALSE, same |-> FALSE, mark |-> FALSE, strikes |-> 0]
  <2>1. /\ results' = [results EXCEPT ![r] = new]
        /\ jobs' = [jobs EXCEPT ![j] = [jobs[j] EXCEPT !.pc = outcome, !.shows = shows]]
        /\ UNCHANGED <<lease, misses, leftDue, strikes, landed, cause>>
    BY <1>1 DEF ResultArrives, table, history
  <2>2. new.pc = "read" /\ new.latest = HasGrant /\ new.own = jobs[j].latest
    OBVIOUS
  <2>3. jobs[j].pc # "none" /\ jobs[j] \in JobRecord
    BY <1>0, <1>1, JobPlace DEF ResultArrives, RecordsOK
  <2>4. jobs[j].latest => HasGrant
    BY <1>0, <2>3 DEF OwnInv, HasGrant
  <2> HIDE DEF new, shows
  <2>5. PendingInv'
    BY <1>0, <2>1, <2>2, <2>4, PendingOwn DEF Carried
  <2>6. OwnInv'
    <3>1. [jobs[j] EXCEPT !.pc = outcome, !.shows = shows].latest = jobs[j].latest
      BY <2>3 DEF JobRecord
    <3> QED
      BY <1>0, <2>1, <2>3, <3>1 DEF OwnInv, RecordsOK
  <2>7. MissInv'
    BY <1>0, <2>1 DEF MissInv, Carried
  <2> QED
    BY <2>5, <2>6, <2>7 DEF HoldInv
<1>2. CASE ResultThrows(r) \/ CommitFails(r) \/ ResultSuperseded(r)
  <2>1. results' = [results EXCEPT ![r] = NoResult] /\ UNCHANGED <<strikes, landed, cause, jobs>>
    BY <1>2 DEF ResultSuperseded, ResultThrows, CommitFails, history
  <2>2. /\ UNCHANGED misses
        /\ lease' \in {"live", "expired"} => lease \in {"live", "expired"}
        /\ lease' \in {"held", "unheld"} => lease \in {"held", "unheld"}
        /\ lease' = "none" => lease = "none"
        /\ ~cause /\ Carried' => Carried
    <3>1. CASE ResultSuperseded(r)
      BY <1>0, <2>1, <3>1, ReleaseCarries DEF ResultSuperseded
    <3>2. CASE ResultThrows(r) \/ CommitFails(r)
      BY <3>2 DEF ResultThrows, CommitFails, table, Carried
    <3> QED
      BY <1>2, <3>1, <3>2
  <2>3. PendingInv'
    BY <1>0, <2>1, <2>2, PendingOwn DEF NoResult
  <2>4. MissInv' /\ OwnInv'
    BY <1>0, <2>1, <2>2 DEF MissInv, OwnInv
  <2> QED
    BY <2>3, <2>4 DEF HoldInv
<1>3. CASE ResultReads(r)
  <2> DEFINE a == res.outcome = "rendered" /\ row.ask /\ "ask" \in res.since
             new == [res EXCEPT !.pc = "write", !.asked = a, !.same = a /\ row.same]
  <2>1. res \in ResultRecord
    BY <1>0, <1>3, ResultPlace DEF ResultReads, RecordsOK
  <2>2. results' = [results EXCEPT ![r] = new]
        /\ UNCHANGED <<lease, misses, leftDue, strikes, landed, cause, jobs>>
    BY <1>3 DEF ResultReads, table, history
  <2>3. new.pc = "write" /\ new.latest = res.latest /\ new.own = res.own
    BY <2>1 DEF ResultRecord
  <2>4. res.own => res.latest
    BY <1>0, <1>3 DEF ResultReads, PendingInv
  <2> HIDE DEF new
  <2>5. PendingInv'
    BY <1>0, <2>2, <2>3, <2>4, PendingOwn DEF Carried
  <2>6. MissInv' /\ OwnInv'
    BY <1>0, <2>2 DEF MissInv, OwnInv, Carried
  <2> QED
    BY <2>5, <2>6 DEF HoldInv
<1>4. CASE ResultRendered(r) \/ ResultFailsSlow(r)
  <2>0. res \in ResultRecord /\ (res.own => res.latest)
    BY <1>0, <1>4, ResultPlace DEF ResultRendered, ResultFailsSlow, RecordsOK, PendingInv
  <2>1. PICK new : /\ results' = [results EXCEPT ![r] = new]
                   /\ new.pc = "commit" /\ new.latest = res.latest /\ new.own = res.own
                   /\ new.lane # "fast"
                   /\ new.lane = "slow" => new.strikes = AtMost(strikes + 1, MissLimit)
    <3>1. CASE ResultRendered(r)
      <4> DEFINE new == [res EXCEPT !.pc = "commit", !.lane = IF KeepAsk(r) THEN "ask" ELSE "landed",
                                    !.timely = Timely(r)]
      <4>1. results' = [results EXCEPT ![r] = new]
        BY <3>1 DEF ResultRendered
      <4>2. new.pc = "commit" /\ new.lane \in {"ask", "landed"}
            /\ new.latest = res.latest /\ new.own = res.own
        BY <2>0 DEF ResultRecord
      <4> QED
        BY <4>1, <4>2
    <3>2. CASE ResultFailsSlow(r)
      <4> DEFINE new == [res EXCEPT !.pc = "commit", !.lane = "slow", !.strikes = AtMost(strikes + 1, MissLimit),
                                    !.mark = CarriedMark, !.unseen = @ \ {"mark"}, !.timely = Timely(r)]
      <4>1. results' = [results EXCEPT ![r] = new]
        BY <3>2 DEF ResultFailsSlow
      <4>2. new.pc = "commit" /\ new.lane = "slow" /\ new.strikes = AtMost(strikes + 1, MissLimit)
            /\ new.latest = res.latest /\ new.own = res.own
        BY <2>0 DEF ResultRecord
      <4> QED
        BY <4>1, <4>2
    <3> QED
      BY <1>4, <3>1, <3>2
  <2>2. UNCHANGED <<strikes, landed, cause, jobs>>
    BY <1>4 DEF ResultRendered, ResultFailsSlow
  <2>3. PICK asLeftDue \in BOOLEAN : Release(r, asLeftDue)
    <3>1. res.asked \in BOOLEAN
      BY <2>0 DEF ResultRecord
    <3> QED
      BY <1>4, <3>1 DEF ResultRendered, ResultFailsSlow, KeepAsk
  <2>4. /\ UNCHANGED misses
        /\ lease' \in {"live", "expired"} => lease \in {"live", "expired"}
        /\ lease' \in {"held", "unheld"} => lease \in {"held", "unheld"}
        /\ lease' = "none" => lease = "none"
        /\ ~cause /\ Carried' => Carried
        /\ res.latest => lease' \notin {"live", "expired"}
    BY <1>0, <2>2, <2>3, ReleaseCarries
  <2>5. misses <= strikes => misses <= AtMost(strikes + 1, MissLimit)
    BY <1>0, CycleAssumption DEF TypeOK, AtMost, MissLimit, CycleAssumption
  <2>6. ~cause' /\ Carried' => misses <= strikes
    BY <1>0, <2>2, <2>4 DEF MissInv
  <2>7. PendingInv'
    BY <1>0, <2>0, <2>1, <2>2, <2>4, <2>5, <2>6, PendingOwn
  <2>8. MissInv' /\ OwnInv'
    BY <1>0, <2>2, <2>4 DEF MissInv, OwnInv
  <2> QED
    BY <2>7, <2>8 DEF HoldInv
<1>5. CASE ResultFailsFast(r)
  <2> DEFINE new == [res EXCEPT !.pc = "commit", !.lane = "fast", !.strikes = strikes + 1, !.timely = Timely(r)]
  <2>1. res \in ResultRecord /\ (res.own => res.latest)
    BY <1>0, <1>5, ResultPlace DEF ResultFailsFast, RecordsOK, PendingInv
  <2>2. results' = [results EXCEPT ![r] = new]
        /\ UNCHANGED <<lease, misses, leftDue, strikes, landed, cause, jobs>>
    BY <1>5 DEF ResultFailsFast, table, history
  <2>3. new.pc = "commit" /\ new.lane = "fast" /\ new.strikes = strikes + 1
        /\ new.latest = res.latest /\ new.own = res.own
    BY <2>1 DEF ResultRecord
  <2> HIDE DEF new
  <2>4. ~cause /\ Carried => misses < strikes + 1
    <3>1. misses <= strikes => misses < strikes + 1
      BY <1>0 DEF TypeOK
    <3> QED
      BY <1>0, <3>1 DEF MissInv
  <2>5. PendingInv'
    BY <1>0, <2>1, <2>2, <2>3, <2>4, PendingOwn DEF Carried
  <2>6. MissInv' /\ OwnInv'
    BY <1>0, <2>2 DEF MissInv, OwnInv, Carried
  <2> QED
    BY <2>5, <2>6 DEF HoldInv
<1>6. CASE CommitLands(r)
  <2>1. /\ UNCHANGED <<lease, misses, leftDue, jobs>>
        /\ res.pc = "commit"
        /\ strikes' = IF res.lane \in {"landed", "ask"} THEN 0 ELSE res.strikes
        /\ cause' = (cause \/ ~res.own \/ (res.lane \in {"landed", "ask"} /\ leftDue /\ misses > 0))
        /\ landed' = (landed \/ (res.own /\ res.timely /\ res.lane = "fast"))
    BY <1>6 DEF CommitLands, table
  <2>2. res \in ResultRecord /\ res.lane \in {"fast", "slow", "landed", "ask"}
    BY <1>0, <2>1, ResultPlace DEF RecordsOK, IInv, ResultInv, ResultRecord
  <2>3. ~cause' => ~cause /\ res.own /\ ~(res.lane \in {"landed", "ask"} /\ leftDue /\ misses > 0)
    BY <2>1, Zenon
  <2>4. ASSUME ~cause', Carried
        PROVE  misses <= strikes' /\ (landed' /\ lease \in {"live", "expired"} => misses < strikes')
    <3>1. /\ res.lane # "fast" => lease \notin {"live", "expired"}
          /\ res.lane = "fast" => misses < res.strikes
          /\ res.lane = "slow" => misses <= res.strikes
      BY <1>0, <2>1, <2>3, <2>4 DEF PendingInv
    <3>2. CASE res.lane = "fast"
      <4>1. strikes' = res.strikes /\ res.strikes \in Nat /\ misses \in Nat
        BY <1>0, <2>1, <2>2, <3>2 DEF TypeOK, ResultRecord
      <4> QED
        BY <3>1, <3>2, <4>1
    <3>3. CASE res.lane = "slow"
      BY <2>1, <3>1, <3>3
    <3>4. CASE res.lane \in {"landed", "ask"}
      <4>1. leftDue
        BY <2>4, <3>1, <3>4 DEF Carried
      <4>2. ~(misses > 0)
        BY <2>3, <2>4, <3>4, <4>1
      <4>3. strikes' = 0 /\ misses = 0
        BY <1>0, <2>1, <3>4, <4>2 DEF TypeOK
      <4> QED
        BY <3>1, <3>4, <4>3
    <3> QED
      BY <2>2, <3>2, <3>3, <3>4
  <2>5. MissInv'
    <3>1. lease' \in {"held", "unheld"} => cause'
      BY <1>0, <2>1, Zenon DEF MissInv
    <3> QED
      BY <2>1, <2>4, <3>1 DEF MissInv, Carried
  <2>6. OwnInv'
    BY <1>0, <2>1 DEF OwnInv
  <2>7. \A q \in Results : results'[q].pc # "none" => SameHandler(q)
    BY <1>0, <1>6, CommitResults DEF SameHandler, SameResult
  <2>8. PendingInv'
    BY <1>0, <2>1, <2>3, <2>7, PendingKept DEF Carried
  <2> QED
    BY <2>5, <2>6, <2>8 DEF HoldInv
<1> QED
  BY <1>1, <1>2, <1>3, <1>4, <1>5, <1>6 DEF Result

(* The misses stay within the strikes, or their cause is known, throughout. *)
LEMMA HoldInductive == Spec => []HoldInv
<1>1. Init => HoldInv
  BY DEF Init, HoldInv, MissInv, OwnInv, PendingInv, Carried, NoResult, NoJob
<1>2. IInv /\ HoldInv /\ [Next]_vars => HoldInv'
  <2>1. ASSUME IInv, HoldInv, Restart PROVE HoldInv'
    <3>0. RecordsOK
      BY <2>1 DEF IInv
    <3>1. lease' = "none" /\ ~leftDue' /\ ~cause'
          /\ results' = [r \in Results |-> NoResult]
          /\ jobs' = [j \in Jobs |-> IF j \in Out THEN [jobs[j] EXCEPT !.latest = FALSE] ELSE NoJob]
      BY <2>1 DEF Restart
    <3>2. \A j \in Jobs : jobs'[j].pc # "none" => ~jobs'[j].latest
      BY <3>0, <3>1 DEF Out, RecordsOK, JobRecord, NoJob
    <3> QED
      BY <3>1, <3>2 DEF HoldInv, MissInv, OwnInv, PendingInv, Carried, NoResult
  <2> QED
    BY <2>1, HoldOutside, HoldClaim, HoldResult DEF Next, Whats
<1> QED
  BY <1>1, <1>2, Inductive, PTL DEF Spec

(* A key is held back only for cause (claimSchedules, missesOf): with any     *)
(* number of fast retries the leases the fast lane keeps never add up to a    *)
(* hold by themselves, as long as strikes and misses are cleared together.    *)
THEOREM RenderHeldForCause == Spec => []HeldForCause
<1>1. HoldInv => HeldForCause
  BY DEF HoldInv, MissInv, HeldForCause
<1> QED
  BY <1>1, HoldInductive, PTL

-----------------------------------------------------------------------------
(* Found changes.  The latest grant's render, if its copy was found changed,    *)
(* was granted before a mark: the mark is still on the row, or on its way to    *)
(* it, or was lost to a race; and a handler of such a copy that is past its     *)
(* read knows that it did not see the mark.  The render of the latest grant and *)
(* the results of it show the same document.                                    *)
MarkToPut == filing["mark"].pc # "none"
Excused == MarkToPut \/ raced
JobKnows(j) == "mark" \in jobs[j].sinceGrant
ResultKnows(r) == "mark" \in results[r].since
LatestJob(j) == jobs[j].pc # "none" /\ jobs[j].latest
OwnResult(r) == results[r].pc # "none" /\ results[r].own
Stores(r) == results[r].pc = "write" \/ (results[r].pc = "commit" /\ results[r].lane \in {"landed", "ask"})

JobMark(j) == LatestJob(j) /\ jobs[j].shows = "found" => JobKnows(j) /\ (row.mark \/ Excused)
ResultMark(r) ==
    /\ OwnResult(r) /\ results[r].shows = "found" =>
         /\ ResultKnows(r)
         /\ results[r].pc = "read" => row.mark \/ Excused
         /\ Stores(r) => "mark" \in results[r].unseen \/ Excused
    /\ Stores(r) /\ row.mark /\ ResultKnows(r) => "mark" \in results[r].unseen
    /\ results[r].pc = "commit" /\ results[r].lane = "slow" /\ row.mark /\ ~results[r].mark =>
         "mark" \in results[r].unseen
OneRender ==
    /\ \A i, j \in Jobs : LatestJob(i) /\ LatestJob(j) => i = j
    /\ \A j \in Jobs : LatestJob(j) /\ jobs[j].pc = "failed" => jobs[j].shows = "nothing"
    /\ \A j \in Jobs, r \in Results : LatestJob(j) /\ OwnResult(r) =>
         /\ jobs[j].pc \in {"rendered", "failed"}
         /\ results[r].shows = jobs[j].shows /\ (ResultKnows(r) <=> JobKnows(j))
    /\ \A q, r \in Results : OwnResult(q) /\ OwnResult(r) =>
         results[q].shows = results[r].shows /\ (ResultKnows(q) <=> ResultKnows(r))
MarkInv ==
    /\ MarkToPut => filing["mark"].row.mark
    /\ \A j \in Jobs : JobMark(j)
    /\ \A r \in Results : ResultMark(r)
    /\ OneRender
    /\ page = "found" /\ ~row.mark => Excused

(* A render, and a result, that keep their document and its marks. *)
KeptJob(j) ==
    /\ jobs[j].pc # "none" /\ (jobs'[j].latest => jobs[j].latest)
    /\ jobs'[j].pc = jobs[j].pc
    /\ jobs'[j].shows = jobs[j].shows /\ (JobKnows(j)' <=> JobKnows(j))
KeptResult(r) ==
    /\ results[r].pc # "none" /\ (results'[r].own => results[r].own)
    /\ results'[r].shows = results[r].shows /\ (ResultKnows(r)' <=> ResultKnows(r))
SameReader(r) ==
    /\ results'[r].pc = results[r].pc /\ results'[r].lane = results[r].lane
    /\ results'[r].mark = results[r].mark
    /\ "mark" \in results[r].unseen => "mark" \in results'[r].unseen

(* Leases that end, or are taken over, leave one render at most. *)
LEMMA OneRenderKept ==
    ASSUME OneRender,
           \A j \in Jobs : jobs'[j].pc # "none" => KeptJob(j),
           \A r \in Results : results'[r].pc # "none" => KeptResult(r)
    PROVE  OneRender'
<1>1. \A j \in Jobs : LatestJob(j)' => LatestJob(j) /\ KeptJob(j)
  BY DEF LatestJob, KeptJob
<1>2. \A r \in Results : OwnResult(r)' => OwnResult(r) /\ KeptResult(r)
  BY DEF OwnResult, KeptResult
<1>3. \A i, j \in Jobs : LatestJob(i)' /\ LatestJob(j)' => i = j
  BY <1>1 DEF OneRender
<1>f. ASSUME NEW j \in Jobs, LatestJob(j)', jobs'[j].pc = "failed" PROVE jobs'[j].shows = "nothing"
  BY <1>1, <1>f DEF OneRender, KeptJob
<1>4. ASSUME NEW j \in Jobs, NEW r \in Results, LatestJob(j)', OwnResult(r)'
      PROVE  /\ jobs'[j].pc \in {"rendered", "failed"}
             /\ results'[r].shows = jobs'[j].shows /\ (ResultKnows(r)' <=> JobKnows(j)')
  <2>1. /\ jobs[j].pc \in {"rendered", "failed"}
        /\ results[r].shows = jobs[j].shows /\ (ResultKnows(r) <=> JobKnows(j))
    BY <1>1, <1>2, <1>4 DEF OneRender
  <2>2. KeptJob(j) /\ KeptResult(r)
    BY <1>1, <1>2, <1>4
  <2> QED
    BY <2>1, <2>2 DEF KeptJob, KeptResult
<1>5. ASSUME NEW q \in Results, NEW r \in Results, OwnResult(q)', OwnResult(r)'
      PROVE  results'[q].shows = results'[r].shows /\ (ResultKnows(q)' <=> ResultKnows(r)')
  <2>1. results[q].shows = results[r].shows /\ (ResultKnows(q) <=> ResultKnows(r))
    BY <1>2, <1>5 DEF OneRender
  <2>2. KeptResult(q) /\ KeptResult(r)
    BY <1>2, <1>5
  <2> QED
    BY <2>1, <2>2 DEF KeptResult
<1> QED
  BY <1>3, <1>f, <1>4, <1>5 DEF OneRender

(* A step that leaves the marks where they are, and moves at most the handlers *)
(* it is shown to move rightly.                                                *)
LEMMA MarkFrame ==
    ASSUME MarkInv, row'.mark = row.mark, page' = page, raced => raced',
           filing'["mark"].pc = filing["mark"].pc,
           MarkToPut => filing'["mark"].row.mark = filing["mark"].row.mark,
           \A j \in Jobs : jobs'[j].pc # "none" => KeptJob(j),
           \A r \in Results : results'[r].pc # "none" => KeptResult(r) /\ (SameReader(r) \/ ResultMark(r)')
    PROVE  MarkInv'
<1>1. Excused => Excused'
  BY DEF Excused, MarkToPut
<1>2. MarkToPut' => filing'["mark"].row.mark
  BY DEF MarkInv, MarkToPut
<1>3. ASSUME NEW j \in Jobs PROVE JobMark(j)'
  <2>1. JobMark(j)
    BY DEF MarkInv
  <2> QED
    BY <1>1, <2>1 DEF JobMark, KeptJob, LatestJob
<1>4. ASSUME NEW r \in Results PROVE ResultMark(r)'
  <2>1. ResultMark(r)
    BY DEF MarkInv
  <2>2. CASE results'[r].pc = "none"
    BY <2>2 DEF ResultMark, OwnResult, Stores
  <2>3. CASE results'[r].pc # "none" /\ SameReader(r)
    <3>1. KeptResult(r)
      BY <2>3
    <3>2. (OwnResult(r)' => OwnResult(r)) /\ (Stores(r)' <=> Stores(r))
      BY <2>3, <3>1 DEF KeptResult, SameReader, OwnResult, Stores
    <3> QED
      BY <1>1, <2>1, <2>3, <3>1, <3>2 DEF ResultMark, KeptResult, SameReader
  <2> QED
    BY <2>2, <2>3
<1>5. OneRender'
  BY OneRenderKept DEF MarkInv
<1>6. page' = "found" /\ ~row'.mark => Excused'
  BY <1>1 DEF MarkInv
<1> QED
  BY <1>2, <1>3, <1>4, <1>5, <1>6 DEF MarkInv

(* Time, callers, claims that are not granted, renders that end. *)
LEMMA MarkQuiet ==
    ASSUME IInv, MarkInv,
           \/ ComeDue \/ LeaseExpires \/ GraceEnds \/ HoldEnds \/ AskForRender \/ UNCHANGED vars
           \/ \E c \in Claims : ClaimReads(c) \/ ClaimRefused(c) \/ ClaimHolds(c)
           \/ \E j \in Jobs : JobEnds(j)
    PROVE  MarkInv'
<1>0. RecordsOK /\ TypeOK
  BY DEF IInv, RowInv
<1>1. CASE AskForRender
  <2>1. row' = row /\ page' = page /\ raced' = raced
    BY <1>1 DEF AskForRender, history
  <2>2. filing'["mark"] = filing["mark"]
    BY <1>0, <1>1 DEF AskForRender, FileDueNow, RecordsOK, Whats
  <2>3. ASSUME NEW j \in Jobs, jobs'[j].pc # "none" PROVE KeptJob(j)
    BY <1>0, <1>1, <2>3, AskRecords DEF KeptJob, SameJob, JobKnows
  <2>4. ASSUME NEW r \in Results, results'[r].pc # "none" PROVE KeptResult(r) /\ SameReader(r)
    BY <1>0, <1>1, <2>4, AskRecords DEF KeptResult, SameReader, SameResult, ResultKnows
  <2> QED
    BY <2>1, <2>2, <2>3, <2>4, MarkFrame
<1>2. CASE ~AskForRender
  <2>1. row'.mark = row.mark /\ page' = page /\ raced' = raced /\ filing' = filing /\ results' = results
    BY <1>0, <1>2 DEF ComeDue, LeaseExpires, GraceEnds, HoldEnds, vars, history,
         ClaimReads, ClaimRefused, ClaimHolds, JobEnds, TypeOK
  <2>2. jobs' = jobs \/ \E j \in Jobs : jobs' = [jobs EXCEPT ![j] = NoJob]
    BY <1>2 DEF ComeDue, LeaseExpires, GraceEnds, HoldEnds, vars,
         ClaimReads, ClaimRefused, ClaimHolds, JobEnds
  <2>3. ASSUME NEW j \in Jobs, jobs'[j].pc # "none" PROVE KeptJob(j)
    <3>1. jobs'[j] = jobs[j]
      BY <1>0, <2>2, <2>3 DEF NoJob, RecordsOK
    <3> QED
      BY <2>3, <3>1 DEF KeptJob, JobKnows
  <2>4. ASSUME NEW r \in Results, results'[r].pc # "none" PROVE KeptResult(r) /\ SameReader(r)
    BY <2>1, <2>4 DEF KeptResult, SameReader, ResultKnows
  <2> QED
    BY <2>1, <2>3, <2>4, MarkFrame
<1> QED
  BY <1>1, <1>2

(* The origin changes. *)
LEMMA MarkOrigin == ASSUME IInv, MarkInv, OriginChanges PROVE MarkInv'
<1>0. RecordsOK /\ TypeOK
  BY DEF IInv, RowInv
<1>1. row' = row /\ page' = Aged(page) /\ raced' = raced /\ filing' = filing
  BY DEF OriginChanges, history
<1>2. Excused' <=> Excused
  BY <1>1 DEF Excused, MarkToPut
<1>j. ASSUME NEW j \in Jobs, jobs'[j].pc # "none"
      PROVE  /\ jobs'[j].pc = jobs[j].pc /\ jobs'[j].latest = jobs[j].latest
             /\ jobs'[j].shows = Aged(jobs[j].shows) /\ (JobKnows(j)' <=> JobKnows(j))
  BY <1>0, <1>j, OriginRecords DEF SameJob, JobKnows
<1>r. ASSUME NEW r \in Results, results'[r].pc # "none"
      PROVE  /\ results'[r].own = results[r].own /\ SameReader(r)
             /\ results'[r].shows = Aged(results[r].shows) /\ (ResultKnows(r)' <=> ResultKnows(r))
  BY <1>0, <1>r, OriginRecords DEF SameResult, SameReader, ResultKnows
<1>3. \A j \in Jobs : JobMark(j)'
  BY <1>1, <1>2, <1>j DEF JobMark, LatestJob, MarkInv, Aged
<1>4. ASSUME NEW r \in Results PROVE ResultMark(r)'
  <2>1. ResultMark(r)
    BY DEF MarkInv
  <2>2. CASE results'[r].pc = "none"
    BY <2>2 DEF ResultMark, OwnResult, Stores
  <2>3. CASE results'[r].pc # "none"
    BY <1>1, <1>2, <1>r, <2>1, <2>3 DEF ResultMark, SameReader, OwnResult, Stores, Aged
  <2> QED
    BY <2>2, <2>3
<1>5. OneRender'
  <2>1. \A j \in Jobs : LatestJob(j)' => LatestJob(j)
    BY <1>j DEF LatestJob
  <2>2. \A r \in Results : OwnResult(r)' => OwnResult(r)
    BY <1>r DEF OwnResult, SameReader
  <2> QED
    BY <1>j, <1>r, <2>1, <2>2 DEF OneRender, MarkInv, LatestJob, OwnResult, Aged
<1>6. page' = "found" /\ ~row'.mark => Excused'
  BY <1>1, <1>2 DEF MarkInv, Aged
<1>7. MarkToPut' => filing'["mark"].row.mark
  BY <1>1 DEF MarkInv, MarkToPut
<1> QED
  BY <1>3, <1>4, <1>5, <1>6, <1>7 DEF MarkInv

(* The probe finds a change, and a mark is on its way to the row. *)
LEMMA MarkProbe == ASSUME IInv, MarkInv, ProbeFindsChange PROVE MarkInv'
<1>0. RecordsOK /\ TypeOK
  BY DEF IInv, RowInv
<1>1. row' = row
  BY DEF ProbeFindsChange
<1>2. MarkToPut' /\ filing'["mark"].row.mark
  <2>1. PICK same \in FiledMinutes :
          filing' = [filing EXCEPT !["mark"] =
                      [pc |-> "put", row |-> FiledRow("mark", same),
                       moved |-> ~KeepsMinute /\ ~(row.due /\ row.same /\ same)]]
    BY DEF ProbeFindsChange, FileDueNow
  <2>2. filing'["mark"].pc = "put" /\ filing'["mark"].row = FiledRow("mark", same)
    BY <1>0, <2>1 DEF RecordsOK, Whats
  <2>3. FiledRow("mark", same).mark
    BY DEF FiledRow
  <2> QED
    BY <2>2, <2>3 DEF MarkToPut
<1>3. Excused'
  BY <1>2 DEF Excused
<1>j. ASSUME NEW j \in Jobs, jobs'[j].pc # "none"
      PROVE  /\ jobs'[j].pc = jobs[j].pc /\ jobs'[j].latest = jobs[j].latest
             /\ jobs'[j].shows = FoundOut(jobs[j].shows, jobs[j].sinceGrant)
             /\ jobs'[j].sinceGrant = SinceMark(jobs[j].sinceGrant)
  BY <1>0, <1>j, ProbeRecords DEF SameJob
<1>r. ASSUME NEW r \in Results, results'[r].pc # "none"
      PROVE  /\ results'[r].own = results[r].own /\ SameReader(r)
             /\ results'[r].shows = FoundOut(results[r].shows, results[r].since)
             /\ results'[r].since = SinceMark(results[r].since)
  BY <1>0, <1>r, ProbeRecords DEF SameResult, SameReader
<1>4. ASSUME NEW j \in Jobs PROVE JobMark(j)'
  <2> SUFFICES ASSUME LatestJob(j)', jobs'[j].shows = "found" PROVE JobKnows(j)'
    BY <1>3 DEF JobMark
  <2>1. jobs'[j].pc # "none" /\ LatestJob(j) /\ FoundOut(jobs[j].shows, jobs[j].sinceGrant) = "found"
    BY <1>j DEF LatestJob
  <2>2. JobMark(j)
    BY DEF MarkInv
  <2>3. "mark" \in SinceMark(jobs[j].sinceGrant)
    BY <2>1, <2>2 DEF FoundOut, SinceMark, JobMark, JobKnows
  <2> QED
    BY <1>j, <2>1, <2>3 DEF JobKnows
<1>5. ASSUME NEW r \in Results PROVE ResultMark(r)'
  <2>1. ResultMark(r)
    BY DEF MarkInv
  <2>2. CASE results'[r].pc = "none"
    BY <2>2 DEF ResultMark, OwnResult, Stores
  <2>3. CASE results'[r].pc # "none"
    <3>1. OwnResult(r)' /\ results'[r].shows = "found" => ResultKnows(r)'
      <4> SUFFICES ASSUME OwnResult(r)', results'[r].shows = "found" PROVE ResultKnows(r)'
        OBVIOUS
      <4>1. OwnResult(r) /\ FoundOut(results[r].shows, results[r].since) = "found"
        BY <1>r, <2>3 DEF OwnResult, SameReader
      <4>2. "mark" \in SinceMark(results[r].since)
        BY <2>1, <4>1 DEF FoundOut, SinceMark, ResultMark, ResultKnows
      <4> QED
        BY <1>r, <2>3, <4>2 DEF ResultKnows
    <3>2. Stores(r)' /\ row'.mark /\ ResultKnows(r)' => "mark" \in results'[r].unseen
      BY <1>1, <1>r, <2>1, <2>3 DEF ResultMark, SameReader, Stores, ResultKnows, SinceMark
    <3>3. results'[r].pc = "commit" /\ results'[r].lane = "slow" /\ row'.mark /\ ~results'[r].mark =>
            "mark" \in results'[r].unseen
      BY <1>1, <1>r, <2>1, <2>3 DEF ResultMark, SameReader
    <3> QED
      BY <1>3, <3>1, <3>2, <3>3 DEF ResultMark
  <2> QED
    BY <2>2, <2>3
<1>6. OneRender'
  <2>1. \A j \in Jobs : LatestJob(j)' => LatestJob(j) /\ jobs'[j].pc = jobs[j].pc
    BY <1>j DEF LatestJob
  <2>2. \A r \in Results : OwnResult(r)' => OwnResult(r)
    BY <1>r DEF OwnResult, SameReader
  <2>3. \A i, j \in Jobs : LatestJob(i)' /\ LatestJob(j)' => i = j
    BY <2>1 DEF OneRender, MarkInv
  <2>f. ASSUME NEW j \in Jobs, LatestJob(j)', jobs'[j].pc = "failed" PROVE jobs'[j].shows = "nothing"
    <3>1. jobs[j].shows = "nothing" /\ jobs'[j].shows = FoundOut(jobs[j].shows, jobs[j].sinceGrant)
      BY <1>j, <2>1, <2>f DEF OneRender, MarkInv, LatestJob
    <3> QED
      BY <3>1 DEF FoundOut
  <2>s. ASSUME NEW s, NEW a, NEW b, "mark" \in a <=> "mark" \in b
        PROVE  FoundOut(s, a) = FoundOut(s, b) /\ ("mark" \in SinceMark(a) <=> "mark" \in SinceMark(b))
    BY <2>s DEF FoundOut, SinceMark
  <2>4. ASSUME NEW j \in Jobs, NEW r \in Results, LatestJob(j)', OwnResult(r)'
        PROVE  /\ jobs'[j].pc \in {"rendered", "failed"}
               /\ results'[r].shows = jobs'[j].shows /\ (ResultKnows(r)' <=> JobKnows(j)')
    <3>1. /\ jobs[j].pc \in {"rendered", "failed"} /\ jobs'[j].pc = jobs[j].pc
          /\ results[r].shows = jobs[j].shows /\ ("mark" \in results[r].since <=> "mark" \in jobs[j].sinceGrant)
      BY <2>1, <2>2, <2>4 DEF OneRender, MarkInv, ResultKnows, JobKnows
    <3>2. /\ jobs'[j].shows = FoundOut(jobs[j].shows, jobs[j].sinceGrant)
          /\ jobs'[j].sinceGrant = SinceMark(jobs[j].sinceGrant)
          /\ results'[r].shows = FoundOut(results[r].shows, results[r].since)
          /\ results'[r].since = SinceMark(results[r].since)
      BY <1>j, <1>r, <2>4 DEF LatestJob, OwnResult
    <3> QED
      BY <2>s, <3>1, <3>2 DEF ResultKnows, JobKnows
  <2>5. ASSUME NEW q \in Results, NEW r \in Results, OwnResult(q)', OwnResult(r)'
        PROVE  results'[q].shows = results'[r].shows /\ (ResultKnows(q)' <=> ResultKnows(r)')
    <3>1. results[q].shows = results[r].shows /\ ("mark" \in results[q].since <=> "mark" \in results[r].since)
      BY <2>2, <2>5 DEF OneRender, MarkInv, ResultKnows
    <3>2. /\ results'[q].shows = FoundOut(results[q].shows, results[q].since)
          /\ results'[q].since = SinceMark(results[q].since)
          /\ results'[r].shows = FoundOut(results[r].shows, results[r].since)
          /\ results'[r].since = SinceMark(results[r].since)
      BY <1>r, <2>5 DEF OwnResult
    <3> QED
      BY <2>s, <3>1, <3>2 DEF ResultKnows
  <2> QED
    BY <2>3, <2>f, <2>4, <2>5 DEF OneRender
<1> QED
  BY <1>2, <1>3, <1>4, <1>5, <1>6 DEF MarkInv

(* A filing puts its row: with a mark, or over one it had not read. *)
LEMMA MarkPut ==
    ASSUME IInv, MarkInv, NEW what \in Whats, FilingWrites(what) PROVE MarkInv'
<1>0. RecordsOK /\ TypeOK
  BY DEF IInv, RowInv
<1>1. /\ row' = filing[what].row /\ page' = page /\ jobs' = jobs /\ filing[what] # NoFiling
      /\ raced' = (raced \/ (row.mark /\ ~row'.mark))
  BY DEF FilingWrites
<1>2. filing'[what].pc = "none"
      /\ \A w \in Whats \ {what} : filing'[w].pc = filing[w].pc
                                   /\ (filing[w].pc # "none" => filing'[w].row = filing[w].row)
  <2> DEFINE others == [filing EXCEPT ![what] = NoFiling]
  <2>1. others \in [Whats -> FilingRecord \cup {NoFiling}] /\ others[what].pc = "none"
        /\ \A w \in Whats \ {what} : others[w] = filing[w]
    BY <1>0 DEF RecordsOK, NoFiling
  <2>2. filing' = others \/ filing' = MovedUnder(others)
    BY DEF FilingWrites
  <2> HIDE DEF others
  <2>3. \A w \in Whats : /\ filing'[w].pc = others[w].pc
                         /\ others[w].pc # "none" => filing'[w].row = others[w].row
    BY <2>1, <2>2, MovedFiling
  <2> QED
    BY <2>1, <2>3
<1>3. what = "mark" => row'.mark
  BY <1>0, <1>1, FilingPlace DEF MarkInv, MarkToPut, RecordsOK, Whats
<1>4. what # "mark" => filing'["mark"].pc = filing["mark"].pc
  BY <1>2 DEF Whats
<1>5. Excused \/ row.mark => row'.mark \/ Excused'
  BY <1>1, <1>3, <1>4 DEF Excused, MarkToPut
<1>6. MarkToPut' => filing'["mark"].row.mark
  BY <1>2 DEF MarkInv, MarkToPut, Whats
<1>7. ASSUME NEW j \in Jobs PROVE JobMark(j)'
  <2>1. JobMark(j)
    BY DEF MarkInv
  <2> QED
    BY <1>1, <1>5, <2>1 DEF JobMark, LatestJob, JobKnows
<1>r. ASSUME NEW r \in Results, results'[r].pc # "none"
      PROVE  KeptResult(r) /\ SameReader(r) /\ Stores(r)' = Stores(r)
             /\ (results[r].pc \in {"write", "commit"} /\ row'.mark /\ ~row.mark => "mark" \in results'[r].unseen)
  <2>1. /\ results[r].pc # "none" /\ results'[r].pc = results[r].pc
        /\ SameResult(results[r], results'[r]) /\ results'[r].shows = results[r].shows
        /\ results'[r].since = results[r].since
        /\ results'[r].unseen = IF results[r].pc \in {"write", "commit"}
                                THEN results[r].unseen \cup NewlyPut(row, row') ELSE results[r].unseen
    BY <1>0, <1>r, PutResults
  <2>2. row'.mark /\ ~row.mark => "mark" \in NewlyPut(row, row')
    BY DEF NewlyPut
  <2>3. "mark" \in results[r].unseen => "mark" \in results'[r].unseen
    BY <2>1
  <2>4. results[r].pc \in {"write", "commit"} /\ row'.mark /\ ~row.mark => "mark" \in results'[r].unseen
    BY <2>1, <2>2
  <2> QED
    BY <2>1, <2>3, <2>4 DEF KeptResult, SameReader, SameResult, ResultKnows, Stores
<1>8. ASSUME NEW r \in Results PROVE ResultMark(r)'
  <2>1. ResultMark(r)
    BY DEF MarkInv
  <2>2. CASE results'[r].pc = "none"
    BY <2>2 DEF ResultMark, OwnResult, Stores
  <2>3. CASE results'[r].pc # "none"
    <3>0. /\ KeptResult(r) /\ SameReader(r) /\ Stores(r)' = Stores(r)
          /\ OwnResult(r)' => OwnResult(r)
          /\ results[r].pc \in {"write", "commit"} /\ row'.mark /\ ~row.mark => "mark" \in results'[r].unseen
          /\ Stores(r) => results[r].pc \in {"write", "commit"}
      BY <1>r, <2>3 DEF KeptResult, OwnResult, Stores
    <3>1. Stores(r)' /\ row'.mark /\ ResultKnows(r)' => "mark" \in results'[r].unseen
      BY <2>1, <3>0 DEF ResultMark, KeptResult, SameReader
    <3>2. OwnResult(r)' /\ results'[r].shows = "found" =>
             /\ ResultKnows(r)'
             /\ results'[r].pc = "read" => row'.mark \/ Excused'
             /\ Stores(r)' => "mark" \in results'[r].unseen \/ Excused'
      BY <1>5, <2>1, <3>0, <3>1 DEF ResultMark, KeptResult, SameReader
    <3>3. results'[r].pc = "commit" /\ results'[r].lane = "slow" /\ row'.mark /\ ~results'[r].mark =>
            "mark" \in results'[r].unseen
      BY <2>1, <3>0 DEF ResultMark, SameReader
    <3> QED
      BY <3>1, <3>2, <3>3 DEF ResultMark
  <2> QED
    BY <2>2, <2>3
<1>9. OneRender'
  <2>1. \A j \in Jobs : jobs'[j].pc # "none" => KeptJob(j)
    BY <1>1 DEF KeptJob, JobKnows
  <2> QED
    BY <1>r, <2>1, OneRenderKept DEF MarkInv
<1>10. page' = "found" /\ ~row'.mark => Excused'
  BY <1>1, <1>5 DEF MarkInv
<1> QED
  BY <1>6, <1>7, <1>8, <1>9, <1>10 DEF MarkInv

(* A grant begins a render of its own, and overtakes every other. *)
LEMMA MarkGrant ==
    ASSUME IInv, MarkInv, NEW c \in Claims, ClaimGrants(c) PROVE MarkInv'
<1>0. RecordsOK /\ TypeOK
  BY DEF IInv, RowInv
<1>1. row'.mark = row.mark /\ page' = page /\ raced' = raced
  BY <1>0 DEF ClaimGrants, TypeOK
<1>2. filing'["mark"].pc = filing["mark"].pc
      /\ (MarkToPut => filing'["mark"].row.mark = filing["mark"].row.mark)
  <2>1. filing'["mark"] = IF filing["mark"] = NoFiling THEN NoFiling
                          ELSE [filing["mark"] EXCEPT !.row.same = ~filing["mark"].moved /\ ~claims[c].moved]
    BY <1>0 DEF ClaimGrants, RecordsOK, Whats
  <2>2. CASE filing["mark"] = NoFiling
    BY <2>1, <2>2 DEF MarkToPut, NoFiling
  <2>3. CASE filing["mark"] # NoFiling
    <3> DEFINE s == ~filing["mark"].moved /\ ~claims[c].moved
    <3>1. filing["mark"] \in FilingRecord
      BY <1>0, <2>3 DEF RecordsOK, Whats
    <3>2. filing'["mark"] = [filing["mark"] EXCEPT !.row.same = s]
      BY <2>1, <2>3
    <3> HIDE DEF s
    <3> QED
      BY <3>1, <3>2 DEF FilingRecord, Row
  <2> QED
    BY <2>2, <2>3
<1>3. Excused' <=> Excused
  BY <1>1, <1>2 DEF Excused, MarkToPut
<1>4. PICK j \in Jobs \ Out :
        jobs' = [i \in Jobs |->
                   IF i = j THEN [pc |-> "granted", latest |-> TRUE, shows |-> "nothing",
                                  sinceGrant |-> {}, sinceFetch |-> {}]
                   ELSE IF i \in Out THEN [jobs[i] EXCEPT !.latest = FALSE, !.sinceGrant = {}] ELSE NoJob]
  BY Zenon DEF ClaimGrants
<1>5. \A i \in Jobs : LatestJob(i)' => i = j
  <2> SUFFICES ASSUME NEW i \in Jobs, i # j, jobs'[i].pc # "none" PROVE ~jobs'[i].latest
    BY DEF LatestJob
  <2>1. i \in Out /\ jobs'[i] = [jobs[i] EXCEPT !.latest = FALSE, !.sinceGrant = {}]
    BY <1>4 DEF NoJob
  <2>2. jobs[i] \in JobRecord
    BY <1>0, <2>1 DEF Out, RecordsOK
  <2> QED
    BY <2>1, <2>2 DEF JobRecord
<1>6. jobs'[j].shows = "nothing"
  BY <1>4
<1>r. ASSUME NEW r \in Results, results'[r].pc # "none"
      PROVE  /\ results[r].pc # "none" /\ ~results'[r].own /\ SameReader(r)
             /\ (ResultKnows(r)' <=> ResultKnows(r))
  <2>1. r \in Busy /\ results'[r] = [results[r] EXCEPT !.latest = FALSE, !.own = FALSE, !.stale = FALSE]
    BY <1>r DEF ClaimGrants, NoResult
  <2>2. results[r] \in ResultRecord /\ results[r].pc # "none"
    BY <1>0, <2>1, ResultPlace DEF Busy, RecordsOK
  <2> QED
    BY <2>1, <2>2 DEF ResultRecord, SameReader, ResultKnows
<1>7. ASSUME NEW i \in Jobs PROVE JobMark(i)'
  BY <1>5, <1>6 DEF JobMark
<1>8. ASSUME NEW r \in Results PROVE ResultMark(r)'
  <2>1. ResultMark(r)
    BY DEF MarkInv
  <2>2. CASE results'[r].pc = "none"
    BY <2>2 DEF ResultMark, OwnResult, Stores
  <2>3. CASE results'[r].pc # "none"
    BY <1>1, <1>r, <2>1, <2>3 DEF ResultMark, OwnResult, Stores, SameReader
  <2> QED
    BY <2>2, <2>3
<1>9. OneRender'
  <2>1. \A r \in Results : ~OwnResult(r)'
    BY <1>r DEF OwnResult
  <2> QED
    BY <1>5, <1>6, <2>1 DEF OneRender
<1>10. page' = "found" /\ ~row'.mark => Excused'
  BY <1>1, <1>3 DEF MarkInv
<1>11. MarkToPut' => filing'["mark"].row.mark
  BY <1>2 DEF MarkInv, MarkToPut
<1> QED
  BY <1>7, <1>8, <1>9, <1>10, <1>11 DEF MarkInv

(* A fetch shows the current document. *)
LEMMA MarkFetch ==
    ASSUME IInv, MarkInv, NEW j \in Jobs, Fetch(j) PROVE MarkInv'
<1>0. RecordsOK
  BY DEF IInv
<1>1. UNCHANGED <<row, page, raced, filing, results>> /\ jobs[j].pc = "granted"
  BY DEF Fetch, history
<1>2. jobs[j] \in JobRecord /\ jobs' = [jobs EXCEPT ![j] = [jobs[j] EXCEPT !.pc = "fetched", !.shows = "current"]]
  BY <1>0, <1>1, JobPlace DEF Fetch, RecordsOK
<1>3. /\ jobs'[j].pc = "fetched" /\ jobs'[j].shows = "current" /\ jobs'[j].latest = jobs[j].latest
      /\ \A i \in Jobs \ {j} : jobs'[i] = jobs[i]
  BY <1>0, <1>2 DEF JobRecord, RecordsOK
<1>4. Excused' <=> Excused
  BY <1>1 DEF Excused, MarkToPut
<1>5. ASSUME NEW i \in Jobs PROVE JobMark(i)'
  <2>1. JobMark(i)
    BY DEF MarkInv
  <2> QED
    BY <1>1, <1>3, <1>4, <2>1 DEF JobMark, LatestJob, JobKnows
<1>6. ASSUME NEW r \in Results PROVE ResultMark(r)'
  <2>1. ResultMark(r)
    BY DEF MarkInv
  <2> QED
    BY <1>1, <1>4, <2>1 DEF ResultMark, OwnResult, Stores, ResultKnows
<1>7. OneRender'
  <2>1. \A i \in Jobs : LatestJob(i)' => LatestJob(i) /\ (i = j \/ jobs'[i] = jobs[i])
    BY <1>1, <1>3 DEF LatestJob
  <2>2. \A r \in Results : OwnResult(r)' <=> OwnResult(r)
    BY <1>1 DEF OwnResult
  <2>3. LatestJob(j) => \A r \in Results : ~OwnResult(r)
    BY <1>1 DEF MarkInv, OneRender
  <2>f. ASSUME NEW i \in Jobs, LatestJob(i)', jobs'[i].pc = "failed" PROVE jobs'[i].shows = "nothing"
    BY <1>3, <2>1, <2>f DEF MarkInv, OneRender
  <2> QED
    BY <1>1, <2>1, <2>2, <2>3, <2>f DEF MarkInv, OneRender, JobKnows, ResultKnows
<1> QED
  BY <1>1, <1>4, <1>5, <1>6, <1>7 DEF MarkInv, MarkToPut

(* A restart leaves no result, and no render of a lease it knows. *)
LEMMA MarkRestart == ASSUME IInv, MarkInv, Restart PROVE MarkInv'
<1>0. RecordsOK /\ TypeOK
  BY DEF IInv, RowInv
<1>1. row'.mark = row.mark /\ page' = page /\ raced' = raced
  BY <1>0 DEF Restart, TypeOK
<1>2. ~MarkToPut /\ ~MarkToPut'
  BY DEF Restart, MarkToPut, NoFiling
<1>3. \A j \in Jobs : ~LatestJob(j)'
  <2> SUFFICES ASSUME NEW j \in Jobs, jobs'[j].pc # "none" PROVE ~jobs'[j].latest
    BY DEF LatestJob
  <2>1. j \in Out /\ jobs'[j] = [jobs[j] EXCEPT !.latest = FALSE]
    BY DEF Restart, NoJob
  <2>2. jobs[j] \in JobRecord
    BY <1>0, <2>1 DEF Out, RecordsOK
  <2> QED
    BY <2>1, <2>2 DEF JobRecord
<1>4. \A r \in Results : results'[r].pc = "none"
  BY DEF Restart, NoResult
<1>5. \A j \in Jobs : JobMark(j)'
  BY <1>3 DEF JobMark
<1>6. \A r \in Results : ResultMark(r)'
  BY <1>4 DEF ResultMark, OwnResult, Stores
<1>7. OneRender'
  BY <1>3, <1>4 DEF OneRender, OwnResult
<1> QED
  BY <1>1, <1>2, <1>5, <1>6, <1>7 DEF MarkInv, Excused

(* A result that arrives shows what its render does, if that is of the latest grant. *)
LEMMA MarkArrives ==
    ASSUME IInv, OwnInv, MarkInv, NEW r \in Results, NEW j \in Jobs, NEW outcome \in {"rendered", "failed"},
           NEW timed \in BOOLEAN, ResultArrives(r, j, outcome, timed)
    PROVE  MarkInv'
<1> DEFINE shows == IF outcome = "failed" THEN "nothing" ELSE jobs[j].shows
<1>0. RecordsOK
  BY DEF IInv
<1>1. UNCHANGED <<row, page, raced, filing, lease>>
  BY DEF ResultArrives, history, table
<1>2. jobs[j] \in JobRecord /\ jobs[j].pc # "none"
      /\ (jobs[j].pc = outcome \/ jobs[j].pc = "fetched" \/ (jobs[j].pc = "granted" /\ outcome = "failed"))
  BY <1>0, JobPlace DEF ResultArrives, RecordsOK
<1>3. /\ jobs'[j].pc = outcome /\ jobs'[j].latest = jobs[j].latest
      /\ jobs'[j].shows = shows /\ jobs'[j].sinceGrant = jobs[j].sinceGrant
      /\ \A i \in Jobs \ {j} : jobs'[i] = jobs[i]
  <2>1. jobs' = [jobs EXCEPT ![j] = [jobs[j] EXCEPT !.pc = outcome, !.shows = shows]]
    BY DEF ResultArrives
  <2> HIDE DEF shows
  <2> QED
    BY <1>0, <1>2, <2>1 DEF JobRecord, RecordsOK
<1>4. /\ results'[r].pc = "read" /\ results'[r].shows = shows /\ results'[r].own = jobs[j].latest
      /\ HasGrant => results'[r].since = jobs[j].sinceGrant
      /\ \A q \in Results \ {r} : results'[q] = results[q]
  BY <1>0 DEF ResultArrives, Since, RecordsOK
<1>g. jobs[j].latest => HasGrant /\ LatestJob(j)
  BY <1>2 DEF OwnInv, HasGrant, LatestJob
\* The repeated result of a render says what the first one did.
<1>s. ASSUME NEW q \in Results, OwnResult(q), jobs[j].latest PROVE jobs[j].shows = shows /\ jobs[j].pc = outcome
  <2>1. jobs[j].pc \in {"rendered", "failed"} /\ (jobs[j].pc = "failed" => jobs[j].shows = "nothing")
    BY <1>g, <1>s DEF MarkInv, OneRender
  <2> QED
    BY <1>2, <2>1
<1>5. Excused' <=> Excused
  BY <1>1 DEF Excused, MarkToPut
<1>j. LatestJob(j)' => LatestJob(j)
  BY <1>2, <1>3 DEF LatestJob
<1>i. \A i \in Jobs \ {j} : jobs'[i] = jobs[i] /\ (LatestJob(i)' <=> LatestJob(i))
  BY <1>3 DEF LatestJob
<1>6. ASSUME NEW i \in Jobs PROVE JobMark(i)'
  <2>1. JobMark(i)
    BY DEF MarkInv
  <2> QED
    BY <1>1, <1>3, <1>5, <1>j, <1>i, <2>1 DEF JobMark, JobKnows
<1>7. ASSUME NEW q \in Results PROVE ResultMark(q)'
  <2>1. CASE q = r
    <3>1. ~Stores(r)' /\ results'[r].pc # "commit"
      BY <1>4 DEF Stores
    <3>2. OwnResult(r)' /\ results'[r].shows = "found" => ResultKnows(r)' /\ (row'.mark \/ Excused')
      <4> SUFFICES ASSUME OwnResult(r)', results'[r].shows = "found"
                   PROVE  ResultKnows(r)' /\ (row'.mark \/ Excused')
        OBVIOUS
      <4>1. HasGrant /\ LatestJob(j) /\ jobs[j].shows = "found"
        BY <1>4, <1>g DEF OwnResult
      <4>2. JobKnows(j) /\ (row.mark \/ Excused)
        BY <4>1 DEF MarkInv, JobMark
      <4> QED
        BY <1>1, <1>4, <1>5, <4>1, <4>2 DEF ResultKnows, JobKnows
    <3> QED
      BY <2>1, <3>1, <3>2 DEF ResultMark
  <2>2. CASE q # r
    <3>1. ResultMark(q)
      BY DEF MarkInv
    <3>2. results'[q] = results[q]
      BY <1>4, <2>2
    <3> QED
      BY <1>1, <1>5, <3>1, <3>2 DEF ResultMark, OwnResult, Stores, ResultKnows
  <2> QED
    BY <2>1, <2>2
<1>8. OneRender'
  <2>1. \A i \in Jobs : LatestJob(i)' => LatestJob(i) /\ (i # j => jobs'[i] = jobs[i])
    BY <1>i, <1>j
  <2>2. \A q \in Results \ {r} : results'[q] = results[q] /\ (OwnResult(q)' <=> OwnResult(q))
    BY <1>4 DEF OwnResult
  <2>3. OwnResult(r)' => /\ LatestJob(j) /\ results'[r].shows = jobs'[j].shows
                         /\ (ResultKnows(r)' <=> JobKnows(j)') /\ (JobKnows(j)' <=> JobKnows(j))
    BY <1>3, <1>4, <1>g DEF OwnResult, ResultKnows, JobKnows
  <2>4. \A i, k \in Jobs : LatestJob(i)' /\ LatestJob(k)' => i = k
    BY <2>1 DEF OneRender, MarkInv
  <2>f. ASSUME NEW i \in Jobs, LatestJob(i)', jobs'[i].pc = "failed" PROVE jobs'[i].shows = "nothing"
    BY <1>3, <2>1, <2>f DEF OneRender, MarkInv
  <2>5. ASSUME NEW i \in Jobs, NEW q \in Results, LatestJob(i)', OwnResult(q)'
        PROVE  /\ jobs'[i].pc \in {"rendered", "failed"}
               /\ results'[q].shows = jobs'[i].shows /\ (ResultKnows(q)' <=> JobKnows(i)')
    <3>1. CASE q = r
      <4>1. i = j
        BY <2>1, <2>3, <2>5, <3>1 DEF OneRender, MarkInv
      <4> QED
        BY <1>3, <2>3, <2>5, <3>1, <4>1
    <3>2. CASE q # r
      <4>1. /\ jobs[i].pc \in {"rendered", "failed"} /\ OwnResult(q) /\ LatestJob(i)
            /\ results[q].shows = jobs[i].shows /\ (ResultKnows(q) <=> JobKnows(i))
        BY <2>1, <2>2, <2>5, <3>2 DEF OneRender, MarkInv
      <4>2. i = j => jobs'[i].pc = jobs[i].pc /\ jobs'[i].shows = jobs[i].shows /\ (JobKnows(i)' <=> JobKnows(i))
        BY <1>3, <1>s, <4>1 DEF LatestJob, JobKnows
      <4>3. i # j => jobs'[i] = jobs[i] /\ (JobKnows(i)' <=> JobKnows(i))
        BY <2>1, <2>5 DEF JobKnows
      <4>4. results'[q] = results[q]
        BY <2>2, <3>2
      <4> QED
        BY <4>1, <4>2, <4>3, <4>4 DEF ResultKnows
    <3> QED
      BY <3>1, <3>2
  <2>6. ASSUME NEW q \in Results \ {r}, OwnResult(q)', OwnResult(r)'
        PROVE  results'[q].shows = results'[r].shows /\ (ResultKnows(q)' <=> ResultKnows(r)')
    <3>1. results[q].shows = jobs[j].shows /\ (ResultKnows(q) <=> JobKnows(j)) /\ OwnResult(q) /\ LatestJob(j)
      BY <2>2, <2>3, <2>6 DEF OneRender, MarkInv
    <3>2. jobs'[j].shows = jobs[j].shows
      BY <1>3, <1>s, <3>1 DEF LatestJob
    <3> QED
      BY <2>2, <2>3, <2>6, <3>1, <3>2 DEF ResultKnows
  <2>7. ASSUME NEW p \in Results \ {r}, NEW q \in Results \ {r}, OwnResult(p)', OwnResult(q)'
        PROVE  results'[p].shows = results'[q].shows /\ (ResultKnows(p)' <=> ResultKnows(q)')
    <3>1. results[p].shows = results[q].shows /\ (ResultKnows(p) <=> ResultKnows(q))
      BY <2>2, <2>7 DEF OneRender, MarkInv
    <3> QED
      BY <2>2, <3>1 DEF ResultKnows
  <2>8. \A p, q \in Results : OwnResult(p)' /\ OwnResult(q)' =>
          results'[p].shows = results'[q].shows /\ (ResultKnows(p)' <=> ResultKnows(q)')
    BY <2>6, <2>7
  <2> HIDE DEF shows
  <2> QED
    BY <2>4, <2>f, <2>5, <2>8 DEF OneRender
<1> QED
  BY <1>1, <1>5, <1>6, <1>7, <1>8 DEF MarkInv, MarkToPut

(* A handler reads the row, is superseded, gives up, or decides. *)
LEMMA MarkHandles ==
    ASSUME IInv, MarkInv, NEW r \in Results,
           \/ ResultSuperseded(r) \/ ResultReads(r) \/ ResultThrows(r) \/ CommitFails(r)
           \/ ResultRendered(r) \/ ResultFailsFast(r) \/ ResultFailsSlow(r)
    PROVE  MarkInv'
<1>0. RecordsOK
  BY DEF IInv
<1>1. UNCHANGED <<row, page, raced, filing, jobs>>
  BY DEF ResultSuperseded, ResultReads, ResultThrows, CommitFails, ResultRendered, ResultFailsFast,
     ResultFailsSlow, history
<1>2. Excused' <=> Excused
  BY <1>1 DEF Excused, MarkToPut
<1>3. \A j \in Jobs : jobs'[j].pc # "none" => KeptJob(j)
  BY <1>1 DEF KeptJob, JobKnows
<1>4. \A q \in Results : results'[q] = results[q] /\ results'[q].pc # "none" => KeptResult(q) /\ SameReader(q)
  BY DEF KeptResult, SameReader, ResultKnows
<1>5. \A q \in Results \ {r} : results'[q] = results[q]
  BY <1>0 DEF ResultSuperseded, ResultReads, ResultThrows, CommitFails, ResultRendered, ResultFailsFast,
     ResultFailsSlow, RecordsOK
<1>6. results'[r].pc # "none" => KeptResult(r) /\ ResultMark(r)'
  <2> DEFINE res == results[r]
  <2>0. ResultMark(r)
    BY DEF MarkInv
  <2>1. CASE ResultSuperseded(r) \/ ResultThrows(r) \/ CommitFails(r)
    <3>1. results' = [results EXCEPT ![r] = NoResult]
      BY <2>1 DEF ResultSuperseded, ResultThrows, CommitFails
    <3> QED
      BY <1>0, <3>1 DEF RecordsOK, NoResult
  <2>2. CASE ResultReads(r)
    <3> DEFINE a == res.outcome = "rendered" /\ row.ask /\ "ask" \in res.since
               new == [res EXCEPT !.pc = "write", !.asked = a, !.same = a /\ row.same]
    <3>1. res \in ResultRecord /\ res.pc = "read" /\ results' = [results EXCEPT ![r] = new]
      BY <1>0, <2>2, ResultPlace DEF ResultReads, RecordsOK
    <3>2. /\ results'[r].pc = "write" /\ results'[r].own = res.own /\ results'[r].shows = res.shows
          /\ results'[r].since = res.since
      BY <1>0, <3>1 DEF ResultRecord, RecordsOK
    <3>3. ~(row.mark /\ ResultKnows(r))
      BY <2>2 DEF ResultReads, Superseded, ResultKnows
    <3>4. OwnResult(r)' /\ results'[r].shows = "found" => ResultKnows(r)' /\ Excused'
      BY <1>2, <2>0, <3>1, <3>2, <3>3 DEF ResultMark, OwnResult, ResultKnows
    <3>5. ~(row'.mark /\ ResultKnows(r)')
      BY <1>1, <3>2, <3>3 DEF ResultKnows
    <3> QED
      BY <3>1, <3>2, <3>4, <3>5 DEF KeptResult, ResultMark, ResultKnows
  <2>3. CASE ResultRendered(r)
    <3> DEFINE lane == IF KeepAsk(r) THEN "ask" ELSE "landed"
               new == [res EXCEPT !.pc = "commit", !.lane = lane, !.timely = Timely(r)]
    <3>1. res \in ResultRecord /\ res.pc = "write" /\ results' = [results EXCEPT ![r] = new]
      BY <1>0, <2>3, ResultPlace DEF ResultRendered, RecordsOK
    <3>2. /\ results'[r].pc = "commit" /\ results'[r].lane \in {"ask", "landed"}
          /\ results'[r].own = res.own /\ results'[r].shows = res.shows
          /\ results'[r].since = res.since /\ results'[r].unseen = res.unseen
      BY <1>0, <3>1 DEF ResultRecord, RecordsOK
    <3>3. Stores(r) /\ (OwnResult(r)' => OwnResult(r)) /\ (ResultKnows(r)' <=> ResultKnows(r))
      BY <3>1, <3>2 DEF Stores, OwnResult, ResultKnows
    <3> QED
      BY <1>1, <1>2, <2>0, <3>1, <3>2, <3>3 DEF KeptResult, ResultMark
  <2>4. CASE ResultFailsFast(r)
    <3> DEFINE new == [res EXCEPT !.pc = "commit", !.lane = "fast", !.strikes = strikes + 1, !.timely = Timely(r)]
    <3>1. res \in ResultRecord /\ res.pc = "write" /\ results' = [results EXCEPT ![r] = new]
      BY <1>0, <2>4, ResultPlace DEF ResultFailsFast, RecordsOK
    <3>2. /\ results'[r].pc = "commit" /\ results'[r].lane = "fast"
          /\ results'[r].own = res.own /\ results'[r].shows = res.shows
          /\ results'[r].since = res.since
      BY <1>0, <3>1 DEF ResultRecord, RecordsOK
    <3>3. ~Stores(r)' /\ (OwnResult(r)' => OwnResult(r)) /\ (ResultKnows(r)' <=> ResultKnows(r))
      BY <3>1, <3>2 DEF Stores, OwnResult, ResultKnows
    <3> QED
      BY <2>0, <3>1, <3>2, <3>3 DEF KeptResult, ResultMark
  <2>5. CASE ResultFailsSlow(r)
    <3> DEFINE new == [res EXCEPT !.pc = "commit", !.lane = "slow", !.strikes = AtMost(strikes + 1, MissLimit),
                                  !.mark = CarriedMark, !.unseen = @ \ {"mark"}, !.timely = Timely(r)]
    <3>1. res \in ResultRecord /\ res.pc = "write" /\ results' = [results EXCEPT ![r] = new]
      BY <1>0, <2>5, ResultPlace DEF ResultFailsSlow, RecordsOK
    <3>2. /\ results'[r].pc = "commit" /\ results'[r].lane = "slow"
          /\ results'[r].own = res.own /\ results'[r].shows = res.shows
          /\ results'[r].since = res.since /\ results'[r].mark = row.mark
      BY <1>0, <3>1 DEF ResultRecord, RecordsOK, CarriedMark
    <3>3. ~Stores(r)' /\ (OwnResult(r)' => OwnResult(r)) /\ (ResultKnows(r)' <=> ResultKnows(r))
      BY <3>1, <3>2 DEF Stores, OwnResult, ResultKnows
    <3> QED
      BY <1>1, <2>0, <3>1, <3>2, <3>3 DEF KeptResult, ResultMark
  <2> QED
    BY <2>1, <2>2, <2>3, <2>4, <2>5
<1> QED
  BY <1>1, <1>3, <1>4, <1>5, <1>6, MarkFrame DEF MarkToPut

(* A commit: of a result that saw no mark it would have dropped for, or of one *)
(* that carries the mark it saw.                                               *)
LEMMA MarkCommit ==
    ASSUME IInv, MarkInv, NEW r \in Results, CommitLands(r) PROVE MarkInv'
<1> DEFINE res == results[r]
           stored == res.lane \in {"landed", "ask"}
           fresh == res.shows \notin {"found", "missed"}
<1>0. RecordsOK /\ TypeOK /\ RowInv'
  BY RowStep DEF IInv, RowInv, Next, Result
<1>1. /\ jobs' = jobs /\ res.pc = "commit" /\ row' \in CommittedRows(res)
      /\ page' = IF stored THEN res.shows ELSE page
      /\ raced' = IF stored /\ res.own /\ fresh THEN FALSE
                  ELSE \/ raced \/ (stored /\ ~res.own /\ (row.mark \/ ~fresh))
                       \/ "mark" \in res.unseen /\ (stored \/ (row.mark /\ ~row'.mark))
  BY DEF CommitLands
<1>2. res \in ResultRecord
  BY <1>0, <1>1, ResultPlace DEF RecordsOK
<1>3. filing'["mark"].pc = filing["mark"].pc
      /\ (MarkToPut => filing'["mark"].row = filing["mark"].row)
  BY <1>0, MovedFiling DEF CommitLands, RecordsOK, Whats, MarkToPut
<1>4. stored => ~row'.mark
  <2>1. CASE res.lane = "landed"
    BY <1>1, <2>1 DEF CommittedRows, Rotated
  <2>2. CASE res.lane = "ask"
    <3>1. PICK same \in BOOLEAN : row' = [due |-> TRUE, same |-> same, mark |-> FALSE, ask |-> TRUE]
      BY <1>1, <1>2, <2>2 DEF CommittedRows, ResultRecord
    <3> QED
      BY <3>1
  <2> QED
    BY <2>1, <2>2
<1>5. res.lane = "slow" => row'.mark = res.mark
  BY <1>1 DEF CommittedRows, Rotated
<1>6. ~stored /\ res.lane # "slow" => row' = row
  <2>1. ~stored /\ res.lane # "slow" => res.lane = "fast"
    BY <1>0, <1>1, <1>2 DEF IInv, ResultInv, ResultRecord
  <2> QED
    BY <1>1, <2>1 DEF CommittedRows
<1>m. ResultMark(r)
  BY DEF MarkInv
\* A mark goes only to a racing writer, or to a result the page of which is new.
<1>7. ~stored /\ row.mark => row'.mark \/ raced'
  <2>1. CASE res.lane = "slow"
    BY <1>1, <1>5, <1>m, <2>1 DEF ResultMark, stored
  <2>2. CASE res.lane # "slow"
    BY <1>6, <2>2
  <2> QED
    BY <2>1, <2>2
<1>8. ~stored /\ raced => raced'
  BY <1>1
<1>9. stored /\ ~res.own => /\ row.mark \/ ~fresh => raced'
                            /\ raced => raced'
  BY <1>1
<1>10. stored /\ res.shows = "found" => Excused'
  <2>1. CASE res.own
    <3> SUFFICES ASSUME stored, res.shows = "found" PROVE Excused'
      OBVIOUS
    <3>1. Stores(r) /\ OwnResult(r)
      BY <1>1, <2>1 DEF Stores, OwnResult
    <3>2. "mark" \in res.unseen \/ Excused
      BY <1>m, <3>1 DEF ResultMark
    <3> QED
      BY <1>1, <1>3, <2>1, <3>2 DEF Excused, MarkToPut
  <2>2. CASE ~res.own
    BY <1>9, <2>2 DEF Excused
  <2> QED
    BY <2>1, <2>2
<1>11. ASSUME NEW shows, shows = "found", res.own => res.shows = shows
       PROVE  (row.mark \/ Excused => row'.mark \/ Excused') /\ (Excused => Excused')
  <2>1. CASE stored /\ res.own
    BY <1>10, <1>11, <2>1
  <2>2. CASE stored /\ ~res.own
    BY <1>3, <1>9, <2>2 DEF Excused, MarkToPut
  <2>3. CASE ~stored
    BY <1>3, <1>7, <1>8, <2>3 DEF Excused, MarkToPut
  <2> QED
    BY <2>1, <2>2, <2>3
<1>12. res.own => OwnResult(r)
  BY <1>1 DEF OwnResult
<1>13. ASSUME NEW j \in Jobs PROVE JobMark(j)'
  <2>1. JobMark(j) /\ (LatestJob(j)' <=> LatestJob(j))
    BY <1>1 DEF MarkInv, LatestJob
  <2>2. LatestJob(j) /\ res.own => res.shows = jobs[j].shows
    BY <1>12 DEF MarkInv, OneRender
  <2> QED
    BY <1>1, <1>11, <2>1, <2>2 DEF JobMark, JobKnows
<1>r. ASSUME NEW q \in Results, results'[q].pc # "none"
      PROVE  /\ KeptResult(q) /\ SameReader(q) /\ Stores(q)' = Stores(q)
             /\ OwnResult(q)' => OwnResult(q)
             /\ results[q].pc \in {"write", "commit"} /\ row'.mark /\ ~row.mark => "mark" \in results'[q].unseen
             /\ Stores(q) => results[q].pc \in {"write", "commit"}
  <2>1. /\ SameResult(results[q], results'[q]) /\ results'[q].shows = results[q].shows
        /\ results'[q].since = results[q].since
        /\ results'[q].unseen = IF results[q].pc \in {"write", "commit"}
                                THEN results[q].unseen \cup NewlyPut(row, row') ELSE results[q].unseen
    BY <1>0, <1>r, CommitResults
  <2>2. row'.mark /\ ~row.mark => "mark" \in NewlyPut(row, row')
    BY DEF NewlyPut
  <2>3. "mark" \in results[q].unseen => "mark" \in results'[q].unseen
    BY <2>1
  <2>4. results[q].pc \in {"write", "commit"} /\ row'.mark /\ ~row.mark => "mark" \in results'[q].unseen
    BY <2>1, <2>2
  <2> QED
    BY <1>r, <2>1, <2>3, <2>4 DEF KeptResult, SameReader, SameResult, ResultKnows, Stores, OwnResult
<1>14. ASSUME NEW q \in Results PROVE ResultMark(q)'
  <2>1. ResultMark(q)
    BY DEF MarkInv
  <2>2. CASE results'[q].pc = "none"
    BY <2>2 DEF ResultMark, OwnResult, Stores
  <2>3. CASE results'[q].pc # "none"
    <3>1. Stores(q)' /\ row'.mark /\ ResultKnows(q)' => "mark" \in results'[q].unseen
      BY <1>r, <2>1, <2>3 DEF ResultMark, KeptResult, SameReader
    <3>2. OwnResult(q) /\ res.own => res.shows = results[q].shows
      BY <1>12 DEF MarkInv, OneRender
    <3>3. OwnResult(q)' /\ results'[q].shows = "found" =>
             /\ ResultKnows(q)'
             /\ results'[q].pc = "read" => row'.mark \/ Excused'
             /\ Stores(q)' => "mark" \in results'[q].unseen \/ Excused'
      BY <1>11, <1>r, <2>1, <2>3, <3>2 DEF ResultMark, KeptResult, SameReader
    <3>4. results'[q].pc = "commit" /\ results'[q].lane = "slow" /\ row'.mark /\ ~results'[q].mark =>
            "mark" \in results'[q].unseen
      BY <1>r, <2>1, <2>3 DEF ResultMark, SameReader
    <3> QED
      BY <3>1, <3>3, <3>4 DEF ResultMark
  <2> QED
    BY <2>2, <2>3
<1>15. OneRender'
  <2>1. \A j \in Jobs : jobs'[j].pc # "none" => KeptJob(j)
    BY <1>1 DEF KeptJob, JobKnows
  <2> QED
    BY <1>r, <2>1, OneRenderKept DEF MarkInv
<1>16. page' = "found" /\ ~row'.mark => Excused'
  <2>1. CASE stored
    BY <1>1, <1>10, <2>1
  <2>2. CASE ~stored
    BY <1>1, <1>3, <1>7, <1>8, <2>2 DEF MarkInv, Excused, MarkToPut
  <2> QED
    BY <2>1, <2>2
<1>17. MarkToPut' => filing'["mark"].row.mark
  BY <1>3 DEF MarkInv, MarkToPut
<1> QED
  BY <1>13, <1>14, <1>15, <1>16, <1>17 DEF MarkInv

(* Every found change is marked, or its mark was lost to a race, throughout. *)
LEMMA MarkInductive == Spec => []MarkInv
<1>1. Init => MarkInv
  BY DEF Init, MarkInv, MarkToPut, JobMark, ResultMark, OneRender, LatestJob, OwnResult, Stores,
     NoFiling, NoJob, NoResult
<1>2. IInv /\ OwnInv /\ MarkInv /\ [Next]_vars => MarkInv'
  BY MarkQuiet, MarkOrigin, MarkProbe, MarkPut, MarkGrant, MarkFetch, MarkRestart, MarkArrives,
     MarkHandles, MarkCommit DEF Next, Claim, Result, Whats
<1>3. HoldInv => OwnInv
  BY DEF HoldInv
<1> QED
  BY <1>1, <1>2, <1>3, Inductive, HoldInductive, PTL DEF Spec

(* A page the probe found changed stays marked until a render granted after the *)
(* mark replaces it (actOnChange, isSupersededByChange), whatever the origin,   *)
(* the probe, callers, late, repeated and overtaken results, failing commits    *)
(* and restarts do: but for a mark lost to a write already under way, or to a   *)
(* result of an earlier render that nothing proved older.                       *)
THEOREM RenderFoundChangeKept == Spec => []FoundChangeKept
<1>1. IInv /\ MarkInv => FoundChangeKept
  BY FilingPlace DEF IInv, MarkInv, FoundChangeKept, Excused, MarkToPut, RecordsOK, Whats, NoFiling
<1> QED
  BY <1>1, Inductive, MarkInductive, PTL
=============================================================================
