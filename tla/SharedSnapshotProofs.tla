------------------------ MODULE SharedSnapshotProofs ------------------------
(***************************************************************************)
(* Proofs about SharedSnapshot, for any readers, documents of any sizes    *)
(* and any number of them: it implements SharedDocument.                   *)
(***************************************************************************)
EXTENDS SharedSnapshot, TLAPS

WholeSlot(s, d) == length[s] = Size[d] /\ \A i \in 1 .. Size[d] : bytes[s][i] = d

(* How far the writer is, against the header and the slot it fills. *)
WriterInv ==
    /\ wpc = "idle" => generation = written
    /\ wpc # "idle" => generation + 1 = written
    /\ wpc \in {"copy", "length", "flip"} => target # active
    /\ wpc = "add" => target = active
    /\ wpc = "copy" => \A i \in (1 .. Size[written]) \ unsent : bytes[target][i] = written
    /\ wpc \in {"length", "flip"} => \A i \in 1 .. Size[written] : bytes[target][i] = written
    /\ wpc = "flip" => length[target] = Size[written]

(* The slot readers are pointed at is whole; so is the other one, until the *)
(* next write begins.                                                       *)
SlotsInv ==
    /\ Shown > 0 => WholeSlot(active, Shown)
    /\ wpc \in {"idle", "add"} /\ Shown > 1 => WholeSlot(1 - active, Shown - 1)

(* What a read has loaded, while the generation is the one it began with:  *)
(* the slot of the current document, or of the last one if the writer is   *)
(* between its flip and its count.                                         *)
Points(r) ==
    \/ slot[r] = active /\ looked[r] = Shown
    \/ slot[r] = 1 - active /\ looked[r] + 1 = Shown /\ wpc = "add"

Copied(r) ==
    /\ size[r] = Size[looked[r]]
    /\ \A i \in (1 .. size[r]) \ uncopied[r] : copy[r][i] = looked[r]

Loaded(r) == rpc[r] \in {"slot", "length", "copy", "check"}

ReadInv(r) ==
    /\ rpc[r] # "idle" => ~found[r]
    /\ Loaded(r) => seen[r] > 0 /\ seen[r] <= generation
    /\ rpc[r] = "length" => length[slot[r]] > 0
    /\ rpc[r] \in {"length", "copy", "check"} /\ Unmoved(r) => Points(r)
    /\ rpc[r] \in {"copy", "check"} /\ Unmoved(r) => Copied(r)
    /\ rpc[r] = "check" => uncopied[r] = {}

(* Each attempt behind a read has seen the generation move. *)
AttemptInv(r) ==
    /\ attempt[r] = 0 => began[r] = 0
    /\ rpc[r] = "generation" => attempt[r] < Attempts
    /\ rpc[r] = "generation" /\ attempt[r] > 0 => generation >= began[r] + attempt[r]
    /\ Loaded(r) => attempt[r] > 0 /\ seen[r] + 1 >= began[r] + attempt[r]

IInv ==
    /\ TypeOK /\ WriterInv /\ SlotsInv /\ NullForCause
    /\ \A r \in Readers : ReadInv(r) /\ AttemptInv(r)

-----------------------------------------------------------------------------
(* The invariant holds at the start. *)
LEMMA InitIInv == ASSUME Init PROVE IInv
<1> USE SnapshotAssumption DEF Slots, Documents
<1>1. TypeOK
  BY DEF Init, TypeOK
<1>2. WriterInv /\ SlotsInv /\ NullForCause
  BY DEF Init, WriterInv, SlotsInv, NullForCause, Shown
<1>3. \A r \in Readers : ReadInv(r) /\ AttemptInv(r)
  BY DEF Init, ReadInv, AttemptInv, Loaded
<1> QED
  BY <1>1, <1>2, <1>3 DEF IInv

(* Type correctness. *)
LEMMA TypeStep == ASSUME IInv, [Next]_vars PROVE TypeOK'
<1> USE SnapshotAssumption DEF TypeOK, Slots, Documents
<1>0. TypeOK /\ WriterInv /\ \A r \in Readers : AttemptInv(r)
  BY DEF IInv
<1>1. CASE WriteBegin
  <2>1. written + 1 \in Documents
    BY <1>0, <1>1 DEF WriteBegin
  <2>2. Size[written + 1] \in 1 .. Pieces
    BY <2>1
  <2>3. unsent' \in SUBSET (1 .. Pieces)
    BY <1>1, <2>2 DEF WriteBegin
  <2>4. target' \in Slots /\ written' \in 0 .. MaxDocuments /\ wpc' = "copy"
    BY <1>0, <1>1, <2>1 DEF WriteBegin, Target
  <2> QED
    BY <1>0, <1>1, <2>3, <2>4 DEF WriteBegin, header, reader
<1>2. ASSUME NEW i \in 1 .. Pieces, WritePiece(i) PROVE TypeOK'
  <2>1. bytes' \in [Slots -> [1 .. Pieces -> 0 .. MaxDocuments]]
    BY <1>0, <1>2 DEF WritePiece
  <2> QED
    BY <1>0, <1>2, <2>1 DEF WritePiece, reader
<1>3. CASE WriteLength
  <2>1. written \in Documents /\ target \in Slots
    BY <1>0, <1>3 DEF WriteLength, WriterInv
  <2>2. Size[written] \in 0 .. Pieces
    BY <2>1
  <2>3. length' \in [Slots -> 0 .. Pieces]
    BY <1>0, <1>3, <2>2 DEF WriteLength
  <2> QED
    BY <1>0, <1>3, <2>3 DEF WriteLength, reader
<1>4. CASE WriteFlip
  BY <1>0, <1>4 DEF WriteFlip, reader
<1>5. CASE WriteAdd
  BY <1>0, <1>5 DEF WriteAdd, WriterInv, reader
<1>6. ASSUME NEW r \in Readers, Read(r) PROVE TypeOK'
  <2>1. CASE ReadBegin(r)
    <3> DEFINE blank == [i \in 1 .. Pieces |-> 0]
    <3>1. blank \in [1 .. Pieces -> 0 .. MaxDocuments]
      BY <1>0
    <3>a. copy' = [copy EXCEPT ![r] = blank]
      BY <2>1 DEF ReadBegin
    <3>2. copy' \in [Readers -> [1 .. Pieces -> 0 .. MaxDocuments]]
      <4> HIDE DEF blank
      <4> QED  BY <1>0, <3>a, <3>1
    <3>3. /\ attempt' \in [Readers -> 0 .. Attempts]
          /\ looked' \in [Readers -> 0 .. MaxDocuments] /\ began' \in [Readers -> 0 .. MaxDocuments]
      BY <1>0, <2>1 DEF ReadBegin
    <3>4. /\ rpc' \in [Readers -> {"idle", "generation", "slot", "length", "copy", "check"}]
          /\ found' \in [Readers -> BOOLEAN]
      BY <1>0, <2>1 DEF ReadBegin
    <3>5. UNCHANGED <<active, generation, length, bytes, wpc, target, written, unsent, seen,
                      slot, size, uncopied>>
      BY <2>1 DEF ReadBegin, header, writer
    <3> QED
      BY <1>0, <3>2, <3>3, <3>4, <3>5
  <2>2. CASE ReadGeneration(r)
    <3>1. attempt[r] + 1 \in 0 .. Attempts
      BY <1>0, <2>2 DEF ReadGeneration, AttemptInv
    <3>2. attempt' \in [Readers -> 0 .. Attempts]
      BY <1>0, <2>2, <3>1 DEF ReadGeneration
    <3>3. /\ seen' \in [Readers -> 0 .. MaxDocuments] /\ began' \in [Readers -> 0 .. MaxDocuments]
          /\ rpc' \in [Readers -> {"idle", "generation", "slot", "length", "copy", "check"}]
      BY <1>0, <2>2 DEF ReadGeneration
    <3>4. UNCHANGED <<active, generation, length, bytes, wpc, target, written, unsent, slot, size,
                      uncopied, copy, found, looked>>
      BY <2>2 DEF ReadGeneration, header, writer
    <3> QED
      BY <1>0, <3>2, <3>3, <3>4
  <2>3. CASE ReadSlot(r)
    <3>1. Shown \in 0 .. MaxDocuments
      BY <1>0 DEF Shown, WriterInv
    <3> QED
      BY <1>0, <2>3, <3>1 DEF ReadSlot, header, writer
  <2>4. CASE ReadLength(r)
    <3> DEFINE blank == [i \in 1 .. Pieces |-> 0]
               n == length[slot[r]]
    <3>1. blank \in [1 .. Pieces -> 0 .. MaxDocuments]
      BY <1>0
    <3>a. /\ copy' = [copy EXCEPT ![r] = blank]
          /\ size' = [size EXCEPT ![r] = n]
          /\ uncopied' = [uncopied EXCEPT ![r] = 1 .. n]
          /\ rpc' = [rpc EXCEPT ![r] = IF n \in 1 .. Pieces THEN "copy" ELSE "idle"]
      BY <2>4 DEF ReadLength
    <3>2. copy' \in [Readers -> [1 .. Pieces -> 0 .. MaxDocuments]]
      <4> HIDE DEF blank
      <4> QED  BY <1>0, <3>a, <3>1
    <3>3. n \in 0 .. Pieces
      BY <1>0
    <3>4. 1 .. n \in SUBSET (1 .. Pieces)
      BY <3>3
    <3>5. /\ size' \in [Readers -> 0 .. Pieces] /\ uncopied' \in [Readers -> SUBSET (1 .. Pieces)]
          /\ rpc' \in [Readers -> {"idle", "generation", "slot", "length", "copy", "check"}]
      <4> HIDE DEF n
      <4> QED  BY <1>0, <3>a, <3>3, <3>4
    <3> QED
      BY <1>0, <2>4, <3>2, <3>5 DEF ReadLength, header, writer
  <2>5. ASSUME NEW i \in 1 .. Pieces, ReadPiece(r, i) PROVE TypeOK'
    <3>1. bytes[slot[r]][i] \in 0 .. MaxDocuments
      BY <1>0
    <3>2. copy' \in [Readers -> [1 .. Pieces -> 0 .. MaxDocuments]]
      BY <1>0, <2>5, <3>1 DEF ReadPiece
    <3> QED
      BY <1>0, <2>5, <3>2 DEF ReadPiece, header, writer
  <2>6. CASE ReadCheck(r)
    BY <1>0, <2>6 DEF ReadCheck, Unmoved, header, writer
  <2> QED
    BY <1>6, <2>1, <2>2, <2>3, <2>4, <2>5, <2>6 DEF Read
<1>7. CASE UNCHANGED vars
  BY <1>0, <1>7 DEF vars, header, writer, reader
<1> QED
  BY <1>1, <1>2, <1>3, <1>4, <1>5, <1>6, <1>7 DEF Next, Write

-----------------------------------------------------------------------------
(* What a step of one side leaves alone. *)

Same(q) ==
    /\ rpc'[q] = rpc[q] /\ attempt'[q] = attempt[q] /\ seen'[q] = seen[q] /\ slot'[q] = slot[q]
    /\ size'[q] = size[q] /\ uncopied'[q] = uncopied[q] /\ copy'[q] = copy[q]
    /\ found'[q] = found[q] /\ looked'[q] = looked[q] /\ began'[q] = began[q]

HeaderSame == UNCHANGED <<active, generation, length, bytes, wpc, target, written, unsent>>

(* A step of a read changes nothing of the header, the writer or the other reads. *)
LEMMA ReadFrame ==
    ASSUME TypeOK, NEW r \in Readers, Read(r)
    PROVE  HeaderSame /\ \A q \in Readers : q # r => Same(q)
<1> USE DEF HeaderSame, Same, header, writer
<1>1. CASE ReadBegin(r)
  BY <1>1 DEF TypeOK, ReadBegin
<1>2. CASE ReadGeneration(r)
  BY <1>2 DEF TypeOK, ReadGeneration
<1>3. CASE ReadSlot(r)
  BY <1>3 DEF TypeOK, ReadSlot
<1>4. CASE ReadLength(r)
  BY <1>4 DEF TypeOK, ReadLength
<1>5. ASSUME NEW i \in 1 .. Pieces, ReadPiece(r, i)
      PROVE  HeaderSame /\ \A q \in Readers : q # r => Same(q)
  BY <1>5 DEF TypeOK, ReadPiece
<1>6. CASE ReadCheck(r)
  BY <1>6 DEF TypeOK, ReadCheck
<1> QED
  BY <1>1, <1>2, <1>3, <1>4, <1>5, <1>6 DEF Read

(* A step of the writer changes nothing of the reads. *)
LEMMA WriteFrame == ASSUME Write PROVE UNCHANGED reader
BY DEF Write, WriteBegin, WritePiece, WriteLength, WriteFlip, WriteAdd

(* The document readers are pointed at changes only with the header and the writer. *)
LEMMA ShownSame == ASSUME HeaderSame PROVE Shown' = Shown
BY DEF HeaderSame, Shown

(* What the types say of a slot that holds a document. *)
LEMMA ShownType == ASSUME TypeOK, WriterInv PROVE Shown \in 0 .. MaxDocuments /\ Shown >= generation
BY SnapshotAssumption DEF TypeOK, WriterInv, Shown

-----------------------------------------------------------------------------
(* The writer. *)

(* Every step keeps what is known of the writer. *)
LEMMA WriterStep == ASSUME IInv, [Next]_vars PROVE WriterInv'
<1>0. TypeOK /\ WriterInv
  BY DEF IInv
<1>1. CASE WriteBegin
  <2>1. target' # active' /\ wpc' = "copy" /\ generation' = generation /\ written' = written + 1
    BY <1>0, <1>1 DEF TypeOK, Slots, WriteBegin, Target, header
  <2>2. unsent' = 1 .. Size[written']
    BY <1>0, <1>1 DEF WriteBegin
  <2>3. generation = written /\ generation \in Nat
    BY <1>0, <1>1 DEF WriteBegin, WriterInv, TypeOK
  <2> QED
    BY <2>1, <2>2, <2>3 DEF WriterInv
<1>2. ASSUME NEW i \in 1 .. Pieces, WritePiece(i) PROVE WriterInv'
  <2>1. /\ bytes'[target][i] = written
        /\ \A k \in 1 .. Pieces : k # i => bytes'[target][k] = bytes[target][k]
    BY <1>0, <1>2 DEF TypeOK, WritePiece
  <2>2. wpc = "copy" /\ wpc' \in {"copy", "length"} /\ unsent' = unsent \ {i}
        /\ (wpc' = "length" => unsent = {i})
    BY <1>2 DEF WritePiece
  <2>3. UNCHANGED <<active, generation, length, target, written>>
    BY <1>2 DEF WritePiece
  <2>4. \A k \in (1 .. Size[written]) \ unsent' : bytes'[target][k] = written
    <3> SUFFICES ASSUME NEW k \in (1 .. Size[written]) \ unsent'
                 PROVE  bytes'[target][k] = written
      OBVIOUS
    <3>1. written \in Documents
      BY <1>0, <2>2 DEF TypeOK, WriterInv, Documents
    <3>2. k \in 1 .. Pieces
      BY <3>1, SnapshotAssumption
    <3>3. k # i => k \notin unsent
      BY <2>2
    <3> QED
      BY <1>0, <2>1, <2>2, <3>2, <3>3 DEF WriterInv
  <2> QED
    BY <1>0, <2>2, <2>3, <2>4 DEF WriterInv
<1>3. CASE WriteLength
  BY <1>0, <1>3 DEF TypeOK, WriteLength, WriterInv
<1>4. CASE WriteFlip
  BY <1>0, <1>4 DEF TypeOK, WriteFlip, WriterInv
<1>5. CASE WriteAdd
  BY <1>0, <1>5 DEF TypeOK, WriteAdd, WriterInv
<1>6. ASSUME NEW r \in Readers, Read(r) PROVE WriterInv'
  BY <1>0, <1>6, ReadFrame DEF HeaderSame, WriterInv
<1>7. CASE UNCHANGED vars
  BY <1>0, <1>7 DEF vars, header, writer, WriterInv
<1> QED
  BY <1>1, <1>2, <1>3, <1>4, <1>5, <1>6, <1>7 DEF Next, Write

(* Every step keeps the slots whole. *)
LEMMA SlotsStep == ASSUME IInv, [Next]_vars PROVE SlotsInv'
<1>0. TypeOK /\ WriterInv /\ SlotsInv
  BY DEF IInv
<1>t. active \in Slots /\ target \in Slots /\ written \in 0 .. MaxDocuments /\ MaxDocuments \in Nat
  BY <1>0, SnapshotAssumption DEF TypeOK
<1>1. CASE WriteBegin
  <2>1. Shown' = Shown /\ wpc' = "copy" /\ UNCHANGED <<active, length, bytes>>
    BY <1>0, <1>1, <1>t DEF WriteBegin, Shown, header
  <2> QED
    BY <1>0, <2>1 DEF SlotsInv, WholeSlot
<1>2. ASSUME NEW i \in 1 .. Pieces, WritePiece(i) PROVE SlotsInv'
  <2>1. Shown' = Shown /\ wpc' \in {"copy", "length"} /\ UNCHANGED <<active, length>>
    BY <1>2 DEF WritePiece, Shown
  <2>2. bytes'[active] = bytes[active]
    BY <1>0, <1>2 DEF TypeOK, WritePiece, WriterInv
  <2> QED
    BY <1>0, <2>1, <2>2 DEF SlotsInv, WholeSlot
<1>3. CASE WriteLength
  <2>1. Shown' = Shown /\ wpc' = "flip" /\ UNCHANGED <<active, bytes>>
    BY <1>3 DEF WriteLength, Shown
  <2>2. length'[active] = length[active]
    BY <1>0, <1>3 DEF TypeOK, WriteLength, WriterInv
  <2> QED
    BY <1>0, <2>1, <2>2 DEF SlotsInv, WholeSlot
<1>4. CASE WriteFlip
  <2>1. Shown' = written /\ wpc' = "add" /\ active' = target /\ UNCHANGED <<length, bytes>>
    BY <1>4 DEF WriteFlip, Shown
  <2>2. WholeSlot(target, written)
    BY <1>0, <1>4 DEF WriteFlip, WriterInv, WholeSlot
  <2>3. Shown = written - 1 /\ 1 - target = active
    BY <1>0, <1>4, <1>t DEF WriteFlip, WriterInv, Shown, Slots
  <2>4. written > 1 => WholeSlot(active, written - 1)
    BY <1>0, <1>t, <2>3 DEF SlotsInv
  <2> QED
    BY <2>1, <2>2, <2>3, <2>4 DEF SlotsInv, WholeSlot
<1>5. CASE WriteAdd
  BY <1>0, <1>5 DEF WriteAdd, SlotsInv, WholeSlot, Shown
<1>6. ASSUME NEW r \in Readers, Read(r) PROVE SlotsInv'
  BY <1>0, <1>6, ReadFrame, ShownSame DEF HeaderSame, SlotsInv, WholeSlot
<1>7. CASE UNCHANGED vars
  BY <1>0, <1>7, ShownSame DEF vars, header, writer, HeaderSame, SlotsInv, WholeSlot
<1> QED
  BY <1>1, <1>2, <1>3, <1>4, <1>5, <1>6, <1>7 DEF Next, Write

-----------------------------------------------------------------------------
(* The readers. *)

Excused(r) == rpc[r] = "idle" /\ ~found[r] /\ began[r] # 0 => generation >= began[r] + Attempts

ReaderInv(r) == ReadInv(r) /\ AttemptInv(r) /\ Excused(r)

(* What the invariant says of one read. *)
LEMMA ReaderInvs == ASSUME IInv PROVE \A r \in Readers : ReaderInv(r)
BY DEF IInv, NullForCause, ReaderInv, Excused

(* A step of another read keeps what is known of this one. *)
LEMMA OtherReader ==
    ASSUME HeaderSame, NEW q \in Readers, Same(q), ReaderInv(q)
    PROVE  ReaderInv(q)'
<1>1. Shown' = Shown
  BY ShownSame
<1>2. ReadInv(q)'
  BY <1>1 DEF ReaderInv, ReadInv, Loaded, Unmoved, Points, Copied, Same, HeaderSame
<1>3. AttemptInv(q)' /\ Excused(q)'
  BY DEF ReaderInv, AttemptInv, Excused, Loaded, Same, HeaderSame
<1> QED
  BY <1>2, <1>3 DEF ReaderInv

(* A write moves no read: it leaves the slot a read has loaded alone, until *)
(* the generation moves.                                                    *)
LEMMA WriteReader ==
    ASSUME IInv, Write, NEW r \in Readers
    PROVE  ReaderInv(r)'
<1>0. TypeOK /\ WriterInv /\ ReaderInv(r)
  BY ReaderInvs DEF IInv
<1>1. UNCHANGED <<rpc, attempt, seen, slot, size, uncopied, copy, found, looked, began>>
  BY WriteFrame DEF reader
<1>t. /\ generation \in Nat /\ seen[r] \in Nat /\ began[r] \in Nat /\ attempt[r] \in Nat
      /\ slot[r] \in Slots /\ written \in Nat /\ active \in Slots /\ target \in Slots
      /\ looked[r] \in Nat /\ Attempts \in Nat
  BY <1>0, SnapshotAssumption DEF TypeOK
<1>2. generation' = generation \/ (generation' = generation + 1 /\ wpc = "add" /\ wpc' = "idle")
  BY DEF Write, WriteBegin, WritePiece, WriteLength, WriteFlip, WriteAdd, header
<1>3. AttemptInv(r)' /\ Excused(r)'
  BY <1>0, <1>1, <1>2, <1>t DEF ReaderInv, AttemptInv, Excused, Loaded
<1>4. length'[slot[r]] = length[slot[r]] \/ length'[slot[r]] > 0
  <2>1. CASE WriteLength
    <3>1. written \in Documents /\ length' = [length EXCEPT ![target] = Size[written]]
      BY <1>0, <2>1 DEF WriteLength, WriterInv, TypeOK, Documents
    <3>2. Size[written] > 0
      BY <3>1, SnapshotAssumption
    <3> QED
      BY <1>0, <1>t, <3>1, <3>2 DEF TypeOK
  <2>2. CASE ~WriteLength
    BY <2>2 DEF Write, WriteBegin, WritePiece, WriteFlip, WriteAdd, header
  <2> QED
    BY <2>1, <2>2
<1>5. Loaded(r) /\ Unmoved(r)' => Unmoved(r) /\ generation' = generation
  BY <1>0, <1>1, <1>2, <1>t DEF ReaderInv, ReadInv, Loaded, Unmoved
<1>6. ASSUME generation' = generation, Points(r) PROVE Points(r)'
  <2>1. CASE WriteBegin
    BY <1>6, <2>1, <1>t, <1>1 DEF WriteBegin, header, Points, Shown
  <2>2. ASSUME NEW i \in 1 .. Pieces, WritePiece(i) PROVE Points(r)'
    BY <1>6, <2>2, <1>1 DEF WritePiece, Points, Shown
  <2>3. CASE WriteLength
    BY <1>6, <2>3, <1>1 DEF WriteLength, Points, Shown
  <2>4. CASE WriteFlip
    <3>1. slot[r] = active /\ looked[r] = Shown
      BY <1>6, <2>4 DEF WriteFlip, Points
    <3>2. Shown = written - 1 /\ Shown' = written /\ active' = target /\ wpc' = "add"
      BY <2>4 DEF WriteFlip, Shown
    <3>3. active = 1 - target
      BY <1>0, <1>t, <2>4 DEF WriteFlip, WriterInv, Slots
    <3> QED
      BY <1>1, <1>t, <3>1, <3>2, <3>3 DEF Points
  <2>5. CASE WriteAdd
    BY <1>6, <2>5, <1>t DEF WriteAdd
  <2> QED
    BY <2>1, <2>2, <2>3, <2>4, <2>5 DEF Write
<1>7. ReadInv(r)'
  BY <1>0, <1>1, <1>2, <1>t, <1>4, <1>5, <1>6 DEF ReaderInv, ReadInv, Loaded, Copied
<1> QED
  BY <1>3, <1>7 DEF ReaderInv

(* The slot a read is at is whole while the generation has not moved. *)
LEMMA PointedWhole ==
    ASSUME IInv, NEW r \in Readers, rpc[r] \in {"length", "copy", "check"}, Unmoved(r)
    PROVE  looked[r] \in Documents /\ WholeSlot(slot[r], looked[r])
<1>0. TypeOK /\ WriterInv /\ SlotsInv /\ ReadInv(r)
  BY DEF IInv
<1>1. generation > 0 /\ Points(r)
  BY <1>0 DEF ReadInv, Unmoved, Loaded, TypeOK
<1>s. Shown \in 0 .. MaxDocuments /\ Shown >= generation
  BY <1>0, ShownType
<1>t. /\ generation \in Nat /\ looked[r] \in 0 .. MaxDocuments /\ active \in Slots
      /\ Shown \in 0 .. MaxDocuments /\ Shown >= generation /\ MaxDocuments \in Nat
      /\ written \in Nat
  BY <1>0, <1>s, SnapshotAssumption DEF TypeOK
<1>2. CASE slot[r] = active /\ looked[r] = Shown
  BY <1>0, <1>1, <1>2, <1>t DEF SlotsInv, Documents
<1>3. CASE slot[r] = 1 - active /\ looked[r] + 1 = Shown /\ wpc = "add"
  <2>1. Shown = generation + 1
    BY <1>0, <1>3, <1>t DEF WriterInv, Shown
  <2> QED
    BY <1>0, <1>1, <1>3, <1>t, <2>1 DEF SlotsInv, Documents
<1> QED
  BY <1>1, <1>2, <1>3 DEF Points

(* A step of a read keeps what is known of it. *)
LEMMA ReadReader ==
    ASSUME IInv, NEW r \in Readers, Read(r)
    PROVE  ReaderInv(r)'
<1>0. TypeOK /\ WriterInv /\ SlotsInv /\ ReaderInv(r)
  BY ReaderInvs DEF IInv
<1>h. HeaderSame
  BY <1>0, ReadFrame
<1>s. Shown' = Shown /\ Shown \in 0 .. MaxDocuments /\ Shown >= generation
  BY <1>0, <1>h, ShownSame, ShownType
<1>t. /\ generation \in Nat /\ seen[r] \in Nat /\ began[r] \in Nat /\ attempt[r] \in 0 .. Attempts
      /\ slot[r] \in Slots /\ active \in Slots /\ Attempts \in Nat \ {0} /\ MaxDocuments \in Nat
      /\ uncopied[r] \in SUBSET (1 .. Pieces) /\ found[r] \in BOOLEAN
  BY <1>0, SnapshotAssumption DEF TypeOK
<1>1. CASE ReadBegin(r)
  <2>1. rpc'[r] = "generation" /\ attempt'[r] = 0 /\ found'[r] = FALSE /\ began'[r] = 0
    BY <1>0, <1>1 DEF TypeOK, ReadBegin
  <2> QED
    BY <2>1, <1>t DEF ReaderInv, ReadInv, AttemptInv, Excused, Loaded
<1>2. CASE ReadGeneration(r)
  <2>1. /\ rpc[r] = "generation" /\ seen'[r] = generation /\ attempt'[r] = attempt[r] + 1
        /\ began'[r] = IF attempt[r] = 0 THEN generation ELSE began[r]
        /\ rpc'[r] = IF generation = 0 THEN "idle" ELSE "slot"
        /\ found'[r] = found[r] /\ generation' = generation
    BY <1>0, <1>2 DEF TypeOK, ReadGeneration, header
  <2>2. ReadInv(r)'
    BY <1>0, <1>t, <2>1 DEF ReaderInv, ReadInv, Loaded
  <2>3. AttemptInv(r)' /\ Excused(r)'
    BY <1>0, <1>t, <2>1 DEF ReaderInv, AttemptInv, Excused, Loaded
  <2> QED
    BY <2>2, <2>3 DEF ReaderInv
<1>3. CASE ReadSlot(r)
  <2>1. /\ rpc[r] = "slot" /\ slot'[r] = active /\ looked'[r] = Shown /\ rpc'[r] = "length"
        /\ seen'[r] = seen[r] /\ attempt'[r] = attempt[r] /\ began'[r] = began[r]
        /\ found'[r] = found[r] /\ generation' = generation /\ active' = active
        /\ length' = length
    BY <1>0, <1>3 DEF TypeOK, ReadSlot, header
  <2>2. length[active] > 0
    <3>1. Shown \in Documents
      BY <1>0, <1>s, <1>t, <2>1 DEF Documents, ReaderInv, ReadInv, Loaded
    <3>2. length[active] = Size[Shown]
      BY <1>0, <1>t, <3>1 DEF SlotsInv, WholeSlot, Documents
    <3> QED
      BY <3>1, <3>2, SnapshotAssumption
  <2>3. Points(r)'
    BY <1>s, <2>1 DEF Points
  <2>4. ReadInv(r)'
    BY <1>0, <2>1, <2>2, <2>3 DEF ReaderInv, ReadInv, Loaded
  <2>5. AttemptInv(r)' /\ Excused(r)'
    BY <1>0, <2>1 DEF ReaderInv, AttemptInv, Excused, Loaded
  <2> QED
    BY <2>4, <2>5 DEF ReaderInv
<1>4. CASE ReadLength(r)
  <2> DEFINE n == length[slot[r]]
  <2>1. /\ rpc[r] = "length" /\ size'[r] = n /\ uncopied'[r] = 1 .. n
        /\ rpc'[r] = IF n \in 1 .. Pieces THEN "copy" ELSE "idle"
    BY <1>0, <1>4 DEF TypeOK, ReadLength
  <2>2. /\ slot'[r] = slot[r] /\ looked'[r] = looked[r] /\ seen'[r] = seen[r]
        /\ attempt'[r] = attempt[r] /\ began'[r] = began[r] /\ found'[r] = found[r]
    BY <1>4 DEF ReadLength
  <2>3. n \in 1 .. Pieces
    <3>1. n \in 0 .. Pieces
      BY <1>0, <1>t DEF TypeOK
    <3> QED
      BY <1>0, <2>1, <3>1, SnapshotAssumption DEF ReaderInv, ReadInv
  <2>4. rpc'[r] = "copy"
    BY <2>1, <2>3
  <2>5. Unmoved(r)' => Unmoved(r)
    BY <1>h, <2>2 DEF Unmoved, HeaderSame
  <2>6. Unmoved(r) => Points(r) /\ n = Size[looked[r]]
    BY <1>0, <2>1, PointedWhole DEF ReaderInv, ReadInv, WholeSlot
  <2>7. Points(r) => Points(r)'
    BY <1>h, <1>s, <2>2 DEF Points, HeaderSame
  <2>8. Unmoved(r) => Copied(r)'
    BY <2>1, <2>2, <2>6 DEF Copied
  <2>9. ReadInv(r)'
    BY <1>0, <1>h, <2>1, <2>2, <2>4, <2>5, <2>6, <2>7, <2>8
       DEF ReaderInv, ReadInv, Loaded, HeaderSame
  <2>10. AttemptInv(r)' /\ Excused(r)'
    BY <1>0, <1>h, <2>1, <2>2, <2>4 DEF ReaderInv, AttemptInv, Excused, Loaded, HeaderSame
  <2> QED
    BY <2>9, <2>10 DEF ReaderInv
<1>5. ASSUME NEW i \in 1 .. Pieces, ReadPiece(r, i) PROVE ReaderInv(r)'
  <2>1. /\ rpc[r] = "copy" /\ i \in uncopied[r]
        /\ uncopied'[r] = uncopied[r] \ {i}
        /\ rpc'[r] = IF uncopied[r] = {i} THEN "check" ELSE "copy"
    BY <1>0, <1>5 DEF TypeOK, ReadPiece
  <2>2. /\ copy'[r][i] = bytes[slot[r]][i]
        /\ \A k \in 1 .. Pieces : k # i => copy'[r][k] = copy[r][k]
    BY <1>0, <1>5 DEF TypeOK, ReadPiece
  <2>3. /\ slot'[r] = slot[r] /\ looked'[r] = looked[r] /\ seen'[r] = seen[r] /\ size'[r] = size[r]
        /\ attempt'[r] = attempt[r] /\ began'[r] = began[r] /\ found'[r] = found[r]
    BY <1>5 DEF ReadPiece
  <2>4. Unmoved(r)' => Unmoved(r)
    BY <1>h, <2>3 DEF Unmoved, HeaderSame
  <2>5. Points(r) => Points(r)'
    BY <1>h, <1>s, <2>3 DEF Points, HeaderSame
  <2>6. ASSUME Unmoved(r) PROVE Copied(r)'
    <3>1. looked[r] \in Documents /\ WholeSlot(slot[r], looked[r]) /\ Copied(r)
      BY <1>0, <2>1, <2>6, PointedWhole DEF ReaderInv, ReadInv
    <3>2. size[r] = Size[looked[r]] /\ Size[looked[r]] \in 1 .. Pieces
      BY <3>1, SnapshotAssumption DEF Copied
    <3>3. ASSUME NEW k \in (1 .. size[r]) \ uncopied'[r] PROVE copy'[r][k] = looked[r]
      <4>1. k \in 1 .. Pieces
        BY <3>2, <3>3, SnapshotAssumption
      <4>2. CASE k = i
        BY <2>2, <3>1, <3>2, <3>3, <4>2 DEF WholeSlot
      <4>3. CASE k # i
        <5>1. k \in (1 .. size[r]) \ uncopied[r]
          BY <2>1, <3>3, <4>3
        <5> QED
          BY <2>2, <3>1, <4>1, <4>3, <5>1 DEF Copied
      <4> QED
        BY <4>2, <4>3
    <3> QED
      BY <2>3, <3>2, <3>3 DEF Copied
  <2>7. ReadInv(r)'
    BY <1>0, <1>h, <2>1, <2>3, <2>4, <2>5, <2>6 DEF ReaderInv, ReadInv, Loaded, HeaderSame
  <2>8. AttemptInv(r)' /\ Excused(r)'
    BY <1>0, <1>h, <2>1, <2>3 DEF ReaderInv, AttemptInv, Excused, Loaded, HeaderSame
  <2> QED
    BY <2>7, <2>8 DEF ReaderInv
<1>6. CASE ReadCheck(r)
  <2>1. /\ rpc[r] = "check" /\ found'[r] = Unmoved(r)
        /\ rpc'[r] = IF ~Unmoved(r) /\ AttemptsLeft(r) THEN "generation" ELSE "idle"
    BY <1>0, <1>6 DEF TypeOK, ReadCheck
  <2>2. attempt'[r] = attempt[r] /\ began'[r] = began[r] /\ generation' = generation
    BY <1>6 DEF ReadCheck, header
  <2>3. ReadInv(r)'
    BY <2>1 DEF ReadInv, Loaded
  <2>4. ~Unmoved(r) => generation >= began[r] + attempt[r]
    BY <1>0, <1>t, <2>1 DEF ReaderInv, ReadInv, AttemptInv, Loaded, Unmoved
  <2>5. AttemptInv(r)' /\ Excused(r)'
    BY <1>0, <1>t, <2>1, <2>2, <2>4 DEF ReaderInv, AttemptInv, Excused, Loaded, AttemptsLeft
  <2> QED
    BY <2>3, <2>5 DEF ReaderInv
<1> QED
  BY <1>1, <1>2, <1>3, <1>4, <1>5, <1>6 DEF Read

(* Every step keeps what is known of the reads. *)
LEMMA ReaderStep == ASSUME IInv, [Next]_vars PROVE \A q \in Readers : ReaderInv(q)'
<1> SUFFICES ASSUME NEW q \in Readers PROVE ReaderInv(q)'
  OBVIOUS
<1>0. TypeOK /\ ReaderInv(q)
  BY ReaderInvs DEF IInv
<1>1. CASE Write
  BY <1>1, WriteReader
<1>2. ASSUME NEW r \in Readers, Read(r) PROVE ReaderInv(q)'
  <2>1. CASE q = r
    BY <1>2, <2>1, ReadReader
  <2>2. CASE q # r
    <3>1. HeaderSame /\ Same(q)
      BY <1>0, <1>2, <2>2, ReadFrame
    <3> QED
      BY <1>0, <3>1, OtherReader
  <2> QED
    BY <2>1, <2>2
<1>3. CASE UNCHANGED vars
  <2>1. HeaderSame /\ Same(q)
    BY <1>3 DEF vars, header, writer, reader, HeaderSame, Same
  <2> QED
    BY <1>0, <2>1, OtherReader
<1> QED
  BY <1>1, <1>2, <1>3 DEF Next

(* The invariant holds throughout. *)
LEMMA SnapshotInvariant == Spec => []IInv
<1>1. Init => IInv
  BY InitIInv
<1>2. IInv /\ [Next]_vars => IInv'
  <2> SUFFICES ASSUME IInv, [Next]_vars PROVE IInv'
    OBVIOUS
  <2>1. \A q \in Readers : ReaderInv(q)'
    BY ReaderStep
  <2>2. NullForCause'
    BY <2>1 DEF ReaderInv, Excused, NullForCause
  <2> QED
    BY <2>1, <2>2, TypeStep, WriterStep, SlotsStep DEF IInv, ReaderInv
<1> QED
  BY <1>1, <1>2, PTL DEF Spec

(* The types, for any readers, pieces, documents and sizes. *)
THEOREM SnapshotTypeCorrect == Spec => []TypeOK
<1>1. IInv => TypeOK
  BY DEF IInv
<1> QED
  BY <1>1, SnapshotInvariant, PTL

(* A read gives up only before the first document, or after a write has    *)
(* completed in each of its attempts.                                      *)
THEOREM SnapshotNullForCause == Spec => []NullForCause
<1>1. IInv => NullForCause
  BY DEF IInv
<1> QED
  BY <1>1, SnapshotInvariant, PTL

-----------------------------------------------------------------------------
(* The refinement: what a step does to the current document, to the reads   *)
(* in progress and to their answers.                                        *)

(* Words that are the whole of a document are of that one only. *)
LEMMA DocumentOfWhole ==
    ASSUME NEW d \in Documents, NEW n, NEW words, WholeOf(d, n, words)
    PROVE  DocumentOf(n, words) = d
<1>1. \A e \in Documents : WholeOf(e, n, words) => e = d
  BY SnapshotAssumption DEF WholeOf
<1> QED
  BY <1>1 DEF DocumentOf

(* A read that does not move keeps its answer. *)
LEMMA AnswersSame ==
    ASSUME NEW q \in Readers, Same(q)
    PROVE  Answer'[q] = Answer[q] /\ (q \in Reading' <=> q \in Reading)
<1>1. /\ rpc'[q] = rpc[q] /\ looked'[q] = looked[q] /\ found'[q] = found[q]
      /\ size'[q] = size[q] /\ copy'[q] = copy[q]
  BY DEF Same
<1>2. DocumentOf(size'[q], copy'[q]) = DocumentOf(size[q], copy[q])
  BY <1>1
<1>3. Answer'[q] = IF rpc'[q] # "idle" THEN looked'[q]
                   ELSE IF found'[q] THEN DocumentOf(size'[q], copy'[q]) ELSE 0
  BY Zenon DEF Answer, DocumentOf, WholeOf
<1>4. Answer[q] = IF rpc[q] # "idle" THEN looked[q]
                  ELSE IF found[q] THEN DocumentOf(size[q], copy[q]) ELSE 0
  BY Zenon DEF Answer
<1> QED
  BY <1>1, <1>2, <1>3, <1>4 DEF Reading

DocumentSame == UNCHANGED <<Shown, Reading, Answer>>

(* A step inside a read that does not look at the header again is a stutter. *)
LEMMA StutterOf ==
    ASSUME HeaderSame, NEW r \in Readers, \A q \in Readers : q # r => Same(q),
           rpc[r] # "idle", rpc'[r] # "idle", looked'[r] = looked[r]
    PROVE  DocumentSame
<1>1. Shown' = Shown
  BY ShownSame
<1>2. \A q \in Readers : Answer'[q] = Answer[q] /\ (q \in Reading' <=> q \in Reading)
  BY AnswersSame DEF Answer, Reading
<1>3. Reading' = Reading
  BY <1>2 DEF Reading
<1>4. Answer' = Answer
  BY <1>2 DEF Answer
<1> QED
  BY <1>1, <1>3, <1>4 DEF DocumentSame

(* A read that ends returns what it saw last, or null. *)
LEMMA ReturnOf ==
    ASSUME HeaderSame, NEW r \in Readers, \A q \in Readers : q # r => Same(q),
           rpc[r] # "idle", rpc'[r] = "idle", Answer'[r] \in {0, looked[r]}
    PROVE  Document!Return(r)
<1>1. Shown' = Shown
  BY ShownSame
<1>2. \A q \in Readers : q # r => Answer'[q] = Answer[q] /\ (q \in Reading' <=> q \in Reading)
  BY AnswersSame
<1>3. r \in Reading /\ r \notin Reading' /\ Answer[r] = looked[r]
  BY DEF Reading, Answer
<1>4. Reading' = Reading \ {r}
  BY <1>2, <1>3 DEF Reading
<1>5. CASE Answer'[r] = looked[r]
  <2>1. Answer' = Answer
    BY <1>2, <1>3, <1>5 DEF Answer
  <2> QED
    BY <1>1, <1>3, <1>4, <2>1 DEF Document!Return
<1>6. CASE Answer'[r] = 0
  <2>1. Answer' = [Answer EXCEPT ![r] = 0]
    BY <1>2, <1>6 DEF Answer
  <2> QED
    BY <1>1, <1>3, <1>4, <2>1 DEF Document!Return
<1> QED
  BY <1>5, <1>6

(* The flip publishes; every other step of the writer is a stutter. *)
LEMMA WriteImplements == ASSUME IInv, Write PROVE Document!Publish \/ DocumentSame
<1>1. UNCHANGED <<Reading, Answer>>
  BY WriteFrame DEF reader, Reading, Answer, DocumentOf, WholeOf
<1>2. CASE WriteFlip
  <2>1. written \in 0 .. MaxDocuments /\ MaxDocuments \in Nat
    BY SnapshotAssumption DEF IInv, TypeOK
  <2>2. Shown = written - 1 /\ Shown' = written
    BY <1>2 DEF WriteFlip, Shown
  <2> QED
    BY <1>1, <2>1, <2>2 DEF Document!Publish
<1>3. CASE ~WriteFlip
  <2>1. written \in Nat
    BY DEF IInv, TypeOK
  <2>2. Shown' = Shown
    BY <1>3, <2>1 DEF Write, WriteBegin, WritePiece, WriteLength, WriteAdd, Shown
  <2> QED
    BY <1>1, <2>2 DEF DocumentSame
<1> QED
  BY <1>2, <1>3

(* A step of a read begins, looks, returns or is a stutter. *)
LEMMA ReadImplements ==
    ASSUME IInv, NEW r \in Readers, Read(r)
    PROVE  Document!Begin(r) \/ Document!Look(r) \/ Document!Return(r) \/ DocumentSame
<1>0. TypeOK /\ ReadInv(r)
  BY DEF IInv
<1>h. HeaderSame /\ \A q \in Readers : q # r => Same(q)
  BY <1>0, ReadFrame
<1>s. Shown' = Shown
  BY <1>h, ShownSame
<1>1. CASE ReadBegin(r)
  <2>1. rpc[r] = "idle" /\ rpc'[r] = "generation" /\ looked'[r] = 0
    BY <1>0, <1>1 DEF TypeOK, ReadBegin
  <2>2. \A q \in Readers : q # r => Answer'[q] = Answer[q] /\ (q \in Reading' <=> q \in Reading)
    BY <1>h, AnswersSame
  <2>3. r \notin Reading /\ r \in Reading' /\ Answer'[r] = 0
    BY <2>1 DEF Reading, Answer
  <2>4. Reading' = Reading \cup {r}
    BY <2>2, <2>3 DEF Reading
  <2>5. Answer' = [Answer EXCEPT ![r] = 0]
    BY <2>2, <2>3 DEF Answer
  <2> QED
    BY <1>s, <2>3, <2>4, <2>5 DEF Document!Begin
<1>2. CASE ReadGeneration(r)
  <2>1. /\ rpc[r] = "generation" /\ rpc'[r] \in {"idle", "slot"} /\ looked'[r] = looked[r]
        /\ found'[r] = found[r]
    BY <1>0, <1>2 DEF TypeOK, ReadGeneration
  <2>2. CASE rpc'[r] = "slot"
    BY <1>h, <2>1, <2>2, StutterOf
  <2>3. CASE rpc'[r] = "idle"
    <3>1. Answer'[r] = 0
      BY <1>0, <2>1, <2>3 DEF ReadInv, Answer
    <3> QED
      BY <1>h, <2>1, <2>3, <3>1, ReturnOf
  <2> QED
    BY <2>1, <2>2, <2>3
<1>3. CASE ReadSlot(r)
  <2>1. rpc[r] = "slot" /\ rpc'[r] = "length" /\ looked'[r] = Shown
    BY <1>0, <1>3 DEF TypeOK, ReadSlot
  <2>2. \A q \in Readers : q # r => Answer'[q] = Answer[q] /\ (q \in Reading' <=> q \in Reading)
    BY <1>h, AnswersSame
  <2>3. r \in Reading /\ r \in Reading' /\ Answer'[r] = Shown
    BY <2>1 DEF Reading, Answer
  <2>4. Reading' = Reading
    BY <2>2, <2>3 DEF Reading
  <2>5. Answer' = [Answer EXCEPT ![r] = Shown]
    BY <2>2, <2>3 DEF Answer
  <2> QED
    BY <1>s, <2>3, <2>4, <2>5 DEF Document!Look
<1>4. CASE ReadLength(r)
  <2>1. /\ rpc[r] = "length" /\ rpc'[r] \in {"idle", "copy"} /\ looked'[r] = looked[r]
        /\ found'[r] = found[r]
    BY <1>0, <1>4 DEF TypeOK, ReadLength
  <2>2. CASE rpc'[r] = "copy"
    BY <1>h, <2>1, <2>2, StutterOf
  <2>3. CASE rpc'[r] = "idle"
    <3>1. Answer'[r] = 0
      BY <1>0, <2>1, <2>3 DEF ReadInv, Answer
    <3> QED
      BY <1>h, <2>1, <2>3, <3>1, ReturnOf
  <2> QED
    BY <2>1, <2>2, <2>3
<1>5. ASSUME NEW i \in 1 .. Pieces, ReadPiece(r, i) PROVE DocumentSame
  <2>1. rpc[r] = "copy" /\ rpc'[r] \in {"copy", "check"} /\ looked'[r] = looked[r]
    BY <1>0, <1>5 DEF TypeOK, ReadPiece
  <2> QED
    BY <1>h, <2>1, StutterOf
<1>6. CASE ReadCheck(r)
  <2>1. /\ rpc[r] = "check" /\ rpc'[r] \in {"idle", "generation"} /\ looked'[r] = looked[r]
        /\ found'[r] = Unmoved(r) /\ size'[r] = size[r] /\ copy'[r] = copy[r]
    BY <1>0, <1>6 DEF TypeOK, ReadCheck
  <2>2. CASE rpc'[r] = "generation"
    BY <1>h, <2>1, <2>2, StutterOf
  <2>3. CASE rpc'[r] = "idle" /\ Unmoved(r)
    <3>1. looked[r] \in Documents /\ Copied(r) /\ uncopied[r] = {}
      BY <1>0, <2>1, <2>3, PointedWhole DEF ReadInv
    <3>2. WholeOf(looked[r], size[r], copy[r])
      BY <3>1 DEF Copied, WholeOf
    <3>3. DocumentOf(size[r], copy[r]) = looked[r]
      BY <3>1, <3>2, DocumentOfWhole
    <3>4. DocumentOf(size'[r], copy'[r]) = DocumentOf(size[r], copy[r])
      BY <2>1
    <3>5. Answer'[r] = IF rpc'[r] # "idle" THEN looked'[r]
                       ELSE IF found'[r] THEN DocumentOf(size'[r], copy'[r]) ELSE 0
      BY Zenon DEF Answer, DocumentOf, WholeOf
    <3> QED
      BY <1>h, <2>1, <2>3, <3>3, <3>4, <3>5, ReturnOf
  <2>4. CASE rpc'[r] = "idle" /\ ~Unmoved(r)
    <3>1. Answer'[r] = 0
      BY <2>1, <2>4 DEF Answer
    <3> QED
      BY <1>h, <2>1, <2>4, <3>1, ReturnOf
  <2> QED
    BY <2>1, <2>2, <2>3, <2>4
<1> QED
  BY <1>1, <1>2, <1>3, <1>4, <1>5, <1>6 DEF Read

(* The two slots and the generation implement one document: a read returns  *)
(* one whole document that was the current one while the read ran, or null. *)
THEOREM SnapshotImplementsDocument == Spec => OneDocument
<1>1. Init => Document!Init
  BY DEF Init, Document!Init, Shown, Reading, Answer
<1>2. IInv /\ [Next]_vars => [Document!Next]_<<Shown, Reading, Answer>>
  <2> SUFFICES ASSUME IInv, [Next]_vars PROVE [Document!Next]_<<Shown, Reading, Answer>>
    OBVIOUS
  <2>1. CASE Write
    BY <2>1, WriteImplements DEF Document!Next, DocumentSame
  <2>2. ASSUME NEW r \in Readers, Read(r) PROVE [Document!Next]_<<Shown, Reading, Answer>>
    BY <2>2, ReadImplements DEF Document!Next, DocumentSame
  <2>3. CASE UNCHANGED vars
    BY <2>3 DEF vars, header, writer, reader, Shown, Reading, Answer, DocumentOf, WholeOf
  <2> QED
    BY <2>1, <2>2, <2>3 DEF Next
<1> QED
  BY <1>1, <1>2, SnapshotInvariant, PTL DEF Spec, OneDocument, Document!Spec
=============================================================================
