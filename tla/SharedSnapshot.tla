--------------------------- MODULE SharedSnapshot ---------------------------
(***************************************************************************)
(* packages/plugin/src/util/sharedSnapshot.js: a document that worker 0    *)
(* writes and every worker reads, in two slots of one shared buffer.  One  *)
(* action is one atomic operation on a header word, or the copy of one     *)
(* piece of a document, in or out; the pieces of a copy move in any order. *)
(* A document is its number; a piece of a slot is the number of the        *)
(* document whose piece it holds, 0 for none.  A document too large for a  *)
(* slot is refused before anything is written, and is not modelled.        *)
(***************************************************************************)
EXTENDS Integers

CONSTANTS
    Readers,         \* workers that read
    Pieces,          \* pieces a slot has room for
    MaxDocuments,    \* bound: documents written
    Size,            \* the pieces of each document
    Attempts         \* of one read

Documents == 1 .. MaxDocuments
Slots == {0, 1}

ASSUME SnapshotAssumption ==
    /\ Pieces \in Nat \ {0}
    /\ MaxDocuments \in Nat
    /\ Size \in [Documents -> 1 .. Pieces]
    /\ Attempts \in Nat \ {0}

VARIABLES
    active, generation, length,     \* the header: H_ACTIVE, H_GENERATION, H_LENGTH_0
    bytes,                          \* the pieces of each slot
    wpc, target, written, unsent,   \* write: its place, its slot, the document, pieces to copy
    rpc, attempt, seen, slot,       \* read: its place, attempts begun, the generation, its slot,
    size, uncopied, copy,           \* length, pieces to copy, what it has copied
    found,                          \* the last read returned copy, not null
    looked,                         \* history: the document shown when a read loaded active
    began                           \* history: the generation at the first load of a read

header == <<active, generation, length, bytes>>
writer == <<wpc, target, written, unsent>>
reader == <<rpc, attempt, seen, slot, size, uncopied, copy, found, looked, began>>
vars   == <<header, writer, reader>>

(* The document readers are pointed at. *)
Shown == IF wpc \in {"copy", "length", "flip"} THEN written - 1 ELSE written

-----------------------------------------------------------------------------
(* write(): copy into the slot that is not active, set its length, flip the *)
(* active slot, count the generation.                                       *)

(* Mutant: the new document goes into the slot readers are pointed at. *)
TargetActive == active

Target == 1 - active

WriteBegin ==
    /\ wpc = "idle" /\ written < MaxDocuments
    /\ written' = written + 1
    /\ target' = Target
    /\ unsent' = 1 .. Size[written + 1]
    /\ wpc' = "copy"
    /\ UNCHANGED <<header, reader>>

WritePiece(i) ==
    /\ wpc = "copy" /\ i \in unsent
    /\ bytes' = [bytes EXCEPT ![target][i] = written]
    /\ unsent' = unsent \ {i}
    /\ wpc' = IF unsent = {i} THEN "length" ELSE "copy"
    /\ UNCHANGED <<active, generation, length, target, written, reader>>

WriteLength ==
    /\ wpc = "length"
    /\ length' = [length EXCEPT ![target] = Size[written]]
    /\ wpc' = "flip"
    /\ UNCHANGED <<active, generation, bytes, target, written, unsent, reader>>

WriteFlip ==
    /\ wpc = "flip"
    /\ active' = target
    /\ wpc' = "add"
    /\ UNCHANGED <<generation, length, bytes, target, written, unsent, reader>>

WriteAdd ==
    /\ wpc = "add"
    /\ generation' = generation + 1
    /\ wpc' = "idle"
    /\ UNCHANGED <<active, length, bytes, target, written, unsent, reader>>

-----------------------------------------------------------------------------
(* read() *)

ReadBegin(r) ==
    /\ rpc[r] = "idle"
    /\ rpc' = [rpc EXCEPT ![r] = "generation"]
    /\ attempt' = [attempt EXCEPT ![r] = 0]
    /\ found' = [found EXCEPT ![r] = FALSE]
    /\ looked' = [looked EXCEPT ![r] = 0]
    /\ began' = [began EXCEPT ![r] = 0]
    /\ copy' = [copy EXCEPT ![r] = [i \in 1 .. Pieces |-> 0]]
    /\ UNCHANGED <<header, writer, seen, slot, size, uncopied>>

ReadGeneration(r) ==
    /\ rpc[r] = "generation"
    /\ seen' = [seen EXCEPT ![r] = generation]
    /\ attempt' = [attempt EXCEPT ![r] = @ + 1]
    /\ began' = [began EXCEPT ![r] = IF attempt[r] = 0 THEN generation ELSE @]
    /\ rpc' = [rpc EXCEPT ![r] = IF generation = 0 THEN "idle" ELSE "slot"]
    /\ UNCHANGED <<header, writer, slot, size, uncopied, copy, found, looked>>

ReadSlot(r) ==
    /\ rpc[r] = "slot"
    /\ slot' = [slot EXCEPT ![r] = active]
    /\ looked' = [looked EXCEPT ![r] = Shown]
    /\ rpc' = [rpc EXCEPT ![r] = "length"]
    /\ UNCHANGED <<header, writer, attempt, seen, size, uncopied, copy, found, began>>

(* A length no document has would end the read; none is ever stored. *)
ReadLength(r) ==
    /\ rpc[r] = "length"
    /\ LET n == length[slot[r]] IN
       /\ size' = [size EXCEPT ![r] = n]
       /\ uncopied' = [uncopied EXCEPT ![r] = 1 .. n]
       /\ copy' = [copy EXCEPT ![r] = [i \in 1 .. Pieces |-> 0]]
       /\ rpc' = [rpc EXCEPT ![r] = IF n \in 1 .. Pieces THEN "copy" ELSE "idle"]
    /\ UNCHANGED <<header, writer, attempt, seen, slot, found, looked, began>>

ReadPiece(r, i) ==
    /\ rpc[r] = "copy" /\ i \in uncopied[r]
    /\ copy' = [copy EXCEPT ![r][i] = bytes[slot[r]][i]]
    /\ uncopied' = [uncopied EXCEPT ![r] = @ \ {i}]
    /\ rpc' = [rpc EXCEPT ![r] = IF uncopied[r] = {i} THEN "check" ELSE "copy"]
    /\ UNCHANGED <<header, writer, attempt, seen, slot, size, found, looked, began>>

(* Mutant: the second load of the generation is left out. *)
UnmovedAlways(r) == TRUE

(* The generation is the one loaded before the copy. *)
Unmoved(r) == generation = seen[r]

(* Mutants: no second attempt, and one too many. *)
AttemptsLeftNone(r) == FALSE
AttemptsLeftPast(r) == attempt[r] <= Attempts

AttemptsLeft(r) == attempt[r] < Attempts

(* The generation is loaded again: it moved, try again or give up; it did   *)
(* not, parse what was copied.                                              *)
ReadCheck(r) ==
    /\ rpc[r] = "check"
    /\ found' = [found EXCEPT ![r] = Unmoved(r)]
    /\ rpc' = [rpc EXCEPT ![r] = IF ~Unmoved(r) /\ AttemptsLeft(r) THEN "generation" ELSE "idle"]
    /\ UNCHANGED <<header, writer, attempt, seen, slot, size, uncopied, copy, looked, began>>

-----------------------------------------------------------------------------
Init ==
    /\ active = 0 /\ generation = 0
    /\ length = [s \in Slots |-> 0]
    /\ bytes = [s \in Slots |-> [i \in 1 .. Pieces |-> 0]]
    /\ wpc = "idle" /\ target = 0 /\ written = 0 /\ unsent = {}
    /\ rpc = [r \in Readers |-> "idle"]
    /\ attempt = [r \in Readers |-> 0]
    /\ seen = [r \in Readers |-> 0]
    /\ slot = [r \in Readers |-> 0]
    /\ size = [r \in Readers |-> 0]
    /\ uncopied = [r \in Readers |-> {}]
    /\ copy = [r \in Readers |-> [i \in 1 .. Pieces |-> 0]]
    /\ found = [r \in Readers |-> FALSE]
    /\ looked = [r \in Readers |-> 0]
    /\ began = [r \in Readers |-> 0]

Write ==
    \/ WriteBegin \/ WriteLength \/ WriteFlip \/ WriteAdd
    \/ \E i \in 1 .. Pieces : WritePiece(i)

Read(r) ==
    \/ ReadBegin(r) \/ ReadGeneration(r) \/ ReadSlot(r) \/ ReadLength(r) \/ ReadCheck(r)
    \/ \E i \in 1 .. Pieces : ReadPiece(r, i)

Next == Write \/ \E r \in Readers : Read(r)

Spec == Init /\ [][Next]_vars

-----------------------------------------------------------------------------
(* Types. *)
TypeOK ==
    /\ active \in Slots /\ generation \in 0 .. MaxDocuments
    /\ length \in [Slots -> 0 .. Pieces]
    /\ bytes \in [Slots -> [1 .. Pieces -> 0 .. MaxDocuments]]
    /\ wpc \in {"idle", "copy", "length", "flip", "add"}
    /\ target \in Slots /\ written \in 0 .. MaxDocuments
    /\ unsent \in SUBSET (1 .. Pieces)
    /\ rpc \in [Readers -> {"idle", "generation", "slot", "length", "copy", "check"}]
    /\ attempt \in [Readers -> 0 .. Attempts]
    /\ seen \in [Readers -> 0 .. MaxDocuments]
    /\ slot \in [Readers -> Slots]
    /\ size \in [Readers -> 0 .. Pieces]
    /\ uncopied \in [Readers -> SUBSET (1 .. Pieces)]
    /\ copy \in [Readers -> [1 .. Pieces -> 0 .. MaxDocuments]]
    /\ found \in [Readers -> BOOLEAN]
    /\ looked \in [Readers -> 0 .. MaxDocuments]
    /\ began \in [Readers -> 0 .. MaxDocuments]

(* The document a copy is the whole of, or none. *)
Torn == MaxDocuments + 1
WholeOf(d, n, words) == Size[d] = n /\ \A i \in 1 .. n : words[i] = d
DocumentOf(n, words) ==
    IF \E d \in Documents : WholeOf(d, n, words)
    THEN CHOOSE d \in Documents : WholeOf(d, n, words)
    ELSE Torn

(* The abstract document changes at the flip; a read answers with what it   *)
(* copied, and what it copied has to be what active pointed at.             *)
Reading == {r \in Readers : rpc[r] # "idle"}
Answer == [r \in Readers |->
             IF rpc[r] # "idle" THEN looked[r]
             ELSE IF found[r] THEN DocumentOf(size[r], copy[r])
             ELSE 0]

Document == INSTANCE SharedDocument WITH
              document <- Shown, reading <- Reading, answer <- Answer

(* A read returns one whole document, the one shown at some moment of the   *)
(* read, or null: never a mix of two writes, never one already replaced     *)
(* when the read began (the two slots and the generation check of read()).  *)
OneDocument == Document!Spec

(* A read gives up only before the first document, or after a write has     *)
(* completed in each of its attempts (the three attempts of read()).        *)
NullForCause ==
    \A r \in Readers :
        rpc[r] = "idle" /\ ~found[r] /\ began[r] # 0 => generation >= began[r] + Attempts
=============================================================================
