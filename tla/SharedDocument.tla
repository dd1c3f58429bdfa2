--------------------------- MODULE SharedDocument ---------------------------
(***************************************************************************)
(* What a shared snapshot promises: one document that changes at an        *)
(* instant, and reads of which each returns a document that was the        *)
(* current one at some moment while the read ran, or none at all.          *)
(* Documents are numbered as they are published, 0 is none.                *)
(***************************************************************************)
EXTENDS Naturals

CONSTANTS Readers, MaxDocuments

VARIABLES
    document,    \* the current one
    reading,     \* the readers with a read in progress
    answer       \* what a read in progress saw last, or the last one returned

Publish ==
    /\ document < MaxDocuments
    /\ document' = document + 1
    /\ UNCHANGED <<reading, answer>>

Begin(r) ==
    /\ r \notin reading
    /\ reading' = reading \cup {r}
    /\ answer' = [answer EXCEPT ![r] = 0]
    /\ UNCHANGED document

Look(r) ==
    /\ r \in reading
    /\ answer' = [answer EXCEPT ![r] = document]
    /\ UNCHANGED <<document, reading>>

Return(r) ==
    /\ r \in reading
    /\ reading' = reading \ {r}
    /\ \/ UNCHANGED answer
       \/ answer' = [answer EXCEPT ![r] = 0]
    /\ UNCHANGED document

Init ==
    /\ document = 0
    /\ reading = {}
    /\ answer = [r \in Readers |-> 0]

Next == Publish \/ \E r \in Readers : Begin(r) \/ Look(r) \/ Return(r)

Spec == Init /\ [][Next]_<<document, reading, answer>>
=============================================================================
