------------------------------ MODULE SafeRegister ------------------------------
(***************************************************************************)
(* What a file promises to those that read it while it may be rewritten:   *)
(* a read that overlaps no write returns what was written last; one that   *)
(* overlaps a write may return anything.  Once a write has been spoilt     *)
(* nothing is promised any more.                                           *)
(***************************************************************************)
CONSTANTS Readers, Values, Nothing

VARIABLES stored,   \* the value written last
          sound,    \* no write has been spoilt
          reading,  \* per reader: "no", "clean" or "dirty"
          result    \* per reader, what its last read returned

vars == <<stored, sound, reading, result>>

Init ==
    /\ stored \in Values
    /\ sound = TRUE
    /\ reading = [r \in Readers |-> "no"]
    /\ result = [r \in Readers |-> Nothing]

Begin(r) ==
    /\ reading[r] = "no"
    /\ reading' = [reading EXCEPT ![r] = "clean"]
    /\ result' = [result EXCEPT ![r] = Nothing]
    /\ UNCHANGED <<stored, sound>>

End(r) ==
    /\ reading[r] # "no"
    /\ reading' = [reading EXCEPT ![r] = "no"]
    /\ \E v \in Values \cup {Nothing} :
          /\ reading[r] = "clean" /\ sound => v = stored
          /\ result' = [result EXCEPT ![r] = v]
    /\ UNCHANGED <<stored, sound>>

\* Something disturbs the reader: its read counts as overlapped.
Disturb(r) ==
    /\ reading[r] = "clean"
    /\ reading' = [reading EXCEPT ![r] = "dirty"]
    /\ UNCHANGED <<stored, sound, result>>

Overlapped == [r \in Readers |-> IF reading[r] = "no" THEN "no" ELSE "dirty"]

\* The writer may itself have read, which it is done with now.
Used == {result} \cup {[result EXCEPT ![r] = Nothing] : r \in Readers}

Write(v) ==
    /\ stored' = v
    /\ reading' = Overlapped
    /\ result' \in Used
    /\ UNCHANGED sound

\* A write is spoilt, or has been: anything may be stored.
Spoil ==
    /\ sound' = FALSE
    /\ stored' \in Values \cup {Nothing}
    /\ reading' \in {reading, Overlapped}
    /\ result' \in Used

\* A reader forgets what it has read.
Drop ==
    /\ result' \in Used
    /\ UNCHANGED <<stored, sound, reading>>

\* The readers stop, all together; what is stored stays.
Stop ==
    /\ reading' = [r \in Readers |-> "no"]
    /\ result' = [r \in Readers |-> Nothing]
    /\ UNCHANGED <<stored, sound>>

Next ==
    \/ \E r \in Readers : Begin(r) \/ End(r) \/ Disturb(r)
    \/ \E v \in Values : Write(v)
    \/ Spoil \/ Drop \/ Stop

Spec == Init /\ [][Next]_vars
=============================================================================
