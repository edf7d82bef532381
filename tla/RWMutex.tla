------------------------------- MODULE RWMutex -------------------------------
(***************************************************************************)
(* What every reader/writer lock of the repository promises: any number of *)
(* readers together, or one writer alone.                                  *)
(***************************************************************************)
CONSTANTS Readers, Writers

VARIABLES reading,      \* the readers inside
          writing       \* the writers inside

vars == <<reading, writing>>

Init == reading = {} /\ writing = {}

LockShared(r) == /\ writing = {}
                 /\ r \notin reading
                 /\ reading' = reading \cup {r}
                 /\ UNCHANGED writing

UnlockShared(r) == /\ r \in reading
                   /\ reading' = reading \ {r}
                   /\ UNCHANGED writing

Lock(w) == /\ reading = {} /\ writing = {}
           /\ writing' = {w}
           /\ UNCHANGED reading

Unlock(w) == /\ writing = {w}
             /\ writing' = {}
             /\ UNCHANGED reading

Next == \/ \E r \in Readers : LockShared(r) \/ UnlockShared(r)
        \/ \E w \in Writers : Lock(w) \/ Unlock(w)

Spec == Init /\ [][Next]_vars
=============================================================================
