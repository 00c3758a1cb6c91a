--------------------------- MODULE ReadWriteLock ---------------------------
(***************************************************************************)
(* What a reader/writer lock promises: any number of readers, or one       *)
(* writer; a lock can be destroyed only while nobody holds it.             *)
(***************************************************************************)
CONSTANT Threads

VARIABLES exists, readers, writers

vars == <<exists, readers, writers>>

Init == exists = TRUE /\ readers = {} /\ writers = {}

Read(t) ==
    /\ exists /\ writers = {} /\ t \notin readers
    /\ readers' = readers \cup {t} /\ UNCHANGED <<exists, writers>>

Write(t) ==
    /\ exists /\ writers = {} /\ readers = {}
    /\ writers' = {t} /\ UNCHANGED <<exists, readers>>

Release(t) ==
    /\ t \in readers \cup writers
    /\ readers' = readers \ {t} /\ writers' = writers \ {t}
    /\ UNCHANGED exists

Remake ==
    /\ readers = {} /\ writers = {}
    /\ exists' = ~exists /\ UNCHANGED <<readers, writers>>

Next == (\E t \in Threads : Read(t) \/ Write(t) \/ Release(t)) \/ Remake

Spec == Init /\ [][Next]_vars
=============================================================================
