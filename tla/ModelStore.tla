---- MODULE ModelStore ----
(***************************************************************************)
(* What a ModelManager promises, without its threads, downloads and steps  *)
(* that fail (docs/model-cache.md, docs/architecture.md): the active model  *)
(* and the one to roll back to are verified and on disk, they change       *)
(* together, and a verified model leaves the disk only when a selection    *)
(* that was to keep nothing else has succeeded.                            *)
(***************************************************************************)
CONSTANTS Models, NoModel

VARIABLES
    active, previous, disk,
    spare               \* verified or not, what the last selection replaced for good

store == <<active, previous, disk, spare>>

\* A manager that is new finds what earlier ones have left on disk.
Init ==
    /\ active = NoModel
    /\ previous = NoModel
    /\ disk \in SUBSET Models
    /\ spare = {}

Download(m) == disk' = disk \cup {m} /\ UNCHANGED <<active, previous, spare>>

Activate(m) ==
    /\ m \in disk
    /\ active' = m
    /\ \/ previous' = active /\ spare' = {}
       \/ previous' = NoModel /\ spare' = {active, previous} \ {m, NoModel}
    /\ UNCHANGED disk

Rollback ==
    /\ previous \in disk
    /\ active' = previous /\ previous' = active
    /\ UNCHANGED <<disk, spare>>

\* The active model is selected again, as the only one to keep.
Forget ==
    /\ previous' = NoModel
    /\ spare' = {previous} \ {NoModel}
    /\ UNCHANGED <<active, disk>>

Evict ==
    /\ \E gone \in SUBSET spare : disk' = disk \ gone
    /\ spare' = {}
    /\ UNCHANGED <<active, previous>>

\* Nothing but the files outlives a process.
Restart ==
    /\ active' = NoModel /\ previous' = NoModel /\ spare' = {}
    /\ UNCHANGED disk

Next ==
    \/ \E m \in Models : Download(m) \/ Activate(m)
    \/ Rollback \/ Forget \/ Evict \/ Restart

Spec == Init /\ [][Next]_store
====
