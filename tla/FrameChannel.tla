---- MODULE FrameChannel ----
(***************************************************************************)
(* What the audio worker promises to the thread that submits frames        *)
(* (include/obs_whisperbleep/core/audio_processing_worker.hpp): while it   *)
(* is open it takes frames into a bounded custody, hands them to the       *)
(* processor in the order they were taken and each of them once, and it    *)
(* closes only with nothing left in custody.  A refused frame changes      *)
(* nothing.                                                                *)
(***************************************************************************)
EXTENDS Naturals, Sequences

CONSTANTS
    Frame,      \* the frames a producer may offer
    Depth       \* how many accepted frames may await the end of their turn

VARIABLES
    open,       \* a worker thread is there to drain what is accepted
    custody,    \* accepted frames the processor has not been called with
    delivered   \* frames the processor has been called with, in call order

vars == <<open, custody, delivered>>

Init ==
    /\ open = FALSE
    /\ custody = <<>>
    /\ delivered = <<>>

Open ==
    /\ ~open
    /\ open' = TRUE
    /\ UNCHANGED <<custody, delivered>>

Accept(f) ==
    /\ open
    /\ Len(custody) < Depth
    /\ custody' = Append(custody, f)
    /\ UNCHANGED <<open, delivered>>

Deliver ==
    /\ open
    /\ custody # <<>>
    /\ delivered' = Append(delivered, Head(custody))
    /\ custody' = Tail(custody)
    /\ UNCHANGED open

Close ==
    /\ open
    /\ custody = <<>>
    /\ open' = FALSE
    /\ UNCHANGED <<custody, delivered>>

Next ==
    \/ Open
    \/ \E f \in Frame : Accept(f)
    \/ Deliver
    \/ Close

Spec == Init /\ [][Next]_vars

====
