---- MODULE MCBridgeDelay ----
(* BridgeDelay with packets of one time unit: the raw ring is too short for the *)
(* delay when they are contiguous, and long enough when the clock leaves holes. *)
EXTENDS BridgeDelay

\* One unit back, contiguous, a tolerated hole, a jump.
MCOffsets == {-1, 0, Jump, Jump + 1}
MCOneLength == {1}

====
