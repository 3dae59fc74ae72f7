---- MODULE MCProcessRunner ----
(* Instances of ProcessRunner for TLC. *)
EXTENDS ProcessRunner, TLC

CONSTANTS r1, r2
CallsTogether == r1 :> 3 @@ r2 :> 1
CallsPair == r1 :> 1 @@ r2 :> 1
====
