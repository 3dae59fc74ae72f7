---- MODULE MCAudioWorker ----
(***************************************************************************)
(* AudioWorker on a small instance.  Two slots and four submissions fill,  *)
(* overflow and wrap the ring; three starts reach a restart after a stop,  *)
(* after a throwing processor and after a failed thread creation.          *)
(***************************************************************************)
EXTENDS AudioWorker
====
