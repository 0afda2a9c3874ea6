----------------------------- MODULE ScratchOwner -----------------------------
(***************************************************************************)
(* What the prepared persistent sum promises about its one counter array   *)
(* and its one scratch buffer: at any time the unfinished launches that    *)
(* use them are queued on one stream, which orders them.  A launch joins   *)
(* the stream that owns the storage or takes storage nobody uses; the      *)
(* device gives the storage back when its last launch is over.             *)
(***************************************************************************)

CONSTANT Streams   \* the CUDA streams a launch can be queued on

VARIABLE users     \* the streams that hold an unfinished launch

Init == users = {}

\* A launch is queued on s.
Queue(s) == users \subseteq {s} /\ users' = {s}

\* The device has finished every launch that was queued on s.
Drain(s) == s \in users /\ users' = users \ {s}

Next == \E s \in Streams : Queue(s) \/ Drain(s)

Spec == Init /\ [][Next]_users
===============================================================================
