----------------------------- MODULE CartPromise -----------------------------
(***************************************************************************)
(* What a caller of move_l / move_c / move_path may rely on, without the   *)
(* pairing that brings it about.                                           *)
(*                                                                         *)
(* A call is open until it returns.  It may return "ok" only with the      *)
(* firmware's result for this very request, "rejected" only when the       *)
(* firmware has refused it for good, "unsent" only when the firmware will  *)
(* never see it.  "unknown" promises nothing.                              *)
(***************************************************************************)
CONSTANT Requests

VARIABLES
  call,  \* what each request's caller knows
  run    \* what the firmware made of each request

Init ==
  /\ call = [r \in Requests |-> "idle"]
  /\ run = [r \in Requests |-> "none"]

\* A call begins; the identity of a finished call may be used again.
Ask(r) ==
  /\ call[r] # "open"
  /\ call' = [call EXCEPT ![r] = "open"]
  /\ run' = [run EXCEPT ![r] = "none"]

Send(r) ==
  /\ call[r] = "open" /\ run[r] = "none"
  /\ run' = [run EXCEPT ![r] = "sent"]
  /\ UNCHANGED call

\* The firmware decides when it reads the command, however late that is.
Decide(r) ==
  /\ run[r] = "sent"
  /\ \E d \in {"accepted", "refused"} : run' = [run EXCEPT ![r] = d]
  /\ UNCHANGED call

Close(r) ==
  /\ call[r] = "open"
  /\ \E o \in {"ok", "rejected", "unsent", "unknown"} :
       /\ o = "ok" => run[r] = "accepted"
       /\ o = "rejected" => run[r] = "refused"
       /\ o = "unsent" => run[r] = "none"
       /\ call' = [call EXCEPT ![r] = o]
  /\ UNCHANGED run

Next == \E r \in Requests : Ask(r) \/ Send(r) \/ Decide(r) \/ Close(r)

Spec == Init /\ [][Next]_<<call, run>>
=============================================================================
