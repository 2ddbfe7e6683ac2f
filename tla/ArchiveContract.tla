-------------------------- MODULE ArchiveContract --------------------------
(***************************************************************************)
(* What the operator promises to those who create support archives, and    *)
(* see nothing of it but the CR and the file behind its download path: an  *)
(* archive that was requested gets its zip, then the status that says so,  *)
(* and keeps both until the request is withdrawn.                          *)
(***************************************************************************)
CONSTANT Names       \* of archives

VARIABLE stage       \* stage[a]: how far the request for a has come

Stages == {"none", "requested", "zipped", "reported"}

Init == stage = [a \in Names |-> "none"]

Becomes(a, next) == stage' = [stage EXCEPT ![a] = next]

\* A request starts from nothing: no archive of that name is handed out for it.
Request(a) == stage[a] = "none" /\ Becomes(a, "requested")

MakeZip(a) == stage[a] = "requested" /\ Becomes(a, "zipped")

Report(a) == stage[a] = "zipped" /\ Becomes(a, "reported")

\* By its user, or by garbage collection.
Withdraw(a) == stage[a] # "none" /\ Becomes(a, "none")

Next == \E a \in Names : Request(a) \/ MakeZip(a) \/ Report(a) \/ Withdraw(a)

Spec == Init /\ [][Next]_stage
=============================================================================
