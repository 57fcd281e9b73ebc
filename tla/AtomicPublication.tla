------------------------- MODULE AtomicPublication --------------------------
(***************************************************************************)
(* What publish_dependency_rows promises its caller: the row arena is      *)
(* replaced once, by rows in which every executed item agrees with its     *)
(* dependencies, or it is left as it was.                                  *)
(***************************************************************************)
CONSTANT Unsuccessful     \* the statuses of a call that reports an error

VARIABLES arena,          \* the caller's rows
          status,
          outcomes        \* the arenas that are consistent for this call's inputs

visible == <<arena, status>>

\* The caller may hand over any arena.
AtomicInit == status = "Pending"

Commit ==
    /\ status = "Pending"
    /\ arena' \in outcomes
    /\ status' = "Ok"

Fail ==
    /\ status = "Pending"
    /\ status' \in Unsuccessful
    /\ UNCHANGED arena

AtomicNext == Commit \/ Fail

AtomicSpec == AtomicInit /\ [][AtomicNext]_visible
=============================================================================
