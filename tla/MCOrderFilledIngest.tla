-------------------------- MODULE MCOrderFilledIngest --------------------------
(***************************************************************************)
(* Five events over two days of three timestamps, two of them with the     *)
(* same timestamp; pages of two, batches of three, so that a batch has     *)
(* events of both days and a page may end between the two.  The fair       *)
(* instance has one event on a third day.                                  *)
(***************************************************************************)
EXTENDS OrderFilledIngest, TLC

CONSTANTS j1, j2

MCOneJob == {j1}
MCTwoJobs == {j1, j2}

MCTs == <<1, 2, 2, 3, 5>>
MCLongTs == <<0, 1, 2, 3, 3, 6>>

EitherJob == Permutations(MCTwoJobs)

AllKinds == Kinds
Failures == {"crash", "error", "late", "redundant"}
=============================================================================
