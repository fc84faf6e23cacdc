------------------------------- MODULE Clock -------------------------------
(***************************************************************************)
(* The time the browser, the relayer and the chain read (Date.now and the  *)
(* Clock sysvar), as one clock that never goes back.                       *)
(***************************************************************************)
EXTENDS Naturals

CONSTANT MaxTime     \* bound on the time a run covers

VARIABLE now

\* External.
Advance == now < MaxTime /\ now' = now + 1

=============================================================================
