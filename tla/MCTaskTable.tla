----------------------------- MODULE MCTaskTable -----------------------------
(***************************************************************************)
(* Instances of TaskTable and of its refinement for TLC.                   *)
(***************************************************************************)
EXTENDS TaskTableRefinement

CONSTANTS w1, w2, u1, u2, c1, c2

\* Two commands and the four kinds of expression; the disabled body is there
\* for the status handler to have something to lose.
MCPayload ==
  { [cmd |-> c1, sched |-> "cron", enable |-> TRUE],
    [cmd |-> c2, sched |-> "once", enable |-> FALSE],
    [cmd |-> c1, sched |-> "bad",  enable |-> TRUE],
    [cmd |-> c2, sched |-> "endless", enable |-> TRUE] }

=============================================================================
