------------------------------- MODULE MCTaskRun -------------------------------
(***************************************************************************)
(* Instances of TaskRun for TLC.                                           *)
(***************************************************************************)
EXTENDS TaskRun

CONSTANTS r1, r2

Plain == [size |-> [out |-> 1, err |-> 2], fails |-> FALSE, reads |-> FALSE,
          background |-> FALSE, binary |-> FALSE, endless |-> FALSE]

\* More on standard error than a pipe of capacity 1 holds; each way a run can
\* go wrong, alone; beside them a run that writes nothing.
MCPrograms ==
  {Plain,
   [Plain EXCEPT !.fails = TRUE, !.size = [out |-> 0, err |-> 1]],
   [Plain EXCEPT !.reads = TRUE, !.size = [out |-> 1, err |-> 0]],
   [Plain EXCEPT !.background = TRUE, !.size = [out |-> 2, err |-> 0]],
   [Plain EXCEPT !.binary = TRUE, !.size = [out |-> 1, err |-> 0]],
   [Plain EXCEPT !.endless = TRUE, !.size = [out |-> 0, err |-> 0]]}

MCProgram ==
  [r \in Run |-> IF r = r1 THEN MCPrograms
                 ELSE {[Plain EXCEPT !.size = [out |-> 0, err |-> 0]]}]

=============================================================================
