----------------------------- MODULE CallStack -----------------------------
(***************************************************************************)
(* What calls promise to the code that makes them, whatever the machine    *)
(* does with its stack: a function runs in a frame of its own, and when it *)
(* returns, the caller finds its frame (the top and topsp registers) as it *)
(* was, and resumes after the call.  Between calls a function never moves  *)
(* its own frame.  Library calls are ordinary work: they leave no trace in *)
(* the registers.                                                          *)
(***************************************************************************)
EXTENDS Naturals, Sequences

VARIABLES
  live,   \* the machine executes, and the promise still binds
  frame,  \* [top, topsp, pc] of the function that runs
  saved   \* the frames of its callers, innermost last

Frame == [top : Nat, topsp : Nat, pc : Nat]

Init ==
  /\ live = TRUE
  /\ frame \in Frame
  /\ saved = << >>

Work ==
  /\ live'
  /\ frame' = [frame EXCEPT !.pc = frame'.pc]
  /\ UNCHANGED saved

Call ==
  /\ live'
  /\ frame' \in Frame
  /\ saved' = Append(saved, [frame EXCEPT !.pc = frame.pc + 1])

Return ==
  /\ live'
  /\ saved # << >>
  /\ frame' = saved[Len(saved)]
  /\ saved' = SubSeq(saved, 1, Len(saved) - 1)

Stop == ~live'

Next == \/ live /\ (Work \/ Call \/ Return \/ Stop)
        \/ ~live /\ Stop

vars == <<live, frame, saved>>

Spec == Init /\ [][Next]_vars

=============================================================================
