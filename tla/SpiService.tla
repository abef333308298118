----------------------------- MODULE SpiService -----------------------------
(***************************************************************************)
(* What the queued SPI driver promises: every bus has a line of jobs, a    *)
(* job it accepts goes to the end of the line, and jobs end one at a time  *)
(* from its front.  A bus may always have its reserve: no other bus can    *)
(* use it up.                                                              *)
(***************************************************************************)
EXTENDS Naturals, Sequences

CONSTANTS
  Jobs,      \* the elements jobs are kept in
  Capacity,  \* how many of them there are
  Limit,     \* jobs a line may hold
  Reserve    \* jobs a line may hold whatever the other does

Bus == {0, 1}
Other(b) == 1 - b

\* What makes the reserve good.
ServiceAssumption ==
  /\ Capacity \in Nat /\ Limit \in Nat /\ Reserve \in Nat
  /\ Reserve <= Limit
  /\ 2 * Reserve <= Capacity

VARIABLE line    \* the jobs of each bus, the oldest first

Init == line = [b \in Bus |-> <<>>]

Kept(b) == IF Len(line[b]) < Reserve THEN Reserve ELSE Len(line[b])

\* Bus b may have one more job.
Room(b) == Len(line[b]) < Limit /\ Len(line[b]) + 1 + Kept(Other(b)) <= Capacity

InLine(j) == \E b \in Bus : \E i \in 1..Len(line[b]) : line[b][i] = j

Accept(b, j) ==
  /\ Room(b) /\ ~InLine(j)
  /\ line' = [line EXCEPT ![b] = Append(@, j)]

End(b) ==
  /\ line[b] # <<>>
  /\ line' = [line EXCEPT ![b] = Tail(@)]

Next == \E b \in Bus : (\E j \in Jobs : Accept(b, j)) \/ End(b)

Spec == Init /\ [][Next]_line
=============================================================================
