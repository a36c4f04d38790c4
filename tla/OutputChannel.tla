--------------------------- MODULE OutputChannel ---------------------------
(***************************************************************************)
(* What the worker promises the process that drives it over stdin/stdout:  *)
(* every line handed to Signaling::send is printed at most once, and the   *)
(* lines come out in the order in which they were accepted, whichever      *)
(* thread handed them in.  Nothing is said of when a line is printed.      *)
(*                                                                         *)
(* accepted is the history of the lines handed in, printed what stdout has *)
(* received.  Both Signaling and Dispatcher implement this specification.  *)
(***************************************************************************)
EXTENDS Naturals, Sequences

CONSTANT Line           \* the lines (JSON documents) that can be sent

VARIABLES accepted, printed
vars == <<accepted, printed>>

Init == accepted = <<>> /\ printed = <<>>

\* Some thread hands in a line: Signaling::send.
Accept(l) == /\ accepted' = Append(accepted, l)
             /\ UNCHANGED printed

\* The main thread prints the oldest line not yet printed.
Emit == /\ Len(printed) < Len(accepted)
        /\ printed' = Append(printed, accepted[Len(printed) + 1])
        /\ UNCHANGED accepted

Next == Emit \/ \E l \in Line : Accept(l)

Spec == Init /\ [][Next]_vars
============================================================================
