----------------------------- MODULE WaitingLine -----------------------------
(***************************************************************************)
(* What a waitlist promises to those on it, without rows, tasks or locks:  *)
(* a line that people join, are promoted from one at a time and in order,  *)
(* and leave; an offer lapses once and nobody is promoted twice.           *)
(*                                                                         *)
(* A member is the time at which they asked to join.  Two who ask at the   *)
(* same time may join in the other order; then either may go first.        *)
(***************************************************************************)
EXTENDS Naturals, Sequences

CONSTANT Members     \* natural numbers

VARIABLES
    line,     \* everybody who ever joined, in the order of joining
    place     \* what has become of each

lineVars == <<line, place>>

Joined == {line[i] : i \in DOMAIN line}
With(status) == {n \in Members : place[n] = status}

\* m asked before n and joined before n.
Precedes(m, n) ==
    /\ m < n
    /\ \E i, j \in DOMAIN line : i < j /\ line[i] = m /\ line[j] = n

LineInit ==
    /\ line = <<>>
    /\ place = [n \in Members |-> "outside"]

Move(group, status) == place' = [n \in Members |-> IF n \in group THEN status ELSE place[n]]

JoinLine(n) ==
    /\ place[n] = "outside"
    /\ line' = Append(line, n)
    /\ Move({n}, "waiting")

Promote(n) ==
    /\ place[n] = "waiting"
    /\ \A m \in With("waiting") : ~Precedes(m, n)
    /\ Move({n}, "offered")
    /\ UNCHANGED line

LapseAll(group) ==
    /\ group # {}
    /\ group \subseteq With("offered")
    /\ Move(group, "lapsed")
    /\ UNCHANGED line

\* Leaving, and the end of the whole line when the event is cancelled.
Depart(group) ==
    /\ group # {}
    /\ group \subseteq Joined \ With("left")
    /\ Move(group, "left")
    /\ UNCHANGED line

LineNext ==
    \/ \E n \in Members : JoinLine(n) \/ Promote(n)
    \/ \E group \in SUBSET Members : LapseAll(group) \/ Depart(group)

LineSpec == LineInit /\ [][LineNext]_lineVars
=============================================================================
