------------------------- MODULE ConsistencyBoundary -------------------------
(***************************************************************************)
(* What the documentation promises of Append, without statements, snap-    *)
(* shots and sessions: a log of appends.  An append is one atomic step     *)
(* that compares the stream its caller has seen with the stream of the     *)
(* same filter now, and adds its events after all the others.              *)
(***************************************************************************)
EXTENDS EventStreams

VARIABLE log   \* sequence of [filter, seen, rows]

Stored == UNION {log[i].rows : i \in 1..Len(log)}

Init == log = << >>

CheckAndAppend ==
  /\ Len(log') = Len(log) + 1
  /\ \A i \in 1..Len(log) : log'[i] = log[i]
  /\ LET new == log'[Len(log) + 1]
     IN  /\ new.seen = Stream(new.filter, Stored)
         /\ \A r \in new.rows, s \in Stored : s.seq < r.seq

Spec == Init /\ [][CheckAndAppend]_log
=============================================================================
