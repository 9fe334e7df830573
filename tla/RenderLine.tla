------------------------------- MODULE RenderLine -------------------------------
(***************************************************************************)
(* What Pdfrenderqueue.js promises its callers: a task that asks to run is *)
(* run at once while fewer than Limit run, and stands in line otherwise;   *)
(* when one ends the first in line takes its place; a task that is not     *)
(* wanted any more leaves the line.  No task runs twice.                   *)
(***************************************************************************)
EXTENDS Naturals, Sequences, FiniteSets

CONSTANTS
  Task,    \* what may ask to run
  Limit    \* how many run at a time

VARIABLES
  line,    \* who waits, first come first
  busy,    \* who runs
  over     \* who has run, or left the line

Waiting == {line[i] : i \in DOMAIN line}

Init == line = <<>> /\ busy = {} /\ over = {}

Arrive(k) ==
  /\ k \notin Waiting \cup busy \cup over
  /\ IF Cardinality(busy) < Limit
       THEN busy' = busy \cup {k} /\ UNCHANGED line
       ELSE line' = Append(line, k) /\ UNCHANGED busy
  /\ UNCHANGED over

Leave(i) ==
  /\ line' = SubSeq(line, 1, i - 1) \o SubSeq(line, i + 1, Len(line))
  /\ over' = over \cup {line[i]}
  /\ UNCHANGED busy

Finish(k) ==
  /\ over' = over \cup {k}
  /\ IF line = <<>>
       THEN busy' = busy \ {k} /\ UNCHANGED line
       ELSE busy' = (busy \ {k}) \cup {Head(line)} /\ line' = Tail(line)

Next ==
  \/ \E k \in Task : Arrive(k)
  \/ \E i \in DOMAIN line : Leave(i)
  \/ \E k \in busy : Finish(k)

Spec == Init /\ [][Next]_<<line, busy, over>>
=============================================================================
