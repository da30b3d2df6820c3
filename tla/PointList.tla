----------------------------- MODULE PointList -----------------------------
(***************************************************************************)
(* What the debugger promises of its breakpoints, and of its watchpoints:  *)
(* a numbered list.  A new point is enabled and goes to the end, removing  *)
(* one moves the later ones up by one number and changes nothing else      *)
(* about them, and each keeps the label it was given.  A watchpoint also   *)
(* remembers the value it has shown, which a check brings up to date.      *)
(***************************************************************************)
EXTENDS Naturals, Sequences, SequencesExt

CONSTANT MaxPoints

VARIABLES
  points,       \* the points: addr, type, label, enabled, seen
  value         \* the value at every address, which others change

ListInit == points = << >>

AddPoint ==
  /\ Len(points) < MaxPoints
  /\ points' # << >>
  /\ points' = Append(points, Last(points'))
  /\ Last(points').enabled = 1
  /\ Last(points').seen = value[Last(points').addr]

\* Point number i is removed, and is switched on or off.
RemovePoint(i) == i \in DOMAIN points /\ points' = RemoveAt(points, i)

EnablePoint(i, enabled) ==
  i \in DOMAIN points /\ points' = [points EXCEPT ![i].enabled = enabled]

ClearPoints == points' = << >>

CheckPoints ==
  points' = [i \in DOMAIN points |->
               IF points[i].enabled = 1
               THEN [points[i] EXCEPT !.seen = value[points[i].addr]]
               ELSE points[i]]

ListNext ==
  \/ AddPoint \/ ClearPoints \/ CheckPoints
  \/ \E i \in DOMAIN points :
       RemovePoint(i) \/ \E enabled \in {0, 1} : EnablePoint(i, enabled)

ListSpec == ListInit /\ [][ListNext]_points
=============================================================================
