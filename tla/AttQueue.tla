------------------------------ MODULE AttQueue ------------------------------
(***************************************************************************)
(* What GatoAttClient promises for requests: they are sent one at a time,  *)
(* in the order they were made, each at most once, and only the one that   *)
(* is out can be answered.                                                 *)
(***************************************************************************)
EXTENDS Naturals, Sequences

CONSTANT Id

VARIABLES queue,  \* ids of the requests not answered yet, oldest first
          out     \* the id that is on its way or being answered, as a set

vars == <<queue, out>>

Init == queue = <<>> /\ out = {}

Issue(id) ==
    /\ \A i \in DOMAIN queue : queue[i] < id
    /\ queue' = Append(queue, id)
    /\ out' = IF queue = <<>> THEN {id} ELSE out

Answer ==
    /\ queue # <<>>
    /\ out = {Head(queue)}
    /\ queue' = Tail(queue)
    /\ out' = IF queue' = <<>> THEN {} ELSE {Head(queue')}

\* Only requests that have not been sent can be taken back.
Cancel(i) ==
    /\ {queue[i]} # out
    /\ queue' = SubSeq(queue, 1, i - 1) \o SubSeq(queue, i + 1, Len(queue))
    /\ UNCHANGED out

Lose == out' = {} /\ UNCHANGED queue

Next ==
    \/ \E id \in Id : Issue(id)
    \/ Answer
    \/ \E i \in DOMAIN queue : Cancel(i)
    \/ Lose

Spec == Init /\ [][Next]_vars
=============================================================================
