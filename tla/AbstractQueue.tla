--------------------------- MODULE AbstractQueue ---------------------------
(***************************************************************************)
(* What GenericQueue.h promises its users: a first-in first-out queue with  *)
(* atomic operations.  An insert is admitted while the queue is open and,   *)
(* for a unique insert, while the element is not in it; close() can fall    *)
(* between the admission of an insert and its effect, but no other insert   *)
(* can.                                                                     *)
(***************************************************************************)
EXTENDS Naturals, Sequences

CONSTANTS Producers, Elements

VARIABLES
    items,    \* the queued elements
    closed,   \* no further insert is admitted
    pending,  \* the admitted insert (an element and its unique flag), if any
    out       \* the elements handed out so far

vars == <<items, closed, pending, out>>

Holds(e) == \E i \in 1..Len(items) : items[i] = e

Init ==
    /\ items = <<>>
    /\ closed = FALSE
    /\ pending = [p \in Producers |-> <<>>]
    /\ out = <<>>

Admit(p, e, unique) ==
    /\ ~closed
    /\ unique => ~Holds(e)
    /\ \A q \in Producers : pending[q] = <<>>
    /\ pending' = [pending EXCEPT ![p] = << <<e, unique>> >>]
    /\ UNCHANGED <<items, closed, out>>

Push(p) ==
    /\ pending[p] # <<>>
    /\ LET e == pending[p][1][1]
           unique == pending[p][1][2]
       IN  /\ unique => ~Holds(e)
           /\ items' = Append(items, e)
    /\ pending' = [pending EXCEPT ![p] = <<>>]
    /\ UNCHANGED <<closed, out>>

Close ==
    /\ ~closed
    /\ closed' = TRUE
    /\ UNCHANGED <<items, pending, out>>

Take ==
    /\ items # <<>>
    /\ out' = Append(out, Head(items))
    /\ items' = Tail(items)
    /\ UNCHANGED <<closed, pending>>

Next ==
    \/ \E p \in Producers, e \in Elements, unique \in BOOLEAN :
           Admit(p, e, unique)
    \/ \E p \in Producers : Push(p)
    \/ Close
    \/ Take

Spec == Init /\ [][Next]_vars
=============================================================================
