--------------------------- MODULE SerialExecutor ---------------------------
(***************************************************************************)
(* What util/EventLoop.h promises to those who enqueue: the events are     *)
(* dealt with one after the other in the order in which they were          *)
(* submitted, each of them once; the handler of an event is called unless  *)
(* the scope it belongs to was invalidated before its turn; and no handler *)
(* is called while another one is running.                                 *)
(***************************************************************************)
EXTENDS Integers, Sequences

CONSTANT Unscoped   \* the scope of an event that is always valid

VARIABLES
    submitted,  \* the scopes of the events, in the order of submission
    dealt,      \* how many of them were dealt with
    called,     \* those whose handler was called, in the order of the calls
    scope,      \* the present value of the scope
    busy        \* is a handler running

vars == << submitted, dealt, called, scope, busy >>

Init ==
    /\ submitted = << >>
    /\ dealt = 0
    /\ called = << >>
    /\ scope = 0
    /\ busy = FALSE

\* An event of the present scope, of one that was invalidated as it came, or of none.
Submit ==
    /\ \E s \in 0 .. scope \cup {Unscoped} : submitted' = Append(submitted, s)
    /\ UNCHANGED << dealt, called, scope, busy >>

\* The first event that was not dealt with.
Deal ==
    /\ ~ busy
    /\ dealt < Len(submitted)
    /\ dealt' = dealt + 1
    /\ busy' = (submitted[dealt + 1] \in {scope, Unscoped})
    /\ called' = IF busy' THEN Append(called, dealt + 1) ELSE called
    /\ UNCHANGED << submitted, scope >>

Finish ==
    /\ busy
    /\ busy' = FALSE
    /\ UNCHANGED << submitted, dealt, called, scope >>

\* At any time, whether a handler is running or not.
Invalidate ==
    /\ scope' = scope + 1
    /\ UNCHANGED << submitted, dealt, called, busy >>

Next == Submit \/ Deal \/ Finish \/ Invalidate

Spec == Init /\ [][Next]_vars

-----------------------------------------------------------------------------
\* What those who enqueue can count on at any time: handlers were called in the order
\* of submission and none of them twice; a handler that is running is that of the
\* last event dealt with; and an event that was passed over belongs to a scope that
\* is gone for good, so that no event of a living scope is ever lost.
ServedInOrder ==
    /\ \A i \in 1 .. Len(called) : called[i] \in 1 .. dealt
    /\ \A i, j \in 1 .. Len(called) : i < j => called[i] < called[j]
    /\ busy => called # << >> /\ called[Len(called)] = dealt
    /\ \A k \in 1 .. dealt :
          (\E i \in 1 .. Len(called) : called[i] = k) \/ submitted[k] \in 0 .. scope - 1
=============================================================================
