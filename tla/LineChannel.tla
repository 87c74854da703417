---------------------------- MODULE LineChannel ----------------------------
(***************************************************************************)
(* What a connection promises to its owner (proto/Connection.h): the bytes *)
(* of the lines it has accepted reach the peer in order, each once; the    *)
(* owner is told the peer's lines in order, each once, and at most one     *)
(* error, after which nothing more; and once the owner has unsubscribed    *)
(* nothing is told and nothing is sent any more.                           *)
(***************************************************************************)
EXTENDS Naturals, Sequences

CONSTANT Null  \* what tells the owner of an error

VARIABLES
    open,      \* has the owner not unsubscribed
    lines,     \* the lines that the peer has sent
    told,      \* what the owner was told
    accepted,  \* the number of bytes accepted from the owner
    wire       \* the bytes that were sent

vars == << open, lines, told, accepted, wire >>

Init ==
    /\ open = TRUE
    /\ lines = << >>
    /\ told = << >>
    /\ accepted = 0
    /\ wire = << >>

PeerCompletesLine ==
    /\ Len(lines') = Len(lines) + 1
    /\ SubSeq(lines', 1, Len(lines)) = lines
    /\ UNCHANGED << open, told, accepted, wire >>

\* The error is the last thing the owner is told.
Failed == told # << >> /\ told[Len(told)] = Null

Tell ==
    /\ open /\ ~ Failed
    /\ \/ told' = Append(told, Null)
       \/ /\ Len(told) < Len(lines)
          /\ told' = Append(told, lines[Len(told) + 1])
    /\ UNCHANGED << open, lines, accepted, wire >>

Accept ==
    /\ open
    /\ accepted' > accepted
    /\ UNCHANGED << open, lines, told, wire >>

\* Bytes are numbered in the order in which they were accepted.
Transmit ==
    /\ open
    /\ \E n \in 1 .. accepted - Len(wire) : wire' = [i \in 1 .. Len(wire) + n |-> i]
    /\ UNCHANGED << open, lines, told, accepted >>

Leave ==
    /\ open
    /\ open' = FALSE
    /\ UNCHANGED << lines, told, accepted, wire >>

Next == PeerCompletesLine \/ Tell \/ Accept \/ Transmit \/ Leave

Spec == Init /\ [][Next]_vars
=============================================================================
