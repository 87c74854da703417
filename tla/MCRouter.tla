------------------------------ MODULE MCRouter ------------------------------
(***************************************************************************)
(* Small instances of Router for TLC.                                      *)
(***************************************************************************)
EXTENDS Router, TLC

CONSTANTS n1, n2, d1, d2

\* One device on each of two networks.
MCNetworkOf == d1 :> n1 @@ d2 :> n2
MCNetworkOfOne == d1 :> n1

Filter(d, a, m, o) ==
    [action |-> "filter", device |-> d, address |-> a, mask |-> m, one_time |-> o]
Send(d, a, ok) == [action |-> "send", device |-> d, address |-> a, data |-> ok]
Query(d, a) == [action |-> "query", device |-> d, address |-> a, data |-> FALSE]

\* Two networks: who waits for what on which network.
RoutingCommands ==
    { Filter(d1, Missing, Missing, TRUE),
      Query(d1, {}), Query(d2, {}) }

\* Every check the command handlers make, and a query to the other network.
CommandCommands ==
    { Filter(NoDevice, Missing, Missing, FALSE), Filter(d1, {}, {0, 1}, FALSE),
      Filter(UnknownDevice, Missing, Missing, FALSE), Filter(d1, {0}, Invalid, FALSE),
      Send(d1, {0}, TRUE), Send(d1, {0}, FALSE), Send(UnknownDevice, {}, TRUE),
      Query(d1, {}), Query(d1, Invalid), Query(d2, {}), [action |-> "unknown"] }

\* Queries for two addresses.
QueryCommands == { Query(d1, {}), Query(d1, {1}) }
=============================================================================
