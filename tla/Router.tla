------------------------------- MODULE Router -------------------------------
(***************************************************************************)
(* deephome/router/Router.cpp: the daemon between the clients of the home  *)
(* (SocketServer connections, one "filter", "send" or "query" command per  *)
(* line) and the device networks (one TCP connection per CAN bus master).  *)
(*                                                                         *)
(* All handlers run on one event loop thread, so each is one action.  What *)
(* interleaves is the order in which the loop calls them: packets and      *)
(* errors of the connections, the send timer, the reconnect timer,         *)
(* accepted connections, signals.                                          *)
(*                                                                         *)
(* A packet read from a socket reaches its handler through the event       *)
(* queue, and Connection::unsubscribe invalidates what is still queued: a  *)
(* handler runs only for a connection that is still subscribed.  A socket  *)
(* error (SocketConnection::handle_error) sets got_error_ at once and      *)
(* queues a null packet; between the two the connection looks alive and    *)
(* swallows what is sent to it.  That window is the state "error".         *)
(*                                                                         *)
(* Two outcomes end the process's useful life: "hung" (the filter loop of  *)
(* handle_device_packet never advances) and "crashed" (a null pointer is   *)
(* dereferenced).                                                          *)
(***************************************************************************)
EXTENDS Naturals, Sequences, FiniteSets, Subsequence

CONSTANTS
    Networks,        \* the configured device networks
    Devices,         \* the configured devices
    NetworkOf,       \* Config::Device::network of each device
    Bits,            \* the bits of an address; bit 0 is the lowest
    Commands,        \* the commands clients may send, a set of Command
    BufferLimit,     \* write_buffer_limit, in lines
    NoDevice,        \* a "filter" command without a device argument
    UnknownDevice,   \* a device that is not in the configuration
    Missing,         \* an address or mask argument that is not given
    Invalid,         \* an address or mask above 0xffff
    MaxConnections,  \* bound: connections accepted by one Router object
    MaxRecords       \* bound: filters plus queued sends

\* A 16-bit address, as the set of its bits that are 1.
Address == SUBSET Bits

\* The mask 0xffff.
FullMask == Bits

ConnectionId == 1 .. MaxConnections

\* The arguments of proto::ServiceCommand that the handlers look at.  data is
\* whether a "send" carries 0 to 8 bytes.
Command ==
    [ action : {"filter"}, device : Devices \cup {NoDevice, UnknownDevice},
      address : {Missing, Invalid} \cup Address,
      mask : {Missing, Invalid} \cup Address, one_time : BOOLEAN ]
    \cup
    [ action : {"send", "query"}, device : Devices \cup {UnknownDevice},
      address : {Invalid} \cup Address, data : BOOLEAN ]
    \cup
    [ action : {"unknown"} ]

\* Config guarantees that each device names an existing network; there is at
\* least one network (Config::parse_networks, Config::parse_devices).
ASSUME ConfigAssumption ==
    /\ IsFiniteSet(Networks) /\ Networks # {}
    /\ NetworkOf \in [Devices -> Networks]
    /\ NoDevice \notin Devices /\ UnknownDevice \notin Devices
    /\ NoDevice # UnknownDevice

ASSUME AddressAssumption ==
    /\ \A a \in Address : Missing # a /\ Invalid # a
    /\ Missing # Invalid
    /\ Commands \subseteq Command

ASSUME BoundsAssumption ==
    /\ BufferLimit \in Nat /\ MaxConnections \in Nat /\ MaxRecords \in Nat

\* Router::FilterRecord
FilterRecord ==
    [ connection : ConnectionId, device : Devices \cup {NoDevice},
      address : Address, mask : Address, one_time : BOOLEAN, reply : BOOLEAN ]

\* Router::SendRecord.  A Request's response_filter is rebuilt from it.
SendRecord ==
    [ type : {"Data", "Request"}, connection : ConnectionId,
      device : Devices, address : Address ]

\* A line in the write buffer of a client's connection.
Line ==
    [ kind : {"ok", "fail"} ] \cup
    [ kind : {"reply", "send"}, device : Devices, address : Address ]

VARIABLES
    status,              \* of the process; started_ is status = "running"
    networks,            \* networks_[i].connection: null, usable, got_error_
    network_buffer,      \* lines in a network connection's write_buffer_
    connected_networks,  \* connected_networks_
    reconnect_timeout,   \* is reconnect_timeout_ started
    attempt,             \* history: see NextAttempt
    connections,         \* connections_; "absent" is not in the map
    client_buffer,       \* the write_buffer_ of each client connection
    next_connection_id,  \* next_connection_id_
    filters,             \* filters_
    send_queue,          \* send_queue_
    send_timer           \* is send_timer_ started

networkVars == << networks, network_buffer, connected_networks, reconnect_timeout, attempt >>
clientVars  == << connections, client_buffer, next_connection_id >>
routeVars   == << filters, send_queue, send_timer >>
vars        == << status, networkVars, clientVars, routeVars >>

TypeOK ==
    /\ status \in {"stopped", "running", "hung", "crashed", "exited"}
    /\ networks \in [Networks -> {"down", "up", "error"}]
    /\ network_buffer \in [Networks -> 0 .. BufferLimit]
    /\ connected_networks \in 0 .. Cardinality(Networks)
    /\ reconnect_timeout \in BOOLEAN
    /\ attempt \in BOOLEAN
    /\ connections \in [ConnectionId -> {"absent", "open", "error"}]
    /\ client_buffer \in [ConnectionId -> Seq(Line)]
    /\ next_connection_id \in 0 .. MaxConnections
    /\ filters \in Seq(FilterRecord)
    /\ send_queue \in Seq(SendRecord)
    /\ send_timer \in BOOLEAN

Running == status = "running"

Connected == {n \in Networks : networks[n] # "down"}

-----------------------------------------------------------------------------
(***************************************************************************)
(* Start and stop                                                          *)
(***************************************************************************)

\* A Router object as its constructor leaves it.
Init ==
    /\ status = "stopped"
    /\ networks = [n \in Networks |-> "down"]
    /\ network_buffer = [n \in Networks |-> 0]
    /\ connected_networks = 0
    /\ reconnect_timeout = FALSE
    /\ attempt = FALSE
    /\ connections = [c \in ConnectionId |-> "absent"]
    /\ client_buffer = [c \in ConnectionId |-> << >>]
    /\ next_connection_id = 0
    /\ filters = << >>
    /\ send_queue = << >>
    /\ send_timer = FALSE

\* Mutant: the last network that is down is not worth a timer.
UpdateReconnectTimerOffByOne(count, before) ==
    (count + 1 < Cardinality(Networks)) \/ before

\* update_reconnect_timer() when count networks are connected and the timer
\* was started (or not) before.
UpdateReconnectTimer(count, before) ==
    (count < Cardinality(Networks)) \/ before

\* connect_networks(): of the networks that are down, those in reached answer.
ConnectNetworks(reached) ==
    /\ networks' = [n \in Networks |-> IF n \in reached THEN "up" ELSE networks[n]]
    /\ connected_networks' = connected_networks + Cardinality(reached)
    /\ UNCHANGED network_buffer

\* Router::start() of a new Router: the bindings are opened, then the networks
\* connected, as many as answer.
Start ==
    /\ status = "stopped"
    /\ status' = "running"
    /\ \E reached \in SUBSET Networks :
          /\ ConnectNetworks(reached)
          /\ reconnect_timeout' = UpdateReconnectTimer(Cardinality(reached), FALSE)
    /\ UNCHANGED << attempt, clientVars, routeVars >>

\* Application::start() fails: no configuration, or an address cannot be bound.
StartFails ==
    /\ status = "stopped"
    /\ status' = "exited"
    /\ UNCHANGED << networkVars, clientVars, routeVars >>

\* Router::stop().  disconnect_networks() dereferences the connection of every
\* network, the null ones of networks that are down too.
StopResult(after) == IF Connected = Networks THEN after ELSE "crashed"

\* The Router object is destroyed; another one that is started takes its place,
\* with the networks in reached connected, when the process goes on.
Replaced(after, reached) ==
    LET up == IF after = "running" THEN reached ELSE {} IN
    /\ status' = after
    /\ networks' = [n \in Networks |-> IF n \in up THEN "up" ELSE "down"]
    /\ network_buffer' = [n \in Networks |-> 0]
    /\ connected_networks' = Cardinality(up)
    /\ reconnect_timeout' = (after = "running" /\ UpdateReconnectTimer(Cardinality(up), FALSE))
    /\ attempt' = FALSE
    /\ connections' = [c \in ConnectionId |-> "absent"]
    /\ client_buffer' = [c \in ConnectionId |-> << >>]
    /\ next_connection_id' = 0
    /\ filters' = << >>
    /\ send_queue' = << >>
    /\ send_timer' = FALSE

\* SIGTERM or SIGINT: unloop, then stop(), then the process exits.
Terminate ==
    /\ Running
    /\ Replaced(StopResult("exited"), {})

\* SIGHUP: stop() and start() in one handler.  When an address cannot be bound
\* the process exits.  When the configuration cannot be read router_ is null, and
\* the stop() on the way out dereferences it.
Restart ==
    /\ Running
    /\ \E reached \in SUBSET Networks, outcome \in {"running", "exited", "crashed"} :
          Replaced(StopResult(outcome), reached)

-----------------------------------------------------------------------------
(***************************************************************************)
(* Device networks                                                         *)
(***************************************************************************)

\* Is the number of attempts odd that were made since a network was lost?  When none
\* of the networks answers this is all that the attempt changes: the timer is started
\* again, and all is as before.
NextAttempt == reconnect_timeout' /\ ~ attempt

\* on_reconnect_timeout(): the one-shot timer has stopped itself before it
\* calls connect_networks().
OnReconnectTimeout ==
    /\ Running
    /\ reconnect_timeout
    /\ \E reached \in SUBSET (Networks \ Connected) :
          /\ ConnectNetworks(reached)
          /\ reconnect_timeout' =
                UpdateReconnectTimer(connected_networks + Cardinality(reached), FALSE)
    /\ attempt' = NextAttempt
    /\ UNCHANGED << status, clientVars, routeVars >>

\* Mutant: a disconnected network's reply filters stay.
ReplyFiltersOfNone(n) == {}

\* Mutant: the reply filters of every network are removed.
ReplyFiltersOfAll(n) == {f \in ElementsOf(filters) : f.reply}

\* The reply filters that wait for a device of network n.
ReplyFiltersOf(n) ==
    {f \in ElementsOf(filters) : f.reply /\ NetworkOf[f.device] = n}

\* disconnect_network(n), with remove_reply_filters(n).
DisconnectNetwork(n) ==
    /\ networks' = [networks EXCEPT ![n] = "down"]
    /\ network_buffer' = [network_buffer EXCEPT ![n] = 0]
    /\ connected_networks' = connected_networks - 1
    /\ reconnect_timeout' = UpdateReconnectTimer(connected_networks - 1, reconnect_timeout)
    /\ UNCHANGED attempt
    /\ filters' = Kept(filters, ElementsOf(filters) \ ReplyFiltersOf(n))

\* A send or recv on the socket of network n fails: handle_error().
NetworkError(n) ==
    /\ Running
    /\ networks[n] = "up"
    /\ networks' = [networks EXCEPT ![n] = "error"]
    /\ UNCHANGED << status, network_buffer, connected_networks, reconnect_timeout,
                    attempt, clientVars, routeVars >>

\* on_device_packet_received(null): the error reaches the router.
OnNetworkDisconnected(n) ==
    /\ Running
    /\ networks[n] = "error"
    /\ DisconnectNetwork(n)
    /\ UNCHANGED << status, clientVars, send_queue, send_timer >>

\* on_write_ready() of network n: the peer takes lines from the write buffer.
NetworkWritten(n) ==
    /\ Running
    /\ networks[n] = "up"
    /\ network_buffer[n] > 0
    /\ network_buffer' = [network_buffer EXCEPT ![n] = @ - 1]
    /\ UNCHANGED << status, networks, connected_networks, reconnect_timeout,
                    attempt, clientVars, routeVars >>

\* passes_filter() for a message of device d at address a.  In C++
\*     address & filter.address_mask != filter.address
\* is address & (mask != address): bit 0 of the message's address decides.
PassesFilter(f, d, a) ==
    /\ ~ (0 \in a /\ f.mask # f.address)
    /\ f.device \in {NoDevice, d}

\* The connection's filters that a message passes, in the order of filters_.
Hits(c, d, a) ==
    Kept(filters, {f \in ElementsOf(filters) : f.connection = c /\ PassesFilter(f, d, a)})

\* route_to() for one filter: the line that its connection is sent.
RoutedLine(f, d, a) ==
    [kind |-> IF f.reply THEN "reply" ELSE "send", device |-> d, address |-> a]

\* route_to() returns false for a filter of c: the connection is not there, or
\* its write buffer cannot take all the lines.
RouteFails(c, d, a) ==
    /\ Hits(c, d, a) # << >>
    /\ \/ connections[c] = "absent"
       \/ /\ connections[c] = "open"
          /\ Len(client_buffer[c]) + Len(Hits(c, d, a)) > BufferLimit

\* Mutant: an answered query's filter is not erased.
ErasedOnceRoutedKeepingReplies(f) == f.one_time

\* Is the filter erased once a message was routed through it?
ErasedOnceRouted(f) == f.reply \/ f.one_time

\* handle_device_packet() for a message from a known device.  The loop does not
\* advance past a filter that could not be routed: the router spins there.
OnDeviceMessage(d, a) ==
    /\ Running
    /\ networks[NetworkOf[d]] # "down"
    /\ \/ /\ \E c \in ConnectionId : RouteFails(c, d, a)
          /\ status' = "hung"
          /\ UNCHANGED << client_buffer, filters >>
       \/ /\ \A c \in ConnectionId : ~ RouteFails(c, d, a)
          /\ client_buffer' = [c \in ConnectionId |->
                IF connections[c] = "open"
                  THEN client_buffer[c] \o
                       [i \in DOMAIN Hits(c, d, a) |-> RoutedLine(Hits(c, d, a)[i], d, a)]
                  ELSE client_buffer[c]]
          /\ filters' = Kept(filters, {f \in ElementsOf(filters) :
                ~ (PassesFilter(f, d, a) /\ ErasedOnceRouted(f))})
          /\ UNCHANGED status
    /\ UNCHANGED << networkVars, connections, next_connection_id, send_queue, send_timer >>

-----------------------------------------------------------------------------
(***************************************************************************)
(* Client connections                                                      *)
(***************************************************************************)

\* on_accepted_connection()
OnAcceptedConnection ==
    /\ Running
    /\ next_connection_id < MaxConnections
    /\ next_connection_id' = next_connection_id + 1
    /\ connections' = [connections EXCEPT ![next_connection_id + 1] = "open"]
    /\ UNCHANGED << status, networkVars, client_buffer, routeVars >>

\* A send or recv on the client's socket fails: handle_error().
ConnectionError(c) ==
    /\ Running
    /\ connections[c] = "open"
    /\ connections' = [connections EXCEPT ![c] = "error"]
    /\ UNCHANGED << status, networkVars, client_buffer, next_connection_id, routeVars >>

\* on_connection_packet_received(null): packet->packet_type() comes before the
\* test for null.
OnConnectionTerminated(c) ==
    /\ Running
    /\ connections[c] = "error"
    /\ status' = "crashed"
    /\ UNCHANGED << networkVars, clientVars, routeVars >>

\* on_write_ready() of connection c: the client takes a line.
ConnectionWritten(c) ==
    /\ Running
    /\ connections[c] = "open"
    /\ client_buffer[c] # << >>
    /\ client_buffer' = [client_buffer EXCEPT ![c] = Tail(@)]
    /\ UNCHANGED << status, networkVars, connections, next_connection_id, routeVars >>

\* What a command handler returns and leaves in filters_, send_queue_ and
\* send_timer_.
Rejected ==
    {[ok |-> FALSE, filters |-> filters, queue |-> send_queue, timer |-> send_timer]}

\* handle_filter().  It falls off its end where "return true" is missing: the
\* value the caller sees is either.
HandleFilter(c, cmd) ==
    LET ranged == cmd.address # Missing /\ cmd.mask # Missing
        filter == [connection |-> c, device |-> cmd.device,
                   address |-> IF ranged THEN cmd.address \cap cmd.mask ELSE {},
                   mask |-> IF ranged THEN cmd.mask ELSE {},
                   one_time |-> cmd.one_time, reply |-> FALSE]
    IN  IF cmd.device = UnknownDevice \/ (ranged /\ Invalid \in {cmd.address, cmd.mask})
          THEN Rejected
          ELSE {[ok |-> returned, filters |-> Append(filters, filter),
                 queue |-> send_queue, timer |-> send_timer] : returned \in BOOLEAN}

\* send_timer_ after handle_send() has queued a record: it is started when the
\* queue was empty before.
SendTimerOnPush == send_queue = << >> \/ send_timer

\* handle_send() for "send" (Data) and "query" (Request).
HandleSend(c, cmd) ==
    LET type == IF cmd.action = "send" THEN "Data" ELSE "Request"
    IN  IF \/ cmd.device = UnknownDevice
           \/ networks[NetworkOf[cmd.device]] = "down"
           \/ cmd.address = Invalid
           \/ type = "Data" /\ ~ cmd.data
          THEN Rejected
          ELSE {[ok |-> TRUE, filters |-> filters,
                 queue |-> Append(send_queue, [type |-> type, connection |-> c,
                                     device |-> cmd.device, address |-> cmd.address]),
                 timer |-> SendTimerOnPush]}

\* handle_command()
HandleCommand(c, cmd) ==
    CASE cmd.action = "filter"            -> HandleFilter(c, cmd)
      [] cmd.action \in {"send", "query"} -> HandleSend(c, cmd)
      [] cmd.action = "unknown"           -> Rejected

\* Mutant: close_connection() forgets the filters of the connection.
RemoveFiltersForgotten(list, c) == list

\* remove_filters(): the list without the filters of connection c.
RemoveFilters(list, c) == Kept(list, {f \in ElementsOf(list) : f.connection # c})

\* on_connection_packet_received() for a command: handle it, then answer "ok"
\* or "fail".  When the answer does not fit the write buffer the connection is
\* closed: close_connection() removes its filters, and leaves its queued sends.
OnCommand(c, cmd) ==
    /\ Running
    /\ connections[c] # "absent"
    /\ Len(filters) + Len(send_queue) < MaxRecords
    /\ \E done \in HandleCommand(c, cmd) :
          /\ send_queue' = done.queue
          /\ send_timer' = done.timer
          /\ LET answer == [kind |-> IF done.ok THEN "ok" ELSE "fail"]
                 full == connections[c] = "open" /\ Len(client_buffer[c]) + 1 > BufferLimit
             IN  \/ /\ full
                    /\ filters' = RemoveFilters(done.filters, c)
                    /\ connections' = [connections EXCEPT ![c] = "absent"]
                    /\ client_buffer' = [client_buffer EXCEPT ![c] = << >>]
                 \/ /\ ~ full
                    /\ filters' = done.filters
                    /\ client_buffer' = [client_buffer EXCEPT ![c] =
                          IF connections[c] = "open" THEN Append(@, answer) ELSE @]
                    /\ UNCHANGED connections
    /\ UNCHANGED << status, networkVars, next_connection_id >>

-----------------------------------------------------------------------------
(***************************************************************************)
(* The send queue                                                          *)
(***************************************************************************)

\* The response_filter that handle_send() prepares for a query.
ResponseFilter(r) ==
    [connection |-> r.connection, device |-> r.device, address |-> r.address,
     mask |-> FullMask, one_time |-> FALSE, reply |-> TRUE]

\* The filters after a send that was handed to the network's connection.
FiltersAfterSend(r) ==
    IF r.type = "Request" THEN Append(filters, ResponseFilter(r)) ELSE filters

\* on_send_timer() for the record r at the head of the queue.  The network may
\* have gone down since the record was queued, then it is dropped.  A full
\* write buffer disconnects the network.  A connection with got_error_ swallows
\* the message, and the caller takes it for sent.
SendRecordNow(r) ==
    LET n == NetworkOf[r.device] IN
    \/ /\ networks[n] = "down"
       /\ UNCHANGED << networkVars, filters >>
    \/ /\ networks[n] = "up"
       /\ network_buffer[n] + 1 > BufferLimit
       /\ DisconnectNetwork(n)
    \/ /\ networks[n] = "up"
       /\ network_buffer[n] + 1 <= BufferLimit
       /\ network_buffer' = [network_buffer EXCEPT ![n] = @ + 1]
       /\ filters' = FiltersAfterSend(r)
       /\ UNCHANGED << networks, connected_networks, reconnect_timeout, attempt >>
    \/ /\ networks[n] = "error"
       /\ filters' = FiltersAfterSend(r)
       /\ UNCHANGED networkVars

\* Mutant: the timer is not started again for the records that wait.
SendTimerAfterPopForgotten(rest) == FALSE

\* send_timer_ at the end of on_send_timer(), which leaves the records rest.
SendTimerAfterPop(rest) == rest # << >>

\* on_send_timer().  The timer, one-shot, is started again while records wait.
OnSendTimer ==
    /\ Running
    /\ send_timer
    /\ send_queue # << >>
    /\ SendRecordNow(Head(send_queue))
    /\ send_queue' = Tail(send_queue)
    /\ send_timer' = SendTimerAfterPop(Tail(send_queue))
    /\ UNCHANGED << status, clientVars >>

-----------------------------------------------------------------------------

Next ==
    \/ Start
    \/ StartFails
    \/ Terminate
    \/ Restart
    \/ OnReconnectTimeout
    \/ \E n \in Networks : NetworkError(n)
    \/ \E n \in Networks : OnNetworkDisconnected(n)
    \/ \E n \in Networks : NetworkWritten(n)
    \/ \E d \in Devices, a \in Address : OnDeviceMessage(d, a)
    \/ OnAcceptedConnection
    \/ \E c \in ConnectionId : ConnectionError(c)
    \/ \E c \in ConnectionId : OnConnectionTerminated(c)
    \/ \E c \in ConnectionId : ConnectionWritten(c)
    \/ \E c \in ConnectionId, cmd \in Commands : OnCommand(c, cmd)
    \/ OnSendTimer

Spec == Init /\ [][Next]_vars

\* libev calls the callback of a timer that stays started, and the event loop
\* calls a queued handler.  Nothing is assumed of the clients, the networks or
\* the sockets: an attempt to reconnect may fail for ever.
Fairness ==
    /\ WF_vars(OnSendTimer)
    /\ WF_vars(OnReconnectTimeout)
    /\ \A n \in Networks : WF_vars(OnNetworkDisconnected(n))

FairSpec == Spec /\ Fairness

-----------------------------------------------------------------------------
(***************************************************************************)
(* Invariants                                                              *)
(***************************************************************************)

\* Commands accepted into send_queue_ are never stranded: send_timer_ is
\* started exactly while the queue holds records.  handle_send() and
\* on_send_timer() each start the timer on their own condition.
SendTimerArmed == send_timer <=> send_queue # << >>

\* connected_networks_, kept by hand at four places, is the number of networks
\* that have a connection.
NetworksCounted == connected_networks = Cardinality(Connected)

\* While a network is down the reconnect timer runs, and only then: no network
\* is given up, whatever mix of failed connects, socket errors and full write
\* buffers took it down.
ReconnectArmed == Running => (reconnect_timeout <=> Connected # Networks)

\* What the router keeps by hand about its networks agrees with their connections:
\* the count, and with it the timer that the count decides about.
NetworksTracked == NetworksCounted /\ ReconnectArmed

\* A query waits for its answer only on a network that is connected: a network
\* that is lost takes its reply filters along, also when on_send_timer() is
\* what finds it lost.  Otherwise the filters of lost queries would take
\* messages of the next connection for answers.
RepliesAwaitedOnConnectedNetworks ==
    \A f \in ElementsOf(filters) :
        f.reply => f.device \in Devices /\ networks[NetworkOf[f.device]] # "down"

\* A subscription belongs to a connection that is in connections_.  Reply
\* filters may not (see KeepsServing): on_send_timer() adds them for queries whose
\* connection was closed meanwhile.
SubscriptionsOwned ==
    \A f \in ElementsOf(filters) :
        ~ f.reply => connections[f.connection] # "absent"

-----------------------------------------------------------------------------
(***************************************************************************)
(* Action properties                                                       *)
(***************************************************************************)

\* The queries of connection c to network n that are queued or wait for an
\* answer, and the answers that lie in the write buffer of c.
Outstanding(c, n) ==
    CountOf(send_queue, {r \in ElementsOf(send_queue) :
        r.type = "Request" /\ r.connection = c /\ NetworkOf[r.device] = n})
    + CountOf(filters, {f \in ElementsOf(filters) :
        f.connection = c /\ f \in ReplyFiltersOf(n)})

Answers(c) ==
    CountOf(client_buffer[c], {l \in ElementsOf(client_buffer[c]) : l.kind = "reply"})

\* Each "reply" that a client is sent settles one of its queries: no message of
\* a device, however often repeated, is delivered as the answer to a query
\* that was already answered.
AnswersSettleQueries ==
    [][\A c \in ConnectionId :
          Answers(c)' > Answers(c) =>
             \E n \in Networks :
                Answers(c)' - Answers(c) = Outstanding(c, n) - Outstanding(c, n)']_vars

\* A query is forgotten only with cause: it is answered, its connection is in
\* error or closed, its network is down, or the router stopped.
QueriesNotForgotten ==
    [][\A c \in ConnectionId, n \in Networks :
          Outstanding(c, n)' < Outstanding(c, n) =>
             \/ Answers(c)' > Answers(c)
             \/ connections'[c] # "open"
             \/ networks'[n] = "down"]_vars

-----------------------------------------------------------------------------
(***************************************************************************)
(* Liveness, under FairSpec                                                *)
(***************************************************************************)

\* The queue keeps moving: unless the router stops, records leave it again and
\* again until it is empty.
SendsProgress ==
    []<>(~ Running \/ send_queue = << >>) \/ []<><<OnSendTimer>>_vars

\* A network whose connection fails is tried again and again, for as long as it is
\* not connected and the router runs.  That it is reached is not said.
ReconnectsProgress ==
    []<>(~ Running \/ \A n \in Networks : networks[n] = "up")
       \/ []<><<OnReconnectTimeout>>_vars

\* Neither the queue nor a lost network waits for a timer that nobody starts, whatever
\* commands are accepted or rejected and whichever network they are for: each of the
\* two callbacks decides about its own timer (on_send_timer, on_reconnect_timeout).
TimersProgress == SendsProgress /\ ReconnectsProgress

-----------------------------------------------------------------------------
(***************************************************************************)
(* What the code's own messages say, and the code does not do.             *)
(***************************************************************************)

\* A network whose connection failed is "to be retried later", a client's is logged
\* as "connection terminated", and a filter that cannot be routed to is reported as
\* "removing filter for absent connection" with its connection put aside to be closed:
\* the process outlives them all and goes on serving the others.
KeepsServing == status \notin {"crashed", "hung"}
=============================================================================
