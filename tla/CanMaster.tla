------------------------------ MODULE CanMaster ------------------------------
(***************************************************************************)
(* firmware/ti/can_master: the bus master that the router connects to.     *)
(* can_server.cpp is one task that serves up to MaxClients TCP clients;    *)
(* can.cpp drives the message objects of the CAN controller.               *)
(*                                                                         *)
(* The task selects, then forwards what the controller has received, serves *)
(* the descriptors that select() reported, and forwards again.  Meanwhile   *)
(* frames arrive, objects are transmitted and clients come, write and go.   *)
(* A request blocks the task, which polls for the answer.                   *)
(*                                                                         *)
(* A client is raw or interactive; that decides about prompts only and is  *)
(* left out.  A send() to a client that has stopped reading blocks the     *)
(* task until the client reads again or closes its end.                    *)
(***************************************************************************)
EXTENDS Naturals, FiniteSets, FiniteSetsExt

CONSTANTS
    MaxClients,  \* size of clients_
    RxObjects,   \* RxEnd - RxBegin, the receive FIFO
    TxObjects,   \* TxEnd - TxBegin
    Polls,       \* how often an answer is looked for
    MaxFrames,   \* bound: frames that arrive
    MaxSends     \* bound: data packets accepted from the clients

ASSUME CanMasterAssumption ==
    /\ MaxClients \in Nat \ {0} /\ RxObjects \in Nat \ {0} /\ TxObjects \in Nat \ {0}
    /\ Polls \in Nat \ {0} /\ MaxFrames \in Nat /\ MaxSends \in Nat

Client   == 1 .. MaxClients
RxObject == 1 .. RxObjects
TxObject == 1 .. TxObjects

\* Frames and data packets are numbered as they come; 0 is an empty object.
Frame  == 1 .. MaxFrames
Packet == 1 .. MaxSends

\* The listening sockets, in rdset.
Server == 0

VARIABLES
    clients,     \* clients_[i]: free, or whether the peer's end is open and read
    inbox,       \* the message that recv() of client i returns, if any
    connecting,  \* is a connection waiting for accept()
    phase,       \* where the task is
    rdset,       \* the descriptors still to be served
    polls,       \* the polls left in handle_client()
    created,     \* CanMaster::instance() was called: the controller is enabled
    signal,      \* fdSelectAbort() was called
    rx,          \* the receive objects: the frame with NEWDAT, or 0
    remote,      \* object TxRxRemote: see below
    response,    \* the frame with NEWDAT in it, or 0
    packet,      \* the frame that was read and is to be sent to the clients, or 0
    tx,          \* the transmit objects: the packet with TXREQUEST, or 0
    arrived,     \* number of frames that arrived
    lost,        \* the frames that were overwritten or cleared unread
    dropped,     \* the frames that were read and are longer than MsgLen
    forwarded,   \* how often each frame was sent to the clients
    accepted,    \* number of packets put into transmit objects
    transmitted  \* how often each packet was transmitted

clientVars == << clients, inbox, connecting >>
taskVars   == << phase, rdset, polls, packet, created >>
rxVars     == << rx, arrived, lost, dropped >>
txVars     == << tx, accepted, transmitted >>
\* TxRxRemote is not valid ("idle"), or not valid with TXREQUEST left in it
\* ("stuck"), or valid with TXREQUEST or without ("requested", "sent").
RemoteState == {"idle", "stuck", "requested", "sent"}

remoteVars == << remote, response >>
vars       == << clientVars, taskVars, signal, rxVars, remoteVars, txVars, forwarded >>

Message == {"none", "data", "request", "invalid"}

TypeOK ==
    /\ clients \in [Client -> {"free", "open", "stalled", "closed"}]
    /\ inbox \in [Client -> Message]
    /\ connecting \in BOOLEAN
    /\ phase \in {"select", "before", "serve", "poll", "reply", "after"}
    /\ rdset \subseteq {Server} \cup Client
    /\ polls \in 0 .. Polls
    /\ packet \in {0} \cup Frame
    /\ created \in BOOLEAN
    /\ signal \in BOOLEAN
    /\ rx \in [RxObject -> {0} \cup Frame]
    /\ remote \in RemoteState
    /\ response \in {0} \cup Frame
    /\ tx \in [TxObject -> {0} \cup Packet]
    /\ arrived \in 0 .. MaxFrames
    /\ lost \subseteq Frame
    /\ dropped \subseteq Frame
    /\ forwarded \in [Frame -> Nat]
    /\ accepted \in 0 .. MaxSends
    /\ transmitted \in [Packet -> Nat]

\* run() waits for the first time.
Init ==
    /\ clients = [i \in Client |-> "free"]
    /\ inbox = [i \in Client |-> "none"]
    /\ connecting = FALSE
    /\ phase = "select"
    /\ rdset = {}
    /\ polls = 0
    /\ packet = 0
    /\ created = FALSE
    /\ signal = FALSE
    /\ rx = [o \in RxObject |-> 0]
    /\ remote = "idle"
    /\ response = 0
    /\ tx = [o \in TxObject |-> 0]
    /\ arrived = 0
    /\ lost = {}
    /\ dropped = {}
    /\ forwarded = [f \in Frame |-> 0]
    /\ accepted = 0
    /\ transmitted = [p \in Packet |-> 0]

-----------------------------------------------------------------------------
(***************************************************************************)
(* Clients                                                                 *)
(***************************************************************************)

Connect ==
    /\ ~ connecting
    /\ connecting' = TRUE
    /\ UNCHANGED << clients, inbox, taskVars, signal, rxVars, remoteVars, txVars, forwarded >>

\* The message objects without NEWDAT or TXREQUEST.
Empty(objects) == {o \in DOMAIN objects : objects[o] = 0}

\* Data packets that the clients have sent and that are not handled yet.
Waiting == Cardinality({i \in Client : inbox[i] = "data"})

\* A client sends a message.  A data packet needs a number as long as an object may
\* take it: see Transmit.
Write(i, message) ==
    /\ clients[i] \in {"open", "stalled"}
    /\ inbox[i] = "none"
    /\ message = "data" => accepted + Waiting < MaxSends \/ Empty(tx) = {}
    /\ inbox' = [inbox EXCEPT ![i] = message]
    /\ UNCHANGED << clients, connecting, taskVars, signal, rxVars, remoteVars, txVars, forwarded >>

\* A frame was read and is to be sent to every client.
Sending == packet # 0 /\ phase # "poll"

\* The frame does not fit in what a client has yet to read, ...
Stall(i) ==
    /\ Sending
    /\ clients[i] = "open"
    /\ clients' = [clients EXCEPT ![i] = "stalled"]
    /\ UNCHANGED << inbox, connecting, taskVars, signal, rxVars, remoteVars, txVars, forwarded >>

\* ... until the client reads.
Resume(i) ==
    /\ clients[i] = "stalled"
    /\ clients' = [clients EXCEPT ![i] = "open"]
    /\ UNCHANGED << inbox, connecting, taskVars, signal, rxVars, remoteVars, txVars, forwarded >>

Close(i) ==
    /\ clients[i] \in {"open", "stalled"}
    /\ clients' = [clients EXCEPT ![i] = "closed"]
    /\ UNCHANGED << inbox, connecting, taskVars, signal, rxVars, remoteVars, txVars, forwarded >>

-----------------------------------------------------------------------------
(***************************************************************************)
(* The CAN controller                                                      *)
(***************************************************************************)

\* A frame that answers no request: into the first empty object of the FIFO, or
\* over the last one.  The interrupt handler calls send_signal().
FrameArrives ==
    /\ created
    /\ arrived < MaxFrames
    /\ LET object == IF Empty(rx) = {} THEN RxObjects ELSE Min(Empty(rx)) IN
          /\ rx' = [rx EXCEPT ![object] = arrived + 1]
          /\ lost' = lost \cup ({rx[object]} \ {0})
    /\ arrived' = arrived + 1
    /\ signal' = TRUE
    /\ UNCHANGED << clientVars, taskVars, dropped, remoteVars, txVars, forwarded >>

\* The remote frame is on the bus.
RequestSent ==
    /\ remote = "requested"
    /\ remote' = "sent"
    /\ UNCHANGED << clientVars, taskVars, signal, rxVars, response, txVars, forwarded >>

\* The answer comes, or the same frame unasked: its object raises no interrupt.
\* A second one replaces it.
AnswerArrives ==
    /\ remote \in {"requested", "sent"}
    /\ arrived < MaxFrames
    /\ arrived' = arrived + 1
    /\ remote' = "sent"
    /\ response' = arrived + 1
    /\ lost' = lost \cup ({response} \ {0})
    /\ UNCHANGED << clientVars, taskVars, signal, rx, dropped, txVars, forwarded >>

\* A transmit object is sent, the lowest one first.  The bus is busy while more data
\* packets wait than have numbers left: these find every object full.
Transmit ==
    /\ Empty(tx) # TxObject
    /\ accepted + Waiting <= MaxSends
    /\ LET object == Min(TxObject \ Empty(tx)) IN
          /\ tx' = [tx EXCEPT ![object] = 0]
          /\ transmitted' = [transmitted EXCEPT ![tx[object]] = @ + 1]
    /\ UNCHANGED << clientVars, taskVars, signal, rxVars, remoteVars, accepted, forwarded >>

-----------------------------------------------------------------------------
(***************************************************************************)
(* The server task                                                         *)
(***************************************************************************)

\* Mutant: the last slot is not selected on.
ReadableButLast ==
    {i \in Client \ {MaxClients} :
        clients[i] # "free" /\ (inbox[i] # "none" \/ clients[i] = "closed")}
    \cup (IF connecting THEN {Server} ELSE {})

\* The descriptors that are readable.
Readable ==
    {i \in Client : clients[i] # "free" /\ (inbox[i] # "none" \/ clients[i] = "closed")}
    \cup (IF connecting THEN {Server} ELSE {})

\* fdSelect() returns: a descriptor is readable, or send_signal() has aborted it,
\* also when it was called before the task came here.  The handle_signal() that
\* follows makes the CanMaster when there is none.
Select ==
    /\ phase = "select"
    /\ signal \/ Readable # {}
    /\ phase' = "before"
    /\ rdset' = Readable
    /\ signal' = FALSE
    /\ created' = TRUE
    /\ UNCHANGED << clientVars, polls, packet, rxVars, remoteVars, txVars, forwarded >>

\* handle_can_packet(): the frame goes to every client, and waits for one that does
\* not read; those in failed have closed their end, and the send says so.
HandleCanPacket(f) ==
    /\ \A i \in Client : clients[i] # "stalled"
    /\ \E failed \in SUBSET {i \in Client : clients[i] = "closed"} :
          /\ clients' = [i \in Client |-> IF i \in failed THEN "free" ELSE clients[i]]
          /\ inbox' = [i \in Client |-> IF i \in failed THEN "none" ELSE inbox[i]]
          /\ rdset' = rdset \ failed
          /\ forwarded' = [forwarded EXCEPT ![f] = @ + 1]

\* Mutant: NEWDAT is not reset.
ReceivedKept(object) == rx

\* The receive objects after receive() has read one (CANMessageGet).
Received(object) == [rx EXCEPT ![object] = 0]

\* handle_signal() when receive() finds a frame ...
ReceiveFrame ==
    /\ phase \in {"before", "after"}
    /\ packet = 0
    /\ Empty(rx) # RxObject
    /\ LET object == Min(RxObject \ Empty(rx)) IN
          /\ packet' = rx[object]
          /\ rx' = Received(object)
    /\ UNCHANGED << clientVars, phase, rdset, polls, created, signal, arrived, lost, dropped,
                    remoteVars, txVars, forwarded >>

\* ... and sends it.
HandleSignal ==
    /\ phase \in {"before", "after"}
    /\ packet # 0
    /\ HandleCanPacket(packet)
    /\ packet' = 0
    /\ UNCHANGED << connecting, phase, polls, created, signal, rxVars, remoteVars, txVars >>

\* Where the task goes when receive() returns false.
AfterSignals == IF phase = "before" THEN "serve" ELSE "select"

\* receive() reads a frame whose length is more than MsgLen: it returns false, and
\* that ends handle_signal() whatever the other objects hold.  A frame is read once,
\* so its length may be chosen here.
ReceiveOverlong ==
    /\ phase \in {"before", "after"}
    /\ packet = 0
    /\ Empty(rx) # RxObject
    /\ LET object == Min(RxObject \ Empty(rx)) IN
          /\ dropped' = dropped \cup {rx[object]}
          /\ rx' = Received(object)
    /\ phase' = AfterSignals
    /\ UNCHANGED << clientVars, rdset, polls, packet, created, signal, arrived, lost, remoteVars,
                    txVars, forwarded >>

SignalsHandled ==
    /\ phase \in {"before", "after"}
    /\ packet = 0
    /\ Empty(rx) = RxObject
    /\ phase' = AfterSignals
    /\ UNCHANGED << clientVars, rdset, polls, packet, created, signal, rxVars, remoteVars, txVars, forwarded >>

\* handle_connect(): the first free slot, or "Busy." when there is none.
HandleConnect ==
    /\ phase = "serve"
    /\ Server \in rdset
    /\ connecting' = FALSE
    /\ rdset' = rdset \ {Server}
    /\ LET free == {i \in Client : clients[i] = "free"} IN
          clients' = IF free = {} THEN clients ELSE [clients EXCEPT ![Min(free)] = "open"]
    /\ UNCHANGED << inbox, phase, polls, packet, created, signal, rxVars, remoteVars, txVars, forwarded >>

\* The client that is served next.
Serving(i) ==
    /\ phase = "serve"
    /\ Server \notin rdset
    /\ rdset # {}
    /\ i = Min(rdset)

\* handle_client() when recv() returns 0, which changes nothing.
HandleClosed(i) ==
    /\ Serving(i)
    /\ inbox[i] = "none"
    /\ rdset' = rdset \ {i}
    /\ UNCHANGED << clientVars, phase, polls, packet, created, signal, rxVars, remoteVars,
                    txVars, forwarded >>

\* handle_client() when recv() fails: the slot is free again.
HandleFailed(i) ==
    /\ Serving(i)
    /\ clients[i] = "closed"
    /\ clients' = [clients EXCEPT ![i] = "free"]
    /\ inbox' = [inbox EXCEPT ![i] = "none"]
    /\ rdset' = rdset \ {i}
    /\ UNCHANGED << connecting, phase, polls, packet, created, signal, rxVars, remoteVars, txVars,
                    forwarded >>

\* handle_client() of a message that parse_packet() rejects.
HandleInvalid(i) ==
    /\ Serving(i)
    /\ inbox[i] = "invalid"
    /\ inbox' = [inbox EXCEPT ![i] = "none"]
    /\ rdset' = rdset \ {i}
    /\ UNCHANGED << clients, connecting, phase, polls, packet, created, signal, rxVars, remoteVars, txVars, forwarded >>

\* Mutant: busy_objects is not looked at.
FreeObjectsAll == TxObject

\* do_send(): the transmit objects without TXREQUEST.
FreeObjects == Empty(tx)

\* handle_client() of a data packet.  When every object is busy it is dropped,
\* and an interactive client told so.
HandleData(i) ==
    /\ Serving(i)
    /\ inbox[i] = "data"
    /\ inbox' = [inbox EXCEPT ![i] = "none"]
    /\ rdset' = rdset \ {i}
    /\ \/ /\ FreeObjects = {}
          /\ UNCHANGED txVars
       \/ /\ FreeObjects # {}
          /\ tx' = [tx EXCEPT ![Min(FreeObjects)] = accepted + 1]
          /\ accepted' = accepted + 1
          /\ UNCHANGED transmitted
    /\ UNCHANGED << clients, connecting, phase, polls, packet, created, signal, rxVars, remoteVars,
                    forwarded >>

\* handle_client() of a request: send_request(), then the task polls.  When the
\* object is busy the packet is dropped.
HandleRequest(i) ==
    /\ Serving(i)
    /\ inbox[i] = "request"
    /\ inbox' = [inbox EXCEPT ![i] = "none"]
    /\ rdset' = rdset \ {i}
    /\ \/ /\ remote \in {"requested", "stuck"}
          /\ UNCHANGED << remoteVars, phase, polls >>
       \/ /\ remote \in {"idle", "sent"}
          /\ remote' = "requested"
          /\ response' = 0
          /\ phase' = "poll"
          /\ polls' = Polls
    /\ UNCHANGED << clients, connecting, packet, created, signal, rxVars, txVars, forwarded >>

\* The task waits 10 ms in fdSelect(), or until send_signal() is called, and then
\* receive_response() finds no answer.
PollEmpty ==
    /\ phase = "poll" /\ packet = 0 /\ polls > 0
    /\ response = 0
    /\ polls' = polls - 1
    /\ signal' = FALSE
    /\ UNCHANGED << clientVars, phase, rdset, packet, created, rxVars, remoteVars, txVars, forwarded >>

\* receive_response() reads the answer, which resets NEWDAT.
PollAnswered ==
    /\ phase = "poll" /\ packet = 0 /\ polls > 0
    /\ response # 0
    /\ packet' = response
    /\ response' = 0
    /\ signal' = FALSE
    /\ UNCHANGED << clientVars, phase, rdset, polls, created, rxVars, remote, txVars, forwarded >>

\* Mutant: the request is left in its object.
ClearRequestForgotten == UNCHANGED << remote, response, lost >>

\* CANMessageClear(), at the end of receive_response() and in clear_request(): a
\* frame that has come since the object was read is gone.  The driver makes the
\* object invalid; it may leave a TXREQUEST that is still set.
ClearRequest ==
    /\ \/ remote' = "idle"
       \/ remote = "requested" /\ remote' = "stuck"
    /\ response' = 0
    /\ lost' = lost \cup ({response} \ {0})

\* receive_response() returns with the answer, ...
RequestAnswered ==
    /\ phase = "poll" /\ packet # 0
    /\ ClearRequest
    /\ polls' = 0
    /\ phase' = "reply"
    /\ UNCHANGED << clientVars, rdset, packet, created, signal, rx, arrived, dropped, txVars,
                    forwarded >>

\* ... or without it, when it is longer than MsgLen: the object is cleared all the
\* same, and the task polls on for what cannot come any more.
AnswerOverlong ==
    /\ phase = "poll" /\ packet # 0 /\ polls > 0
    /\ ClearRequest
    /\ dropped' = dropped \cup {packet}
    /\ packet' = 0
    /\ polls' = polls - 1
    /\ UNCHANGED << clientVars, phase, rdset, created, signal, rx, arrived, txVars, forwarded >>

\* The answer is forwarded to all.
ForwardAnswer ==
    /\ phase = "reply"
    /\ HandleCanPacket(packet)
    /\ packet' = 0
    /\ phase' = "serve"
    /\ UNCHANGED << connecting, polls, created, signal, rxVars, remoteVars, txVars >>

\* No answer: the request is given up.
RequestTimedOut ==
    /\ phase = "poll" /\ packet = 0 /\ polls = 0
    /\ ClearRequest
    /\ phase' = "serve"
    /\ UNCHANGED << clientVars, rdset, polls, packet, created, signal, rx, arrived, dropped, txVars,
                    forwarded >>

\* Mutant: the second handle_signal() is not called.
AfterServingSelect == "select"

\* Where the task goes when every descriptor was served.
AfterServing == "after"

\* Every descriptor was served.
Served ==
    /\ phase = "serve"
    /\ rdset = {}
    /\ phase' = AfterServing
    /\ UNCHANGED << clientVars, rdset, polls, packet, created, signal, rxVars, remoteVars, txVars, forwarded >>

\* One step of the task.
Task ==
    \/ Select
    \/ ReceiveFrame
    \/ ReceiveOverlong
    \/ HandleSignal
    \/ SignalsHandled
    \/ HandleConnect
    \/ \E i \in Client : HandleClosed(i)
    \/ \E i \in Client : HandleFailed(i)
    \/ \E i \in Client : HandleInvalid(i)
    \/ \E i \in Client : HandleData(i)
    \/ \E i \in Client : HandleRequest(i)
    \/ PollEmpty
    \/ PollAnswered
    \/ RequestAnswered
    \/ AnswerOverlong
    \/ ForwardAnswer
    \/ RequestTimedOut
    \/ Served

Next ==
    \/ Connect
    \/ \E i \in Client, message \in Message \ {"none"} : Write(i, message)
    \/ \E i \in Client : Stall(i)
    \/ \E i \in Client : Resume(i)
    \/ \E i \in Client : Close(i)
    \/ FrameArrives
    \/ RequestSent
    \/ AnswerArrives
    \/ Transmit
    \/ Task

Spec == Init /\ [][Next]_vars

\* The task runs whenever it is not waiting in fdSelect() or send().  The strong
\* fairness: a send() that waits goes on with the room that its client makes, also
\* when the client stops reading again.
FairSpec == Spec /\ SF_vars(Task)

-----------------------------------------------------------------------------
(***************************************************************************)
(* Properties                                                              *)
(***************************************************************************)

Holds(objects, n) == Cardinality({o \in DOMAIN objects : objects[o] = n})

OneIf(condition) == IF condition THEN 1 ELSE 0

\* Every frame that came is in exactly one place: in one receive object, in the
\* request's object, just read, forwarded once, dropped because of its length, or
\* lost to a later frame or to CANMessageClear(); so no frame is forwarded twice and
\* none of a proper length disappears without being overwritten (receive,
\* receive_response, handle_signal).
FramesAccounted ==
    \A f \in Frame :
       Holds(rx, f) + OneIf(response = f) + OneIf(packet = f) + OneIf(f \in lost)
         + OneIf(f \in dropped) + forwarded[f]
       = OneIf(f <= arrived)

\* Every command taken from a client is once in a transmit object or was once
\* transmitted: do_send() overwrites no object that waits for the bus.
CommandsAccounted ==
    \A p \in Packet : Holds(tx, p) + transmitted[p] = OneIf(p <= accepted)

\* When the task has finished with a request, answered or not, nothing of it is left
\* that could receive: a late answer is not taken for the answer of the next request
\* (receive_response, clear_request).
RequestSettled ==
    /\ phase # "poll" => remote \in {"idle", "stuck"} /\ response = 0
    /\ phase \in {"select", "serve"} => packet = 0

\* Again and again there is a moment in which every client reads.
ClientsRead == []<>(\A i \in Client : clients[i] # "stalled")

\* A frame in a receive object that was signalled is eventually read and forwarded, or
\* overwritten, also when its signal ended the wait of a request and not the task's
\* select: that is what the handle_signal() at the end of the loop is for.  One thing
\* takes this from it, a frame that is dropped for its length after the signal: it may
\* be this one, or the one that ends handle_signal() with this one still in its object,
\* where it waits for the next signal.  And one client that never reads takes it from
\* all the others.
FramesForwarded ==
    ClientsRead =>
       \A f \in Frame : \A d \in SUBSET (Frame \ {f}) :
          (signal /\ Holds(rx, f) > 0 /\ dropped = d)
            ~> (forwarded[f] > 0 \/ f \in lost \/ dropped # d)

\* Every message of a client is eventually taken, whatever the others do, unless
\* one of them never reads.
MessagesServed ==
    ClientsRead =>
       \A i \in Client : inbox[i] # "none" ~> inbox[i] = "none"
=============================================================================
