-------------------------- MODULE SocketConnection --------------------------
(***************************************************************************)
(* deephome/common: one end of a stream socket that carries one packet per *)
(* line (proto/Connection.cpp, proto/SocketConnection.cpp), with the event *)
(* queue of util/EventLoop.cpp through which its packets reach the owner.  *)
(* The router's clients and networks and the client library use it.        *)
(*                                                                         *)
(* Everything runs on the loop's thread; what varies is how the stream is  *)
(* cut into chunks, how much a send() takes, when it fails, and when the   *)
(* owner sends and unsubscribes between two callbacks.  A recv() of 0, the *)
(* end of the stream, changes nothing (on_read_ready returns), and neither *)
(* does an EAGAIN.                                                         *)
(*                                                                         *)
(* A byte read is a character class: "x" text, "b" a blank, "n" a line end *)
(* (\r or \n), "?" a character that Packet::create() does not accept.      *)
(* Bytes written are numbered in the order the owner hands them over.      *)
(***************************************************************************)
EXTENDS Naturals, Sequences, FiniteSetsExt

CONSTANTS
    LineSizes,         \* sizes of the lines the owner sends
    write_buffer_limit,
    Null,              \* the null packet that tells the owner of an error
    MaxRead,           \* bound: bytes the peer sends
    MaxWritten         \* bound: bytes the owner sends

Byte == {"x", "b", "n", "?"}

ASSUME SocketAssumption ==
    /\ LineSizes \subseteq Nat \ {0}
    /\ write_buffer_limit \in Nat /\ MaxRead \in Nat /\ MaxWritten \in Nat
    /\ Null \notin Seq(Byte)

VARIABLES
    status,         \* "terminated": an exception nobody handles
    subscribed,     \* is packet_handler_ set
    got_error,      \* got_error_
    read_listener,  \* is read_listener_ started
    write_listener, \* is write_listener_ started
    read_buffer,    \* read_buffer_
    write_buffer,   \* write_buffer_
    scope,          \* *scoped_loop_.scope_
    event_queue,    \* the connection's events in EventLoop::event_queue_
    incoming,       \* the bytes the peer has sent
    taken,          \* how many of them recv() has returned
    peer,           \* is the peer's end open
    accepted,       \* how many bytes the owner's sends have put in write_buffer_
    wire,           \* the bytes send() has taken
    delivered       \* the packets the owner's handler was called with

listeners == << read_listener, write_listener >>
reading   == << read_buffer, incoming, taken, peer >>
writing   == << write_buffer, accepted, wire >>
events    == << scope, event_queue, delivered >>
vars      == << status, subscribed, got_error, listeners, reading, writing, events >>

Packet == Seq(Byte) \cup {Null}

TypeOK ==
    /\ status \in {"running", "terminated"}
    /\ subscribed \in BOOLEAN
    /\ got_error \in BOOLEAN
    /\ read_listener \in BOOLEAN
    /\ write_listener \in BOOLEAN
    /\ read_buffer \in Seq(Byte)
    /\ write_buffer \in Seq(1 .. MaxWritten) /\ Len(write_buffer) <= write_buffer_limit
    /\ scope \in Nat
    /\ event_queue \in Seq([packet : Packet, scope : Nat])
    /\ incoming \in Seq(Byte)
    /\ taken \in 0 .. Len(incoming)
    /\ peer \in {"open", "closed"}
    /\ accepted \in 0 .. MaxWritten
    /\ wire \in Seq(1 .. MaxWritten)
    /\ delivered \in Seq(Packet)

\* A connection that its owner has just created and subscribed to.
Init ==
    /\ status = "running"
    /\ subscribed = TRUE
    /\ got_error = FALSE
    /\ read_listener = TRUE
    /\ write_listener = FALSE
    /\ read_buffer = << >>
    /\ write_buffer = << >>
    /\ scope = 0
    /\ event_queue = << >>
    /\ incoming = << >>
    /\ taken = 0
    /\ peer = "open"
    /\ accepted = 0
    /\ wire = << >>
    /\ delivered = << >>

-----------------------------------------------------------------------------
(***************************************************************************)
(* Reading                                                                 *)
(***************************************************************************)

PeerSends(b) ==
    /\ peer = "open"
    /\ Len(incoming) < MaxRead
    /\ incoming' = Append(incoming, b)
    /\ UNCHANGED << status, subscribed, got_error, listeners, read_buffer, taken, peer,
                    writing, events >>

PeerCloses ==
    /\ peer = "open"
    /\ peer' = "closed"
    /\ UNCHANGED << status, subscribed, got_error, listeners, read_buffer, incoming, taken,
                    writing, events >>

\* handle_line(): the packets that a line makes, one or none.
HandleLine(line) ==
    IF (\E i \in DOMAIN line : line[i] # "b") /\ (\A i \in DOMAIN line : line[i] # "?")
      THEN << line >> ELSE << >>

\* The loop at the end of on_read_ready(): from position start, the line up to
\* the next line end, and on from the first character that is not a line end.
\* What is left without a line end stays in read_buffer_.
SplitLines(buffer) ==
    LET n == Len(buffer)
        ends(s) == {e \in s .. n : buffer[e] = "n"}
        others(e) == {i \in e .. n : buffer[i] # "n"}
        from[start \in 1 .. n + 1] ==
           IF ends(start) = {}
             THEN [packets |-> << >>, rest |-> SubSeq(buffer, start, n)]
             ELSE LET end == Min(ends(start))
                      packets == HandleLine(SubSeq(buffer, start, end - 1))
                  IN  IF others(end) = {}
                        THEN [packets |-> packets, rest |-> << >>]
                        ELSE LET later == from[Min(others(end))] IN
                             [packets |-> packets \o later.packets, rest |-> later.rest]
    IN  from[1]

\* Connection::packet_received(): an event with the scope's present value.
Queued(packets) ==
    event_queue \o [i \in DOMAIN packets |-> [packet |-> packets[i], scope |-> scope]]

\* on_read_ready() when recv() returns the next k bytes.
OnReadReady(k) ==
    /\ status = "running"
    /\ read_listener
    /\ k \in 1 .. Len(incoming) - taken
    /\ LET split == SplitLines(read_buffer \o SubSeq(incoming, taken + 1, taken + k)) IN
          /\ read_buffer' = split.rest
          /\ event_queue' = Queued(split.packets)
    /\ taken' = taken + k
    /\ UNCHANGED << status, subscribed, got_error, listeners, incoming, peer, writing,
                    scope, delivered >>

\* Mutant: the error overtakes what is queued.
HandleErrorDropping ==
    /\ got_error' = TRUE
    /\ read_listener' = FALSE
    /\ write_listener' = FALSE
    /\ event_queue' = << [packet |-> Null, scope |-> scope] >>

\* handle_error()
HandleError ==
    /\ got_error' = TRUE
    /\ read_listener' = FALSE
    /\ write_listener' = FALSE
    /\ event_queue' = Queued(<< Null >>)

\* on_read_ready() when recv() fails with EPIPE, ETIMEDOUT or ECONNRESET.
ReadError ==
    /\ status = "running"
    /\ read_listener
    /\ HandleError
    /\ UNCHANGED << status, subscribed, reading, writing, scope, delivered >>

\* recv() or send() fails otherwise: the exception reaches
\* EventLoop::handle_exception(), which has no handler.
Throws ==
    /\ status = "running"
    /\ read_listener \/ write_listener
    /\ status' = "terminated"
    /\ UNCHANGED << subscribed, got_error, listeners, reading, writing, events >>

-----------------------------------------------------------------------------
(***************************************************************************)
(* Writing                                                                 *)
(***************************************************************************)

\* Does a line of the given size fit into write_buffer_?
Fits(size) == Len(write_buffer) + size <= write_buffer_limit

\* impl_send() of a line of the given size.  After an error it does nothing; a
\* line that does not fit is the sender's exception.
Send(size) ==
    /\ status = "running"
    /\ subscribed
    /\ ~ got_error
    /\ Fits(size)
    /\ accepted + size <= MaxWritten
    /\ write_buffer' = write_buffer \o [i \in 1 .. size |-> accepted + i]
    /\ accepted' = accepted + size
    /\ write_listener' = TRUE
    /\ UNCHANGED << status, subscribed, got_error, read_listener, reading, wire, events >>

\* write_buffer_ after its first pos bytes were sent.
BufferAfterSend(pos) == SubSeq(write_buffer, pos + 1, Len(write_buffer))

\* Mutant: one call is enough.
WritesOnNever(pos) == FALSE

\* Is write_listener_ left started after pos bytes?
WritesOn(pos) == pos < Len(write_buffer)

\* on_write_ready() when send() takes pos bytes, and then all is sent or the
\* socket would block.
OnWriteReady(pos) ==
    /\ status = "running"
    /\ write_listener
    /\ pos \in 1 .. Len(write_buffer)
    /\ wire' = wire \o SubSeq(write_buffer, 1, pos)
    /\ write_buffer' = BufferAfterSend(pos)
    /\ write_listener' = WritesOn(pos)
    /\ UNCHANGED << status, subscribed, got_error, read_listener, reading, accepted, events >>

\* on_write_ready() when send() fails with EPIPE, ETIMEDOUT or ECONNRESET after
\* pos bytes.
WriteError(pos) ==
    /\ status = "running"
    /\ write_listener
    /\ pos \in 0 .. Len(write_buffer) - 1
    /\ wire' = wire \o SubSeq(write_buffer, 1, pos)
    /\ write_buffer' = BufferAfterSend(pos)
    /\ HandleError
    /\ UNCHANGED << status, subscribed, reading, accepted, scope, delivered >>

-----------------------------------------------------------------------------
(***************************************************************************)
(* The owner's side                                                        *)
(***************************************************************************)

\* Mutant: events are never valid.
ValidNever(event) == event.scope > scope

\* EventScope::valid()
Valid(event) == event.scope = scope

\* EventLoop::handle_events() for one event.
HandleEvent ==
    /\ status = "running"
    /\ event_queue # << >>
    /\ event_queue' = Tail(event_queue)
    /\ delivered' = IF Valid(Head(event_queue))
                      THEN Append(delivered, Head(event_queue).packet) ELSE delivered
    /\ UNCHANGED << status, subscribed, got_error, listeners, reading, writing, scope >>

\* Mutant: what is queued stays valid.
UnsubscribeKeepingEvents ==
    /\ status = "running"
    /\ subscribed
    /\ subscribed' = FALSE
    /\ read_listener' = FALSE
    /\ write_listener' = FALSE
    /\ write_buffer' = << >>
    /\ UNCHANGED << status, got_error, reading, accepted, wire, events >>

\* Connection::unsubscribe() with impl_unsubscribe(); then the owner drops the
\* connection.  What was accepted and not sent is lost.
Unsubscribe ==
    /\ status = "running"
    /\ subscribed
    /\ subscribed' = FALSE
    /\ read_listener' = FALSE
    /\ write_listener' = FALSE
    /\ write_buffer' = << >>
    /\ scope' = scope + 1
    /\ UNCHANGED << status, got_error, reading, accepted, wire, event_queue, delivered >>

Next ==
    \/ \E b \in Byte : PeerSends(b)
    \/ PeerCloses
    \/ \E k \in 1 .. MaxRead : OnReadReady(k)
    \/ ReadError
    \/ Throws
    \/ \E size \in LineSizes : Send(size)
    \/ \E pos \in 1 .. write_buffer_limit : OnWriteReady(pos)
    \/ \E pos \in 0 .. write_buffer_limit : WriteError(pos)
    \/ HandleEvent
    \/ Unsubscribe

Spec == Init /\ [][Next]_vars

\* libev reports a readable socket again until it was read, and async_event_
\* wakes the loop as long as events are queued.
FairSpec ==
    /\ Spec
    /\ WF_vars(\E k \in 1 .. MaxRead : OnReadReady(k))
    /\ WF_vars(HandleEvent)

-----------------------------------------------------------------------------
(***************************************************************************)
(* Properties                                                              *)
(***************************************************************************)

\* The lines of a stream, by its line ends: the packets of the longest stretches
\* without a line end that are followed by one.
Frames(stream) ==
    LET ends == {e \in DOMAIN stream : stream[e] = "n"}
        begin(e) == Max({0} \cup {d \in ends : d < e}) + 1
        lines[i \in 0 .. Len(stream)] ==
           IF i = 0 THEN << >>
           ELSE lines[i - 1] \o
                (IF i \in ends THEN HandleLine(SubSeq(stream, begin(i), i - 1)) ELSE << >>)
    IN  lines[Len(stream)]

\* The packets of a sequence of packets, without the null packet.
Lines(packets) == SelectSeq(packets, LAMBDA p : p # Null)

\* Accepted bytes are not stranded: while the connection works the write listener
\* is started exactly when the buffer holds something.
WriteListenerArmed ==
    subscribed /\ ~ got_error => (write_listener <=> write_buffer # << >>)

\* What recv() has returned so far, the packets of a sequence of events, and what
\* the owner is told of an error.
Received == SubSeq(incoming, 1, taken)

PacketsOf(queue) == [i \in DOMAIN queue |-> queue[i].packet]

Error == IF got_error THEN << Null >> ELSE << >>

\* Until the owner leaves, what it has been told and what the loop still holds for it
\* are together every line that recv() has completed, each once and in order, and
\* then the error, whether reading or writing failed (handle_line, handle_error);
\* and every byte it handed over was sent or is still in write_buffer_.
NothingLost ==
    subscribed =>
       /\ delivered \o PacketsOf(event_queue) = Frames(Received) \o Error
       /\ Len(wire) + Len(write_buffer) = accepted

Channel == INSTANCE LineChannel
             WITH open <- subscribed, lines <- Frames(incoming), told <- delivered

\* However the stream is cut, whatever each send() takes and whenever the socket
\* fails or the owner leaves, the connection is the channel of LineChannel.tla: the
\* owner's bytes leave in order, none lost in between and none twice (impl_send,
\* on_write_ready); lines are told in order; an error is told once, and nothing
\* after it (handle_error); the handler is not called once the owner has unsubscribed,
\* not even for packets queued before (ScopedEventLoop::invalidate): the owner may be
\* gone.
ImplementsLineChannel == Channel!Spec

\* Every line the peer completes reaches the owner, unless the connection fails or
\* the owner leaves.
LinesDelivered ==
    \A k \in 1 .. MaxRead :
       Len(Frames(incoming)) >= k
         ~> (Len(Lines(delivered)) >= k \/ ~ subscribed \/ got_error \/ status = "terminated")
=============================================================================
