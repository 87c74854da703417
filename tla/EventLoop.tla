----------------------------- MODULE EventLoop -----------------------------
(***************************************************************************)
(* deephome/common: util/EventLoop.cpp, the queue of events that a loop's  *)
(* thread handles.                                                         *)
(*                                                                         *)
(* Three kinds of threads meet here: the owner, who starts and stops the   *)
(* loop or runs it himself; the loop's thread; and others, who enqueue at  *)
(* any time.  guard_ protects event_queue_ and is_started_ and is held for *)
(* no longer than one action.  ev_async_send() comes after the unlock, so  *)
(* it is a step of its own.                                                *)
(*                                                                         *)
(* What a handler does is left open: it may enqueue, call unloop(), and it *)
(* returns or throws.  A callback of libev that enqueues is no different   *)
(* from another thread.  The scope may be invalidated at any time: by a    *)
(* handler, by a callback of a timer, signal or socket, by a destructor.   *)
(***************************************************************************)
EXTENDS Integers, Sequences

CONSTANTS
    Thread,       \* the other threads
    Loop,         \* the loop's thread, as one that enqueues
    has_handler,  \* was an exception handler given to the constructor
    MaxEvents,    \* bound: events enqueued by handlers and other threads
    MaxStarts,    \* bound: calls of start() and run()
    MaxScope      \* bound: calls of invalidate()

ASSUME EventLoopAssumption ==
    /\ Loop \notin Thread
    /\ has_handler \in BOOLEAN
    /\ MaxEvents \in Nat /\ MaxStarts \in Nat /\ MaxScope \in Nat

\* The scope of an event that was enqueued without one.
Unscoped == -1

VARIABLES
    owner,        \* where the owner is
    loop,         \* where the loop's thread is in main_loop()
    is_started,   \* is_started_
    event_queue,  \* event_queue_: the numbers of the events
    current,      \* the event that was taken from the queue, or 0
    calling,      \* is its handler running
    active,       \* is async_event_ started
    sent,         \* was ev_async_send() called since the loop saw it
    loop_done,    \* libev's: ev_unloop() was called
    signalling,   \* the threads that have pushed and not yet signalled
    scope,        \* the value of the scope
    status,       \* "terminated": std::terminate() was called
    starts,       \* number of calls of start() and run()
    enqueued,     \* history: the scopes of all events, by number
    stops,        \* history: the events that stop() has enqueued
    called,       \* history: the events whose handler was called
    seen_start,   \* history: the events enqueued before is_started_ was set
    stop_mark     \* history: the last event that stop() has to wait for

ownerVars == << owner, starts, stop_mark, stops >>
queueVars == << event_queue, enqueued >>
asyncVars == << active, sent >>
eventVars == << current, calling, called >>
vars == << ownerVars, loop, is_started, queueVars, eventVars, asyncVars, loop_done, signalling,
           scope, status, seen_start >>

TypeOK ==
    /\ owner \in {"idle", "starting", "waiting", "up", "stopping", "joining", "running"}
    /\ loop \in {"none", "created", "entered", "announcing", "polling", "handling", "draining",
                 "closing", "ended"}
    /\ is_started \in BOOLEAN
    /\ event_queue \in Seq(1 .. Len(enqueued))
    /\ current \in 0 .. Len(enqueued)
    /\ calling \in BOOLEAN
    /\ active \in BOOLEAN
    /\ sent \in BOOLEAN
    /\ loop_done \in BOOLEAN
    /\ signalling \subseteq Thread \cup {Loop}
    /\ scope \in 0 .. MaxScope
    /\ status \in {"running", "terminated"}
    /\ starts \in 0 .. MaxStarts
    /\ enqueued \in Seq({Unscoped} \cup 0 .. MaxScope)
    /\ stops \subseteq 1 .. Len(enqueued)
    /\ called \in Seq(1 .. Len(enqueued))
    /\ seen_start \in 0 .. Len(enqueued)
    /\ stop_mark \in 0 .. Len(enqueued)

Init ==
    /\ owner = "idle"
    /\ loop = "none"
    /\ is_started = FALSE
    /\ event_queue = << >>
    /\ current = 0
    /\ calling = FALSE
    /\ active = FALSE
    /\ sent = FALSE
    /\ loop_done = FALSE
    /\ signalling = {}
    /\ scope = 0
    /\ status = "running"
    /\ starts = 0
    /\ enqueued = << >>
    /\ stops = {}
    /\ called = << >>
    /\ seen_start = 0
    /\ stop_mark = 0

-----------------------------------------------------------------------------
(***************************************************************************)
(* enqueue()                                                               *)
(***************************************************************************)

\* event_queue_ after push_back().
Pushed(event) == Append(event_queue, event)

\* The locked half of enqueue(), for an event of scope s.
Push(s) ==
    /\ event_queue' = Pushed(Len(enqueued) + 1)
    /\ enqueued' = Append(enqueued, s)

\* Mutant: only the first event of a queue is signalled.
SignallersWhenEmpty(t) == IF event_queue = << >> THEN signalling \cup {t} ELSE signalling

\* The threads that have yet to call ev_async_send() after t has pushed.
Signallers(t) == signalling \cup {t}

\* ScopedEventLoop::enqueue() in a thread, or in a handler.  The value of the scope is
\* copied before the lock is taken: another thread may push one that was invalidated
\* in between.
Enqueue(t) ==
    /\ status = "running"
    /\ t \notin signalling
    /\ t = Loop => calling
    /\ Len(enqueued) - starts < MaxEvents
    /\ \E s \in IF t = Loop THEN {scope} ELSE 0 .. scope : Push(s)
    /\ signalling' = Signallers(t)
    /\ UNCHANGED << ownerVars, loop, is_started, eventVars, asyncVars, loop_done, scope, status,
                    seen_start >>

\* ev_async_send(): libev remembers it for the next iteration.
AsyncSend(t) ==
    /\ status = "running"
    /\ t \in signalling
    /\ signalling' = signalling \ {t}
    /\ sent' = TRUE
    /\ UNCHANGED << ownerVars, loop, is_started, queueVars, eventVars, active, loop_done, scope,
                    status, seen_start >>

\* ScopedEventLoop::invalidate(), called in whatever callback or destructor.
Invalidate ==
    /\ status = "running"
    /\ scope < MaxScope
    /\ scope' = scope + 1
    /\ UNCHANGED << ownerVars, loop, is_started, queueVars, eventVars, asyncVars, loop_done,
                    signalling, status, seen_start >>

-----------------------------------------------------------------------------
(***************************************************************************)
(* The owner                                                               *)
(***************************************************************************)

\* start() up to its lock.
Start ==
    /\ status = "running"
    /\ owner = "idle"
    /\ starts < MaxStarts
    /\ owner' = "starting"
    /\ starts' = starts + 1
    /\ is_started' = FALSE
    /\ loop' = "created"
    /\ UNCHANGED << queueVars, eventVars, asyncVars, loop_done, signalling, scope, status,
                    seen_start, stop_mark, stops >>

\* The condition of the wait in start().
CheckStarted ==
    /\ status = "running"
    /\ owner = "starting"
    /\ owner' = IF is_started THEN "up" ELSE "waiting"
    /\ UNCHANGED << starts, stop_mark, stops, loop, is_started, queueVars, eventVars, asyncVars,
                    loop_done, signalling, scope, status, seen_start >>

\* A condition variable may wake up without a notification.
SpuriousWakeup ==
    /\ status = "running"
    /\ owner = "waiting"
    /\ owner' = "starting"
    /\ UNCHANGED << starts, stop_mark, stops, loop, is_started, queueVars, eventVars, asyncVars,
                    loop_done, signalling, scope, status, seen_start >>

\* run(): the owner's thread is the loop's.
Run ==
    /\ status = "running"
    /\ owner = "idle"
    /\ starts < MaxStarts
    /\ owner' = "running"
    /\ starts' = starts + 1
    /\ loop' = "created"
    /\ UNCHANGED << stop_mark, stops, is_started, queueVars, eventVars, asyncVars, loop_done,
                    signalling, scope, status, seen_start >>

\* stop() enqueues unloop().
Stop ==
    /\ status = "running"
    /\ owner = "up"
    /\ owner' = "stopping"
    /\ Push(Unscoped)
    /\ stops' = stops \cup {Len(enqueued) + 1}
    /\ stop_mark' = IF loop \in {"closing", "ended"} THEN stop_mark ELSE Len(enqueued) + 1
    /\ UNCHANGED << starts, loop, is_started, eventVars, asyncVars, loop_done, signalling, scope,
                    status, seen_start >>

StopSignal ==
    /\ status = "running"
    /\ owner = "stopping"
    /\ owner' = "joining"
    /\ sent' = TRUE
    /\ UNCHANGED << starts, stop_mark, stops, loop, is_started, queueVars, eventVars, active,
                    loop_done, signalling, scope, status, seen_start >>

\* join() in stop(), or the return from main_loop() in run().
Ended ==
    /\ status = "running"
    /\ owner \in {"joining", "running"}
    /\ loop = "ended"
    /\ owner' = "idle"
    /\ loop' = "none"
    /\ UNCHANGED << starts, stop_mark, stops, is_started, queueVars, eventVars, asyncVars,
                    loop_done, signalling, scope, status, seen_start >>

-----------------------------------------------------------------------------
(***************************************************************************)
(* The loop's thread: main_loop()                                          *)
(***************************************************************************)

\* ev_async_start(): what was sent before is forgotten.
AsyncStart ==
    /\ status = "running"
    /\ loop = "created"
    /\ loop' = "entered"
    /\ active' = TRUE
    /\ sent' = FALSE
    /\ UNCHANGED << ownerVars, is_started, queueVars, eventVars, loop_done, signalling, scope,
                    status, seen_start >>

SetStarted ==
    /\ status = "running"
    /\ loop = "entered"
    /\ loop' = "announcing"
    /\ is_started' = TRUE
    /\ seen_start' = Len(enqueued)
    /\ UNCHANGED << ownerVars, queueVars, eventVars, asyncVars, loop_done, signalling, scope,
                    status >>

\* Mutant: nobody is notified.
NotifiedNot == owner

\* Where started_.notify_all() leaves the owner.
Notified == IF owner = "waiting" THEN "starting" ELSE owner

\* notify_all(), and ev_loop() begins.
NotifyAll ==
    /\ status = "running"
    /\ loop = "announcing"
    /\ loop' = "polling"
    /\ owner' = Notified
    /\ loop_done' = FALSE
    /\ UNCHANGED << starts, stop_mark, stops, is_started, queueVars, eventVars, asyncVars,
                    signalling, scope, status, seen_start >>

\* libev calls async_event_handler().
OnAsyncEvent ==
    /\ status = "running"
    /\ loop = "polling"
    /\ active /\ sent
    /\ sent' = FALSE
    /\ loop' = "handling"
    /\ UNCHANGED << ownerVars, is_started, queueVars, eventVars, active, loop_done, signalling,
                    scope, status, seen_start >>

\* Another callback, of a signal for instance, calls unloop(): ev_loop() returns.
ListenerUnloops ==
    /\ status = "running"
    /\ loop = "polling"
    /\ loop' = "draining"
    /\ loop_done' = TRUE
    /\ UNCHANGED << ownerVars, is_started, queueVars, eventVars, asyncVars, signalling, scope,
                    status, seen_start >>

-----------------------------------------------------------------------------
(***************************************************************************)
(* handle_events(), from on_async_event() or at the end of main_loop()     *)
(***************************************************************************)

InHandleEvents == status = "running" /\ loop \in {"handling", "draining"}

TakeEvent ==
    /\ InHandleEvents
    /\ current = 0
    /\ event_queue # << >>
    /\ current' = Head(event_queue)
    /\ event_queue' = Tail(event_queue)
    /\ UNCHANGED << ownerVars, loop, is_started, enqueued, calling, called, asyncVars, loop_done,
                    signalling, scope, status, seen_start >>

\* Mutant: the scope is not looked at.
ValidAlways(event) == TRUE

\* EventScope::valid()
Valid(event) == enqueued[event] \in {Unscoped, scope}

\* The handler of the event is called if its scope is valid.
CallEvent ==
    /\ InHandleEvents
    /\ current # 0 /\ ~ calling
    /\ IF Valid(current)
         THEN calling' = TRUE /\ called' = Append(called, current) /\ UNCHANGED current
         ELSE current' = 0 /\ UNCHANGED << calling, called >>
    /\ UNCHANGED << ownerVars, loop, is_started, queueVars, asyncVars, loop_done, signalling,
                    scope, status, seen_start >>

\* The handler is unloop(), or calls it.
Unloop ==
    /\ InHandleEvents
    /\ calling /\ ~ loop_done
    /\ loop_done' = TRUE
    /\ UNCHANGED << ownerVars, loop, is_started, queueVars, eventVars, asyncVars, signalling,
                    scope, status, seen_start >>

\* The handler returns, or throws and handle_exception() has a handler to call.
Return ==
    /\ InHandleEvents
    /\ calling /\ Loop \notin signalling
    /\ current \in stops => loop_done
    /\ calling' = FALSE
    /\ current' = 0
    /\ UNCHANGED << ownerVars, loop, is_started, queueVars, called, asyncVars, loop_done,
                    signalling, scope, status, seen_start >>

\* The handler throws and there is none.
Throw ==
    /\ InHandleEvents
    /\ calling /\ current \notin stops /\ Loop \notin signalling
    /\ ~ has_handler
    /\ status' = "terminated"
    /\ UNCHANGED << ownerVars, loop, is_started, queueVars, eventVars, asyncVars, loop_done,
                    signalling, scope, seen_start >>

\* Mutant: handle_events() returns when unloop() was called.
HandledUnlooped == event_queue = << >> \/ loop_done

\* Mutant: handle_events() handles one event.
HandledOne == TRUE

\* The condition that ends the loop of handle_events().
Handled == event_queue = << >>

HandleEventsReturns ==
    /\ InHandleEvents
    /\ current = 0
    /\ Handled
    /\ loop' = IF loop = "draining" THEN "closing"
               ELSE IF loop_done THEN "draining" ELSE "polling"
    /\ UNCHANGED << ownerVars, is_started, queueVars, eventVars, asyncVars, loop_done,
                    signalling, scope, status, seen_start >>

\* ev_async_stop(), and main_loop() returns.
AsyncStop ==
    /\ status = "running"
    /\ loop = "closing"
    /\ loop' = "ended"
    /\ active' = FALSE
    /\ UNCHANGED << ownerVars, is_started, queueVars, eventVars, sent, loop_done, signalling,
                    scope, status, seen_start >>

-----------------------------------------------------------------------------
\* The steps of a thread that are not a choice of its caller.
LoopThread ==
    \/ AsyncStart
    \/ SetStarted
    \/ NotifyAll
    \/ OnAsyncEvent
    \/ TakeEvent
    \/ CallEvent
    \/ Unloop
    \/ Return
    \/ HandleEventsReturns
    \/ AsyncStop
    \/ AsyncSend(Loop)

OwnerThread == CheckStarted \/ StopSignal \/ Ended

Next ==
    \/ LoopThread
    \/ OwnerThread
    \/ Start
    \/ Run
    \/ Stop
    \/ SpuriousWakeup
    \/ ListenerUnloops
    \/ Invalidate
    \/ Throw
    \/ \E t \in Thread \cup {Loop} : Enqueue(t)
    \/ \E t \in Thread : AsyncSend(t)

Spec == Init /\ [][Next]_vars

\* The system schedules every thread that is not waiting, a handler comes to its
\* end, and libev reports async_event_ once it was sent.
FairSpec ==
    /\ Spec
    /\ WF_vars(LoopThread)
    /\ WF_vars(OwnerThread)
    /\ \A t \in Thread : WF_vars(AsyncSend(t))

-----------------------------------------------------------------------------
(***************************************************************************)
(* Properties                                                              *)
(***************************************************************************)

\* The events that were dealt with: called, or dropped with their scope.
Dealt ==
    Len(enqueued) - Len(event_queue) - (IF current # 0 /\ ~ calling THEN 1 ELSE 0)

Executor == INSTANCE SerialExecutor WITH submitted <- enqueued, dealt <- Dealt, busy <- calling

\* Whatever the threads do, and over any number of starts and stops, those who
\* enqueue get the executor of SerialExecutor.tla: each event once, in order, one
\* at a time, and none of a scope that was invalidated (enqueue, handle_events).
ImplementsExecutor == Executor!Spec

Waiting == {event_queue[i] : i \in DOMAIN event_queue}

\* No wakeup is lost: when the loop sleeps in ev_loop() while an event is queued
\* that was enqueued after is_started_ was set, then ev_async_send() was called or
\* will be.  So enqueue() may signal after it has unlocked, main_loop() may signal
\* the start before it polls, and an event that comes between the last look at
\* the queue and the poll is seen.
WakeupPending ==
    /\ loop = "polling" /\ (\E e \in Waiting : e > seen_start)
         => sent \/ signalling # {} \/ owner = "stopping"
    /\ owner = "up" => active \/ loop = "ended"

\* stop() of a loop that was still running returns after every event enqueued
\* before it: main_loop() does not end before they were handled.
StopDrains ==
    status = "running" /\ loop \in {"none", "closing", "ended"} => Dealt >= stop_mark

\* start() and stop() return, unless the program is terminated: the notification
\* is not missed and the thread that stop() joins comes to its end.
CallsReturn ==
    /\ owner \in {"starting", "waiting"} ~> owner = "up" \/ status = "terminated"
    /\ owner \in {"stopping", "joining"} ~> owner = "idle" \/ status = "terminated"

\* An event enqueued after the start is handled, unless the loop ends first.
EventsHandled ==
    \A n \in 1 .. MaxEvents + MaxStarts :
       n \in Waiting /\ n > seen_start /\ loop = "polling"
         ~> Dealt >= n \/ ~ active \/ status = "terminated"
=============================================================================
