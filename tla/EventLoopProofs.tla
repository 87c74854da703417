-------------------------- MODULE EventLoopProofs --------------------------
(***************************************************************************)
(* The event loop, for any number of threads, events and starts: it is the *)
(* executor of SerialExecutor.tla, it loses no wakeup, and stop() drains.  *)
(*                                                                         *)
(* Everything rests on what the queue holds: the last numbers that were    *)
(* given out, in order, and before them the event that was taken           *)
(* (QueueInv); and on which states of the owner and of the loop's thread   *)
(* go together (ThreadsInv).                                               *)
(***************************************************************************)
EXTENDS EventLoop, TLAPS

\* How many events have left the queue.
Gone == Len(enqueued) - Len(event_queue)

\* The queue holds the last events in the order of their numbers, and the event
\* that was taken is the one before them.
QueueInv ==
    /\ Len(event_queue) <= Len(enqueued)
    /\ \A i \in 1 .. Len(event_queue) : event_queue[i] = Gone + i
    /\ current # 0 => current = Gone
    /\ calling => current # 0

\* The loop's thread once is_started_ was set.
Announced == {"announcing", "polling", "handling", "draining", "closing", "ended"}

\* The owner who has seen that the loop has started.
Seen == {"up", "stopping", "joining"}

ThreadsInv ==
    /\ owner = "idle" <=> loop = "none"
    /\ active <=> loop \in {"entered"} \cup (Announced \ {"ended"})
    /\ owner \in {"starting", "waiting"} /\ is_started => loop \in Announced
    /\ owner \in Seen => loop \in Announced

\* Somebody has sent, or is about to.
Signalled == sent \/ signalling # {} \/ owner = "stopping"

\* WakeupPending needs to hold from the moment at which is_started_ is set.
SignalInv ==
    loop \in {"announcing", "polling"} /\ (\E e \in Waiting : e > seen_start) => Signalled

\* StopDrains, terminated or not.
DrainInv == loop \in {"none", "closing", "ended"} => Dealt >= stop_mark

EventLoopInv == TypeOK /\ QueueInv /\ ThreadsInv /\ SignalInv /\ DrainInv

-----------------------------------------------------------------------------
(***************************************************************************)
(* Types                                                                   *)
(***************************************************************************)

\* What is a sequence of event numbers stays one when there are more events.
LEMMA SeqOfMoreEvents ==
    ASSUME NEW n \in Nat, NEW s \in Seq(1 .. n)
    PROVE  s \in Seq(1 .. n + 1)
<1>1. 1 .. n \subseteq 1 .. n + 1
  OBVIOUS
<1> QED
  BY <1>1

LEMMA TypeInitially == Init => TypeOK
<1> SUFFICES ASSUME Init PROVE TypeOK
  OBVIOUS
<1>1. is_started \in BOOLEAN /\ calling \in BOOLEAN /\ active \in BOOLEAN
  BY Zenon DEF Init
<1>2. sent \in BOOLEAN /\ loop_done \in BOOLEAN
  BY Zenon DEF Init
<1>3. Len(enqueued) = 0 /\ enqueued = << >> /\ event_queue = << >> /\ called = << >>
  BY DEF Init
<1>4. /\ current = 0 /\ scope = 0 /\ starts = 0 /\ seen_start = 0 /\ stop_mark = 0
      /\ stops = {} /\ signalling = {}
      /\ owner = "idle" /\ loop = "none" /\ status = "running"
  BY DEF Init
<1> QED
  BY <1>1, <1>2, <1>3, <1>4, EventLoopAssumption DEF TypeOK

\* enqueue() in its locked half: every number that was in use still is, and the
\* new one is in the queue.
LEMMA PushType ==
    ASSUME TypeOK, NEW s \in {Unscoped} \cup 0 .. MaxScope, Push(s)
    PROVE  /\ enqueued' \in Seq({Unscoped} \cup 0 .. MaxScope)
           /\ Len(enqueued') = Len(enqueued) + 1
           /\ event_queue' \in Seq(1 .. Len(enqueued'))
           /\ called \in Seq(1 .. Len(enqueued'))
           /\ current \in 0 .. Len(enqueued')
           /\ stops \subseteq 1 .. Len(enqueued')
           /\ seen_start \in 0 .. Len(enqueued')
           /\ stop_mark \in 0 .. Len(enqueued')
<1> DEFINE n == Len(enqueued)
<1>1. /\ enqueued \in Seq({Unscoped} \cup 0 .. MaxScope)
      /\ n \in Nat
      /\ event_queue \in Seq(1 .. n)
      /\ called \in Seq(1 .. n)
      /\ current \in 0 .. n
      /\ stops \subseteq 1 .. n
      /\ seen_start \in 0 .. n
      /\ stop_mark \in 0 .. n
  BY DEF TypeOK
<1>2. /\ enqueued' \in Seq({Unscoped} \cup 0 .. MaxScope)
      /\ Len(enqueued') = n + 1
  BY <1>1 DEF Push
<1>3. event_queue' = Append(event_queue, n + 1)
  BY DEF Push, Pushed
<1> HIDE DEF n
<1>4. event_queue \in Seq(1 .. n + 1) /\ called \in Seq(1 .. n + 1)
  BY <1>1, SeqOfMoreEvents
<1>5. event_queue' \in Seq(1 .. n + 1)
  BY <1>1, <1>3, <1>4
<1> QED
  BY <1>1, <1>2, <1>4, <1>5 DEF n

LEMMA TypeInductive == TypeOK /\ [Next]_vars => TypeOK'
<1> SUFFICES ASSUME TypeOK, [Next]_vars PROVE TypeOK'
  OBVIOUS
<1> USE DEF ownerVars, queueVars, eventVars, asyncVars
\* Those who enqueue.
<1>1. ASSUME NEW t \in Thread \cup {Loop}, Enqueue(t)
      PROVE  TypeOK'
  <2>1. PICK s \in {Unscoped} \cup 0 .. MaxScope : Push(s)
    <3>1. PICK s \in IF t = Loop THEN {scope} ELSE 0 .. scope : Push(s)
      BY <1>1 DEF Enqueue
    <3>2. scope \in 0 .. MaxScope /\ MaxScope \in Nat
      BY EventLoopAssumption DEF TypeOK
    <3>3. s \in 0 .. MaxScope
      BY <3>1, <3>2
    <3> QED
      BY <3>1, <3>3
  <2>2. signalling' \subseteq Thread \cup {Loop}
    BY <1>1 DEF Enqueue, Signallers, TypeOK
  <2> QED
    BY <1>1, <2>1, <2>2, PushType DEF Enqueue, TypeOK
<1>2. CASE Stop
  <2>1. Unscoped \in {Unscoped} \cup 0 .. MaxScope /\ Push(Unscoped)
    BY <1>2 DEF Stop
  <2>2. Len(enqueued) \in Nat /\ Len(enqueued') = Len(enqueued) + 1
    BY <2>1, PushType DEF TypeOK
  <2>3. stops' \subseteq 1 .. Len(enqueued') /\ stop_mark' \in 0 .. Len(enqueued')
    BY <1>2, <2>1, <2>2, PushType DEF Stop
  <2> QED
    BY <1>2, <2>1, <2>3, PushType DEF Stop, TypeOK
<1>3. ASSUME NEW t \in Thread \cup {Loop}, AsyncSend(t)
      PROVE  TypeOK'
  BY <1>3 DEF AsyncSend, TypeOK
\* The owner.
<1>4. CASE Start
  <2>1. is_started' \in BOOLEAN
    BY <1>4, Zenon DEF Start
  <2> QED
    BY <1>4, <2>1, EventLoopAssumption DEF Start, TypeOK
<1>5. CASE CheckStarted
  BY <1>5 DEF CheckStarted, TypeOK
<1>6. CASE SpuriousWakeup
  BY <1>6 DEF SpuriousWakeup, TypeOK
<1>7. CASE Run
  BY <1>7, EventLoopAssumption DEF Run, TypeOK
<1>8. CASE StopSignal
  BY <1>8 DEF StopSignal, TypeOK
<1>9. CASE Ended
  BY <1>9 DEF Ended, TypeOK
\* The loop's thread.
<1>10. CASE AsyncStart
  BY <1>10 DEF AsyncStart, TypeOK
<1>11. CASE SetStarted
  BY <1>11 DEF SetStarted, TypeOK
<1>12. CASE NotifyAll
  BY <1>12 DEF NotifyAll, Notified, TypeOK
<1>13. CASE OnAsyncEvent
  BY <1>13 DEF OnAsyncEvent, TypeOK
<1>14. CASE ListenerUnloops
  BY <1>14 DEF ListenerUnloops, TypeOK
<1>15. CASE TakeEvent
  <2>1. current' \in 0 .. Len(enqueued) /\ event_queue' \in Seq(1 .. Len(enqueued))
    BY <1>15 DEF TakeEvent, TypeOK
  <2> QED
    BY <1>15, <2>1 DEF TakeEvent, TypeOK
<1>16. CASE CallEvent
  <2>1. current \in 1 .. Len(enqueued) /\ called \in Seq(1 .. Len(enqueued))
    BY <1>16 DEF CallEvent, TypeOK
  <2>2. called' \in Seq(1 .. Len(enqueued))
    BY <1>16, <2>1 DEF CallEvent
  <2>3. calling' \in BOOLEAN
    BY <1>16, Zenon DEF CallEvent, TypeOK
  <2>4. current' \in 0 .. Len(enqueued)
    BY <1>16, <2>1 DEF CallEvent
  <2> QED
    BY <1>16, <2>2, <2>3, <2>4 DEF CallEvent, TypeOK
<1>17. CASE Invalidate
  BY <1>17, EventLoopAssumption DEF Invalidate, TypeOK
<1>18. CASE Unloop
  BY <1>18 DEF Unloop, TypeOK
<1>19. CASE Return
  <2>1. calling' \in BOOLEAN /\ current' = 0
    BY <1>19, Zenon DEF Return
  <2> QED
    BY <1>19, <2>1 DEF Return, TypeOK
<1>20. CASE Throw
  BY <1>20 DEF Throw, TypeOK
<1>21. CASE HandleEventsReturns
  BY <1>21 DEF HandleEventsReturns, InHandleEvents, TypeOK
<1>22. CASE AsyncStop
  BY <1>22 DEF AsyncStop, TypeOK
<1>23. CASE UNCHANGED vars
  BY <1>23 DEF vars, TypeOK
<1> QED
  BY <1>1, <1>2, <1>3, <1>4, <1>5, <1>6, <1>7, <1>8, <1>9, <1>10, <1>11, <1>12, <1>13, <1>14,
     <1>15, <1>16, <1>17, <1>18, <1>19, <1>20, <1>21, <1>22, <1>23
     DEF Next, LoopThread, OwnerThread

-----------------------------------------------------------------------------
(***************************************************************************)
(* The queue                                                               *)
(***************************************************************************)

\* The steps that change the queue or the event that was taken from it.
LEMMA QueueSteps ==
    ASSUME TypeOK, [Next]_vars
    PROVE  \/ \E s \in 0 .. scope \cup {Unscoped} : Push(s) /\ UNCHANGED << eventVars, scope >>
           \/ TakeEvent
           \/ CallEvent
           \/ Return
           \/ UNCHANGED << queueVars, eventVars >>
<1> USE DEF ownerVars, queueVars, eventVars, asyncVars
<1>1. ASSUME NEW t \in Thread \cup {Loop}, Enqueue(t)
      PROVE  \E s \in 0 .. scope \cup {Unscoped} : Push(s) /\ UNCHANGED << eventVars, scope >>
  BY <1>1, EventLoopAssumption DEF Enqueue, TypeOK
<1>2. CASE Stop
  BY <1>2 DEF Stop
<1>3. ASSUME NEW t \in Thread \cup {Loop}, AsyncSend(t)
      PROVE  UNCHANGED << queueVars, eventVars >>
  BY <1>3 DEF AsyncSend
<1>4. CASE Start \/ Run \/ SpuriousWakeup \/ OwnerThread
  BY <1>4 DEF Start, Run, SpuriousWakeup, OwnerThread, CheckStarted, StopSignal, Ended
<1>5. CASE AsyncStart \/ SetStarted \/ NotifyAll \/ OnAsyncEvent \/ ListenerUnloops
  BY <1>5 DEF AsyncStart, SetStarted, NotifyAll, OnAsyncEvent, ListenerUnloops
<1>6. CASE Invalidate \/ Unloop \/ Throw \/ HandleEventsReturns \/ AsyncStop
  BY <1>6 DEF Invalidate, Unloop, Throw, HandleEventsReturns, AsyncStop
<1>7. CASE UNCHANGED vars
  BY <1>7 DEF vars
<1> QED
  BY <1>1, <1>2, <1>3, <1>4, <1>5, <1>6, <1>7 DEF Next, LoopThread

\* The event that is taken is the next number.
LEMMA TakenIsNext ==
    ASSUME TypeOK, QueueInv, TakeEvent
    PROVE  /\ current' = Gone + 1
           /\ Len(event_queue') = Len(event_queue) - 1
           /\ \A i \in 1 .. Len(event_queue') : event_queue'[i] = event_queue[i + 1]
           /\ Gone' = Gone + 1
           /\ Gone \in Nat
<1>1. Len(enqueued) \in Nat /\ event_queue \in Seq(1 .. Len(enqueued)) /\ event_queue # << >>
  BY DEF TypeOK, TakeEvent
<1>2. event_queue' = Tail(event_queue) /\ current' = event_queue[1] /\ enqueued' = enqueued
  BY DEF TakeEvent
<1>3. Len(event_queue) \in Nat \ {0} /\ Len(event_queue') = Len(event_queue) - 1
  BY <1>1, <1>2
<1>4. \A i \in 1 .. Len(event_queue') : event_queue'[i] = event_queue[i + 1]
  BY <1>1, <1>2, <1>3
<1>5. current' = Gone + 1
  BY <1>2, <1>3 DEF QueueInv
<1>6. Gone' = Gone + 1 /\ Gone \in Nat
  BY <1>1, <1>2, <1>3 DEF Gone, QueueInv
<1> QED
  BY <1>3, <1>4, <1>5, <1>6

LEMMA QueueInductive ==
    TypeOK /\ QueueInv /\ [Next]_vars => QueueInv'
<1> SUFFICES ASSUME TypeOK, QueueInv, [Next]_vars PROVE QueueInv'
  OBVIOUS
<1>0. /\ Len(enqueued) \in Nat
      /\ Len(event_queue) \in Nat
      /\ event_queue \in Seq(1 .. Len(enqueued))
      /\ enqueued \in Seq({Unscoped} \cup 0 .. MaxScope)
      /\ current \in 0 .. Len(enqueued)
  BY DEF TypeOK
<1>1. ASSUME NEW s \in 0 .. scope \cup {Unscoped}, Push(s), UNCHANGED << eventVars, scope >>
      PROVE  QueueInv'
  <2>1. Len(enqueued') = Len(enqueued) + 1 /\ Len(event_queue') = Len(event_queue) + 1
    BY <1>0, <1>1 DEF Push, Pushed
  <2>2. Gone' = Gone /\ Gone = Len(enqueued) - Len(event_queue)
    BY <1>0, <2>1 DEF Gone
  <2>3. ASSUME NEW i \in 1 .. Len(event_queue')
        PROVE  event_queue'[i] = Gone' + i
    <3>1. CASE i = Len(event_queue')
      BY <1>0, <1>1, <2>1, <2>2, <3>1 DEF Push, Pushed
    <3>2. CASE i # Len(event_queue')
      <4>1. i \in 1 .. Len(event_queue)
        BY <1>0, <2>1, <3>2
      <4>2. event_queue'[i] = event_queue[i]
        BY <1>0, <1>1, <4>1 DEF Push, Pushed
      <4> QED
        BY <2>2, <4>1, <4>2 DEF QueueInv
    <3> QED
      BY <3>1, <3>2
  <2>4. current' = current /\ calling' = calling
    BY <1>1 DEF eventVars
  <2> QED
    BY <1>0, <2>1, <2>2, <2>3, <2>4 DEF QueueInv
<1>2. CASE TakeEvent
  <2>1. enqueued' = enqueued /\ calling' = calling /\ current = 0
    BY <1>2 DEF TakeEvent
  <2>2. ~ calling'
    BY <2>1 DEF QueueInv
  <2>3. ASSUME NEW i \in 1 .. Len(event_queue')
        PROVE  event_queue'[i] = Gone' + i
    <3>1. i + 1 \in 1 .. Len(event_queue) /\ event_queue'[i] = event_queue[i + 1]
      BY <1>0, <1>2, TakenIsNext
    <3>2. event_queue[i + 1] = Gone + (i + 1)
      BY <3>1 DEF QueueInv
    <3>3. Gone' = Gone + 1 /\ Gone \in Nat
      BY <1>2, TakenIsNext
    <3> QED
      BY <3>1, <3>2, <3>3
  <2>4. Len(event_queue') <= Len(enqueued') /\ current' = Gone'
    BY <1>0, <1>2, <2>1, TakenIsNext DEF QueueInv
  <2> QED
    BY <2>2, <2>3, <2>4 DEF QueueInv
<1>3. CASE CallEvent
  <2>1. UNCHANGED << event_queue, enqueued >> /\ Gone' = Gone
    BY <1>3 DEF CallEvent, Gone, queueVars
  <2>2. CASE Valid(current)
    <3>1. current' = current /\ current # 0
      BY <1>3, <2>2 DEF CallEvent
    <3> QED
      BY <2>1, <3>1 DEF QueueInv
  <2>3. CASE ~ Valid(current)
    <3>1. current' = 0 /\ calling' = calling /\ ~ calling
      BY <1>3, <2>3 DEF CallEvent
    <3> QED
      BY <2>1, <3>1 DEF QueueInv
  <2> QED
    BY <2>2, <2>3
<1>4. CASE Return
  <2>1. UNCHANGED << event_queue, enqueued >> /\ Gone' = Gone
    BY <1>4 DEF Return, Gone, queueVars
  <2>2. current' = 0 /\ ~ calling'
    BY <1>4 DEF Return
  <2> QED
    BY <2>1, <2>2 DEF QueueInv
<1>5. CASE UNCHANGED << queueVars, eventVars >>
  BY <1>5 DEF QueueInv, Gone, queueVars, eventVars
<1> QED
  BY <1>1, <1>2, <1>3, <1>4, <1>5, QueueSteps

-----------------------------------------------------------------------------
(***************************************************************************)
(* The owner and the loop's thread                                         *)
(***************************************************************************)

LEMMA ThreadsInductive ==
    TypeOK /\ ThreadsInv /\ [Next]_vars => ThreadsInv'
<1> SUFFICES ASSUME TypeOK, ThreadsInv, [Next]_vars PROVE ThreadsInv'
  OBVIOUS
<1> USE DEF ownerVars, asyncVars, Announced, Seen, ThreadsInv
<1>1. ASSUME NEW t \in Thread \cup {Loop}, Enqueue(t) \/ AsyncSend(t)
      PROVE  ThreadsInv'
  BY <1>1 DEF Enqueue, AsyncSend
<1>2. CASE Stop
  BY <1>2 DEF Stop
<1>3. CASE Start
  BY <1>3 DEF Start
<1>4. CASE Run
  BY <1>4 DEF Run
<1>5. CASE SpuriousWakeup
  BY <1>5 DEF SpuriousWakeup
<1>6. CASE CheckStarted
  BY <1>6 DEF CheckStarted
<1>7. CASE StopSignal
  BY <1>7 DEF StopSignal
<1>8. CASE Ended
  BY <1>8 DEF Ended
<1>9. CASE AsyncStart
  BY <1>9 DEF AsyncStart
<1>10. CASE SetStarted
  BY <1>10 DEF SetStarted
<1>11. CASE NotifyAll
  BY <1>11 DEF NotifyAll, Notified
<1>12. CASE OnAsyncEvent \/ ListenerUnloops
  BY <1>12 DEF OnAsyncEvent, ListenerUnloops
<1>13. CASE TakeEvent \/ CallEvent \/ Invalidate \/ Unloop \/ Return \/ Throw
  BY <1>13 DEF TakeEvent, CallEvent, Invalidate, Unloop, Return, Throw
<1>14. CASE HandleEventsReturns
  BY <1>14 DEF HandleEventsReturns, InHandleEvents
<1>15. CASE AsyncStop
  BY <1>15 DEF AsyncStop
<1>16. CASE UNCHANGED vars
  BY <1>16 DEF vars
<1> QED
  BY <1>1, <1>2, <1>3, <1>4, <1>5, <1>6, <1>7, <1>8, <1>9, <1>10, <1>11, <1>12, <1>13, <1>14,
     <1>15, <1>16 DEF Next, LoopThread, OwnerThread

-----------------------------------------------------------------------------
(***************************************************************************)
(* Wakeups                                                                 *)
(***************************************************************************)

\* What is pushed is signalled by the one who has pushed it; is_started_ is set
\* when nothing newer is queued; and the loop goes back to sleep with an empty
\* queue.
LEMMA SignalInductive ==
    TypeOK /\ QueueInv /\ SignalInv /\ [Next]_vars => SignalInv'
<1> SUFFICES ASSUME TypeOK, QueueInv, SignalInv, [Next]_vars PROVE SignalInv'
  OBVIOUS
<1> USE DEF ownerVars, queueVars, eventVars, asyncVars
<1>1. ASSUME NEW t \in Thread \cup {Loop}, Enqueue(t) \/ AsyncSend(t)
      PROVE  SignalInv'
  <2>1. Signalled'
    BY <1>1 DEF Enqueue, Signallers, AsyncSend, Signalled
  <2> QED
    BY <2>1 DEF SignalInv
<1>2. CASE Stop \/ StopSignal
  <2>1. Signalled'
    BY <1>2 DEF Stop, StopSignal, Signalled
  <2> QED
    BY <2>1 DEF SignalInv
<1>3. CASE loop' \notin {"announcing", "polling"}
  BY <1>3 DEF SignalInv
<1>4. CASE SetStarted
  <2>1. seen_start' = Len(enqueued) /\ event_queue' = event_queue
    BY <1>4 DEF SetStarted
  <2>2. ASSUME NEW e \in Waiting' PROVE ~ (e > seen_start')
    BY <2>1 DEF Waiting, TypeOK
  <2> QED
    BY <2>2 DEF SignalInv
<1>5. CASE HandleEventsReturns
  <2>1. event_queue' = << >>
    BY <1>5 DEF HandleEventsReturns, Handled
  <2>2. Waiting' = {}
    BY <2>1 DEF Waiting
  <2> QED
    BY <2>2 DEF SignalInv
\* In the other steps the loop was one of the two before, and nothing of what
\* matters has changed.
<1>6. ASSUME loop \in {"announcing", "polling"},
             UNCHANGED << event_queue, seen_start, sent, signalling >>,
             owner = "stopping" => owner' = "stopping"
      PROVE  SignalInv'
  BY <1>6 DEF SignalInv, Signalled, Waiting
<1>7. CASE NotifyAll
  BY <1>6, <1>7 DEF NotifyAll, Notified
<1>8. CASE CheckStarted \/ SpuriousWakeup
  BY <1>3, <1>6, <1>8 DEF CheckStarted, SpuriousWakeup
<1>9. CASE Start \/ Run \/ Ended
  BY <1>3, <1>9 DEF Start, Run, Ended
<1>10. CASE AsyncStart \/ OnAsyncEvent \/ ListenerUnloops \/ AsyncStop
  BY <1>3, <1>10 DEF AsyncStart, OnAsyncEvent, ListenerUnloops, AsyncStop
<1>11. CASE TakeEvent \/ CallEvent \/ Unloop \/ Return \/ Throw
  BY <1>3, <1>11 DEF TakeEvent, CallEvent, Unloop, Return, Throw, InHandleEvents
<1>12. CASE UNCHANGED vars
  BY <1>3, <1>6, <1>12 DEF vars
<1>13. CASE Invalidate
  BY <1>3, <1>6, <1>13 DEF Invalidate
<1> QED
  BY <1>1, <1>2, <1>4, <1>5, <1>7, <1>8, <1>9, <1>10, <1>11, <1>12, <1>13
     DEF Next, LoopThread, OwnerThread

-----------------------------------------------------------------------------
(***************************************************************************)
(* What was dealt with                                                     *)
(***************************************************************************)

\* Dealt is what has left the queue, without an event that was taken and not yet
\* looked at.
LEMMA DealtValue ==
    ASSUME TypeOK, QueueInv
    PROVE  /\ Dealt \in 0 .. Len(enqueued)
           /\ current = 0 => Dealt = Gone
           /\ calling => Dealt = Gone
           /\ current # 0 /\ ~ calling => Dealt = current - 1
<1>1. Len(enqueued) \in Nat /\ Len(event_queue) \in Nat /\ current \in 0 .. Len(enqueued)
  BY DEF TypeOK
<1>2. Gone \in 0 .. Len(enqueued)
  BY <1>1 DEF Gone, QueueInv
<1>3. CASE current # 0 /\ ~ calling
  <2>1. Dealt = Gone - 1 /\ current = Gone
    BY <1>1, <1>3 DEF Dealt, Gone, QueueInv
  <2> QED
    BY <1>1, <1>2, <1>3, <2>1
<1>4. CASE ~ (current # 0 /\ ~ calling)
  <2>1. Dealt = Gone
    BY <1>1, <1>4 DEF Dealt, Gone
  <2> QED
    BY <1>2, <1>4, <2>1
<1> QED
  BY <1>3, <1>4

\* Only looking at an event changes what was dealt with.
LEMMA DealtSteps ==
    ASSUME TypeOK, QueueInv, [Next]_vars
    PROVE  CallEvent \/ Dealt' = Dealt
<1>0. /\ Len(enqueued) \in Nat
      /\ Len(event_queue) \in Nat
      /\ event_queue \in Seq(1 .. Len(enqueued))
      /\ enqueued \in Seq({Unscoped} \cup 0 .. MaxScope)
  BY DEF TypeOK
<1>1. ASSUME NEW s \in 0 .. scope \cup {Unscoped}, Push(s), UNCHANGED << eventVars, scope >>
      PROVE  Dealt' = Dealt
  <2>1. Len(enqueued') = Len(enqueued) + 1 /\ Len(event_queue') = Len(event_queue) + 1
    BY <1>0, <1>1 DEF Push, Pushed
  <2>2. current' = current /\ calling' = calling
    BY <1>1 DEF eventVars
  <2> QED
    BY <1>0, <2>1, <2>2 DEF Dealt
<1>2. CASE TakeEvent
  <2>1. current = 0 /\ calling' = calling /\ ~ calling /\ enqueued' = enqueued
    BY <1>2 DEF TakeEvent, QueueInv
  <2>2. current' # 0 /\ Len(event_queue') = Len(event_queue) - 1
    BY <1>2, TakenIsNext
  <2> QED
    BY <1>0, <2>1, <2>2 DEF Dealt
<1>3. CASE Return
  <2>1. calling /\ current' = 0 /\ ~ calling' /\ UNCHANGED << event_queue, enqueued >>
    BY <1>3 DEF Return, queueVars
  <2> QED
    BY <1>0, <2>1 DEF Dealt
<1>4. CASE UNCHANGED << queueVars, eventVars >>
  BY <1>4 DEF Dealt, queueVars, eventVars
<1> QED
  BY <1>1, <1>2, <1>3, <1>4, QueueSteps

\* The loop's thread ends with an empty queue, and what is enqueued after that is
\* not waited for.
LEMMA DrainInductive ==
    TypeOK /\ QueueInv /\ ThreadsInv /\ DrainInv /\ [Next]_vars => DrainInv'
<1> SUFFICES ASSUME TypeOK, QueueInv, ThreadsInv, DrainInv, [Next]_vars,
                    loop' \in {"none", "closing", "ended"}
             PROVE  Dealt' >= stop_mark'
  BY DEF DrainInv
<1> USE DEF ownerVars, queueVars, eventVars, asyncVars
<1>1. CASE HandleEventsReturns
  <2>1. event_queue = << >> /\ current = 0 /\ stop_mark' = stop_mark
    BY <1>1 DEF HandleEventsReturns, Handled
  <2>2. Gone = Len(enqueued) /\ stop_mark \in 0 .. Len(enqueued)
    BY <2>1 DEF Gone, TypeOK
  <2>3. Dealt = Len(enqueued)
    BY <2>1, <2>2, DealtValue
  <2>4. Dealt' = Dealt
    BY <1>1 DEF HandleEventsReturns, Dealt
  <2> QED
    BY <2>1, <2>2, <2>3, <2>4
<1>2. ASSUME loop \in {"none", "closing", "ended"}, stop_mark' = stop_mark, ~ CallEvent
      PROVE  Dealt' >= stop_mark'
  BY <1>2, DealtSteps DEF DrainInv
<1>3. CASE CallEvent \/ TakeEvent \/ Unloop \/ Return \/ Throw
  <2>1. loop \in {"handling", "draining"} /\ loop' = loop
    BY <1>3 DEF TakeEvent, CallEvent, Unloop, Return, Throw, InHandleEvents
  <2> QED
    BY <2>1
<1>4. CASE Stop
  <2>1. loop' = loop /\ loop # "none" /\ ~ CallEvent
    BY <1>4 DEF Stop, ThreadsInv, CallEvent
  <2>2. stop_mark' = stop_mark
    BY <1>4, <2>1 DEF Stop
  <2> QED
    BY <1>2, <2>1, <2>2
<1>5. ASSUME NEW t \in Thread \cup {Loop}, Enqueue(t) \/ AsyncSend(t)
      PROVE  Dealt' >= stop_mark'
  <2>1. loop' = loop /\ stop_mark' = stop_mark
    BY <1>5 DEF Enqueue, AsyncSend
  <2> QED
    BY <1>2, <1>3, <2>1
<1>6. CASE Start \/ Run \/ AsyncStart \/ SetStarted \/ NotifyAll \/ OnAsyncEvent \/ ListenerUnloops
  <2>1. loop' \in {"created", "entered", "announcing", "polling", "handling", "draining"}
    BY <1>6 DEF Start, Run, AsyncStart, SetStarted, NotifyAll, OnAsyncEvent, ListenerUnloops
  <2> QED
    BY <2>1
<1>7. CASE SpuriousWakeup \/ CheckStarted \/ StopSignal \/ Ended \/ AsyncStop \/ Invalidate
  <2>1. stop_mark' = stop_mark /\ loop \in {"none", "closing", "ended"}
    BY <1>7 DEF SpuriousWakeup, CheckStarted, StopSignal, Ended, AsyncStop, Invalidate
  <2> QED
    BY <1>2, <1>3, <2>1
<1>8. CASE UNCHANGED vars
  <2>1. stop_mark' = stop_mark /\ loop' = loop
    BY <1>8 DEF vars
  <2> QED
    BY <1>2, <1>3, <2>1
<1> QED
  BY <1>1, <1>3, <1>4, <1>5, <1>6, <1>7, <1>8 DEF Next, LoopThread, OwnerThread

-----------------------------------------------------------------------------
(***************************************************************************)
(* The theorems                                                            *)
(***************************************************************************)

LEMMA InvInitially == Init => EventLoopInv
<1> SUFFICES ASSUME Init PROVE EventLoopInv
  OBVIOUS
<1>1. TypeOK
  BY TypeInitially
<1>2. QueueInv /\ Gone = 0
  BY DEF Init, QueueInv, Gone
<1>3. ThreadsInv
  BY DEF Init, ThreadsInv, Announced, Seen
<1>4. SignalInv
  BY DEF Init, SignalInv
<1>5. Dealt = 0 /\ stop_mark = 0
  BY <1>1, <1>2, DealtValue DEF Init
<1> QED
  BY <1>1, <1>2, <1>3, <1>4, <1>5 DEF EventLoopInv, DrainInv

LEMMA InvInductive == EventLoopInv /\ [Next]_vars => EventLoopInv'
  BY TypeInductive, QueueInductive, ThreadsInductive, SignalInductive, DrainInductive
     DEF EventLoopInv

LEMMA EventLoopInvariant == Spec => []EventLoopInv
  BY InvInitially, InvInductive, PTL DEF Spec

\* The variables keep their types: in particular every number in the queue and in
\* the histories is that of an event.
THEOREM EventLoopTypeCorrect == Spec => []TypeOK
<1>1. EventLoopInv => TypeOK
  BY DEF EventLoopInv
<1> QED
  BY EventLoopInvariant, <1>1, PTL

\* No wakeup is lost, however many threads enqueue: enqueue() may signal after it
\* has unlocked (main_loop, enqueue).
THEOREM NoWakeupLost == Spec => []WakeupPending
<1>1. EventLoopInv => WakeupPending
  BY DEF EventLoopInv, WakeupPending, SignalInv, Signalled, ThreadsInv, Announced, Seen
<1> QED
  BY EventLoopInvariant, <1>1, PTL

\* When main_loop() of a loop that was stopped ends, every event that was enqueued
\* before stop() was handled.
THEOREM StopAlwaysDrains == Spec => []StopDrains
<1>1. EventLoopInv => StopDrains
  BY DEF EventLoopInv, StopDrains, DrainInv
<1> QED
  BY EventLoopInvariant, <1>1, PTL

-----------------------------------------------------------------------------
(***************************************************************************)
(* The refinement                                                          *)
(***************************************************************************)

LEMMA ExecutorInitially == Init => Executor!Init
<1> SUFFICES ASSUME Init PROVE Executor!Init
  OBVIOUS
<1>1. EventLoopInv
  BY InvInitially
<1>2. Gone = 0 /\ current = 0
  BY DEF Init, Gone
<1>3. Dealt = 0
  BY <1>1, <1>2, DealtValue DEF EventLoopInv
<1> QED
  BY <1>3 DEF Init, Executor!Init

\* Pushing submits; looking at an event deals with it; the handler's return
\* finishes it.  All the rest is not seen.
LEMMA ExecutorSteps ==
    ASSUME EventLoopInv, [Next]_vars
    PROVE  [Executor!Next]_(Executor!vars)
<1> USE DEF ownerVars, queueVars, eventVars, asyncVars
<1>0. TypeOK /\ QueueInv
  BY DEF EventLoopInv
<1>1. CASE UNCHANGED << enqueued, called, scope, calling >> /\ ~ CallEvent
  BY <1>0, <1>1, DealtSteps DEF Executor!vars
<1>2. ASSUME NEW s \in 0 .. scope \cup {Unscoped}, Push(s), UNCHANGED << eventVars, scope >>
      PROVE  Executor!Submit
  <2>1. Dealt' = Dealt
    <3>1. enqueued' = Append(enqueued, s) /\ enqueued \in Seq({Unscoped} \cup 0 .. MaxScope)
      BY <1>0, <1>2 DEF Push, TypeOK
    <3>2. Len(enqueued') # Len(enqueued)
      BY <3>1
    <3>3. ~ CallEvent
      BY <3>2 DEF CallEvent
    <3> QED
      BY <1>0, <3>3, DealtSteps
  <2>2. enqueued' = Append(enqueued, s) /\ UNCHANGED << called, scope, calling >>
    BY <1>2 DEF Push
  <2> QED
    BY <2>1, <2>2 DEF Executor!Submit
<1>3. CASE CallEvent
  <2>1. current # 0 /\ ~ calling /\ Dealt = current - 1 /\ current \in 1 .. Len(enqueued)
    BY <1>0, <1>3, DealtValue DEF CallEvent, TypeOK
  <2>2. Dealt < Len(enqueued) /\ Dealt + 1 = current
    BY <1>0, <2>1, DealtValue DEF TypeOK
  <2>3. enqueued' = enqueued /\ scope' = scope /\ event_queue' = event_queue /\ Gone = current
    BY <1>0, <1>3, <2>1 DEF CallEvent, QueueInv
  <2>4. Dealt' = Gone
    <3>1. calling' \/ current' = 0
      BY <1>3 DEF CallEvent
    <3>2. Len(enqueued) \in Nat /\ Len(event_queue) \in Nat
      BY <1>0 DEF TypeOK
    <3> QED
      BY <2>3, <3>1, <3>2 DEF Dealt, Gone
  <2>5. Valid(current) <=> enqueued[current] \in {scope, Unscoped}
    BY DEF Valid
  <2>6. calling' = (enqueued[current] \in {scope, Unscoped})
    <3>1. CASE Valid(current)
      <4>1. calling' = TRUE
        BY <1>3, <3>1, Zenon DEF CallEvent
      <4> QED
        BY <2>5, <3>1, <4>1, Zenon
    <3>2. CASE ~ Valid(current)
      <4>1. calling' = calling /\ calling \in BOOLEAN
        BY <1>0, <1>3, <3>2, Zenon DEF CallEvent, TypeOK
      <4>2. calling' = FALSE
        BY <2>1, <4>1, Zenon
      <4>3. (enqueued[current] \in {scope, Unscoped}) = FALSE
        BY <2>5, <3>2
      <4> QED
        BY <4>2, <4>3, Zenon
    <3> QED
      BY <3>1, <3>2
  <2>7. called' = IF calling' THEN Append(called, current) ELSE called
    BY <1>3, <2>1 DEF CallEvent
  <2> QED
    BY <2>1, <2>2, <2>3, <2>4, <2>6, <2>7 DEF Executor!Next, Executor!Deal
<1>4. CASE Return
  <2>1. Dealt' = Dealt
    <3>1. ~ CallEvent
      BY <1>4 DEF Return, CallEvent
    <3> QED
      BY <1>0, <3>1, DealtSteps
  <2> QED
    BY <1>4, <2>1 DEF Return, Executor!Next, Executor!Finish
<1>5. CASE Invalidate
  <2>1. Dealt' = Dealt
    BY <1>5 DEF Invalidate, Dealt
  <2> QED
    BY <1>5, <2>1 DEF Invalidate, Executor!Next, Executor!Invalidate
<1>6. ASSUME NEW t \in Thread \cup {Loop}, Enqueue(t)
      PROVE  Executor!Next
  <2>1. PICK s \in 0 .. scope \cup {Unscoped} : Push(s)
    <3>1. PICK s \in IF t = Loop THEN {scope} ELSE 0 .. scope : Push(s)
      BY <1>6 DEF Enqueue
    <3>2. scope \in 0 .. scope
      BY <1>0, EventLoopAssumption DEF TypeOK
    <3> QED
      BY <3>1, <3>2
  <2> QED
    BY <1>2, <1>6, <2>1 DEF Enqueue, Executor!Next
<1>7. CASE Stop
  BY <1>2, <1>7 DEF Stop, Executor!Next
<1>8. ASSUME NEW t \in Thread \cup {Loop}, AsyncSend(t)
      PROVE  UNCHANGED << enqueued, called, scope, calling >>
  BY <1>8 DEF AsyncSend
<1>9. CASE Start \/ Run \/ SpuriousWakeup \/ OwnerThread
  <2>1. UNCHANGED << enqueued, called, scope, calling >>
    BY <1>9 DEF Start, Run, SpuriousWakeup, OwnerThread, CheckStarted, StopSignal, Ended
  <2> QED
    BY <1>1, <1>3, <2>1
<1>10. CASE AsyncStart \/ SetStarted \/ NotifyAll \/ OnAsyncEvent \/ ListenerUnloops
  <2>1. UNCHANGED << enqueued, called, scope, calling >>
    BY <1>10 DEF AsyncStart, SetStarted, NotifyAll, OnAsyncEvent, ListenerUnloops
  <2> QED
    BY <1>1, <1>3, <2>1
<1>11. CASE TakeEvent \/ Unloop \/ Throw \/ HandleEventsReturns \/ AsyncStop
  <2>1. UNCHANGED << enqueued, called, scope, calling >>
    BY <1>11 DEF TakeEvent, Unloop, Throw, HandleEventsReturns, AsyncStop
  <2> QED
    BY <1>1, <1>3, <2>1
<1>12. CASE UNCHANGED vars
  <2>1. UNCHANGED << enqueued, called, scope, calling >>
    BY <1>12 DEF vars
  <2> QED
    BY <1>1, <1>3, <2>1
<1> QED
  BY <1>1, <1>3, <1>4, <1>5, <1>6, <1>7, <1>8, <1>9, <1>10, <1>11, <1>12
     DEF Next, LoopThread

\* For those who enqueue, the loop with its threads, wakeups, starts and stops is
\* the serial executor that EventLoop.h promises.
THEOREM EventLoopRefines == Spec => ImplementsExecutor
<1>1. EventLoopInv /\ [Next]_vars => [Executor!Next]_(Executor!vars)
  BY ExecutorSteps
<1> QED
  BY ExecutorInitially, EventLoopInvariant, <1>1, PTL DEF Spec, ImplementsExecutor, Executor!Spec

-----------------------------------------------------------------------------
(***************************************************************************)
(* What the executor gives to those who enqueue.  ServedInOrder is proved  *)
(* of the executor alone, and the loop inherits it by refinement.          *)
(***************************************************************************)

\* No event is of a scope that is still to come: this is why a scope that was passed
\* over is in the past.
ExecutorInv ==
    /\ enqueued \in Seq(Int) /\ called \in Seq(Nat) /\ scope \in Nat
    /\ Dealt \in 0 .. Len(enqueued)
    /\ \A k \in 1 .. Len(enqueued) : enqueued[k] \in {Unscoped} \cup 0 .. scope
    /\ Executor!ServedInOrder

LEMMA ExecutorInitial == Executor!Init => ExecutorInv
  BY DEF Executor!Init, ExecutorInv, Executor!ServedInOrder

LEMMA ExecutorInductive == ExecutorInv /\ [Executor!Next]_(Executor!vars) => ExecutorInv'
<1> SUFFICES ASSUME ExecutorInv, [Executor!Next]_(Executor!vars) PROVE ExecutorInv'
  OBVIOUS
<1>0. /\ enqueued \in Seq(Int) /\ called \in Seq(Nat) /\ scope \in Nat
      /\ Dealt \in 0 .. Len(enqueued) /\ Len(enqueued) \in Nat /\ Len(called) \in Nat
      /\ \A k \in 1 .. Len(enqueued) : enqueued[k] \in {Unscoped} \cup 0 .. scope
      /\ Executor!ServedInOrder
  BY DEF ExecutorInv
<1>1. CASE Executor!Submit
  <2>1. PICK s \in 0 .. scope \cup {Unscoped} : enqueued' = Append(enqueued, s)
    BY <1>1 DEF Executor!Submit
  <2>2. UNCHANGED << Dealt, called, scope, calling >>
    BY <1>1 DEF Executor!Submit
  <2>3. s \in Int
    BY <1>0 DEF Unscoped
  <2>4. /\ enqueued' \in Seq(Int) /\ Len(enqueued') = Len(enqueued) + 1
        /\ \A k \in 1 .. Len(enqueued) : enqueued'[k] = enqueued[k]
        /\ enqueued'[Len(enqueued) + 1] = s
    BY <1>0, <2>1, <2>3
  <2>5. \A k \in 1 .. Len(enqueued') : enqueued'[k] \in {Unscoped} \cup 0 .. scope'
    <3>1. \A k \in 1 .. Len(enqueued') : k \in 1 .. Len(enqueued) \/ k = Len(enqueued) + 1
      BY <1>0, <2>4
    <3>2. s \in {Unscoped} \cup 0 .. scope
      BY <1>0
    <3> QED
      BY <1>0, <2>2, <2>4, <3>1, <3>2
  <2>6. Executor!ServedInOrder'
    <3>1. \A k \in 1 .. Dealt : enqueued'[k] = enqueued[k]
      BY <1>0, <2>4
    <3> QED
      BY <1>0, <2>2, <3>1 DEF Executor!ServedInOrder
  <2> QED
    BY <1>0, <2>2, <2>4, <2>5, <2>6 DEF ExecutorInv
<1>2. CASE Executor!Deal
  <2>1. /\ ~ calling /\ Dealt' = Dealt + 1 /\ Dealt < Len(enqueued)
        /\ calling' = (enqueued[Dealt + 1] \in {scope, Unscoped})
        /\ called' = IF calling' THEN Append(called, Dealt + 1) ELSE called
        /\ UNCHANGED << enqueued, scope >>
    BY <1>2 DEF Executor!Deal
  <2>2. Dealt \in Nat /\ Dealt' \in 0 .. Len(enqueued)
    BY <1>0, <2>1
  <2>3. CASE calling'
    <3>1. called' = Append(called, Dealt + 1)
      BY <2>1, <2>3
    <3>2. /\ called' \in Seq(Nat) /\ Len(called') = Len(called) + 1
          /\ \A i \in 1 .. Len(called) : called'[i] = called[i]
          /\ called'[Len(called) + 1] = Dealt + 1
      BY <1>0, <2>2, <3>1
    <3>3. \A i \in 1 .. Len(called') : called'[i] \in 1 .. Dealt'
      BY <1>0, <2>1, <2>2, <3>2 DEF Executor!ServedInOrder
    <3>4. \A i, j \in 1 .. Len(called') : i < j => called'[i] < called'[j]
      BY <1>0, <2>1, <2>2, <3>2 DEF Executor!ServedInOrder
    <3>5. called' # << >> /\ called'[Len(called')] = Dealt'
      BY <1>0, <2>1, <3>2
    <3>6. ASSUME NEW k \in 1 .. Dealt'
          PROVE  (\E i \in 1 .. Len(called') : called'[i] = k) \/ enqueued'[k] \in 0 .. scope' - 1
      <4>1. CASE k = Dealt + 1
        <5>1. Len(called) + 1 \in 1 .. Len(called') /\ called'[Len(called) + 1] = k
          BY <1>0, <3>2, <4>1
        <5> QED
          BY <5>1
      <4>2. CASE k # Dealt + 1
        <5>1. k \in 1 .. Dealt
          BY <2>1, <2>2, <4>2
        <5>2. CASE enqueued[k] \in 0 .. scope - 1
          BY <2>1, <5>2
        <5>3. CASE \E i \in 1 .. Len(called) : called[i] = k
          BY <1>0, <3>2, <5>3
        <5> QED
          BY <1>0, <5>1, <5>2, <5>3 DEF Executor!ServedInOrder
      <4> QED
        BY <4>1, <4>2
    <3>7. Executor!ServedInOrder'
      BY <3>3, <3>4, <3>5, <3>6 DEF Executor!ServedInOrder
    <3> QED
      BY <1>0, <2>1, <2>2, <3>2, <3>7 DEF ExecutorInv
  <2>4. CASE ~ calling'
    <3>1. called' = called /\ enqueued[Dealt + 1] \notin {scope, Unscoped}
      BY <2>1, <2>4
    <3>2. enqueued[Dealt + 1] \in 0 .. scope - 1
      BY <1>0, <2>1, <2>2, <3>1
    <3>3. \A i \in 1 .. Len(called) : called[i] \in 1 .. Dealt'
      BY <1>0, <2>1, <2>2 DEF Executor!ServedInOrder
    <3>4. \A k \in 1 .. Dealt' : k = Dealt + 1 \/ k \in 1 .. Dealt
      BY <2>1, <2>2
    <3>5. Executor!ServedInOrder'
      BY <1>0, <2>1, <2>4, <3>1, <3>2, <3>3, <3>4 DEF Executor!ServedInOrder
    <3> QED
      BY <1>0, <2>1, <2>2, <3>1, <3>5 DEF ExecutorInv
  <2> QED
    BY <2>3, <2>4
<1>3. CASE Executor!Finish
  <2>1. ~ calling' /\ UNCHANGED << enqueued, Dealt, called, scope >>
    BY <1>3 DEF Executor!Finish
  <2> QED
    BY <1>0, <2>1 DEF ExecutorInv, Executor!ServedInOrder
<1>4. CASE Executor!Invalidate
  <2>1. scope' = scope + 1 /\ UNCHANGED << enqueued, Dealt, called, calling >>
    BY <1>4 DEF Executor!Invalidate
  <2>2. 0 .. scope \subseteq 0 .. scope' /\ 0 .. scope - 1 \subseteq 0 .. scope' - 1
    BY <1>0, <2>1
  <2>3. Executor!ServedInOrder'
    BY <1>0, <2>1, <2>2 DEF Executor!ServedInOrder
  <2>4. \A k \in 1 .. Len(enqueued) : enqueued[k] \in {Unscoped} \cup 0 .. scope'
    BY <1>0, <2>2
  <2> QED
    BY <1>0, <2>1, <2>3, <2>4 DEF ExecutorInv
<1>5. CASE UNCHANGED Executor!vars
  BY <1>0, <1>5 DEF Executor!vars, ExecutorInv, Executor!ServedInOrder
<1> QED
  BY <1>1, <1>2, <1>3, <1>4, <1>5 DEF Executor!Next

\* Any executor serves in order, calls nobody twice and passes over none but the
\* events of a scope that is gone.
THEOREM ExecutorServes == Executor!Spec => []Executor!ServedInOrder
<1>1. ExecutorInv => Executor!ServedInOrder
  BY DEF ExecutorInv
<1> QED
  BY ExecutorInitial, ExecutorInductive, <1>1, PTL DEF Executor!Spec

\* So the event loop does, with its threads, wakeups, starts and stops: it is an
\* executor.
THEOREM EventsAlwaysServed == Spec => []Executor!ServedInOrder
  BY EventLoopRefines, ExecutorServes, PTL DEF ImplementsExecutor
=============================================================================
