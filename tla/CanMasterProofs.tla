--------------------------- MODULE CanMasterProofs ---------------------------
(***************************************************************************)
(* Proofs about CanMaster, for any number of clients, message objects and  *)
(* polls.                                                                  *)
(***************************************************************************)
EXTENDS CanMaster, FiniteSetTheorems, WellFoundedInduction, TLAPS

\* Outside of handle_client()'s wait nothing is left of a request.
LEMMA SettledInitially == Init => RequestSettled
  BY DEF Init, RequestSettled

\* Every step keeps it: what receives is only set up by a request, which starts to
\* poll, and both ways out of the poll clear the object.
LEMMA SettledInductive == RequestSettled /\ [Next]_vars => RequestSettled'
<1> SUFFICES ASSUME RequestSettled, [Next]_vars
             PROVE  RequestSettled'
  OBVIOUS
<1> USE DEF RequestSettled
\* Clients and controller.
<1>1. CASE Connect
  BY <1>1 DEF Connect, remoteVars, taskVars
<1>2. ASSUME NEW i \in Client, NEW message \in Message \ {"none"}, Write(i, message)
      PROVE  RequestSettled'
  BY <1>2 DEF Write, remoteVars, taskVars
<1>3. ASSUME NEW i \in Client, Close(i)
      PROVE  RequestSettled'
  BY <1>3 DEF Close, remoteVars, taskVars
<1>4. ASSUME NEW i \in Client, Stall(i)
       PROVE  RequestSettled'
  BY <1>4 DEF Stall, remoteVars, taskVars
<1>5. ASSUME NEW i \in Client, Resume(i)
       PROVE  RequestSettled'
  BY <1>5 DEF Resume, remoteVars, taskVars
<1>6. CASE FrameArrives
  BY <1>6 DEF FrameArrives, remoteVars, taskVars
<1>7. CASE RequestSent
  <2>1. phase = "poll" /\ phase' = phase
    BY <1>7 DEF RequestSent, taskVars
  <2> QED
    BY <2>1
<1>8. CASE AnswerArrives
  <2>1. phase = "poll" /\ phase' = phase
    BY <1>8 DEF AnswerArrives, taskVars
  <2> QED
    BY <2>1
<1>9. CASE Transmit
  BY <1>9 DEF Transmit, remoteVars, taskVars
\* The task, outside of the poll.
<1>10. CASE Select
  BY <1>10 DEF Select, remoteVars
<1>11. CASE HandleSignal
  BY <1>11 DEF HandleSignal, remoteVars
<1>12. CASE ReceiveFrame
  BY <1>12 DEF ReceiveFrame, remoteVars
<1>13. CASE SignalsHandled \/ ReceiveOverlong
  BY <1>13 DEF SignalsHandled, ReceiveOverlong, AfterSignals, remoteVars
<1>14. CASE HandleConnect
  BY <1>14 DEF HandleConnect, remoteVars
<1>15. ASSUME NEW i \in Client, HandleClosed(i)
       PROVE  RequestSettled'
  BY <1>15 DEF HandleClosed, remoteVars
<1>16. ASSUME NEW i \in Client, HandleFailed(i)
       PROVE  RequestSettled'
  BY <1>16 DEF HandleFailed, remoteVars
<1>17. ASSUME NEW i \in Client, HandleInvalid(i)
       PROVE  RequestSettled'
  BY <1>17 DEF HandleInvalid, remoteVars
<1>18. ASSUME NEW i \in Client, HandleData(i)
       PROVE  RequestSettled'
  BY <1>18 DEF HandleData, remoteVars
<1>19. CASE Served
  BY <1>19 DEF Served, AfterServing, remoteVars
\* A request, and its ends.
<1>20. ASSUME NEW i \in Client, HandleRequest(i)
       PROVE  RequestSettled'
  <2>1. phase = "serve" /\ packet' = packet
    BY <1>20 DEF HandleRequest, Serving
  <2>2. CASE UNCHANGED << remoteVars, phase, polls >>
    BY <2>1, <2>2 DEF remoteVars
  <2>3. CASE phase' = "poll"
    BY <2>3
  <2> QED
    BY <1>20, <2>2, <2>3 DEF HandleRequest
<1>21. CASE PollEmpty
  BY <1>21 DEF PollEmpty
<1>22. CASE PollAnswered \/ AnswerOverlong
  BY <1>22 DEF PollAnswered, AnswerOverlong
<1>23. CASE RequestAnswered
  <2>1. phase' = "reply" /\ response' = 0
    BY <1>23 DEF RequestAnswered, ClearRequest
  <2>2. remote' \in {"idle", "stuck"}
    BY <1>23 DEF RequestAnswered, ClearRequest
  <2> QED
    BY <2>1, <2>2
<1>24. CASE RequestTimedOut
  <2>1. response' = 0 /\ packet' = 0
    BY <1>24 DEF RequestTimedOut, ClearRequest
  <2>2. remote' \in {"idle", "stuck"}
    BY <1>24 DEF RequestTimedOut, ClearRequest
  <2> QED
    BY <2>1, <2>2
<1>25. CASE ForwardAnswer
  BY <1>25 DEF ForwardAnswer, remoteVars
<1>26. CASE UNCHANGED vars
  BY <1>26 DEF vars, remoteVars, taskVars
<1>27. CASE Task
  BY <1>10, <1>11, <1>12, <1>13, <1>14, <1>15, <1>16, <1>17, <1>18, <1>19, <1>20, <1>21, <1>22,
     <1>23, <1>24, <1>25, <1>27 DEF Task
<1> QED
  BY <1>1, <1>2, <1>3, <1>4, <1>5, <1>6, <1>7, <1>8, <1>9, <1>26, <1>27 DEF Next

\* No answer of one request is ever taken for the answer of another, however late it
\* comes (receive_response, clear_request).
THEOREM RequestsAlwaysSettled == Spec => []RequestSettled
  BY SettledInitially, SettledInductive, PTL DEF Spec

-----------------------------------------------------------------------------
(***************************************************************************)
(* Message objects                                                         *)
(***************************************************************************)

\* A nonempty set of natural numbers has a least element: induction, in the form
\* of a least counterexample.
LEMMA LeastNatural ==
    ASSUME NEW T, T \subseteq Nat, T # {}
    PROVE  \E x \in T : \A y \in T : x <= y
<1> DEFINE R == OpToRel(<, Nat)
<1>1. R = {ss \in Nat \X Nat : ss[1] < ss[2]}
  BY Zenon DEF OpToRel
<1>2. \E x \in T : \A y \in T : ~ (<<y, x>> \in R)
  <2>1. IsWellFoundedOn(R, Nat)
    BY NatLessThanWellFounded
  <2> HIDE DEF R
  <2>2. QED
    BY <2>1, WFMin
<1> HIDE DEF R
<1>3. PICK x \in T : \A y \in T : ~ (<<y, x>> \in R)
  BY <1>2
<1>4. \A y, z \in Nat : <<y, z>> \in R <=> y < z
  BY <1>1
<1>5. ASSUME NEW y \in T PROVE x <= y
  <2>1. x \in Nat /\ y \in Nat
    OBVIOUS
  <2>2. ~ (y < x)
    BY <1>3, <1>4, <2>1
  <2>3. QED
    BY <2>1, <2>2
<1>6. QED
  BY <1>5

LEMMA MinOfNaturals ==
    ASSUME NEW T, T \subseteq Nat, T # {}
    PROVE  Min(T) \in T
  BY LeastNatural DEF Min

\* The objects are r, and were q before object o was written.
Written(q, r, o) ==
    /\ IsFiniteSet(DOMAIN q)
    /\ DOMAIN r = DOMAIN q
    /\ o \in DOMAIN q
    /\ \A x \in DOMAIN q : x # o => r[x] = q[x]

\* The number of objects that hold n changes by what object o held and what it holds.
LEMMA HoldsStep ==
    ASSUME NEW q, NEW r, NEW o, NEW n, Written(q, r, o)
    PROVE  /\ Holds(q, n) \in Nat
           /\ Holds(r, n) \in Nat
           /\ (q[o] = n <=> r[o] = n) => Holds(r, n) = Holds(q, n)
           /\ q[o] = n /\ r[o] # n => Holds(r, n) + 1 = Holds(q, n)
           /\ q[o] # n /\ r[o] = n => Holds(r, n) = Holds(q, n) + 1
<1> DEFINE D == DOMAIN q
           A == {x \in D : q[x] = n}
           B == {x \in D : r[x] = n}
<1>1. Holds(q, n) = Cardinality(A) /\ Holds(r, n) = Cardinality(B)
  BY DEF Holds, Written
<1>2. IsFiniteSet(A) /\ IsFiniteSet(B)
  <2>1. A \in SUBSET D /\ B \in SUBSET D
    OBVIOUS
  <2> HIDE DEF A, B
  <2> QED
    BY <2>1, FS_Subset DEF Written
<1>3. A \ {o} = B \ {o}
  BY DEF Written
<1>4. (o \in A <=> q[o] = n) /\ (o \in B <=> r[o] = n)
  BY DEF Written
<1> HIDE DEF A, B
<1>5. Cardinality(A) \in Nat /\ Cardinality(B) \in Nat
  BY <1>2, FS_CardinalityType
<1>6. Cardinality(A \ {o}) = IF o \in A THEN Cardinality(A) - 1 ELSE Cardinality(A)
  BY <1>2, FS_RemoveElement
<1>7. Cardinality(B \ {o}) = IF o \in B THEN Cardinality(B) - 1 ELSE Cardinality(B)
  BY <1>2, FS_RemoveElement
<1>8. /\ (o \in A <=> o \in B) => Cardinality(B) = Cardinality(A)
      /\ o \in A /\ o \notin B => Cardinality(B) + 1 = Cardinality(A)
      /\ o \notin A /\ o \in B => Cardinality(B) = Cardinality(A) + 1
  <2> PICK a \in Nat, b \in Nat : a = Cardinality(A) /\ b = Cardinality(B)
    BY <1>5
  <2>1. (IF o \in A THEN a - 1 ELSE a) = (IF o \in B THEN b - 1 ELSE b)
    BY <1>3, <1>6, <1>7
  <2> QED
    BY <2>1
<1> QED
  BY <1>1, <1>4, <1>5, <1>8

\* No object holds n to begin with.
LEMMA HoldsNone ==
    ASSUME NEW k \in Nat, NEW q, DOMAIN q = 1 .. k, NEW n, \A x \in 1 .. k : q[x] # n
    PROVE  Holds(q, n) = 0
<1>1. {x \in DOMAIN q : q[x] = n} = {}
  OBVIOUS
<1> QED
  BY <1>1, FS_EmptySet DEF Holds

\* An object that holds n is counted.
LEMMA HoldsSome ==
    ASSUME NEW k \in Nat, NEW S, NEW q \in [1 .. k -> S], NEW o \in 1 .. k
    PROVE  Holds(q, q[o]) \in Nat \ {0}
<1> DEFINE A == {x \in 1 .. k : q[x] = q[o]}
<1>1. Holds(q, q[o]) = Cardinality(A)
  BY DEF Holds
<1>2. A \in SUBSET (1 .. k) /\ A # {}
  OBVIOUS
<1> HIDE DEF A
<1>3. IsFiniteSet(A)
  <2>1. IsFiniteSet(1 .. k)
    BY FS_Interval
  <2> QED
    BY <1>2, <2>1, FS_Subset
<1>4. Cardinality(A) \in Nat /\ Cardinality(A) # 0
  BY <1>2, <1>3, FS_CardinalityType, FS_EmptySet
<1> QED
  BY <1>1, <1>4

-----------------------------------------------------------------------------
(***************************************************************************)
(* Frames                                                                  *)
(***************************************************************************)

\* The state that frames go through.
frameVars == << rx, response, packet, lost, dropped, forwarded, arrived >>

FrameTypes ==
    /\ rx \in [RxObject -> {0} \cup Frame]
    /\ response \in {0} \cup Frame
    /\ packet \in {0} \cup Frame
    /\ lost \subseteq Frame
    /\ dropped \subseteq Frame
    /\ forwarded \in [Frame -> Nat]
    /\ arrived \in 0 .. MaxFrames

\* A request resets the answer's object: that no answer is in it when the request is
\* made is what RequestSettled says, and without it a frame would disappear.
FrameInv == FrameTypes /\ RequestSettled /\ FramesAccounted

\* What HandleSignal and ForwardAnswer do to the frames.
FrameForwarded ==
    /\ forwarded' = [forwarded EXCEPT ![packet] = @ + 1]
    /\ packet' = 0
    /\ UNCHANGED << rx, response, lost, dropped, arrived >>

\* What the two ends of a request do to them, ...
AnswerCleared ==
    /\ response' = 0
    /\ lost' = lost \cup ({response} \ {0})
    /\ UNCHANGED << rx, packet, dropped, forwarded, arrived >>

\* ... and an answer that is too long.
AnswerDropped ==
    /\ packet # 0
    /\ packet' = 0
    /\ dropped' = dropped \cup {packet}
    /\ response' = 0
    /\ lost' = lost \cup ({response} \ {0})
    /\ UNCHANGED << rx, forwarded, arrived >>

\* Every step moves one frame or none.
LEMMA FrameSteps ==
    ASSUME RequestSettled, [Next]_vars
    PROVE  \/ FrameArrives
           \/ AnswerArrives
           \/ ReceiveFrame
           \/ ReceiveOverlong
           \/ PollAnswered
           \/ FrameForwarded
           \/ AnswerCleared
           \/ AnswerDropped
           \/ UNCHANGED frameVars
<1> USE DEF frameVars, clientVars, taskVars, rxVars, remoteVars, txVars
<1>1. CASE HandleSignal \/ ForwardAnswer
  BY <1>1 DEF HandleSignal, ForwardAnswer, HandleCanPacket, FrameForwarded
<1>2. CASE RequestAnswered \/ RequestTimedOut
  BY <1>2 DEF RequestAnswered, RequestTimedOut, ClearRequest, AnswerCleared
<1>12. CASE AnswerOverlong
  BY <1>12 DEF AnswerOverlong, ClearRequest, AnswerDropped
<1>3. ASSUME NEW i \in Client, HandleRequest(i)
      PROVE  UNCHANGED frameVars
  <2>1. response = 0
    BY <1>3 DEF HandleRequest, Serving, RequestSettled
  <2> QED
    BY <1>3, <2>1 DEF HandleRequest
<1>4. CASE Connect \/ RequestSent \/ Transmit \/ Select
  BY <1>4 DEF Connect, RequestSent, Transmit, Select
<1>5. CASE SignalsHandled \/ HandleConnect \/ PollEmpty \/ Served
  BY <1>5 DEF SignalsHandled, HandleConnect, PollEmpty, Served
<1>6. ASSUME NEW i \in Client, NEW message, Write(i, message)
      PROVE  UNCHANGED frameVars
  BY <1>6 DEF Write
<1>7. ASSUME NEW i \in Client, Stall(i) \/ Resume(i) \/ Close(i)
      PROVE  UNCHANGED frameVars
  BY <1>7 DEF Stall, Resume, Close
<1>8. ASSUME NEW i \in Client, HandleClosed(i) \/ HandleFailed(i) \/ HandleInvalid(i)
      PROVE  UNCHANGED frameVars
  BY <1>8 DEF HandleClosed, HandleFailed, HandleInvalid
<1>9. ASSUME NEW i \in Client, HandleData(i)
      PROVE  UNCHANGED frameVars
  BY <1>9 DEF HandleData
<1>10. CASE UNCHANGED vars
  BY <1>10 DEF vars
<1>11. CASE Task
  BY <1>1, <1>2, <1>3, <1>4, <1>5, <1>8, <1>9, <1>11, <1>12 DEF Task
<1> QED
  BY <1>4, <1>6, <1>7, <1>10, <1>11 DEF Next

LEMMA FramesInitially == Init => FrameInv
<1> SUFFICES ASSUME Init
             PROVE  FrameInv
  OBVIOUS
<1>1. FrameTypes
  BY CanMasterAssumption DEF Init, FrameTypes, RxObject, Frame
<1>2. ASSUME NEW f \in Frame
      PROVE  Holds(rx, f) + OneIf(response = f) + OneIf(packet = f) + OneIf(f \in lost)
               + OneIf(f \in dropped) + forwarded[f] = OneIf(f <= arrived)
  <2>1. f \in Nat /\ f # 0 /\ ~ f <= 0
    BY CanMasterAssumption DEF Frame
  <2>2. Holds(rx, f) = 0
    BY <2>1, HoldsNone, CanMasterAssumption DEF Init, RxObject
  <2> QED
    BY <2>1, <2>2 DEF Init, OneIf
<1> QED
  BY <1>1, <1>2, SettledInitially DEF FrameInv, FramesAccounted

LEMMA RxWritten ==
    ASSUME FrameTypes, NEW o \in RxObject, NEW v, NEW n
    PROVE  /\ Holds(rx, n) \in Nat
           /\ Holds([rx EXCEPT ![o] = v], n) \in Nat
           /\ Holds([rx EXCEPT ![o] = v], n) + OneIf(rx[o] = n) = Holds(rx, n) + OneIf(v = n)
<1>0. PICK r : r = [rx EXCEPT ![o] = v]
  OBVIOUS
<1>1. IsFiniteSet(RxObject)
  BY CanMasterAssumption, FS_Interval DEF RxObject
<1>2. Written(rx, r, o) /\ r[o] = v
  BY <1>0, <1>1 DEF FrameTypes, Written
<1>3. Holds(rx, n) \in Nat
  BY <1>2, HoldsStep
<1>4. Holds(r, n) \in Nat
  BY <1>2, HoldsStep
<1>5. (rx[o] = n <=> r[o] = n) => Holds(r, n) = Holds(rx, n)
  BY <1>2, HoldsStep
<1>6. rx[o] = n /\ r[o] # n => Holds(r, n) + 1 = Holds(rx, n)
  BY <1>2, HoldsStep
<1>7. rx[o] # n /\ r[o] = n => Holds(r, n) = Holds(rx, n) + 1
  BY <1>2, HoldsStep
<1> QED
  BY <1>0, <1>2, <1>3, <1>4, <1>5, <1>6, <1>7 DEF OneIf

LEMMA FrameTypesInductive == FrameInv /\ [Next]_vars => FrameTypes'
<1> SUFFICES ASSUME FrameInv, [Next]_vars
             PROVE  FrameTypes'
  OBVIOUS
<1> USE DEF FrameInv, FrameTypes
<1>1. Frame \subseteq Nat /\ RxObject \subseteq Nat /\ RxObjects \in RxObject
  BY CanMasterAssumption DEF Frame, RxObject
<1>2. arrived < MaxFrames => arrived + 1 \in Frame /\ arrived + 1 \in 0 .. MaxFrames
  BY CanMasterAssumption DEF Frame
<1>3. CASE FrameArrives
  <2> DEFINE object == IF Empty(rx) = {} THEN RxObjects ELSE Min(Empty(rx))
  <2>1. object \in RxObject
    <3>1. Empty(rx) \subseteq RxObject
      BY DEF Empty
    <3>2. Empty(rx) # {} => Min(Empty(rx)) \in Empty(rx)
      BY <1>1, <3>1, MinOfNaturals
    <3> QED
      BY <1>1, <3>1, <3>2
  <2>2. /\ rx' = [rx EXCEPT ![object] = arrived + 1]
        /\ lost' = lost \cup ({rx[object]} \ {0})
        /\ arrived' = arrived + 1
        /\ UNCHANGED << response, packet, dropped, forwarded >>
        /\ arrived < MaxFrames
    BY <1>3 DEF FrameArrives, taskVars, remoteVars
  <2> HIDE DEF object
  <2> QED
    BY <1>2, <2>1, <2>2
<1>4. CASE AnswerArrives
  BY <1>2, <1>4 DEF AnswerArrives, taskVars
<1>5. CASE ReceiveFrame
  <2> DEFINE object == Min(RxObject \ Empty(rx))
  <2>1. object \in RxObject
    BY <1>1, <1>5, MinOfNaturals DEF ReceiveFrame, Empty
  <2>2. /\ rx' = [rx EXCEPT ![object] = 0]
        /\ packet' = rx[object]
        /\ UNCHANGED << response, lost, dropped, forwarded, arrived >>
    BY <1>5 DEF ReceiveFrame, Received, remoteVars
  <2> HIDE DEF object
  <2> QED
    BY <2>1, <2>2
<1>10. CASE ReceiveOverlong
  <2> DEFINE object == Min(RxObject \ Empty(rx))
  <2>1. object \in RxObject /\ rx[object] # 0
    <3>1. Empty(rx) = {o \in RxObject : rx[o] = 0}
      BY DEF Empty, FrameInv, FrameTypes
    <3>2. RxObject \ Empty(rx) # {} /\ RxObject \ Empty(rx) \subseteq Nat
      BY <1>1, <1>10, <3>1 DEF ReceiveOverlong
    <3>3. object \in RxObject \ Empty(rx)
      BY <3>2, MinOfNaturals
    <3> HIDE DEF object
    <3> QED
      BY <3>1, <3>3
  <2>2. /\ rx' = [rx EXCEPT ![object] = 0]
        /\ dropped' = dropped \cup {rx[object]}
        /\ UNCHANGED << response, packet, lost, forwarded, arrived >>
    BY <1>10 DEF ReceiveOverlong, Received, remoteVars
  <2> HIDE DEF object
  <2> QED
    BY <2>1, <2>2
<1>6. CASE PollAnswered
  BY <1>6 DEF PollAnswered, rxVars
<1>7. CASE FrameForwarded
  <2>1. forwarded' \in [Frame -> Nat]
    <3>1. forwarded' = [forwarded EXCEPT ![packet] = forwarded[packet] + 1]
      BY <1>7 DEF FrameForwarded
    <3>2. packet \in Frame => forwarded[packet] + 1 \in Nat
      OBVIOUS
    <3> QED
      BY <3>1, <3>2
  <2> QED
    BY <1>7, <2>1 DEF FrameForwarded
<1>8. CASE AnswerCleared \/ AnswerDropped
  BY <1>8 DEF AnswerCleared, AnswerDropped
<1>9. CASE UNCHANGED frameVars
  BY <1>9 DEF frameVars
<1> QED
  BY <1>3, <1>4, <1>5, <1>6, <1>7, <1>8, <1>9, <1>10, FrameSteps

\* A frame that is in one of the places is neither lost nor dropped, so to lose or
\* drop it counts once.
LEMMA FrameNotLost ==
    ASSUME FrameInv, NEW f \in Frame
    PROVE  /\ \A o \in RxObject : rx[o] = f => f \notin lost /\ f \notin dropped
           /\ response = f => f \notin lost
           /\ packet = f => f \notin dropped
<1> USE DEF FrameInv, FrameTypes
<1>1. Holds(rx, f) \in Nat /\ \A o \in RxObject : rx[o] = f => Holds(rx, f) # 0
  <2>1. 1 \in RxObject /\ RxObjects \in Nat
    BY CanMasterAssumption DEF RxObject
  <2>2. Holds(rx, f) \in Nat
    BY <2>1, RxWritten
  <2>3. ASSUME NEW o \in RxObject
        PROVE  Holds(rx, rx[o]) # 0
    BY <2>1, HoldsSome DEF RxObject
  <2> QED
    BY <2>2, <2>3
<1>2. Holds(rx, f) + OneIf(response = f) + OneIf(packet = f) + OneIf(f \in lost)
        + OneIf(f \in dropped) + forwarded[f] = OneIf(f <= arrived)
  BY DEF FramesAccounted
<1> DEFINE h == Holds(rx, f)
           r == OneIf(response = f)
           p == OneIf(packet = f)
           l == OneIf(f \in lost)
           d == OneIf(f \in dropped)
           w == forwarded[f]
           a == OneIf(f <= arrived)
<1>3. /\ h \in Nat /\ r \in {0, 1} /\ p \in {0, 1} /\ l \in {0, 1} /\ d \in {0, 1} /\ w \in Nat
      /\ a \in {0, 1}
  BY <1>1 DEF OneIf
<1>4. h + r + p + l + d + w = a
  BY <1>2
<1>5. /\ (r = 1 <=> response = f) /\ (p = 1 <=> packet = f)
      /\ (l = 0 <=> f \notin lost) /\ (d = 0 <=> f \notin dropped)
  BY DEF OneIf
<1>6. \A o \in RxObject : rx[o] = f => h # 0
  BY <1>1
<1> HIDE DEF h, r, p, l, d, w, a
<1>7. (h # 0 => l = 0 /\ d = 0) /\ (r = 1 => l = 0) /\ (p = 1 => d = 0)
  BY <1>3, <1>4
<1> QED
  BY <1>5, <1>6, <1>7

\* Every step keeps the account: it takes a frame from one place and puts it in
\* another.
LEMMA FramesInductive == FrameInv /\ [Next]_vars => FrameInv'
<1> SUFFICES ASSUME FrameInv, [Next]_vars
             PROVE  FrameInv'
  OBVIOUS
<1>1. FrameTypes' /\ RequestSettled'
  BY FrameTypesInductive, SettledInductive DEF FrameInv
<1>2. FrameTypes /\ RequestSettled
  BY DEF FrameInv
<1> SUFFICES ASSUME NEW f \in Frame
             PROVE  Holds(rx', f) + OneIf(response' = f) + OneIf(packet' = f) + OneIf(f \in lost')
                      + OneIf(f \in dropped') + forwarded'[f] = OneIf(f <= arrived')
  BY <1>1 DEF FrameInv, FramesAccounted
<1>3. f \in Nat /\ f # 0 /\ RxObjects \in Nat /\ RxObject \subseteq Nat /\ RxObjects \in RxObject
  BY CanMasterAssumption DEF Frame, RxObject
<1>4. Holds(rx, f) + OneIf(response = f) + OneIf(packet = f) + OneIf(f \in lost)
        + OneIf(f \in dropped) + forwarded[f] = OneIf(f <= arrived)
  BY DEF FrameInv, FramesAccounted
<1>5. ASSUME NEW o \in RxObject, NEW v
      PROVE  /\ Holds(rx, f) \in Nat
             /\ Holds([rx EXCEPT ![o] = v], f) \in Nat
             /\ Holds([rx EXCEPT ![o] = v], f) + OneIf(rx[o] = f) = Holds(rx, f) + OneIf(v = f)
  BY <1>2, RxWritten
<1>6. Holds(rx, f) \in Nat /\ forwarded[f] \in Nat /\ arrived \in Nat
  BY <1>2, <1>3, <1>5 DEF FrameTypes
<1>7. OneIf(f <= arrived + 1) = OneIf(f <= arrived) + OneIf(arrived + 1 = f)
  BY <1>3, <1>6 DEF OneIf
<1>8. ASSUME NEW g, g = f => f \notin lost
      PROVE  OneIf(f \in lost \cup ({g} \ {0})) = OneIf(f \in lost) + OneIf(g = f)
  BY <1>3, <1>8 DEF OneIf
<1>18. ASSUME NEW g, g = f => f \notin dropped
       PROVE  OneIf(f \in dropped \cup {g}) = OneIf(f \in dropped) + OneIf(g = f)
  BY <1>18 DEF OneIf
<1> DEFINE h == Holds(rx, f)
           r == OneIf(response = f)
           p == OneIf(packet = f)
           l == OneIf(f \in lost)
           d == OneIf(f \in dropped)
           w == forwarded[f]
           a == OneIf(f <= arrived)
           n == OneIf(arrived + 1 = f)
<1>9. /\ h \in Nat /\ r \in Nat /\ p \in Nat /\ l \in Nat /\ d \in Nat /\ w \in Nat /\ a \in Nat
      /\ n \in Nat
      /\ h + r + p + l + d + w = a
  BY <1>4, <1>6 DEF OneIf
<1>10. CASE FrameArrives
  <2> DEFINE object == IF Empty(rx) = {} THEN RxObjects ELSE Min(Empty(rx))
             g == OneIf(rx[object] = f)
  <2>1. object \in RxObject
    <3>1. Empty(rx) \subseteq RxObject
      BY <1>2 DEF Empty, FrameTypes
    <3>2. Empty(rx) # {} => Min(Empty(rx)) \in Empty(rx)
      BY <1>3, <3>1, MinOfNaturals
    <3> QED
      BY <1>3, <3>1, <3>2
  <2>2. /\ rx' = [rx EXCEPT ![object] = arrived + 1]
        /\ lost' = lost \cup ({rx[object]} \ {0})
        /\ arrived' = arrived + 1
        /\ response' = response /\ packet' = packet /\ dropped' = dropped /\ forwarded' = forwarded
    BY <1>10 DEF FrameArrives, taskVars, remoteVars
  <2> HIDE DEF object
  <2>3. Holds(rx', f) \in Nat /\ Holds(rx', f) + g = h + n
    BY <1>5, <2>1, <2>2
  <2>4. OneIf(f \in lost') = l + g
    BY <1>8, <2>1, <2>2, FrameNotLost
  <2>5. OneIf(f <= arrived') = a + n /\ g \in Nat
    BY <1>7, <2>2 DEF OneIf
  <2>6. OneIf(response' = f) = r /\ OneIf(packet' = f) = p /\ OneIf(f \in dropped') = d /\ forwarded'[f] = w
    BY <2>2
  <2> HIDE DEF h, r, p, l, d, w, a, n, g
  <2>7. Holds(rx', f) + r + p + (l + g) + d + w = a + n
    BY <1>9, <2>3, <2>5
  <2> QED
    BY <2>4, <2>5, <2>6, <2>7
<1>11. CASE AnswerArrives
  <2>1. /\ response' = arrived + 1
        /\ lost' = lost \cup ({response} \ {0})
        /\ arrived' = arrived + 1
        /\ rx' = rx /\ packet' = packet /\ dropped' = dropped /\ forwarded' = forwarded
    BY <1>11 DEF AnswerArrives, taskVars
  <2>2. OneIf(f \in lost') = l + r
    BY <1>8, <2>1, FrameNotLost
  <2>3. OneIf(f <= arrived') = a + n /\ OneIf(response' = f) = n
    BY <1>7, <2>1
  <2>4. Holds(rx', f) = h /\ OneIf(packet' = f) = p /\ OneIf(f \in dropped') = d /\ forwarded'[f] = w
    BY <2>1
  <2> HIDE DEF h, r, p, l, d, w, a, n
  <2> QED
    BY <1>9, <2>2, <2>3, <2>4
<1>12. CASE ReceiveFrame
  <2> DEFINE object == Min(RxObject \ Empty(rx))
             g == OneIf(rx[object] = f)
  <2>1. object \in RxObject
    BY <1>2, <1>3, <1>12, MinOfNaturals DEF ReceiveFrame, Empty, FrameTypes
  <2>2. /\ rx' = [rx EXCEPT ![object] = 0]
        /\ packet' = rx[object] /\ packet = 0
        /\ response' = response /\ lost' = lost /\ dropped' = dropped
        /\ forwarded' = forwarded /\ arrived' = arrived
    BY <1>12 DEF ReceiveFrame, Received, remoteVars
  <2> HIDE DEF object
  <2>3. Holds(rx', f) \in Nat /\ Holds(rx', f) + g = h + OneIf(0 = f)
    BY <1>5, <2>1, <2>2
  <2>4. OneIf(0 = f) = 0 /\ p = 0 /\ OneIf(packet' = f) = g /\ g \in Nat
    BY <1>3, <2>2 DEF OneIf
  <2>5. /\ OneIf(response' = f) = r /\ OneIf(f \in lost') = l /\ OneIf(f \in dropped') = d
        /\ forwarded'[f] = w /\ OneIf(f <= arrived') = a
    BY <2>2
  <2> HIDE DEF h, r, p, l, d, w, a, n, g
  <2>6. PICK h1 \in Nat : h1 = Holds(rx', f)
    BY <2>3
  <2>7. h1 + g = h /\ g \in Nat /\ p = 0
    BY <1>9, <2>3, <2>4, <2>6
  <2>8. h1 + r + g + l + d + w = a
    BY <1>9, <2>7
  <2> QED
    BY <2>4, <2>5, <2>6, <2>8
<1>13. CASE PollAnswered
  <2>1. /\ packet' = response /\ response' = 0 /\ packet = 0
        /\ rx' = rx /\ lost' = lost /\ dropped' = dropped /\ forwarded' = forwarded /\ arrived' = arrived
    BY <1>13 DEF PollAnswered, rxVars
  <2>2. OneIf(response' = f) = 0 /\ p = 0 /\ OneIf(packet' = f) = r
    BY <1>3, <2>1 DEF OneIf
  <2>3. Holds(rx', f) = h /\ OneIf(f \in lost') = l /\ OneIf(f \in dropped') = d /\ forwarded'[f] = w /\ OneIf(f <= arrived') = a
    BY <2>1
  <2> HIDE DEF h, r, p, l, d, w, a, n
  <2> QED
    BY <1>9, <2>2, <2>3
<1>14. CASE FrameForwarded
  <2>1. /\ forwarded' = [forwarded EXCEPT ![packet] = forwarded[packet] + 1] /\ packet' = 0
        /\ rx' = rx /\ response' = response /\ lost' = lost /\ dropped' = dropped
        /\ arrived' = arrived
    BY <1>14 DEF FrameForwarded
  <2>2. forwarded'[f] = w + p
    BY <1>2, <1>6, <2>1 DEF OneIf, FrameTypes
  <2>3. OneIf(packet' = f) = 0
    BY <1>3, <2>1 DEF OneIf
  <2>4. /\ Holds(rx', f) = h /\ OneIf(response' = f) = r /\ OneIf(f \in lost') = l
        /\ OneIf(f \in dropped') = d /\ OneIf(f <= arrived') = a
    BY <2>1
  <2> HIDE DEF h, r, p, l, d, w, a, n
  <2> QED
    BY <1>9, <2>2, <2>3, <2>4
<1>15. CASE AnswerCleared
  <2>1. /\ response' = 0 /\ lost' = lost \cup ({response} \ {0})
        /\ rx' = rx /\ packet' = packet /\ dropped' = dropped /\ forwarded' = forwarded /\ arrived' = arrived
    BY <1>15 DEF AnswerCleared
  <2>2. OneIf(f \in lost') = l + r
    BY <1>8, <2>1, FrameNotLost
  <2>3. OneIf(response' = f) = 0
    BY <1>3, <2>1 DEF OneIf
  <2>4. Holds(rx', f) = h /\ OneIf(packet' = f) = p /\ OneIf(f \in dropped') = d /\ forwarded'[f] = w /\ OneIf(f <= arrived') = a
    BY <2>1
  <2> HIDE DEF h, r, p, l, d, w, a, n
  <2>5. h + 0 + p + (l + r) + d + w = a
    BY <1>9
  <2> QED
    BY <2>2, <2>3, <2>4, <2>5
<1>16. CASE ReceiveOverlong
  <2> DEFINE object == Min(RxObject \ Empty(rx))
             g == OneIf(rx[object] = f)
  <2>1. object \in RxObject
    BY <1>2, <1>3, <1>16, MinOfNaturals DEF ReceiveOverlong, Empty, FrameTypes
  <2>2. /\ rx' = [rx EXCEPT ![object] = 0]
        /\ dropped' = dropped \cup {rx[object]}
        /\ response' = response /\ packet' = packet /\ lost' = lost
        /\ forwarded' = forwarded /\ arrived' = arrived
    BY <1>16 DEF ReceiveOverlong, Received, remoteVars
  <2> HIDE DEF object
  <2>3. Holds(rx', f) \in Nat /\ Holds(rx', f) + g = h + OneIf(0 = f)
    BY <1>5, <2>1, <2>2
  <2>4. OneIf(0 = f) = 0 /\ g \in Nat
    BY <1>3 DEF OneIf
  <2>5. OneIf(f \in dropped') = d + g
    BY <1>18, <2>1, <2>2, FrameNotLost
  <2>6. /\ OneIf(response' = f) = r /\ OneIf(packet' = f) = p /\ OneIf(f \in lost') = l
        /\ forwarded'[f] = w /\ OneIf(f <= arrived') = a
    BY <2>2
  <2> HIDE DEF h, r, p, l, d, w, a, n, g
  <2>7. PICK h1 \in Nat : h1 = Holds(rx', f)
    BY <2>3
  <2>8. h1 + g = h
    BY <1>9, <2>3, <2>4, <2>7
  <2>9. h1 + r + p + l + (d + g) + w = a
    BY <1>9, <2>4, <2>8
  <2> QED
    BY <2>5, <2>6, <2>7, <2>9
<1>17. CASE AnswerDropped
  <2>1. /\ response' = 0 /\ lost' = lost \cup ({response} \ {0})
        /\ packet' = 0 /\ dropped' = dropped \cup {packet}
        /\ rx' = rx /\ forwarded' = forwarded /\ arrived' = arrived
    BY <1>17 DEF AnswerDropped
  <2>2. OneIf(f \in lost') = l + r
    BY <1>8, <2>1, FrameNotLost
  <2>3. OneIf(f \in dropped') = d + p
    BY <1>18, <2>1, FrameNotLost
  <2>4. OneIf(response' = f) = 0 /\ OneIf(packet' = f) = 0
    BY <1>3, <2>1 DEF OneIf
  <2>5. Holds(rx', f) = h /\ forwarded'[f] = w /\ OneIf(f <= arrived') = a
    BY <2>1
  <2> HIDE DEF h, r, p, l, d, w, a, n
  <2>6. h + 0 + 0 + (l + r) + (d + p) + w = a
    BY <1>9
  <2> QED
    BY <2>2, <2>3, <2>4, <2>5, <2>6
<1>19. CASE UNCHANGED frameVars
  BY <1>4, <1>19 DEF frameVars
<1> QED
  BY <1>2, <1>10, <1>11, <1>12, <1>13, <1>14, <1>15, <1>16, <1>17,
     <1>19, FrameSteps

\* No frame is forwarded twice, and none disappears without being overwritten, cleared
\* with its request or dropped for its length, whatever the clients do and however
\* many objects there are (receive, receive_response, handle_signal, handle_client).
THEOREM FramesAlwaysAccounted == Spec => []FramesAccounted
<1>1. FrameInv => FramesAccounted
  BY DEF FrameInv
<1> QED
  BY <1>1, FramesInitially, FramesInductive, PTL DEF Spec

-----------------------------------------------------------------------------
(***************************************************************************)
(* Commands                                                                *)
(***************************************************************************)

CommandTypes ==
    /\ inbox \in [Client -> Message]
    /\ tx \in [TxObject -> {0} \cup Packet]
    /\ accepted \in Nat
    /\ transmitted \in [Packet -> Nat]

\* The packets that were put into objects are at most those that are numbered, and so
\* are these and those still to be taken, unless no object is free to take one.
CommandBound ==
    /\ accepted <= MaxSends
    /\ accepted + Holds(inbox, "data") <= MaxSends \/ Empty(tx) = {}

CommandInv == CommandTypes /\ CommandBound /\ CommandsAccounted

\* Messages are taken, or go with their client; nothing is sent.
MessagesDropped ==
    /\ inbox' \in [Client -> Message]
    /\ \A i \in Client : inbox'[i] = inbox[i] \/ inbox'[i] = "none"
    /\ UNCHANGED txVars

\* Every step writes, takes, drops or transmits.
LEMMA CommandSteps ==
    ASSUME CommandTypes, [Next]_vars
    PROVE  \/ \E i \in Client, message \in Message \ {"none"} : Write(i, message)
           \/ Transmit
           \/ \E i \in Client : HandleData(i)
           \/ MessagesDropped
<1> USE DEF clientVars, taskVars, rxVars, remoteVars, txVars
<1>0. "none" \in Message
  BY DEF Message
<1>1. UNCHANGED << inbox, txVars >> => MessagesDropped
  BY DEF MessagesDropped, CommandTypes
<1>2. CASE HandleSignal \/ ForwardAnswer
  <2>1. PICK failed \in SUBSET {i \in Client : clients[i] = "closed"} :
           inbox' = [i \in Client |-> IF i \in failed THEN "none" ELSE inbox[i]]
    BY <1>2 DEF HandleSignal, ForwardAnswer, HandleCanPacket
  <2>2. UNCHANGED txVars
    BY <1>2 DEF HandleSignal, ForwardAnswer
  <2> QED
    BY <1>0, <2>1, <2>2 DEF MessagesDropped, CommandTypes
<1>3. ASSUME NEW i \in Client, inbox' = [inbox EXCEPT ![i] = "none"], UNCHANGED txVars
      PROVE  MessagesDropped
  BY <1>0, <1>3 DEF MessagesDropped, CommandTypes
<1>4. ASSUME NEW i \in Client, HandleFailed(i) \/ HandleInvalid(i) \/ HandleRequest(i)
      PROVE  MessagesDropped
  BY <1>3, <1>4 DEF HandleFailed, HandleInvalid, HandleRequest
<1>5. ASSUME NEW i \in Client, HandleClosed(i)
      PROVE  UNCHANGED << inbox, txVars >>
  BY <1>5 DEF HandleClosed
<1>6. ASSUME NEW i \in Client, Stall(i) \/ Resume(i) \/ Close(i)
      PROVE  UNCHANGED << inbox, txVars >>
  BY <1>6 DEF Stall, Resume, Close
<1>7. CASE Connect \/ FrameArrives \/ RequestSent \/ AnswerArrives
  BY <1>1, <1>7 DEF Connect, FrameArrives, RequestSent, AnswerArrives
<1>8. CASE Select \/ ReceiveFrame \/ SignalsHandled \/ HandleConnect \/ PollEmpty
  BY <1>1, <1>8 DEF Select, ReceiveFrame, SignalsHandled, HandleConnect, PollEmpty
<1>9. CASE PollAnswered \/ RequestAnswered \/ RequestTimedOut \/ Served
  BY <1>1, <1>9 DEF PollAnswered, RequestAnswered, RequestTimedOut, Served
<1>12. CASE ReceiveOverlong \/ AnswerOverlong
  BY <1>1, <1>12 DEF ReceiveOverlong, AnswerOverlong
<1>10. CASE UNCHANGED vars
  BY <1>1, <1>10 DEF vars
<1>11. CASE Task
  BY <1>1, <1>2, <1>4, <1>5, <1>8, <1>9, <1>11, <1>12 DEF Task
<1> QED
  BY <1>1, <1>6, <1>7, <1>10, <1>11 DEF Next

LEMMA CommandsInitially == Init => CommandInv
<1> SUFFICES ASSUME Init
             PROVE  CommandInv
  OBVIOUS
<1>1. CommandTypes
  BY CanMasterAssumption DEF Init, CommandTypes, TxObject, Packet, Client, Message
<1>2. Holds(inbox, "data") = 0
  BY HoldsNone, CanMasterAssumption DEF Init, Client
<1>3. CommandBound
  BY <1>2, CanMasterAssumption DEF Init, CommandBound
<1>4. ASSUME NEW p \in Packet
      PROVE  Holds(tx, p) + transmitted[p] = OneIf(p <= accepted)
  <2>1. p \in Nat /\ p # 0 /\ ~ p <= 0
    BY CanMasterAssumption DEF Packet
  <2>2. Holds(tx, p) = 0
    BY <2>1, HoldsNone, CanMasterAssumption DEF Init, TxObject
  <2> QED
    BY <2>1, <2>2 DEF Init, OneIf
<1> QED
  BY <1>1, <1>3, <1>4 DEF CommandInv, CommandsAccounted

\* What is counted when a client writes or is served, ...
LEMMA InboxWritten ==
    ASSUME CommandTypes, NEW i \in Client, NEW m, inbox' = [inbox EXCEPT ![i] = m]
    PROVE  /\ Holds(inbox, "data") \in Nat
           /\ Holds(inbox', "data") \in Nat
           /\ inbox[i] # "data" /\ m # "data" => Holds(inbox', "data") = Holds(inbox, "data")
           /\ inbox[i] = "data" /\ m # "data" => Holds(inbox', "data") + 1 = Holds(inbox, "data")
           /\ inbox[i] # "data" /\ m = "data" => Holds(inbox', "data") = Holds(inbox, "data") + 1
<1> DEFINE n == "data"
<1>0. PICK r : r = inbox'
  OBVIOUS
<1>1. IsFiniteSet(Client)
  BY CanMasterAssumption, FS_Interval DEF Client
<1>2. Written(inbox, r, i) /\ r[i] = m
  BY <1>0, <1>1 DEF CommandTypes, Written
<1> HIDE DEF n
<1>3. Holds(inbox, n) \in Nat
  BY <1>2, HoldsStep
<1>4. Holds(r, n) \in Nat
  BY <1>2, HoldsStep
<1>5. (inbox[i] = n <=> r[i] = n) => Holds(r, n) = Holds(inbox, n)
  BY <1>2, HoldsStep
<1>6. inbox[i] = n /\ r[i] # n => Holds(r, n) + 1 = Holds(inbox, n)
  BY <1>2, HoldsStep
<1>7. inbox[i] # n /\ r[i] = n => Holds(r, n) = Holds(inbox, n) + 1
  BY <1>2, HoldsStep
<1> QED
  BY <1>0, <1>2, <1>3, <1>4, <1>5, <1>6, <1>7 DEF n

\* ... and when a transmit object is set or sent.
LEMMA TxWritten ==
    ASSUME CommandTypes, NEW o \in TxObject, NEW v, NEW n
    PROVE  /\ Holds(tx, n) \in Nat
           /\ Holds([tx EXCEPT ![o] = v], n) \in Nat
           /\ Holds([tx EXCEPT ![o] = v], n) + OneIf(tx[o] = n) = Holds(tx, n) + OneIf(v = n)
<1>0. PICK r : r = [tx EXCEPT ![o] = v]
  OBVIOUS
<1>1. IsFiniteSet(TxObject)
  BY CanMasterAssumption, FS_Interval DEF TxObject
<1>2. Written(tx, r, o) /\ r[o] = v
  BY <1>0, <1>1 DEF CommandTypes, Written
<1>3. Holds(tx, n) \in Nat
  BY <1>2, HoldsStep
<1>4. Holds(r, n) \in Nat
  BY <1>2, HoldsStep
<1>5. (tx[o] = n <=> r[o] = n) => Holds(r, n) = Holds(tx, n)
  BY <1>2, HoldsStep
<1>6. tx[o] = n /\ r[o] # n => Holds(r, n) + 1 = Holds(tx, n)
  BY <1>2, HoldsStep
<1>7. tx[o] # n /\ r[o] = n => Holds(r, n) = Holds(tx, n) + 1
  BY <1>2, HoldsStep
<1> QED
  BY <1>0, <1>2, <1>3, <1>4, <1>5, <1>6, <1>7 DEF OneIf

\* Every step keeps the account, and leaves a number for each packet to come.
LEMMA CommandsInductive == CommandInv /\ [Next]_vars => CommandInv'
<1> SUFFICES ASSUME CommandInv, [Next]_vars
             PROVE  CommandInv'
  OBVIOUS
<1> USE DEF CommandInv
<1>1. /\ MaxSends \in Nat /\ Packet \subseteq Nat /\ 0 \notin Packet /\ TxObject \subseteq Nat
      /\ accepted \in Nat
  BY CanMasterAssumption DEF Packet, TxObject, CommandTypes
<1>2. ASSUME CommandTypes', CommandBound',
             \A p \in Packet : Holds(tx', p) + transmitted'[p] = OneIf(p <= accepted')
      PROVE  CommandInv'
  BY <1>2 DEF CommandsAccounted
<1>3. ASSUME NEW i \in Client, NEW message \in Message \ {"none"}, Write(i, message)
      PROVE  CommandInv'
  <2>1. /\ inbox' = [inbox EXCEPT ![i] = message]
        /\ inbox[i] = "none"
        /\ \/ message # "data"
           \/ accepted + Cardinality({j \in Client : inbox[j] = "data"}) < MaxSends
           \/ Empty(tx) = {}
        /\ UNCHANGED txVars
    BY <1>3 DEF Write, Waiting
  <2>2. Holds(inbox, "data") = Cardinality({j \in Client : inbox[j] = "data"})
    BY DEF Holds, CommandTypes
  <2>3. CommandTypes'
    BY <2>1 DEF CommandTypes, txVars
  <2>4. CommandBound'
    <3>1. CASE message = "data"
      <4>1. Holds(inbox, "data") \in Nat /\ Holds(inbox', "data") = Holds(inbox, "data") + 1
        BY <2>1, <3>1, InboxWritten
      <4>2. accepted' + Holds(inbox', "data") <= MaxSends \/ Empty(tx) = {}
        BY <1>1, <2>1, <2>2, <3>1, <4>1 DEF txVars
      <4>3. accepted' <= MaxSends /\ Empty(tx') = Empty(tx)
        BY <2>1 DEF CommandBound, txVars
      <4> QED
        BY <4>2, <4>3 DEF CommandBound
    <3>2. CASE message # "data"
      <4>1. Holds(inbox', "data") = Holds(inbox, "data")
        BY <2>1, <3>2, InboxWritten
      <4> QED
        BY <2>1, <4>1 DEF CommandBound, txVars
    <3> QED
      BY <3>1, <3>2
  <2> QED
    BY <1>2, <2>1, <2>3, <2>4 DEF CommandsAccounted, txVars
<1>4. CASE MessagesDropped
  <2>1. CommandTypes'
    BY <1>4 DEF MessagesDropped, CommandTypes, txVars
  <2>2. CommandBound'
    <3> DEFINE A == {j \in Client : inbox[j] = "data"}
               B == {j \in Client : inbox'[j] = "data"}
    <3>1. Holds(inbox, "data") = Cardinality(A) /\ Holds(inbox', "data") = Cardinality(B)
      BY <1>4 DEF Holds, CommandTypes, MessagesDropped
    <3>2. B \in SUBSET A /\ A \in SUBSET Client
      BY <1>4 DEF MessagesDropped
    <3> HIDE DEF A, B
    <3>3. IsFiniteSet(Client)
      BY CanMasterAssumption, FS_Interval DEF Client
    <3>4. IsFiniteSet(A)
      BY <3>2, <3>3, FS_Subset
    <3>5. IsFiniteSet(B) /\ Cardinality(B) <= Cardinality(A)
      BY <3>2, <3>4, FS_Subset
    <3>6. Cardinality(A) \in Nat /\ Cardinality(B) \in Nat
      BY <3>4, <3>5, FS_CardinalityType
    <3>7. accepted + Cardinality(B) <= MaxSends \/ Empty(tx) = {}
      BY <1>1, <3>1, <3>5, <3>6 DEF CommandBound
    <3> QED
      BY <1>4, <3>1, <3>7 DEF CommandBound, MessagesDropped, txVars
  <2> QED
    BY <1>2, <1>4, <2>1, <2>2 DEF CommandsAccounted, MessagesDropped, txVars
<1>5. CASE Transmit
  <2> DEFINE object == Min(TxObject \ Empty(tx))
  <2>1. object \in TxObject /\ tx[object] \in Packet
    <3>1. TxObject \ Empty(tx) # {}
      BY <1>5 DEF Transmit, Empty, CommandTypes
    <3>2. object \in TxObject \ Empty(tx)
      BY <1>1, <3>1, MinOfNaturals
    <3> QED
      BY <3>2 DEF Empty, CommandTypes
  <2>2. /\ tx' = [tx EXCEPT ![object] = 0]
        /\ transmitted' = [transmitted EXCEPT ![tx[object]] = transmitted[tx[object]] + 1]
        /\ UNCHANGED << inbox, accepted >>
    BY <1>5 DEF Transmit, clientVars
  <2> HIDE DEF object
  <2>3. CommandTypes'
    <3>1. transmitted[tx[object]] + 1 \in Nat
      BY <2>1 DEF CommandTypes
    <3> QED
      BY <2>1, <2>2, <3>1 DEF CommandTypes
  <2>4. CommandBound'
    <3>1. accepted + Holds(inbox, "data") <= MaxSends
      BY <1>5 DEF Transmit, Waiting, Holds, CommandTypes
    <3> QED
      BY <2>2, <3>1 DEF CommandBound
  <2>5. ASSUME NEW p \in Packet
        PROVE  Holds(tx', p) + transmitted'[p] = OneIf(p <= accepted')
    <3>1. /\ Holds(tx, p) \in Nat /\ Holds(tx', p) \in Nat
          /\ Holds(tx', p) + OneIf(tx[object] = p) = Holds(tx, p) + OneIf(0 = p)
      <4>1. ASSUME NEW v
            PROVE  /\ Holds(tx, p) \in Nat
                   /\ Holds([tx EXCEPT ![object] = v], p) \in Nat
                   /\ Holds([tx EXCEPT ![object] = v], p) + OneIf(tx[object] = p)
                        = Holds(tx, p) + OneIf(v = p)
        BY <2>1, TxWritten
      <4> QED
        BY <2>2, <4>1
    <3>2. transmitted'[p] = transmitted[p] + OneIf(tx[object] = p) /\ transmitted[p] \in Nat
      BY <2>1, <2>2 DEF OneIf, CommandTypes
    <3>3. OneIf(0 = p) = 0 /\ OneIf(tx[object] = p) \in Nat
      BY <1>1 DEF OneIf
    <3>4. Holds(tx, p) + transmitted[p] = OneIf(p <= accepted)
      BY DEF CommandsAccounted
    <3> DEFINE h == Holds(tx, p)
               h1 == Holds(tx', p)
               g == OneIf(tx[object] = p)
               w == transmitted[p]
    <3>5. h \in Nat /\ h1 \in Nat /\ g \in Nat /\ w \in Nat /\ h1 + g = h + 0
      BY <3>1, <3>2, <3>3
    <3> HIDE DEF h, h1, g, w
    <3>6. h1 + (w + g) = h + w
      BY <3>5
    <3> QED
      BY <2>2, <3>2, <3>4, <3>6 DEF h, h1, g, w
  <2> QED
    BY <1>2, <2>3, <2>4, <2>5
<1>6. ASSUME NEW i \in Client, HandleData(i)
      PROVE  CommandInv'
  <2>1. inbox[i] = "data" /\ inbox' = [inbox EXCEPT ![i] = "none"]
    BY <1>6 DEF HandleData
  <2>2. /\ Holds(inbox, "data") \in Nat /\ Holds(inbox', "data") \in Nat
        /\ Holds(inbox', "data") + 1 = Holds(inbox, "data")
    <3>1. PICK m : m = "none"
      OBVIOUS
    <3>2. m # "data" /\ inbox' = [inbox EXCEPT ![i] = m] /\ inbox[i] = "data"
      BY <2>1, <3>1
    <3> QED
      BY <3>2, InboxWritten
  <2>3. accepted + 1 + Holds(inbox', "data") <= MaxSends \/ Empty(tx) = {}
    BY <1>1, <2>2 DEF CommandBound
  <2>4. inbox' \in [Client -> Message]
    BY <2>1 DEF CommandTypes, Message
  <2>5. CASE UNCHANGED txVars
    <3>1. CommandBound'
      <4>1. accepted + Holds(inbox', "data") <= MaxSends \/ Empty(tx) = {}
        BY <1>1, <2>2, <2>3
      <4> QED
        BY <2>5, <4>1 DEF CommandBound, txVars
    <3>2. CommandTypes'
      BY <2>4, <2>5 DEF CommandTypes, txVars
    <3> QED
      BY <1>2, <2>5, <3>1, <3>2 DEF CommandsAccounted, txVars
  <2>6. CASE /\ FreeObjects # {}
             /\ tx' = [tx EXCEPT ![Min(FreeObjects)] = accepted + 1]
             /\ accepted' = accepted + 1
             /\ UNCHANGED transmitted
    <3> DEFINE object == Min(FreeObjects)
    <3>1. object \in TxObject /\ tx[object] = 0
      <4>1. FreeObjects \subseteq TxObject
        BY DEF FreeObjects, Empty, CommandTypes
      <4>2. object \in FreeObjects
        BY <1>1, <2>6, <4>1, MinOfNaturals
      <4> QED
        BY <4>1, <4>2 DEF FreeObjects, Empty
    <3>2. tx' = [tx EXCEPT ![object] = accepted + 1]
      BY <2>6
    <3> HIDE DEF object
    <3>7. accepted + 1 + Holds(inbox', "data") <= MaxSends
      BY <2>3, <2>6 DEF FreeObjects
    <3>8. accepted + 1 <= MaxSends
      BY <1>1, <2>2, <3>7
    <3>3. accepted + 1 \in Packet
      BY <1>1, <3>8 DEF Packet
    <3>4. CommandTypes'
      BY <1>1, <2>4, <2>6, <3>1, <3>2, <3>3 DEF CommandTypes
    <3>5. CommandBound'
      BY <2>6, <3>7, <3>8 DEF CommandBound
    <3>6. ASSUME NEW p \in Packet
          PROVE  Holds(tx', p) + transmitted'[p] = OneIf(p <= accepted')
      <4>1. /\ Holds(tx, p) \in Nat /\ Holds(tx', p) \in Nat
            /\ Holds(tx', p) + OneIf(tx[object] = p) = Holds(tx, p) + OneIf(accepted + 1 = p)
        <5>1. ASSUME NEW v
              PROVE  /\ Holds(tx, p) \in Nat
                     /\ Holds([tx EXCEPT ![object] = v], p) \in Nat
                     /\ Holds([tx EXCEPT ![object] = v], p) + OneIf(tx[object] = p)
                          = Holds(tx, p) + OneIf(v = p)
          BY <3>1, TxWritten
        <5> QED
          BY <3>2, <5>1
      <4>2. OneIf(tx[object] = p) = 0 /\ OneIf(accepted + 1 = p) \in Nat
        BY <1>1, <3>1 DEF OneIf
      <4>3. OneIf(p <= accepted + 1) = OneIf(p <= accepted) + OneIf(accepted + 1 = p)
        BY <1>1 DEF OneIf
      <4>4. Holds(tx, p) + transmitted[p] = OneIf(p <= accepted) /\ transmitted[p] \in Nat
        BY DEF CommandsAccounted, CommandTypes
      <4> DEFINE h == Holds(tx, p)
                 h1 == Holds(tx', p)
                 n == OneIf(accepted + 1 = p)
                 w == transmitted[p]
                 a == OneIf(p <= accepted)
      <4>5. h \in Nat /\ h1 \in Nat /\ n \in Nat /\ w \in Nat /\ h1 + 0 = h + n /\ h + w = a
        BY <4>1, <4>2, <4>4
      <4> HIDE DEF h, h1, n, w, a
      <4>6. h1 + w = a + n
        BY <4>5
      <4> QED
        BY <2>6, <4>3, <4>6 DEF h1, n, w, a
    <3> QED
      BY <1>2, <3>4, <3>5, <3>6
  <2> QED
    BY <1>6, <2>5, <2>6 DEF HandleData
<1> QED
  BY <1>3, <1>4, <1>5, <1>6, CommandSteps

\* Every command taken from a client waits in one object or was transmitted once, for
\* any number of clients and objects: do_send() overwrites none that waits.
THEOREM CommandsAlwaysAccounted == Spec => []CommandsAccounted
<1>1. CommandInv => CommandsAccounted
  BY DEF CommandInv
<1> QED
  BY <1>1, CommandsInitially, CommandsInductive, PTL DEF Spec

-----------------------------------------------------------------------------
(***************************************************************************)
(* Type correctness                                                        *)
(***************************************************************************)

\* What the accounts leave of TypeOK.
TaskTypes ==
    /\ clients \in [Client -> {"free", "open", "stalled", "closed"}]
    /\ connecting \in BOOLEAN
    /\ phase \in {"select", "before", "serve", "poll", "reply", "after"}
    /\ rdset \subseteq {Server} \cup Client
    /\ polls \in 0 .. Polls
    /\ created \in BOOLEAN
    /\ signal \in BOOLEAN
    /\ remote \in RemoteState

LEMMA TaskTypesInitially == Init => TaskTypes
<1> SUFFICES ASSUME Init
             PROVE  TaskTypes
  OBVIOUS
<1>1. connecting \in BOOLEAN /\ created \in BOOLEAN /\ signal \in BOOLEAN
  BY Zenon DEF Init
<1> QED
  BY <1>1, CanMasterAssumption DEF Init, TaskTypes, RemoteState

LEMMA TaskTypesInductive == TaskTypes /\ [Next]_vars => TaskTypes'
<1> SUFFICES ASSUME TaskTypes, [Next]_vars
             PROVE  TaskTypes'
  OBVIOUS
<1> USE DEF clientVars, taskVars, rxVars, remoteVars, txVars
\* Every flag stays or is set to a constant.
<1>1. connecting' \in BOOLEAN /\ created' \in BOOLEAN /\ signal' \in BOOLEAN
  <2>1. connecting' = connecting \/ connecting' = TRUE \/ connecting' = FALSE
    BY Zenon DEF Next, Task, vars, Connect, Write, Stall, Resume, Close, FrameArrives, RequestSent,
       AnswerArrives, Transmit, Select, ReceiveFrame, HandleSignal, SignalsHandled,
       HandleConnect, HandleClosed, HandleFailed, HandleInvalid, HandleData, HandleRequest,
       PollEmpty, PollAnswered, RequestAnswered, ForwardAnswer, RequestTimedOut, Served,
       ReceiveOverlong, AnswerOverlong
  <2>2. created' = created \/ created' = TRUE
    BY Zenon DEF Next, Task, vars, Connect, Write, Stall, Resume, Close, FrameArrives, RequestSent,
       AnswerArrives, Transmit, Select, ReceiveFrame, HandleSignal, SignalsHandled,
       HandleConnect, HandleClosed, HandleFailed, HandleInvalid, HandleData, HandleRequest,
       PollEmpty, PollAnswered, RequestAnswered, ForwardAnswer, RequestTimedOut, Served,
       ReceiveOverlong, AnswerOverlong
  <2>3. signal' = signal \/ signal' = TRUE \/ signal' = FALSE
    BY Zenon DEF Next, Task, vars, Connect, Write, Stall, Resume, Close, FrameArrives, RequestSent,
       AnswerArrives, Transmit, Select, ReceiveFrame, HandleSignal, SignalsHandled,
       HandleConnect, HandleClosed, HandleFailed, HandleInvalid, HandleData, HandleRequest,
       PollEmpty, PollAnswered, RequestAnswered, ForwardAnswer, RequestTimedOut, Served,
       ReceiveOverlong, AnswerOverlong
  <2> QED
    BY <2>1, <2>2, <2>3, Zenon DEF TaskTypes
\* The task goes from phase to phase and counts its polls down.
<1>2. /\ phase' \in {"select", "before", "serve", "poll", "reply", "after"}
      /\ polls' \in 0 .. Polls
  <2>1. CASE UNCHANGED << phase, polls >>
    BY <2>1 DEF TaskTypes
  <2>2. CASE Select \/ SignalsHandled \/ ReceiveOverlong \/ Served
    BY <2>2 DEF Select, SignalsHandled, ReceiveOverlong, Served, AfterSignals, AfterServing, TaskTypes
  <2>3. ASSUME NEW i \in Client, HandleRequest(i)
        PROVE  UNCHANGED << phase, polls >> \/ (phase' = "poll" /\ polls' \in 0 .. Polls)
    BY <2>3, CanMasterAssumption DEF HandleRequest
  <2>4. CASE PollEmpty \/ AnswerOverlong
    <3>1. polls' = polls - 1 /\ polls > 0 /\ phase' = phase
      BY <2>4 DEF PollEmpty, AnswerOverlong
    <3>2. polls \in 0 .. Polls /\ Polls \in Nat
      BY CanMasterAssumption DEF TaskTypes
    <3> QED
      BY <3>1, <3>2 DEF TaskTypes
  <2>5. CASE RequestAnswered \/ RequestTimedOut \/ ForwardAnswer
    BY <2>5, CanMasterAssumption DEF RequestAnswered, RequestTimedOut, ForwardAnswer, TaskTypes
  <2>6. CASE Connect \/ FrameArrives \/ RequestSent \/ AnswerArrives \/ Transmit
    BY <2>1, <2>6 DEF Connect, FrameArrives, RequestSent, AnswerArrives, Transmit
  <2>7. CASE ReceiveFrame \/ HandleSignal \/ HandleConnect \/ PollAnswered
    BY <2>1, <2>7 DEF ReceiveFrame, HandleSignal, HandleConnect, PollAnswered
  <2>8. ASSUME NEW i \in Client, NEW message, Write(i, message)
        PROVE  UNCHANGED << phase, polls >>
    BY <2>8 DEF Write
  <2>9. ASSUME NEW i \in Client, Stall(i) \/ Resume(i) \/ Close(i)
        PROVE  UNCHANGED << phase, polls >>
    BY <2>9 DEF Stall, Resume, Close
  <2>10. ASSUME NEW i \in Client,
                HandleClosed(i) \/ HandleFailed(i) \/ HandleInvalid(i) \/ HandleData(i)
         PROVE  UNCHANGED << phase, polls >>
    BY <2>10 DEF HandleClosed, HandleFailed, HandleInvalid, HandleData
  <2>11. CASE UNCHANGED vars
    BY <2>1, <2>11 DEF vars
  <2>12. CASE Task
    BY <2>1, <2>2, <2>3, <2>4, <2>5, <2>7, <2>10, <2>12 DEF Task
  <2> QED
    BY <2>1, <2>6, <2>8, <2>9, <2>11, <2>12 DEF Next
<1>3. remote' \in RemoteState
  BY DEF RemoteState, TaskTypes, Next, Task, vars, Connect, Write, Stall, Resume, Close,
     FrameArrives, RequestSent, AnswerArrives, Transmit, Select, ReceiveFrame, HandleSignal,
     SignalsHandled, HandleConnect, HandleClosed, HandleFailed, HandleInvalid, HandleData,
     HandleRequest, PollEmpty, PollAnswered, RequestAnswered, ForwardAnswer, RequestTimedOut,
     ClearRequest, Served, ReceiveOverlong, AnswerOverlong

\* The descriptors to serve are those that were readable, and then fewer.
<1>4. rdset' \subseteq {Server} \cup Client
  <2>1. CASE rdset' \subseteq rdset
    BY <2>1 DEF TaskTypes
  <2>2. CASE Select
    BY <2>2 DEF Select, Readable
  <2>3. CASE HandleSignal \/ ForwardAnswer
    BY <2>1, <2>3 DEF HandleSignal, ForwardAnswer, HandleCanPacket
  <2>4. CASE HandleConnect \/ ReceiveFrame \/ SignalsHandled \/ PollEmpty \/ PollAnswered
    BY <2>1, <2>4 DEF HandleConnect, ReceiveFrame, SignalsHandled, PollEmpty, PollAnswered
  <2>5. CASE RequestAnswered \/ RequestTimedOut \/ Served \/ ReceiveOverlong \/ AnswerOverlong
    BY <2>1, <2>5 DEF RequestAnswered, RequestTimedOut, Served, ReceiveOverlong, AnswerOverlong
  <2>6. ASSUME NEW i \in Client, HandleClosed(i) \/ HandleFailed(i) \/ HandleInvalid(i)
        PROVE  rdset' \subseteq rdset
    BY <2>6 DEF HandleClosed, HandleFailed, HandleInvalid
  <2>7. ASSUME NEW i \in Client, HandleData(i) \/ HandleRequest(i)
        PROVE  rdset' \subseteq rdset
    BY <2>7 DEF HandleData, HandleRequest
  <2>8. CASE Connect \/ FrameArrives \/ RequestSent \/ AnswerArrives \/ Transmit
    BY <2>1, <2>8 DEF Connect, FrameArrives, RequestSent, AnswerArrives, Transmit
  <2>9. ASSUME NEW i \in Client, NEW message, Write(i, message)
        PROVE  rdset' \subseteq rdset
    BY <2>9 DEF Write
  <2>10. ASSUME NEW i \in Client, Stall(i) \/ Resume(i) \/ Close(i)
         PROVE  rdset' \subseteq rdset
    BY <2>10 DEF Stall, Resume, Close
  <2>11. CASE UNCHANGED vars
    BY <2>1, <2>11 DEF vars
  <2>12. CASE Task
    BY <2>1, <2>2, <2>3, <2>4, <2>5, <2>6, <2>7, <2>12 DEF Task
  <2> QED
    BY <2>1, <2>8, <2>9, <2>10, <2>11, <2>12 DEF Next
<1>5. clients' \in [Client -> {"free", "open", "stalled", "closed"}]
  <2>1. CASE UNCHANGED clients
    BY <2>1 DEF TaskTypes
  <2>2. CASE HandleSignal \/ ForwardAnswer
    <3>1. PICK failed \in SUBSET {i \in Client : clients[i] = "closed"} :
             clients' = [i \in Client |-> IF i \in failed THEN "free" ELSE clients[i]]
      BY <2>2 DEF HandleSignal, ForwardAnswer, HandleCanPacket
    <3> QED
      BY <3>1 DEF TaskTypes
  <2>3. CASE HandleConnect
    <3> DEFINE free == {i \in Client : clients[i] = "free"}
    <3>1. free # {} => Min(free) \in Client
      BY MinOfNaturals DEF Client
    <3>2. clients' = IF free = {} THEN clients ELSE [clients EXCEPT ![Min(free)] = "open"]
      BY <2>3 DEF HandleConnect
    <3> HIDE DEF free
    <3> QED
      BY <3>1, <3>2 DEF TaskTypes
  <2>4. ASSUME NEW i \in Client, Stall(i) \/ Resume(i) \/ Close(i) \/ HandleFailed(i)
        PROVE  clients' \in [Client -> {"free", "open", "stalled", "closed"}]
    BY <2>4 DEF Stall, Resume, Close, HandleFailed, TaskTypes
  <2>5. ASSUME NEW i \in Client, HandleClosed(i) \/ HandleInvalid(i) \/ HandleData(i) \/ HandleRequest(i)
        PROVE  UNCHANGED clients
    BY <2>5 DEF HandleClosed, HandleInvalid, HandleData, HandleRequest
  <2>6. ASSUME NEW i \in Client, NEW message, Write(i, message)
        PROVE  UNCHANGED clients
    BY <2>6 DEF Write
  <2>7. CASE Connect \/ FrameArrives \/ RequestSent \/ AnswerArrives \/ Transmit
    BY <2>1, <2>7 DEF Connect, FrameArrives, RequestSent, AnswerArrives, Transmit
  <2>8. CASE Select \/ ReceiveFrame \/ SignalsHandled \/ PollEmpty \/ PollAnswered
    BY <2>1, <2>8 DEF Select, ReceiveFrame, SignalsHandled, PollEmpty, PollAnswered
  <2>9. CASE RequestAnswered \/ RequestTimedOut \/ Served \/ ReceiveOverlong \/ AnswerOverlong
    BY <2>1, <2>9 DEF RequestAnswered, RequestTimedOut, Served, ReceiveOverlong, AnswerOverlong
  <2>10. CASE UNCHANGED vars
    BY <2>1, <2>10 DEF vars
  <2>11. CASE Task
    BY <2>1, <2>2, <2>3, <2>4, <2>5, <2>8, <2>9, <2>11 DEF Task
  <2> QED
    BY <2>1, <2>4, <2>6, <2>7, <2>10, <2>11 DEF Next
<1> QED
  BY <1>1, <1>2, <1>3, <1>4, <1>5 DEF TaskTypes

\* The task, its clients and the controller keep to their types; the two accounts are
\* what bounds the numbers of the packets (can_server.cpp, can.cpp).
THEOREM CanMasterTypeCorrect == Spec => []TypeOK
<1>1. FrameInv /\ CommandInv /\ TaskTypes => TypeOK
  <2> SUFFICES ASSUME FrameInv, CommandInv, TaskTypes
               PROVE  TypeOK
    OBVIOUS
  <2>1. accepted \in 0 .. MaxSends
    BY CanMasterAssumption DEF CommandInv, CommandTypes, CommandBound
  <2> QED
    BY <2>1 DEF TypeOK, FrameInv, FrameTypes, CommandInv, CommandTypes, TaskTypes
<1> QED
  BY <1>1, FramesInitially, FramesInductive, CommandsInitially, CommandsInductive,
     TaskTypesInitially, TaskTypesInductive, PTL DEF Spec
=============================================================================
