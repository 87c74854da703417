-------------------------- MODULE NodeLoopProofs ---------------------------
(***************************************************************************)
(* The main loop of a CAN node, for any set of channels, any scale of the  *)
(* counters and a FIFO of any size; and, at the end, the button channel    *)
(* that its ticks sample.                                                  *)
(*                                                                         *)
(* ErrorShown needs that a node without a CAN controller never gets to the *)
(* code that answers a frame, LoneThermometerReady that a node which never *)
(* had two thermometers at a time has at most one.                         *)
(***************************************************************************)
EXTENDS NodeLoop, ButtonChannel, FiniteSetTheorems, TLAPS

\* Without the controller there is no frame to answer, and none being answered.
DownIsSilent == ~ can_up => fifo = 0 /\ pc # "converting"

\* What the history variable says about the present.
AtMostOne == ~ shared => Cardinality(thermometers) <= 1

LoopInv ==
    /\ TypeOK
    /\ ErrorShown
    /\ LoneThermometerReady
    /\ DownIsSilent
    /\ AtMostOne

-----------------------------------------------------------------------------
(***************************************************************************)
(* led.c                                                                   *)
(***************************************************************************)

LedState == [mode : {"Off", "On", "Blink"}, off_time : Nat, counter : Nat, lit : BOOLEAN]

LEMMA Scales ==
    /\ ClockPostscaler \in Nat \ {0} /\ MaxPeriod \in Nat \ {0} /\ StartScale \in Nat \ {0}
    /\ FrameScale \in Nat \ {0} /\ ErrorScale \in Nat \ {0} /\ WaitCount \in Nat \ {0}
    /\ FifoSize \in Nat \ {0}
  BY NodeLoopAssumption

\* CAN_Node_Led_switch(led, ENABLE)
LEMMA SwitchedOnFacts ==
    ASSUME NEW l \in [Led -> LedState], NEW led \in Led
    PROVE  /\ SwitchedOn(l, led) \in [Led -> LedState]
           /\ SwitchedOn(l, led)[led].mode = "On" /\ SwitchedOn(l, led)[led].lit
<1> DEFINE moded == [l EXCEPT ![led].mode = "On"]
<1>1. moded \in [Led -> LedState] /\ moded[led].mode = "On"
  BY DEF LedState
<1>2. SwitchedOn(l, led) = [moded EXCEPT ![led].lit = TRUE]
  BY DEF SwitchedOn
<1> HIDE DEF moded
<1>3. [moded EXCEPT ![led].lit = TRUE] \in [Led -> LedState]
  BY <1>1 DEF LedState
<1>4. [moded EXCEPT ![led].lit = TRUE][led] = [moded[led] EXCEPT !.lit = TRUE]
  BY <1>1
<1>5. moded[led] \in LedState
  BY <1>1
<1>6. [moded[led] EXCEPT !.lit = TRUE].mode = "On" /\ [moded[led] EXCEPT !.lit = TRUE].lit
  BY <1>1, <1>5 DEF LedState
<1> QED
  BY <1>2, <1>3, <1>4, <1>6

\* CAN_Node_Led_blink() leaves the other LED alone.
LEMMA BlinkingFacts ==
    ASSUME NEW l \in [Led -> LedState], NEW led \in Led, NEW scale \in Nat
    PROVE  /\ Blinking(l, led, scale) \in [Led -> LedState]
           /\ \A other \in Led \ {led} : Blinking(l, led, scale)[other] = l[other]
<1>1. [mode |-> "Blink", off_time |-> scale, counter |-> 0, lit |-> TRUE] \in LedState
  BY DEF LedState
<1> QED
  BY <1>1 DEF Blinking

\* update_led() ends a blink and does nothing to an LED that is switched on.
LEMMA UpdatedFacts ==
    ASSUME NEW led \in LedState
    PROVE  /\ Updated(led) \in LedState
           /\ led.mode = "On" => Updated(led) = led
<1>1. CASE led.mode # "Blink"
  BY <1>1 DEF Updated
<1>2. CASE led.mode = "Blink" /\ led.counter + 1 >= led.off_time
  <2>1. led.counter + 1 \in Nat
    BY DEF LedState
  <2>2. Updated(led) = [mode |-> "Off", off_time |-> led.off_time, counter |-> led.counter + 1,
                        lit |-> FALSE]
    BY <1>2 DEF Updated, LedState
  <2> QED
    BY <1>2, <2>1, <2>2 DEF LedState
<1>3. CASE led.mode = "Blink" /\ ~ (led.counter + 1 >= led.off_time)
  BY <1>3 DEF Updated, LedState
<1> QED
  BY <1>1, <1>2, <1>3

LEMMA ClockedFacts ==
    ASSUME leds \in [Led -> LedState]
    PROVE  /\ LedsClocked \in [Led -> LedState]
           /\ leds["Error"].mode = "On" => LedsClocked["Error"] = leds["Error"]
  BY UpdatedFacts DEF LedsClocked, Led

\* The LEDs at the start: the error LED tells whether the controller is up.
LEMMA StartedFacts ==
    ASSUME NEW up \in BOOLEAN
    PROVE  /\ Started(up) \in [Led -> LedState]
           /\ ~ up => Started(up)["Error"].mode = "On" /\ Started(up)["Error"].lit
<1> DEFINE dark == [l \in Led |-> Off]
           replied == IF up THEN dark ELSE SwitchedOn(dark, "Error")
<1>1. dark \in [Led -> LedState]
  BY DEF Off, LedState
<1>2. replied \in [Led -> LedState]
  BY <1>1, SwitchedOnFacts DEF Led
<1>3. ~ up => replied["Error"].mode = "On" /\ replied["Error"].lit
  BY <1>1, SwitchedOnFacts DEF Led
<1>4. Started(up) = Blinking(replied, "Info", StartScale)
  BY DEF Started
<1> HIDE DEF replied
<1>5. "Info" \in Led /\ "Error" \in Led \ {"Info"} /\ StartScale \in Nat
  BY Scales DEF Led
<1> QED
  BY <1>2, <1>3, <1>4, <1>5, BlinkingFacts

\* What the handlers of frames make of the LEDs.
LEMMA FrameLedsFacts ==
    ASSUME leds \in [Led -> LedState]
    PROVE  /\ FrameLeds \in [Led -> LedState]
           /\ FrameLeds["Error"] = leds["Error"]
  BY BlinkingFacts, Scales DEF FrameLeds, Led

LEMMA RepliedFacts ==
    ASSUME NEW l \in [Led -> LedState]
    PROVE  Replied(l) \subseteq [Led -> LedState]
  BY BlinkingFacts, Scales DEF Replied, Led

-----------------------------------------------------------------------------
(***************************************************************************)
(* The thermometers                                                        *)
(***************************************************************************)

\* A set with at most one element, one of whose elements is known.
LEMMA LoneElement ==
    ASSUME NEW S, IsFiniteSet(S), Cardinality(S) <= 1, NEW c \in S
    PROVE  S \ {c} = {}
<1>1. Cardinality(S \ {c}) = Cardinality(S) - 1 /\ IsFiniteSet(S \ {c})
  BY FS_RemoveElement
<1>2. Cardinality(S) \in Nat /\ Cardinality(S \ {c}) \in Nat
  BY <1>1, FS_CardinalityType
<1> QED
  BY <1>1, <1>2, FS_EmptySet

-----------------------------------------------------------------------------
LEMMA LoopInitial == Init => LoopInv
<1> SUFFICES ASSUME Init PROVE LoopInv
  OBVIOUS
<1>1. leds \in [Led -> LedState] /\ ErrorShown
  BY StartedFacts DEF Init, ErrorShown
<1>2. TypeOK
  <2>1. /\ clock_counter \in 1 .. ClockPostscaler /\ period_counter \in 1 .. MaxPeriod
        /\ fifo \in 0 .. FifoSize /\ wait_count \in 0 .. WaitCount
    BY Scales DEF Init
  <2> QED
    BY <1>1, <2>1 DEF Init, TypeOK, LedState
<1>3. Cardinality(thermometers) = 0
  BY FS_EmptySet DEF Init
<1> QED
  BY <1>1, <1>2, <1>3 DEF Init, LoopInv, LoneThermometerReady, DownIsSilent, AtMostOne

\* A step that leaves the thermometers and the controller as they are, and ends
\* neither hung nor in a conversion without a frame.
LEMMA PlainStep ==
    ASSUME LoopInv, TypeOK', UNCHANGED << can_up, wireVars >>,
           ~ can_up => leds'["Error"] = leds["Error"] /\ fifo' = 0 /\ pc' # "converting",
           pc' = "hung" => pc = "hung"
    PROVE  LoopInv'
<1>1. ErrorShown'
  BY DEF LoopInv, ErrorShown
<1>2. LoneThermometerReady' /\ AtMostOne'
  BY DEF LoopInv, LoneThermometerReady, AtMostOne, wireVars
<1>3. DownIsSilent'
  BY DEF LoopInv, DownIsSilent
<1> QED
  BY <1>1, <1>2, <1>3 DEF LoopInv

\* The hardware, the clock and the end of a conversion.
LEMMA OtherStepsKeep ==
    ASSUME LoopInv,
           \/ Overflow \/ Arrive \/ ClockIdle \/ ClockCounts \/ ClockTicks
           \/ NoPackets \/ ReadZero \/ Converted \/ UNCHANGED vars
    PROVE  LoopInv'
<1>0. TypeOK /\ DownIsSilent /\ ErrorShown
  BY DEF LoopInv
<1>l. leds \in [Led -> LedState]
  BY <1>0 DEF TypeOK, LedState
<1>1. CASE Overflow
  <2>1. TypeOK'
    BY <1>0, <1>1 DEF Overflow, TypeOK, ledVars, wireVars
  <2> QED
    BY <1>0, <1>1, <2>1, PlainStep DEF Overflow, ledVars, DownIsSilent
<1>2. CASE Arrive
  <2>1. TypeOK'
    BY <1>0, <1>2, Scales DEF Arrive, TypeOK, clockVars, ledVars, wireVars
  <2> QED
    BY <1>0, <1>2, <2>1, PlainStep DEF Arrive, ledVars
<1>3. CASE ClockIdle
  <2>1. TypeOK'
    BY <1>0, <1>3 DEF ClockIdle, TypeOK, clockVars, ledVars, wireVars
  <2> QED
    BY <1>0, <1>3, <2>1, PlainStep DEF ClockIdle, ledVars, DownIsSilent
<1>4. CASE ClockCounts
  <2>1. clock_counter' \in 1 .. ClockPostscaler
    BY <1>0, <1>4, Scales DEF ClockCounts, TypeOK
  <2>2. TypeOK'
    BY <1>0, <1>4, <2>1 DEF ClockCounts, TypeOK, ledVars, wireVars
  <2> QED
    BY <1>0, <1>4, <2>2, PlainStep DEF ClockCounts, ledVars, DownIsSilent
<1>5. CASE ClockTicks
  <2>1. leds' = LedsClocked
    BY <1>5 DEF ClockTicks, DataSent
  <2>2. leds' \in [Led -> LedState] /\ (~ can_up => leds'["Error"] = leds["Error"])
    BY <1>0, <1>l, <2>1, ClockedFacts DEF ErrorShown
  <2>3. period_counter' \in 1 .. MaxPeriod /\ clock_counter' \in 1 .. ClockPostscaler
    BY <1>0, <1>5, Scales DEF ClockTicks, PeriodOver, TypeOK
  <2>4. TypeOK'
    BY <1>0, <1>5, <2>2, <2>3 DEF ClockTicks, TypeOK, LedState, wireVars
  <2> QED
    BY <1>0, <1>5, <2>2, <2>4, PlainStep DEF ClockTicks, DownIsSilent
<1>6. CASE NoPackets
  <2>1. TypeOK'
    BY <1>0, <1>6 DEF NoPackets, TypeOK, clockVars, ledVars, wireVars
  <2> QED
    BY <1>0, <1>6, <2>1, PlainStep DEF NoPackets, ledVars, DownIsSilent
<1>7. CASE ReadZero
  <2>1. TypeOK'
    BY <1>0, <1>7, Scales DEF ReadZero, TypeOK, clockVars, ledVars, wireVars
  <2> QED
    BY <1>0, <1>7, <2>1, PlainStep DEF ReadZero, ledVars, DownIsSilent
<1>8. CASE Converted
  <2>1. leds' \in [Led -> LedState] /\ can_up
    BY <1>0, <1>8, <1>l, RepliedFacts DEF Converted, DownIsSilent
  <2>2. TypeOK'
    BY <1>0, <1>8, <2>1, Scales DEF Converted, TypeOK, LedState, clockVars, wireVars
  <2> QED
    BY <1>8, <2>1, <2>2, PlainStep DEF Converted
<1>9. CASE UNCHANGED vars
  <2>1. TypeOK'
    BY <1>0, <1>9 DEF vars, TypeOK, clockVars, ledVars, wireVars
  <2> QED
    BY <1>0, <1>9, <2>1, PlainStep DEF vars, ledVars, DownIsSilent
<1> QED
  BY <1>1, <1>2, <1>3, <1>4, <1>5, <1>6, <1>7, <1>8, <1>9

\* A frame is only received by a node whose controller is up, and the handlers
\* choose the LEDs from FrameLeds.
LEMMA ReceiveFacts ==
    ASSUME TypeOK, DownIsSilent, NEW l \in {FrameLeds} \cup Replied(FrameLeds), Receive(l)
    PROVE  /\ can_up /\ can_up' = can_up
           /\ leds' \in [Led -> LedState]
           /\ fifo' \in 0 .. FifoSize
           /\ pc = "packets"
           /\ UNCHANGED << clockVars, period_counter >>
<1>1. leds \in [Led -> LedState]
  BY DEF TypeOK, LedState
<1>2. l \in [Led -> LedState]
  BY <1>1, FrameLedsFacts, RepliedFacts
<1> QED
  BY <1>2, Scales DEF Receive, TypeOK, DownIsSilent

LEMMA WriteOrRequestKeeps ==
    ASSUME LoopInv, HandleWrite \/ HandleRequest
    PROVE  LoopInv'
<1>0. TypeOK /\ DownIsSilent
  BY DEF LoopInv
<1>1. PICK l \in {FrameLeds} \cup Replied(FrameLeds) : Receive(l)
  BY DEF HandleWrite, HandleRequest
<1>2. UNCHANGED << pc, wireVars, wait_count >>
  BY DEF HandleWrite, HandleRequest
<1>3. TypeOK'
  BY <1>0, <1>1, <1>2, ReceiveFacts DEF TypeOK, LedState, clockVars, wireVars
<1> QED
  BY <1>0, <1>1, <1>2, <1>3, ReceiveFacts, PlainStep

\* CAN_Node_set_channel(): leaving the only thermometer may switch the timer off,
\* leaving another channel may not.
LEMMA SetChannelKeeps ==
    ASSUME LoopInv, NEW c \in Channel, NEW ds18b20 \in BOOLEAN, HandleSetChannel(c, ds18b20)
    PROVE  LoopInv'
<1>0. TypeOK /\ DownIsSilent /\ LoneThermometerReady /\ AtMostOne
  BY DEF LoopInv
<1>1. /\ can_up /\ can_up' = can_up /\ pc = "packets" /\ pc' = pc
      /\ leds' \in [Led -> LedState] /\ fifo' \in 0 .. FifoSize
      /\ UNCHANGED << clockVars, period_counter, wait_count >>
  BY <1>0, ReceiveFacts DEF HandleSetChannel
<1>2. thermometers' \subseteq Channel /\ tim1' \in BOOLEAN /\ shared' \in BOOLEAN
  BY <1>0 DEF HandleSetChannel, Tim1After, TypeOK
<1>3. TypeOK'
  BY <1>0, <1>1, <1>2 DEF TypeOK, LedState, clockVars
<1>4. IsFiniteSet(thermometers) /\ IsFiniteSet(thermometers')
  BY <1>0, <1>2, NodeLoopAssumption, FS_Subset DEF TypeOK
<1>5. Cardinality(thermometers') \in Nat
  BY <1>4, FS_CardinalityType
<1>6. AtMostOne'
  <2>1. ~ shared' => ~ (Cardinality(thermometers') > 1)
    BY DEF HandleSetChannel
  <2>2. ~ (Cardinality(thermometers') > 1) => Cardinality(thermometers') <= 1
    BY <1>5
  <2> QED
    BY <2>1, <2>2 DEF AtMostOne
<1>7. ASSUME ~ shared', thermometers' # {}
      PROVE  tim1'
  <2>1. ~ shared /\ Cardinality(thermometers) <= 1
    BY <1>0, <1>7 DEF AtMostOne, HandleSetChannel
  <2>2. CASE ds18b20
    BY <2>2 DEF HandleSetChannel, Tim1After
  <2>3. CASE ~ ds18b20
    <3>1. c \notin thermometers
      BY <1>4, <1>7, <2>1, <2>3, LoneElement DEF HandleSetChannel
    <3>2. thermometers' = thermometers /\ tim1' = tim1
      BY <1>0, <2>3, <3>1 DEF HandleSetChannel, Tim1After, TypeOK
    <3> QED
      BY <1>0, <1>7, <2>1, <3>2 DEF LoneThermometerReady
  <2> QED
    BY <2>2, <2>3
<1>8. LoneThermometerReady'
  BY <1>1, <1>7 DEF LoneThermometerReady
<1> QED
  BY <1>1, <1>3, <1>6, <1>8 DEF LoopInv, ErrorShown, DownIsSilent

\* ds18b20_request(): the timer that is missing was lost to another thermometer.
LEMMA TemperatureKeeps ==
    ASSUME LoopInv, NEW c \in Channel, HandleTemperature(c)
    PROVE  LoopInv'
<1>0. TypeOK /\ DownIsSilent /\ LoneThermometerReady /\ AtMostOne
  BY DEF LoopInv
<1>1. PICK l \in {FrameLeds} \cup Replied(FrameLeds) : Receive(l)
  BY DEF HandleTemperature
<1>2. /\ can_up /\ can_up' = can_up /\ pc = "packets"
      /\ leds' \in [Led -> LedState] /\ fifo' \in 0 .. FifoSize
      /\ UNCHANGED << clockVars, period_counter, wireVars >>
  BY <1>0, <1>1, ReceiveFacts DEF HandleTemperature
<1>3. /\ pc' \in {"packets", "converting", "hung"}
      /\ wait_count' \in 0 .. WaitCount
      /\ pc' = "hung" => shared
  BY <1>0, <1>2, Scales DEF HandleTemperature, TypeOK, LoneThermometerReady
<1>4. TypeOK'
  BY <1>0, <1>2, <1>3 DEF TypeOK, LedState, clockVars, wireVars
<1> QED
  BY <1>0, <1>2, <1>3, <1>4 DEF LoopInv, ErrorShown, LoneThermometerReady, DownIsSilent,
     AtMostOne, wireVars

LEMMA RestartKeeps ==
    ASSUME LoopInv, Restart
    PROVE  LoopInv'
<1>1. PICK d \in SUBSET Channel, up \in BOOLEAN :
         /\ thermometers' = d /\ tim1' = (d # {}) /\ shared' = (Cardinality(d) > 1)
         /\ can_up' = up /\ leds' = Started(up)
  BY DEF Restart
<1>2. leds' \in [Led -> LedState] /\ ErrorShown'
  BY <1>1, StartedFacts DEF ErrorShown
<1>3. TypeOK'
  <2>1. /\ clock_counter' \in 1 .. ClockPostscaler /\ period_counter' \in 1 .. MaxPeriod
        /\ fifo' \in 0 .. FifoSize /\ wait_count' \in 0 .. WaitCount
    BY Scales DEF Restart
  <2>2. (d # {}) \in BOOLEAN /\ (Cardinality(d) > 1) \in BOOLEAN /\ FALSE \in BOOLEAN
    OBVIOUS
  <2> QED
    BY <1>1, <1>2, <2>1, <2>2 DEF Restart, TypeOK, LedState
<1>4. AtMostOne'
  <2>1. IsFiniteSet(d) /\ Cardinality(d) \in Nat
    BY NodeLoopAssumption, FS_Subset, FS_CardinalityType
  <2>2. ~ (Cardinality(d) > 1) => Cardinality(d) <= 1
    BY <2>1
  <2> QED
    BY <1>1, <2>2 DEF AtMostOne
<1>5. LoneThermometerReady' /\ DownIsSilent'
  BY <1>1 DEF LoneThermometerReady, DownIsSilent, Restart
<1> QED
  BY <1>2, <1>3, <1>4, <1>5 DEF LoopInv

LEMMA LoopInductive == LoopInv /\ [Next]_vars => LoopInv'
  BY OtherStepsKeep, WriteOrRequestKeeps, SetChannelKeeps, TemperatureKeeps, RestartKeeps
     DEF Next, MainStep

LEMMA LoopInvariant == Spec => []LoopInv
  BY LoopInitial, LoopInductive, PTL DEF Spec

\* The state of main(), clock.c, led.c and the 1-wire bus keeps its type; the
\* counters stay within their periods and the FIFO within its size.
THEOREM NodeLoopTypeCorrect == Spec => []TypeOK
<1>1. LoopInv => TypeOK
  BY DEF LoopInv
<1> QED
  BY LoopInvariant, <1>1, PTL

\* A node whose CAN controller did not start keeps its error LED on until it is
\* restarted, for any blink times and periods.
THEOREM FailedStartAlwaysShown == Spec => []ErrorShown
<1>1. LoopInv => ErrorShown
  BY DEF LoopInv
<1> QED
  BY LoopInvariant, <1>1, PTL

\* With one thermometer at a time, its timer is set up and the node does not wait
\* for it in vain, whatever functions are written to however many channels.
THEOREM LoneThermometerAlwaysReady == Spec => []LoneThermometerReady
<1>1. LoopInv => LoneThermometerReady
  BY DEF LoopInv
<1> QED
  BY LoopInvariant, <1>1, PTL

-----------------------------------------------------------------------------
(***************************************************************************)
(* Buttons                                                                 *)
(***************************************************************************)

\* button_set_state() stores and announces a state.
LEMMA SetStateFacts ==
    ASSUME NEW before \in State, NEW cfg, NEW up,
           told \in State \cup {"nothing"},
           SetState(before, cfg, up)
    PROVE  /\ state' \in State
           /\ told' \in State \cup {"nothing"}
           /\ told' # told => told' = state' /\ "Active" \in cfg
           /\ "Lock" \in cfg /\ before = "Pressed" => state' = "Pressed"
<1>1. PICK current \in Sampled(cfg, up) :
         LET changes == current # before /\ ~ ("Lock" \in cfg /\ before = "Pressed") IN
         /\ state' = IF changes THEN current ELSE before
         /\ told' \in {told} \cup
               (IF changes /\ "Active" \in cfg THEN {current} ELSE {})
  BY DEF SetState
<1>2. current \in State
  BY DEF Sampled, State
<1>3. state' \in State
  BY <1>1, <1>2
<1>4. told' \in State \cup {"nothing"}
  BY <1>1, <1>2
<1>5. told' # told => told' = state' /\ "Active" \in cfg
  BY <1>1
<1>6. "Lock" \in cfg /\ before = "Pressed" => state' = "Pressed"
  BY <1>1
<1> QED
  BY <1>3, <1>4, <1>5, <1>6

\* Every step of mod_button.c keeps the types.
LEMMA ButtonInductive == ButtonTypeOK /\ [ButtonNext]_channelVars => ButtonTypeOK'
<1> SUFFICES ASSUME ButtonTypeOK, [ButtonNext]_channelVars PROVE ButtonTypeOK'
  OBVIOUS
<1>0. /\ state \in State
      /\ told \in State \cup {"nothing"}
      /\ "Released" \in State
  BY DEF ButtonTypeOK, State
<1>1. ASSUME NEW c \in {"high", "low", "open"}, ContactMoves(c)
      PROVE  ButtonTypeOK'
  BY <1>1 DEF ButtonTypeOK, ContactMoves, buttonVars
<1>2. ASSUME NEW f \in {"None", "Button"}, SetChannel(f)
      PROVE  ButtonTypeOK'
  <2>1. (f = "Button" /\ "PullUp" \in config) \in BOOLEAN
    OBVIOUS
  <2> QED
    BY <1>2, <2>1 DEF ButtonTypeOK, SetChannel
<1>3. ASSUME NEW c \in Config, WriteConfig(c)
      PROVE  ButtonTypeOK'
  <2>1. state' \in State /\ told' \in State \cup {"nothing"}
    BY <1>0, <1>3, SetStateFacts DEF WriteConfig
  <2>2. ("PullUp" \in c) \in BOOLEAN
    OBVIOUS
  <2>3. (read /\ state' = state) \in BOOLEAN
    OBVIOUS
  <2> QED
    BY <1>3, <2>1, <2>2, <2>3 DEF ButtonTypeOK, WriteConfig
<1>4. CASE WriteValueZero
  <2>1. state' \in State /\ told' \in State \cup {"nothing"}
    BY <1>0, <1>4, SetStateFacts DEF WriteValueZero
  <2> QED
    BY <1>4, <2>1 DEF ButtonTypeOK, WriteValueZero
<1>5. CASE Timer
  <2>1. state' \in State /\ told' \in State \cup {"nothing"}
    BY <1>0, <1>5, SetStateFacts DEF Timer
  <2>2. (read /\ state' = state) \in BOOLEAN
    OBVIOUS
  <2> QED
    BY <1>5, <2>1, <2>2 DEF ButtonTypeOK, Timer
<1>6. CASE Save
  <2>1. saved' \in Saved
    BY <1>6 DEF ButtonTypeOK, Save, Saved
  <2> QED
    BY <1>6, <2>1 DEF ButtonTypeOK, Save, buttonVars
<1>7. CASE ButtonRestart
  <2>1. CASE saved.function = "Button"
    <3>1. saved.config \in Config
      BY <2>1 DEF ButtonTypeOK, Saved
    <3>2. state' \in State
      BY <1>7, <2>1 DEF ButtonRestart, Sampled, State
    <3>3. ("PullUp" \in saved.config) \in BOOLEAN
      OBVIOUS
    <3> QED
      BY <1>7, <2>1, <3>1, <3>2, <3>3 DEF ButtonTypeOK, ButtonRestart
  <2>2. CASE saved.function = "None"
    <3>1. {} \in Config
      BY DEF Config
    <3> QED
      BY <1>0, <1>7, <2>2, <3>1 DEF ButtonTypeOK, ButtonRestart
  <2> QED
    BY <1>7, <2>1, <2>2 DEF ButtonRestart
<1>8. CASE RequestValue
  BY <1>8 DEF ButtonTypeOK, RequestValue, buttonVars
<1>9. CASE UNCHANGED channelVars
  BY <1>9 DEF ButtonTypeOK, channelVars, buttonVars
<1> QED
  BY <1>1, <1>2, <1>3, <1>4, <1>5, <1>6, <1>7, <1>8, <1>9 DEF ButtonNext

\* The statics of mod_button.c, the last announcement and the stored settings keep
\* their types.
THEOREM ButtonTypeCorrect == ButtonSpec => []ButtonTypeOK
<1>1. ButtonInit => ButtonTypeOK
  <2>1. [function |-> "None"] \in Saved
    BY DEF Saved
  <2>2. {} \in Config /\ "Released" \in State /\ FALSE \in BOOLEAN
    BY DEF Config, State
  <2> QED
    BY <2>1, <2>2 DEF ButtonInit, ButtonTypeOK
<1> QED
  BY <1>1, ButtonInductive, PTL DEF ButtonSpec

\* A locked press survives ticks, configurations that still lock and the loss and
\* return of the function as long as it was not read: only a write of the value or a
\* restart ends it.
THEOREM LockedPressAlwaysKept == ButtonSpec => LockedPressKept
<1> DEFINE A == state = "Pressed" /\ ~ read /\ state' = "Released" /\ "Lock" \in config'
                  => WriteValueZero \/ ButtonRestart
<1>1. ASSUME ButtonTypeOK, [ButtonNext]_channelVars PROVE A
  <2> SUFFICES ASSUME state = "Pressed", ~ read, state' = "Released", "Lock" \in config',
                      ~ WriteValueZero, ~ ButtonRestart
               PROVE  FALSE
    OBVIOUS
  <2>0. state \in State /\ told \in State \cup {"nothing"}
    BY <1>1 DEF ButtonTypeOK
  <2>1. ASSUME NEW c \in Config, WriteConfig(c)
        PROVE  FALSE
    BY <2>0, <2>1, SetStateFacts DEF WriteConfig
  <2>2. ~ Timer
    BY <2>0, SetStateFacts DEF Timer
  <2>3. /\ \A c \in {"high", "low", "open"} : ~ ContactMoves(c)
        /\ \A f \in {"None", "Button"} : ~ SetChannel(f)
        /\ ~ RequestValue
        /\ ~ Save
        /\ ~ UNCHANGED channelVars
    BY DEF ContactMoves, SetChannel, RequestValue, Save, channelVars, buttonVars
  <2> QED
    BY <1>1, <2>1, <2>2, <2>3 DEF ButtonNext
<1>2. ButtonTypeOK /\ [ButtonNext]_channelVars => [A]_channelVars
  BY <1>1
<1> QED
  BY <1>2, ButtonTypeCorrect, PTL DEF ButtonSpec, LockedPressKept

\* What is announced is the state that is stored, under a configuration that
\* asks for announcements; also when a write changes both, or a press is locked.
THEOREM AnnouncementsAlwaysTrue == ButtonSpec => AnnouncesState
<1> DEFINE A == told' \notin {told, "nothing"} => told' = state' /\ "Active" \in config'
<1>1. ASSUME ButtonTypeOK, [ButtonNext]_channelVars PROVE A
  <2> SUFFICES ASSUME told' \notin {told, "nothing"}
               PROVE  told' = state' /\ "Active" \in config'
    OBVIOUS
  <2>0. /\ state \in State /\ told \in State \cup {"nothing"}
        /\ "Released" \in State
    BY <1>1 DEF ButtonTypeOK, State
  <2>1. ASSUME NEW c \in Config, WriteConfig(c)
        PROVE  told' = state' /\ "Active" \in config'
    BY <2>0, <2>1, SetStateFacts DEF WriteConfig
  <2>2. CASE WriteValueZero
    BY <2>0, <2>2, SetStateFacts DEF WriteValueZero
  <2>3. CASE Timer
    BY <2>0, <2>3, SetStateFacts DEF Timer
  <2>4. /\ \A c \in {"high", "low", "open"} : ~ ContactMoves(c)
        /\ \A f \in {"None", "Button"} : ~ SetChannel(f)
        /\ ~ RequestValue
        /\ ~ Save
        /\ ~ ButtonRestart
        /\ ~ UNCHANGED channelVars
    BY DEF ContactMoves, SetChannel, RequestValue, Save, ButtonRestart, channelVars
  <2> QED
    BY <1>1, <2>1, <2>2, <2>3, <2>4 DEF ButtonNext
<1>2. ButtonTypeOK /\ [ButtonNext]_channelVars => [A]_channelVars
  BY <1>1
<1> QED
  BY <1>2, ButtonTypeCorrect, PTL DEF ButtonSpec, AnnouncesState
=============================================================================
