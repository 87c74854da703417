------------------------------ MODULE NodeLoop ------------------------------
(***************************************************************************)
(* firmware/stm8/can_node: the main loop of a CAN node with what it drives *)
(* by itself, i.e. the clock (clock.c), the two LEDs (led.c), the received *)
(* frames (can.c), and the channels that are DS18B20 thermometers          *)
(* (mod_ds18b20.c), which share one 1-wire bus and its timer (onewire.c).  *)
(* The other channels have modules of their own; here they are called.     *)
(*                                                                         *)
(* The program has no interrupts: TIM4 sets a flag that the loop polls,    *)
(* the CAN controller fills a FIFO.  Both go on while the program waits    *)
(* for a thermometer, which takes most of a second.                        *)
(***************************************************************************)
EXTENDS Naturals, FiniteSets

CONSTANTS
    Channel,          \* the channels that may be thermometers
    ClockPostscaler,  \* the loop's ticks for one call of the timers
    MaxPeriod,        \* the calls for one step of the LEDs
    StartScale,       \* the length of the blink at the start,
    FrameScale,       \*   for a frame,
    ErrorScale,       \*   and for a reply that cannot be sent
    WaitCount,        \* how often a conversion is looked at
    FifoSize          \* external: the frames that the controller keeps

ASSUME NodeLoopAssumption ==
    /\ IsFiniteSet(Channel)
    /\ {ClockPostscaler, MaxPeriod, StartScale, FrameScale, ErrorScale, WaitCount, FifoSize}
         \subseteq Nat \ {0}

Led == {"Info", "Error"}

VARIABLES
    pc,              \* where main() is
    update_flag,     \* TIM4_FLAG_UPDATE
    clock_counter,   \* of clock.c
    period_counter,  \* of led.c
    leds,            \* leds[], and whether the LED is lit
    can_up,          \* has CAN_Node_CAN_init() succeeded
    fifo,            \* the frames that wait in the controller
    thermometers,    \* the channels whose function is DS18B20
    tim1,            \* is TIM1 set up for 1-wire cycles
    wait_count,      \* of read_temp()
    shared           \* history: were there two thermometers at a time

clockVars == << update_flag, clock_counter >>
ledVars   == << period_counter, leds >>
wireVars  == << thermometers, tim1, shared >>
vars      == << pc, clockVars, ledVars, can_up, fifo, wireVars, wait_count >>

Off == [mode |-> "Off", off_time |-> 0, counter |-> 0, lit |-> FALSE]

-----------------------------------------------------------------------------
(***************************************************************************)
(* led.c                                                                   *)
(***************************************************************************)

\* CAN_Node_Led_switch(led, ENABLE)
SwitchedOn(l, led) == [l EXCEPT ![led].mode = "On", ![led].lit = TRUE]

\* CAN_Node_Led_blink()
Blinking(l, led, scale) ==
    [l EXCEPT ![led] = [mode |-> "Blink", off_time |-> scale, counter |-> 0, lit |-> TRUE]]

\* update_led().  No caller makes an LED blink continuously.
Updated(led) ==
    IF led.mode # "Blink" THEN led
    ELSE IF led.counter + 1 >= led.off_time
           THEN [led EXCEPT !.counter = @ + 1, !.mode = "Off", !.lit = FALSE]
           ELSE [led EXCEPT !.counter = @ + 1]

\* CAN_Node_Led_clock(): the LEDs are updated in every MaxPeriod-th call.
PeriodOver == period_counter - 1 = 0

LedsClocked == IF PeriodOver THEN [l \in Led |-> Updated(leds[l])] ELSE leds

-----------------------------------------------------------------------------
(***************************************************************************)
(* The start                                                               *)
(***************************************************************************)

\* The LEDs when main() enters its loop, with CAN_Node_CAN_init() successful or not.
Started(up) ==
    LET dark == [l \in Led |-> Off]
        told == IF up THEN dark ELSE SwitchedOn(dark, "Error")
    IN Blinking(told, "Info", StartScale)

\* A new node, whose EEPROM is empty.
Init ==
    /\ pc = "clock"
    /\ update_flag = FALSE
    /\ clock_counter = ClockPostscaler
    /\ period_counter = MaxPeriod
    /\ can_up \in BOOLEAN
    /\ leds = Started(can_up)
    /\ fifo = 0
    /\ thermometers = {}
    /\ tim1 = FALSE
    /\ wait_count = 0
    /\ shared = FALSE

\* The power comes back, or a new device id has reset the node.  Any functions may
\* have been saved.
Restart ==
    /\ \E d \in SUBSET Channel, up \in BOOLEAN :
          /\ thermometers' = d
          /\ tim1' = (d # {})
          /\ shared' = (Cardinality(d) > 1)
          /\ can_up' = up
          /\ leds' = Started(up)
    /\ pc' = "clock"
    /\ update_flag' = FALSE
    /\ clock_counter' = ClockPostscaler
    /\ period_counter' = MaxPeriod
    /\ fifo' = 0
    /\ wait_count' = 0

-----------------------------------------------------------------------------
(***************************************************************************)
(* The hardware                                                            *)
(***************************************************************************)

\* TIM4 has counted 2 ms.  When nobody has cleared the flag, this is not seen.
Overflow ==
    /\ ~ update_flag
    /\ update_flag' = TRUE
    /\ UNCHANGED << pc, clock_counter, ledVars, can_up, fifo, wireVars, wait_count >>

\* A frame passes the filter.  One that finds the FIFO full replaces another.
Arrive ==
    /\ can_up
    /\ fifo < FifoSize
    /\ fifo' = fifo + 1
    /\ UNCHANGED << pc, clockVars, ledVars, can_up, wireVars, wait_count >>

-----------------------------------------------------------------------------
(***************************************************************************)
(* The loop's first half: CAN_Node_Clock_check_pending() and what follows  *)
(***************************************************************************)

ClockIdle ==
    /\ pc = "clock"
    /\ ~ update_flag
    /\ pc' = "packets"
    /\ UNCHANGED << clockVars, ledVars, can_up, fifo, wireVars, wait_count >>

\* The flag was set, and the postscaler goes on.
ClockCounts ==
    /\ pc = "clock"
    /\ update_flag
    /\ clock_counter > 1
    /\ update_flag' = FALSE
    /\ clock_counter' = clock_counter - 1
    /\ pc' = "packets"
    /\ UNCHANGED << ledVars, can_up, fifo, wireVars, wait_count >>

\* What CAN_Node_CAN_send_reply() makes of the LEDs l, with and without a mailbox.
Replied(l) == {l, Blinking(l, "Error", ErrorScale)}

\* Mutant: data that cannot be sent are signalled as replies are.
DataSentBlinking(l) == Replied(l)

\* What CAN_Node_CAN_send_data() makes of the LEDs: nothing.
DataSent(l) == {l}

\* CAN_Node_Led_clock() and CAN_Node_handle_timer(), where channels may send data.
ClockTicks ==
    /\ pc = "clock"
    /\ update_flag
    /\ clock_counter = 1
    /\ update_flag' = FALSE
    /\ clock_counter' = ClockPostscaler
    /\ period_counter' = IF PeriodOver THEN MaxPeriod ELSE period_counter - 1
    /\ leds' \in DataSent(LedsClocked)
    /\ pc' = "packets"
    /\ UNCHANGED << can_up, fifo, wireVars, wait_count >>

-----------------------------------------------------------------------------
(***************************************************************************)
(* The second half: CAN_Node_CAN_handle_packets()                          *)
(***************************************************************************)

\* Mutant: the loop goes on without a frame.
MoreOrNone == fifo >= 0

\* CAN_MessagePending() > 0
More == fifo > 0

NoPackets ==
    /\ pc = "packets"
    /\ ~ More
    /\ pc' = "clock"
    /\ UNCHANGED << clockVars, ledVars, can_up, fifo, wireVars, wait_count >>

\* The beginning of the loop's body: l is what becomes of the LEDs after that.
Receive(l) ==
    /\ pc = "packets"
    /\ fifo > 0
    /\ fifo' = fifo - 1
    /\ leds' = l
    /\ UNCHANGED << clockVars, period_counter, can_up >>

FrameLeds == Blinking(leds, "Info", FrameScale)

\* A frame that is not answered, or written to a channel of another function.
HandleWrite ==
    /\ Receive(FrameLeds)
    /\ UNCHANGED << pc, wireVars, wait_count >>

\* A request that is answered at once.
HandleRequest ==
    /\ \E l \in Replied(FrameLeds) : Receive(l)
    /\ UNCHANGED << pc, wireVars, wait_count >>

\* Mutant: the new function is set up before the old one is left.
Tim1AfterInitFirst(c, ds18b20) == IF c \in thermometers THEN FALSE ELSE ds18b20 \/ tim1

\* TIM1 after CAN_Node_set_channel(): ds18b20_deinit(), then ds18b20_init().
Tim1After(c, ds18b20) ==
    LET left == IF c \in thermometers THEN FALSE ELSE tim1 IN ds18b20 \/ left

\* A channel's function is written, to DS18B20 or another.
HandleSetChannel(c, ds18b20) ==
    /\ Receive(FrameLeds)
    /\ thermometers' = IF ds18b20 THEN thermometers \cup {c} ELSE thermometers \ {c}
    /\ tim1' = Tim1After(c, ds18b20)
    /\ shared' = (shared \/ Cardinality(thermometers') > 1)
    /\ UNCHANGED << pc, wait_count >>

\* ds18b20_request(): CAN_Node_OW_reset() finds a device and the conversion is
\* started; or it finds none; or the timer never stops as it was not set up.
HandleTemperature(c) ==
    /\ c \in thermometers
    /\ \/ /\ tim1
          /\ Receive(FrameLeds)
          /\ pc' = "converting"
          /\ wait_count' = WaitCount
       \/ /\ tim1
          /\ \E l \in Replied(FrameLeds) : Receive(l)
          /\ UNCHANGED << pc, wait_count >>
       \/ /\ ~ tim1
          /\ Receive(FrameLeds)
          /\ pc' = "hung"
          /\ UNCHANGED wait_count
    /\ UNCHANGED wireVars

\* --wait_count, and the device still converts.
ReadZero ==
    /\ pc = "converting"
    /\ wait_count > 0
    /\ wait_count' = wait_count - 1
    /\ UNCHANGED << pc, clockVars, ledVars, can_up, fifo, wireVars >>

\* The device has ended, and its scratchpad is read or it is gone; or the time is
\* over.  In each case the reply is sent.
Converted ==
    /\ pc = "converting"
    /\ pc' = "packets"
    /\ wait_count' = 0
    /\ leds' \in Replied(leds)
    /\ UNCHANGED << clockVars, period_counter, can_up, fifo, wireVars >>

-----------------------------------------------------------------------------
\* The steps of main().
MainStep ==
    \/ ClockIdle
    \/ ClockCounts
    \/ ClockTicks
    \/ NoPackets
    \/ HandleWrite
    \/ HandleRequest
    \/ \E c \in Channel, ds18b20 \in BOOLEAN : HandleSetChannel(c, ds18b20)
    \/ \E c \in Channel : HandleTemperature(c)
    \/ ReadZero
    \/ Converted

Next == MainStep \/ Overflow \/ Arrive \/ Restart

Spec == Init /\ [][Next]_vars

\* The program runs on and TIM4 counts on.  The strong fairness: a loop that finds
\* the FIFO empty again and again leaves it.
FairSpec ==
    /\ Spec
    /\ WF_vars(MainStep)
    /\ WF_vars(Overflow)
    /\ SF_vars(NoPackets)

-----------------------------------------------------------------------------
(***************************************************************************)
(* Properties                                                              *)
(***************************************************************************)

TypeOK ==
    /\ pc \in {"clock", "packets", "converting", "hung"}
    /\ update_flag \in BOOLEAN
    /\ clock_counter \in 1 .. ClockPostscaler
    /\ period_counter \in 1 .. MaxPeriod
    /\ leds \in [Led -> [mode : {"Off", "On", "Blink"}, off_time : Nat, counter : Nat,
                         lit : BOOLEAN]]
    /\ can_up \in BOOLEAN
    /\ fifo \in 0 .. FifoSize
    /\ thermometers \subseteq Channel
    /\ tim1 \in BOOLEAN
    /\ wait_count \in 0 .. WaitCount
    /\ shared \in BOOLEAN

\* A node that could not start its CAN controller shows it until it is restarted:
\* the one who makes the error LED blink, and so go out, answers a frame.
ErrorShown == ~ can_up => leds["Error"].mode = "On" /\ leds["Error"].lit

\* As long as one channel at a time is a thermometer, its 1-wire cycles find their
\* timer set up, however often functions are written, also DS18B20 over DS18B20;
\* so the node does not wait for a timer that was switched off.
LoneThermometerReady ==
    ~ shared => (thermometers # {} => tim1) /\ pc # "hung"

\* From some time on the node is not restarted.
StaysUp == <>[][~ Restart]_vars

\* The bus falls silent for good, or leaves gaps in which handle_packets() finds the
\* FIFO empty.
FramesWithGaps == <>[][~ Arrive]_vars \/ []<>(pc = "packets" /\ ~ More)

\* The channels' timers are called for ever, although a thermometer may hold the
\* loop up and overflows are missed meanwhile.
TicksGoOn ==
    StaysUp /\ FramesWithGaps /\ <>[](pc # "hung") => []<><<ClockTicks>>_vars
=============================================================================
