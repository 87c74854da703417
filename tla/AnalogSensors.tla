--------------------------- MODULE AnalogSensors ---------------------------
(***************************************************************************)
(* firmware/stm8/can_node/mod_analog.c: the channels of a CAN node that    *)
(* are analog inputs share one converter (ADC2).  selected_sensor is the   *)
(* channel whose turn it is: one tick starts its conversion, the next one  *)
(* reads the result and passes the turn on.                                *)
(*                                                                         *)
(* CAN_Node_handle_timer() calls the channels one after the other; packets *)
(* are only handled between two such passes.  A loop that never ends in    *)
(* select_next_sensor() is the state "hung": the node does nothing more.   *)
(***************************************************************************)
EXTENDS Naturals, FiniteSets

CONSTANTS
    ChannelCount,   \* CAN_Node_ChannelCount
    NoReading       \* the value of a sensor that was never read

ASSUME ChannelAssumption == ChannelCount \in Nat /\ ChannelCount > 1

Channel == 0 .. ChannelCount - 1

ASSUME ReadingAssumption == NoReading \notin Channel

VARIABLES
    sensors,   \* the statics of mod_analog.c and the converter
    value,     \* analog_sensors[c].value, as the channel it was converted from
    turn       \* the channel that handle_timer() calls next, or ChannelCount

vars == << sensors, value, turn >>

Sensors ==
    [ state : [Channel -> {"Disabled", "Inactive", "Active"}],
      sensor_count : Nat,
      selected_sensor : Channel,
      adc : {"off", "on"},       \* ADC2_Cmd
      adc_channel : Channel,    \* the channel that is or was converted last
      hung : BOOLEAN ]

TypeOK ==
    /\ sensors \in Sensors
    /\ value \in [Channel -> {NoReading} \cup Channel]
    /\ turn \in 0 .. ChannelCount

Init ==
    /\ sensors = [ state |-> [c \in Channel |-> "Disabled"], sensor_count |-> 0,
                   selected_sensor |-> 0, adc |-> "off", adc_channel |-> 0, hung |-> FALSE ]
    /\ value = [c \in Channel |-> NoReading]
    /\ turn = ChannelCount

\* The channels whose function is Analog.
Enabled(s) == {c \in Channel : s.state[c] # "Disabled"}

-----------------------------------------------------------------------------
\* Mutant: the channel after the selected one is taken as it is.
SelectNextUnchecked(s) ==
    [s EXCEPT !.selected_sensor = (s.selected_sensor + 1) % ChannelCount]

\* Mutant: selected_sensor is incremented twice.
SelectNextButOne(s) ==
    LET next == (s.selected_sensor + 2) % ChannelCount IN
    [s EXCEPT !.selected_sensor = next, !.hung = next \notin Enabled(s)]

\* select_next_sensor(): the loop looks at the next channel only; when that is
\* not an analog one, it looks at it again, for ever.
SelectNext(s) ==
    LET next == IF s.selected_sensor + 1 >= ChannelCount THEN 0 ELSE s.selected_sensor + 1 IN
    [s EXCEPT !.selected_sensor = next, !.hung = next \notin Enabled(s)]

\* analog_init(c)
AnalogInit(s, c) ==
    [s EXCEPT !.state[c] = "Inactive",
              !.sensor_count = @ + 1,
              !.adc = IF s.sensor_count = 0 THEN "on" ELSE @,
              !.adc_channel = IF s.sensor_count = 0 THEN c ELSE @,
              !.selected_sensor = IF s.sensor_count = 0 THEN c ELSE @]

\* Mutant: the turn is passed on although there is nobody else.
AnalogDeinitPassing(s, c) ==
    LET disabled == [s EXCEPT !.state[c] = "Disabled"]
        passed   == IF c = s.selected_sensor THEN SelectNext(disabled) ELSE disabled
    IN IF passed.hung
         THEN passed
         ELSE [passed EXCEPT !.sensor_count = @ - 1, !.adc = IF s.sensor_count > 1 THEN @ ELSE "off"]

\* analog_deinit(c).  The count is only decremented when the turn was passed on.
AnalogDeinit(s, c) ==
    LET disabled == [s EXCEPT !.state[c] = "Disabled"]
        passed   == IF c = s.selected_sensor /\ s.sensor_count > 1
                      THEN SelectNext(disabled) ELSE disabled
    IN IF passed.hung
         THEN passed
         ELSE [passed EXCEPT !.sensor_count = @ - 1, !.adc = IF s.sensor_count > 1 THEN @ ELSE "off"]

\* Between two passes of the timer the node handles packets.
Listening == turn = ChannelCount /\ ~ sensors.hung

\* CAN_Node_set_channel(c, f): the old function is left before the new one, even
\* if it is the same.
SetChannel(c, f) ==
    /\ Listening
    /\ LET left == IF c \in Enabled(sensors) THEN AnalogDeinit(sensors, c) ELSE sensors IN
       sensors' = IF f = "Analog" /\ ~ left.hung THEN AnalogInit(left, c) ELSE left
    /\ UNCHANGED << value, turn >>

-----------------------------------------------------------------------------
\* Mutant: the converter keeps the channel it has.
ActivateKeepingChannel(s, c) == [s EXCEPT !.state[c] = "Active"]

\* analog_activate(c): the conversion of c is started.
Activate(s, c) == [s EXCEPT !.state[c] = "Active", !.adc_channel = c]

\* The clock has ticked: CAN_Node_handle_timer() is called.
Tick ==
    /\ Listening
    /\ turn' = 0
    /\ UNCHANGED << sensors, value >>

\* A channel that is not analog, or whose turn it is not.
TimerSkips ==
    /\ ~ sensors.hung
    /\ turn \in Channel
    /\ turn \notin Enabled(sensors) \/ turn # sensors.selected_sensor
    /\ turn' = turn + 1
    /\ UNCHANGED << sensors, value >>

\* analog_timer() of the selected sensor, when it is the only one or idle.
TimerActivates ==
    /\ ~ sensors.hung
    /\ turn \in Enabled(sensors)
    /\ turn = sensors.selected_sensor
    /\ sensors.sensor_count = 1 \/ sensors.state[turn] = "Inactive"
    /\ sensors' = Activate(sensors, turn)
    /\ turn' = turn + 1
    /\ UNCHANGED value

\* analog_timer() of the selected sensor, when its conversion was started:
\* analog_deactivate() and select_next_sensor().
TimerReads ==
    /\ ~ sensors.hung
    /\ turn \in Enabled(sensors)
    /\ turn = sensors.selected_sensor
    /\ sensors.sensor_count # 1
    /\ sensors.state[turn] = "Active"
    /\ value' = [value EXCEPT ![turn] = sensors.adc_channel]
    /\ sensors' = SelectNext([sensors EXCEPT !.state[turn] = "Inactive"])
    /\ turn' = turn + 1

Next ==
    \/ \E c \in Channel, f \in {"None", "Analog"} : SetChannel(c, f)
    \/ Tick
    \/ TimerSkips
    \/ TimerActivates
    \/ TimerReads

Spec == Init /\ [][Next]_vars

\* The main loop polls the clock for ever, and a pass of the timer goes on.
FairSpec ==
    /\ Spec
    /\ WF_vars(Tick)
    /\ WF_vars(TimerSkips \/ TimerActivates \/ TimerReads)

-----------------------------------------------------------------------------
(***************************************************************************)
(* Properties                                                              *)
(***************************************************************************)

\* sensor_count is the number of analog channels, and the converter is powered
\* while there is one: reassigning an analog channel to Analog, or the selected
\* one to something else, counts right.
SensorsCounted ==
    ~ sensors.hung =>
       /\ sensors.sensor_count = Cardinality(Enabled(sensors))
       /\ (sensors.adc = "on") <=> (sensors.sensor_count > 0)

\* As long as there are analog channels, the turn is at one of them: the timer of
\* any other channel does nothing, and sampling would stop.
SelectedIsSensor ==
    ~ sensors.hung /\ Enabled(sensors) # {} => sensors.selected_sensor \in Enabled(sensors)

\* The count, the converter's power and the turn, which analog_init() and
\* analog_deinit() keep by hand, agree with the functions of the channels.
SensorsTracked == SensorsCounted /\ SelectedIsSensor

\* What a sensor reports was converted from its own input: no reassignment
\* between the start of a conversion and its end mixes up two channels.
OwnConversion == \A c \in Channel : value[c] \in {NoReading, c}

\* The search of select_next_sensor() goes on for ever only on a node that has several
\* analog channels and others too: whoever makes one channel analog, or all of them,
\* may reassign them and let the timer run as often as he likes.
HangsOnlyWithGap ==
    [][ sensors'.hung /\ ~ sensors.hung
          => Cardinality(Enabled(sensors)) > 1 /\ Enabled(sensors) # Channel ]_vars

\* From some time on no channel's function is written.
AssignmentSettles == <>[][\A c \in Channel, f \in {"None", "Analog"} : ~ SetChannel(c, f)]_vars

\* A node whose channels all are analog reads them all, again and again.
EverySensorSampled ==
    AssignmentSettles /\ <>[](Enabled(sensors) = Channel)
      => \A c \in Channel : []<>(sensors.state[c] = "Active") /\ <>(value[c] = c)
=============================================================================
