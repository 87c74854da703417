--------------------------- MODULE ChannelProofs ---------------------------
(***************************************************************************)
(* The safety of two kinds of channels of a CAN node: analog inputs, which *)
(* share a converter and are one system (AnalogSensors), and switches,     *)
(* which are one channel each (SwitchChannel).                             *)
(*                                                                         *)
(* Analog inputs, for any number of channels: OwnConversion is not         *)
(* inductive: it needs that a conversion which was started is still the    *)
(* converter's when it is read (the last part of Sound), which in turn     *)
(* needs that the turn is at an analog channel and that sensor_count tells *)
(* the first sensor from the others.                                       *)
(*                                                                         *)
(* Switches, for words of any width: the parts of the invariant lean on    *)
(* each other.  The timer does not wrap because it is only incremented     *)
(* below a delay, which is a word (SwitchTypeOK), and DelayOver is only    *)
(* then an ordinary comparison.                                            *)
(***************************************************************************)
EXTENDS AnalogSensors, SwitchChannel, FiniteSetTheorems, TLAPS

-----------------------------------------------------------------------------
(***************************************************************************)
(* Analog inputs                                                           *)
(***************************************************************************)

\* What holds of the statics while the node is not hung.
Sound(s) ==
    /\ s \in Sensors
    /\ ~ s.hung
    /\ s.sensor_count = Cardinality(Enabled(s))
    /\ (s.adc = "on") <=> (s.sensor_count > 0)
    /\ Enabled(s) # {} => s.selected_sensor \in Enabled(s)
    /\ \A c \in Channel : s.state[c] = "Active" =>
          c = s.selected_sensor /\ c = s.adc_channel

AnalogInv ==
    /\ TypeOK
    /\ sensors.hung \/ Sound(sensors)
    /\ OwnConversion

LEMMA EnabledFinite ==
    ASSUME NEW s \in Sensors
    PROVE  /\ IsFiniteSet(Enabled(s))
           /\ Cardinality(Enabled(s)) \in Nat
           /\ Cardinality(Enabled(s)) = 0 <=> Enabled(s) = {}
<1>1. IsFiniteSet(Channel)
  BY ChannelAssumption, FS_Interval DEF Channel
<1>2. IsFiniteSet(Enabled(s))
  BY <1>1, FS_Subset DEF Enabled
<1> QED
  BY <1>2, FS_CardinalityType, FS_EmptySet

LEMMA ChannelFacts ==
    /\ 0 \in Channel
    /\ \A c \in Channel : c \in Nat /\ c # ChannelCount /\ c + 1 \in 0 .. ChannelCount
    /\ \A c \in Channel : c + 1 >= ChannelCount \/ c + 1 \in Channel
  BY ChannelAssumption DEF Channel

\* select_next_sensor() changes the selection and nothing else, and ends at an
\* analog channel or not at all.
LEMMA SelectNextFacts ==
    ASSUME NEW s \in Sensors
    PROVE  /\ SelectNext(s) \in Sensors
           /\ SelectNext(s).state = s.state
           /\ SelectNext(s).sensor_count = s.sensor_count
           /\ SelectNext(s).adc = s.adc
           /\ SelectNext(s).adc_channel = s.adc_channel
           /\ SelectNext(s).hung \/ SelectNext(s).selected_sensor \in Enabled(s)
<1> DEFINE next == IF s.selected_sensor + 1 >= ChannelCount THEN 0 ELSE s.selected_sensor + 1
<1>1. next \in Channel
  BY ChannelFacts DEF Sensors
<1>2. (next \notin Enabled(s)) \in BOOLEAN
  OBVIOUS
<1> QED
  BY <1>1, <1>2 DEF SelectNext, Sensors

LEMMA EnabledOfState ==
    ASSUME NEW s, NEW t, s.state = t.state
    PROVE  Enabled(s) = Enabled(t)
  BY DEF Enabled

\* analog_init() of a channel that was not analog keeps the statics sound.
LEMMA AnalogInitSound ==
    ASSUME NEW s, Sound(s), NEW c \in Channel, c \notin Enabled(s)
    PROVE  Sound(AnalogInit(s, c))
<1> DEFINE t == AnalogInit(s, c)
<1>1. /\ t.state = [s.state EXCEPT ![c] = "Inactive"]
      /\ t.sensor_count = s.sensor_count + 1
      /\ t.adc = IF s.sensor_count = 0 THEN "on" ELSE s.adc
      /\ t.adc_channel = IF s.sensor_count = 0 THEN c ELSE s.adc_channel
      /\ t.selected_sensor = IF s.sensor_count = 0 THEN c ELSE s.selected_sensor
      /\ t.hung = s.hung
  BY DEF AnalogInit, Sound, Sensors
<1>2. s \in Sensors /\ ~ s.hung
  BY DEF Sound
<1>3. t \in Sensors
  <2>1. /\ [s.state EXCEPT ![c] = "Inactive"] \in [Channel -> {"Disabled", "Inactive", "Active"}]
        /\ s.sensor_count + 1 \in Nat
        /\ (IF s.sensor_count = 0 THEN "on" ELSE s.adc) \in {"off", "on"}
        /\ (IF s.sensor_count = 0 THEN c ELSE s.adc_channel) \in Channel
        /\ (IF s.sensor_count = 0 THEN c ELSE s.selected_sensor) \in Channel
        /\ s.hung \in BOOLEAN
    BY <1>2 DEF Sensors
  <2>2. CASE s.sensor_count = 0
    BY <1>2, <2>1, <2>2 DEF AnalogInit, Sensors
  <2>3. CASE s.sensor_count # 0
    BY <1>2, <2>1, <2>3 DEF AnalogInit, Sensors
  <2> QED
    BY <2>2, <2>3
<1>4. Enabled(t) = Enabled(s) \cup {c}
  BY <1>1, <1>2 DEF Enabled, Sensors
<1>5. t.sensor_count = Cardinality(Enabled(t))
  BY <1>1, <1>2, <1>4, EnabledFinite, FS_AddElement DEF Sound
<1>6. s.sensor_count \in Nat /\ (s.sensor_count = 0 <=> Enabled(s) = {})
  BY <1>2, EnabledFinite DEF Sound
<1>7. (t.adc = "on") <=> (t.sensor_count > 0)
  BY <1>1, <1>6 DEF Sound
<1>8. t.selected_sensor \in Enabled(t)
  BY <1>1, <1>4, <1>6 DEF Sound
<1>9. ASSUME NEW d \in Channel, t.state[d] = "Active"
      PROVE  d = t.selected_sensor /\ d = t.adc_channel
  <2>1. d # c /\ s.state[d] = "Active"
    BY <1>1, <1>2, <1>9 DEF Sensors
  <2>2. s.sensor_count # 0
    BY <1>6, <2>1 DEF Enabled
  <2> QED
    BY <1>1, <2>1, <2>2 DEF Sound
<1>10. ~ t.hung
  BY <1>1, <1>2
<1>11. Sound(t)
  <2> HIDE DEF t
  <2> QED
    BY <1>3, <1>5, <1>7, <1>8, <1>9, <1>10 DEF Sound
<1> QED
  BY <1>11

\* analog_deinit() of an analog channel keeps the statics sound, or never ends.
LEMMA AnalogDeinitSound ==
    ASSUME NEW s, Sound(s), NEW c \in Enabled(s)
    PROVE  /\ AnalogDeinit(s, c) \in Sensors
           /\ AnalogDeinit(s, c).hung
                \/ (Sound(AnalogDeinit(s, c)) /\ c \notin Enabled(AnalogDeinit(s, c)))
<1> DEFINE disabled == [s EXCEPT !.state[c] = "Disabled"]
           passed == IF c = s.selected_sensor /\ s.sensor_count > 1
                       THEN SelectNext(disabled) ELSE disabled
           t == [passed EXCEPT !.sensor_count = @ - 1,
                               !.adc = IF s.sensor_count > 1 THEN @ ELSE "off"]
<1>1. s \in Sensors /\ ~ s.hung /\ c \in Channel
  BY DEF Sound, Enabled
<1>2. /\ disabled \in Sensors
      /\ disabled.state = [s.state EXCEPT ![c] = "Disabled"]
      /\ disabled.sensor_count = s.sensor_count
      /\ disabled.selected_sensor = s.selected_sensor
      /\ disabled.adc_channel = s.adc_channel
      /\ disabled.adc = s.adc
      /\ disabled.hung = FALSE
  BY <1>1 DEF Sensors
<1>3. Enabled(disabled) = Enabled(s) \ {c}
  BY <1>1, <1>2 DEF Enabled, Sensors
<1>4. /\ s.sensor_count \in Nat
      /\ s.sensor_count - 1 \in Nat
      /\ s.sensor_count - 1 = Cardinality(Enabled(disabled))
  <2>1. IsFiniteSet(Enabled(s)) /\ s.sensor_count = Cardinality(Enabled(s))
    BY <1>1, EnabledFinite DEF Sound
  <2>2. Cardinality(Enabled(s) \ {c}) = Cardinality(Enabled(s)) - 1
    BY <2>1, FS_RemoveElement
  <2>3. Cardinality(Enabled(disabled)) \in Nat
    BY <1>2, EnabledFinite
  <2> QED
    BY <1>1, <1>3, <2>1, <2>2, <2>3, EnabledFinite
<1> HIDE DEF disabled
<1>5. /\ passed \in Sensors
      /\ passed.state = disabled.state
      /\ passed.sensor_count = s.sensor_count
      /\ passed.adc_channel = s.adc_channel
      /\ passed.adc = s.adc
  BY <1>2, SelectNextFacts
<1>6. passed.hung \/ Enabled(disabled) = {} \/ passed.selected_sensor \in Enabled(disabled)
  <2>1. CASE c = s.selected_sensor /\ s.sensor_count > 1
    BY <1>2, <2>1, SelectNextFacts
  <2>2. CASE c # s.selected_sensor
    BY <1>2, <1>3, <2>2 DEF Sound
  <2>3. CASE ~ (s.sensor_count > 1)
    <3>1. s.sensor_count - 1 = 0
      BY <1>4, <2>3
    <3> QED
      BY <1>2, <1>4, <3>1, EnabledFinite
  <2> QED
    BY <2>1, <2>2, <2>3
<1>7. \A d \in Channel :
         disabled.state[d] = "Active" => d = s.selected_sensor /\ d = s.adc_channel /\ d # c
  BY <1>1, <1>2 DEF Sound, Sensors
<1>8. \A d \in Channel : disabled.state[d] = "Active" => d = passed.selected_sensor
  BY <1>2, <1>7
<1> HIDE DEF passed
<1>9. CASE passed.hung
  <2>1. AnalogDeinit(s, c) = passed
    BY <1>9 DEF AnalogDeinit, passed, disabled
  <2>2. AnalogDeinit(s, c) \in Sensors
    BY <1>5, <2>1
  <2>3. AnalogDeinit(s, c).hung
    BY <1>9, <2>1
  <2> QED
    BY <2>2, <2>3
<1>10. CASE ~ passed.hung
  <2>1. AnalogDeinit(s, c) = t
    BY <1>10 DEF AnalogDeinit, passed, disabled
  <2>2. /\ t.state = disabled.state
        /\ t.sensor_count = s.sensor_count - 1
        /\ t.adc = IF s.sensor_count > 1 THEN passed.adc ELSE "off"
        /\ t.adc_channel = s.adc_channel
        /\ t.selected_sensor = passed.selected_sensor
        /\ t.hung = passed.hung
    BY <1>5 DEF Sensors
  <2>3. t \in Sensors
    BY <1>4, <1>5 DEF Sensors
  <2> HIDE DEF t
  <2>4. Enabled(t) = Enabled(disabled)
    BY <2>2, EnabledOfState
  <2>5. (t.adc = "on") <=> (t.sensor_count > 0)
    BY <1>4, <1>5, <2>2 DEF Sound
  <2>6. \A d \in Channel : t.state[d] = "Active" => d = t.selected_sensor /\ d = t.adc_channel
    BY <1>7, <1>8, <2>2
  <2>7. Sound(t)
    BY <1>4, <1>6, <1>10, <2>2, <2>3, <2>4, <2>5, <2>6 DEF Sound
  <2> QED
    BY <1>3, <2>1, <2>3, <2>4, <2>7
<1> QED
  BY <1>9, <1>10

LEMMA AnalogInitial == Init => AnalogInv
<1> SUFFICES ASSUME Init PROVE AnalogInv
  OBVIOUS
<1>1. TypeOK
  BY ChannelFacts, ChannelAssumption DEF Init, TypeOK, Sensors
<1>2. Enabled(sensors) = {}
  BY DEF Init, Enabled
<1>3. Sound(sensors)
  <2>1. /\ sensors.hung = FALSE /\ sensors.sensor_count = 0 /\ sensors.adc = "off"
        /\ sensors.state = [c \in Channel |-> "Disabled"]
    BY DEF Init
  <2> QED
    BY <1>1, <1>2, <2>1, FS_EmptySet DEF Sound, TypeOK
<1>4. OwnConversion
  BY DEF Init, OwnConversion
<1> QED
  BY <1>1, <1>3, <1>4 DEF AnalogInv

\* Every step keeps the invariant.
LEMMA AnalogInductive == AnalogInv /\ [Next]_vars => AnalogInv'
<1> SUFFICES ASSUME AnalogInv, [Next]_vars PROVE AnalogInv'
  OBVIOUS
<1>0. TypeOK /\ (sensors.hung \/ Sound(sensors)) /\ OwnConversion
  BY DEF AnalogInv
<1>1. ASSUME NEW c \in Channel, NEW f \in {"None", "Analog"}, SetChannel(c, f)
      PROVE  AnalogInv'
  <2> DEFINE left == IF c \in Enabled(sensors) THEN AnalogDeinit(sensors, c) ELSE sensors
  <2>1. Sound(sensors) /\ sensors \in Sensors
    BY <1>0, <1>1 DEF SetChannel, Listening, TypeOK
  <2>2. left \in Sensors /\ (left.hung \/ (Sound(left) /\ c \notin Enabled(left)))
    BY <2>1, AnalogDeinitSound
  <2>3. sensors' = IF f = "Analog" /\ ~ left.hung THEN AnalogInit(left, c) ELSE left
    BY <1>1 DEF SetChannel
  <2> HIDE DEF left
  <2>4. sensors' \in Sensors /\ (sensors'.hung \/ Sound(sensors'))
    <3>1. CASE f = "Analog" /\ ~ left.hung
      BY <2>2, <2>3, <3>1, AnalogInitSound DEF Sound
    <3>2. CASE ~ (f = "Analog" /\ ~ left.hung)
      BY <2>2, <2>3, <3>2
    <3> QED
      BY <3>1, <3>2
  <2>5. value' = value /\ turn' = turn
    BY <1>1 DEF SetChannel
  <2>6. TypeOK' /\ OwnConversion'
    BY <1>0, <2>4, <2>5 DEF TypeOK, OwnConversion
  <2>7. (sensors.hung \/ Sound(sensors))'
    BY <2>4
  <2> QED
    BY <2>6, <2>7 DEF AnalogInv
<1>2. CASE Tick
  <2>1. sensors' = sensors /\ value' = value /\ turn' \in 0 .. ChannelCount
    BY <1>2, ChannelAssumption DEF Tick
  <2> QED
    BY <1>0, <2>1 DEF AnalogInv, TypeOK, OwnConversion, Sound
<1>3. CASE TimerSkips
  <2>1. sensors' = sensors /\ value' = value /\ turn' \in 0 .. ChannelCount
    BY <1>3, ChannelFacts DEF TimerSkips
  <2> QED
    BY <1>0, <2>1 DEF AnalogInv, TypeOK, OwnConversion, Sound
<1>4. CASE TimerActivates
  <2>1. /\ Sound(sensors) /\ sensors \in Sensors /\ turn \in Channel
        /\ turn \in Enabled(sensors) /\ turn = sensors.selected_sensor
        /\ sensors' = Activate(sensors, turn) /\ value' = value /\ turn' = turn + 1
    BY <1>0, <1>4 DEF TimerActivates, Enabled, TypeOK
  <2>2. /\ sensors' \in Sensors
        /\ sensors'.state = [sensors.state EXCEPT ![turn] = "Active"]
        /\ sensors'.sensor_count = sensors.sensor_count
        /\ sensors'.adc = sensors.adc
        /\ sensors'.adc_channel = turn
        /\ sensors'.selected_sensor = sensors.selected_sensor
        /\ sensors'.hung = sensors.hung
    BY <2>1 DEF Activate, Sensors
  <2>3. Enabled(sensors') = Enabled(sensors)
    BY <2>1, <2>2 DEF Enabled, Sensors
  <2>4. \A d \in Channel : sensors'.state[d] = "Active" => d = turn
    BY <2>1, <2>2 DEF Sound, Sensors
  <2>5. Sound(sensors')
    BY <2>1, <2>2, <2>3, <2>4 DEF Sound
  <2>6. TypeOK' /\ OwnConversion'
    BY <1>0, <2>1, <2>2, ChannelFacts DEF TypeOK, OwnConversion
  <2> QED
    BY <2>5, <2>6 DEF AnalogInv
<1>5. CASE TimerReads
  <2> DEFINE idle == [sensors EXCEPT !.state[turn] = "Inactive"]
  <2>1. /\ Sound(sensors) /\ sensors \in Sensors /\ turn \in Channel
        /\ turn \in Enabled(sensors) /\ turn = sensors.selected_sensor
        /\ sensors.state[turn] = "Active"
        /\ sensors' = SelectNext(idle) /\ turn' = turn + 1
        /\ value' = [value EXCEPT ![turn] = sensors.adc_channel]
    BY <1>0, <1>5 DEF TimerReads, Enabled, TypeOK
  <2>2. /\ idle \in Sensors
        /\ idle.state = [sensors.state EXCEPT ![turn] = "Inactive"]
        /\ idle.sensor_count = sensors.sensor_count
        /\ idle.adc = sensors.adc
    BY <2>1 DEF Sensors
  <2>3. Enabled(idle) = Enabled(sensors)
    BY <2>1, <2>2 DEF Enabled, Sensors
  <2>4. \A d \in Channel : idle.state[d] # "Active"
    BY <2>1, <2>2 DEF Sound, Sensors
  <2> HIDE DEF idle
  <2>5. /\ sensors' \in Sensors
        /\ sensors'.state = idle.state
        /\ sensors'.sensor_count = sensors.sensor_count
        /\ sensors'.adc = sensors.adc
        /\ sensors'.hung \/ sensors'.selected_sensor \in Enabled(idle)
    BY <2>1, <2>2, SelectNextFacts
  <2>6. Enabled(sensors') = Enabled(sensors)
    BY <2>3, <2>5, EnabledOfState
  <2>7. sensors'.hung \/ Sound(sensors')
    BY <2>1, <2>3, <2>4, <2>5, <2>6 DEF Sound
  <2>8. sensors.adc_channel = turn
    BY <2>1 DEF Sound
  <2>9. TypeOK' /\ OwnConversion'
    BY <1>0, <2>1, <2>5, <2>8, ChannelFacts DEF TypeOK, OwnConversion
  <2> QED
    BY <2>7, <2>9 DEF AnalogInv
<1>6. CASE UNCHANGED vars
  BY <1>0, <1>6 DEF vars, AnalogInv, TypeOK, OwnConversion, Sound
<1> QED
  BY <1>1, <1>2, <1>3, <1>4, <1>5, <1>6 DEF Next

LEMMA AnalogInvariant == Spec => []AnalogInv
  BY AnalogInitial, AnalogInductive, PTL DEF Spec

\* The statics of mod_analog.c keep their types: the selected sensor is a channel
\* and the count does not pass below zero.
THEOREM AnalogTypeCorrect == Spec => []TypeOK
<1>1. AnalogInv => TypeOK
  BY DEF AnalogInv
<1> QED
  BY AnalogInvariant, <1>1, PTL

\* For any number of channels, sensor_count is the number of analog channels, the
\* converter is powered while there is one, and the turn is at one of them.
THEOREM AnalogTracked == Spec => []SensorsTracked
<1>1. AnalogInv => SensorsCounted
  BY DEF AnalogInv, SensorsCounted, Sound
<1>2. AnalogInv => SelectedIsSensor
  BY DEF AnalogInv, SelectedIsSensor, Sound
<1>3. AnalogInv => SensorsTracked
  BY <1>1, <1>2 DEF SensorsTracked
<1> QED
  BY AnalogInvariant, <1>3, PTL

\* No sensor ever reports what was converted from another channel's input.
THEOREM AnalogOwnConversion == Spec => []OwnConversion
<1>1. AnalogInv => OwnConversion
  BY DEF AnalogInv
<1> QED
  BY AnalogInvariant, <1>1, PTL

\* select_next_sensor() looks at another channel than the selected one.
LEMMA SearchEnds ==
    ASSUME NEW s \in Sensors, ~ s.hung, SelectNext(s).hung
    PROVE  \E c \in Channel : c \notin Enabled(s) /\ c # s.selected_sensor
<1> DEFINE next == IF s.selected_sensor + 1 >= ChannelCount THEN 0 ELSE s.selected_sensor + 1
<1>1. s.selected_sensor \in Channel
  BY DEF Sensors
<1>2. next \in Channel /\ next # s.selected_sensor
  BY <1>1, ChannelAssumption DEF Channel
<1>3. SelectNext(s).hung = (next \notin Enabled(s))
  BY DEF SelectNext, Sensors
<1> QED
  BY <1>2, <1>3

\* A node hangs in select_next_sensor() only with several analog channels and a
\* channel that is not analog, for any number of channels: one analog channel, or nothing but
\* analog channels, is safe under every order of assignments and ticks.
THEOREM AnalogHangsOnlyWithGap == Spec => HangsOnlyWithGap
<1> DEFINE A == sensors'.hung /\ ~ sensors.hung
                  => Cardinality(Enabled(sensors)) > 1 /\ Enabled(sensors) # Channel
<1>1. ASSUME AnalogInv, [Next]_vars PROVE A
  <2> SUFFICES ASSUME sensors'.hung, ~ sensors.hung
               PROVE  Cardinality(Enabled(sensors)) > 1 /\ Enabled(sensors) # Channel
    OBVIOUS
  <2>1. /\ Sound(sensors) /\ sensors \in Sensors
        /\ sensors.sensor_count = Cardinality(Enabled(sensors)) /\ sensors.sensor_count \in Nat
    BY <1>1 DEF AnalogInv, Sound, Sensors
  <2>2. ASSUME NEW c \in Channel, NEW f \in {"None", "Analog"}, SetChannel(c, f)
        PROVE  Cardinality(Enabled(sensors)) > 1 /\ Enabled(sensors) # Channel
    <3> DEFINE disabled == [sensors EXCEPT !.state[c] = "Disabled"]
               left == IF c \in Enabled(sensors) THEN AnalogDeinit(sensors, c) ELSE sensors
    <3>1. sensors' = IF f = "Analog" /\ ~ left.hung THEN AnalogInit(left, c) ELSE left
      BY <2>2 DEF SetChannel
    <3>2. left \in Sensors
      BY <2>1, AnalogDeinitSound
    <3>3. left.hung
      BY <3>1, <3>2 DEF AnalogInit, Sensors
    <3>4. c \in Enabled(sensors) /\ AnalogDeinit(sensors, c).hung
      BY <3>3
    <3>5. /\ disabled \in Sensors /\ ~ disabled.hung
          /\ disabled.selected_sensor = sensors.selected_sensor
          /\ disabled.state = [sensors.state EXCEPT ![c] = "Disabled"]
      BY <2>1 DEF Sensors
    <3>6. \A d \in Channel \ {c} : d \in Enabled(disabled) <=> d \in Enabled(sensors)
      BY <2>1, <3>5 DEF Enabled, Sensors
    <3> HIDE DEF disabled, left
    <3>7. c = sensors.selected_sensor /\ sensors.sensor_count > 1 /\ SelectNext(disabled).hung
      <4>1. CASE c = sensors.selected_sensor /\ sensors.sensor_count > 1
        <5>1. CASE SelectNext(disabled).hung
          BY <4>1, <5>1
        <5>2. CASE ~ SelectNext(disabled).hung
          <6>1. SelectNext(disabled) \in Sensors
            BY <3>5, SelectNextFacts
          <6>2. AnalogDeinit(sensors, c)
                  = [SelectNext(disabled) EXCEPT !.sensor_count = @ - 1,
                                                 !.adc = IF sensors.sensor_count > 1 THEN @ ELSE "off"]
            BY <4>1, <5>2 DEF AnalogDeinit, disabled
          <6>3. AnalogDeinit(sensors, c).hung = SelectNext(disabled).hung
            BY <6>1, <6>2 DEF Sensors
          <6> QED
            BY <3>4, <5>2, <6>3
        <5> QED
          BY <5>1, <5>2
      <4>2. CASE ~ (c = sensors.selected_sensor /\ sensors.sensor_count > 1)
        <5>1. AnalogDeinit(sensors, c)
                = [disabled EXCEPT !.sensor_count = @ - 1,
                                   !.adc = IF sensors.sensor_count > 1 THEN @ ELSE "off"]
          BY <3>5, <4>2 DEF AnalogDeinit, disabled
        <5>2. AnalogDeinit(sensors, c).hung = disabled.hung
          BY <3>5, <5>1 DEF Sensors
        <5> QED
          BY <3>4, <3>5, <5>2
      <4> QED
        BY <4>1, <4>2
    <3>8. PICK d \in Channel : d \notin Enabled(disabled) /\ d # c
      BY <3>5, <3>7, SearchEnds
    <3> QED
      BY <2>1, <3>6, <3>7, <3>8
  <2>3. CASE TimerActivates
    BY <2>1, <2>3 DEF TimerActivates, Activate, Sensors
  <2>4. CASE TimerReads
    <3> DEFINE idle == [sensors EXCEPT !.state[turn] = "Inactive"]
    <3>1. /\ turn \in Enabled(sensors) /\ turn = sensors.selected_sensor /\ turn \in Channel
          /\ sensors.sensor_count # 1 /\ sensors' = SelectNext(idle)
      BY <2>4 DEF TimerReads, Enabled
    <3>2. /\ idle \in Sensors /\ ~ idle.hung
          /\ idle.state = [sensors.state EXCEPT ![turn] = "Inactive"]
      BY <2>1, <3>1 DEF Sensors
    <3>3. Enabled(idle) = Enabled(sensors)
      BY <2>1, <3>1, <3>2 DEF Enabled, Sensors
    <3>4. PICK d \in Channel : d \notin Enabled(idle)
      BY <3>1, <3>2, SearchEnds
    <3>5. sensors.sensor_count # 0
      BY <2>1, <3>1, EnabledFinite
    <3> QED
      BY <2>1, <3>1, <3>3, <3>4, <3>5
  <2>5. ~ (Tick \/ TimerSkips \/ UNCHANGED vars)
    BY DEF Tick, TimerSkips, vars
  <2> QED
    BY <1>1, <2>2, <2>3, <2>4, <2>5 DEF Next
<1>2. AnalogInv /\ [Next]_vars => [A]_vars
  BY <1>1
<1> QED
  BY <1>2, AnalogInvariant, PTL DEF Spec, HangsOnlyWithGap

-----------------------------------------------------------------------------
(***************************************************************************)
(* Switches                                                                *)
(***************************************************************************)

\* A switch that is off has no time on its timer.
OffMeansTimerReset == mode = "Off" => off_timer = 0

SwitchInv ==
    /\ SwitchTypeOK
    /\ HighOnlyWhenCommanded
    /\ OffTimerNeverWraps
    /\ OffMeansTimerReset

\* A timer that has not reached the last word is incremented without a wrap.
LEMMA IncrementBelowLimit ==
    ASSUME NEW n \in Nat, n < MaxWord
    PROVE  (n + 1) % (MaxWord + 1) = n + 1
<1>1. MaxWord \in Nat
  BY WordAssumption
<1>2. n + 1 \in 0 .. MaxWord
  BY <1>1
<1>3. \A k \in Nat : \A m \in 0 .. k : m % (k + 1) = m
  OBVIOUS
<1> QED
  BY <1>1, <1>2, <1>3

\* A timer that goes on is still below the delay, and so below the last word.
LEMMA TimerGoesOnBelowDelay ==
    ASSUME SwitchTypeOK, OffTimerNeverWraps, ~ DelayOver
    PROVE  NextTimer \in Word /\ NextTimer < MaxWord
<1>1. MaxWord \in Nat /\ off_timer \in 0 .. MaxWord /\ off_delay \in 0 .. MaxWord
  BY WordAssumption DEF SwitchTypeOK, Word
<1>2. NextTimer = off_timer + 1
  BY <1>1, IncrementBelowLimit DEF OffTimerNeverWraps, NextTimer
<1>3. off_timer + 1 < off_delay
  BY <1>1, <1>2 DEF DelayOver
<1> QED
  BY <1>1, <1>2, <1>3 DEF Word

LEMMA LevelIsDriven == \A m, c : Level(m, c) \in {"low", "high"}
  BY DEF Level

LEMMA SwitchInitial == SwitchInit => SwitchInv
<1> SUFFICES ASSUME SwitchInit PROVE SwitchInv
  OBVIOUS
<1>1. SwitchTypeOK
  BY WordAssumption DEF SwitchInit, SwitchTypeOK, Config, Word, Saved
<1>2. HighOnlyWhenCommanded
  BY WordAssumption DEF SwitchInit, HighOnlyWhenCommanded
<1>3. OffTimerNeverWraps /\ OffMeansTimerReset
  BY WordAssumption DEF SwitchInit, OffTimerNeverWraps, OffMeansTimerReset
<1> QED
  BY <1>1, <1>2, <1>3 DEF SwitchInv

\* Every step of mod_switch.c and of its life in module.c keeps the invariant.
LEMMA SwitchInductive == SwitchInv /\ [SwitchNext]_channelVars => SwitchInv'
<1> SUFFICES ASSUME SwitchInv, [SwitchNext]_channelVars PROVE SwitchInv'
  OBVIOUS
<1>0. /\ SwitchTypeOK /\ HighOnlyWhenCommanded
      /\ OffTimerNeverWraps /\ OffMeansTimerReset
  BY DEF SwitchInv
<1>w. 0 \in Word /\ 0 < MaxWord
  BY WordAssumption DEF Word
<1>1. ASSUME NEW f \in {"None", "Switch"}, SetSwitchChannel(f)
      PROVE  SwitchInv'
  BY <1>0, <1>1 DEF SetSwitchChannel, SwitchInv, SwitchTypeOK,
     HighOnlyWhenCommanded, OffTimerNeverWraps, OffMeansTimerReset,
     switchVars
<1>2. ASSUME NEW c \in Config, WriteConfig(c)
      PROVE  SwitchInv'
  BY <1>0, <1>2, LevelIsDriven DEF WriteConfig, SwitchInv, SwitchTypeOK,
     HighOnlyWhenCommanded, OffTimerNeverWraps, OffMeansTimerReset
<1>3. ASSUME NEW m \in {"Off", "On"}, WriteValue(m)
      PROVE  SwitchInv'
  BY <1>0, <1>3, <1>w, LevelIsDriven DEF WriteValue, SwitchInv, SwitchTypeOK,
     HighOnlyWhenCommanded, OffTimerNeverWraps, OffMeansTimerReset
<1>4. ASSUME NEW d \in Word, WriteOffDelay(d)
      PROVE  SwitchInv'
  BY <1>0, <1>4, LevelIsDriven DEF WriteOffDelay, SwitchInv, SwitchTypeOK,
     HighOnlyWhenCommanded, OffTimerNeverWraps, OffMeansTimerReset
<1>5. CASE WriteIgnored
  BY <1>0, <1>5, LevelIsDriven DEF WriteIgnored, SwitchInv, SwitchTypeOK,
     HighOnlyWhenCommanded, OffTimerNeverWraps, OffMeansTimerReset,
     switchVars
<1>6. CASE Timer
  <2>1. CASE DelayOver
    BY <1>0, <1>6, <2>1, <1>w, LevelIsDriven DEF Timer, SwitchInv, SwitchTypeOK,
       HighOnlyWhenCommanded, OffTimerNeverWraps, OffMeansTimerReset
  <2>2. CASE ~ DelayOver
    <3>1. NextTimer \in Word /\ NextTimer < MaxWord
      BY <1>0, <2>2, TimerGoesOnBelowDelay
    <3>2. mode = "On"
      BY <1>6 DEF Timer, Delayed
    <3> QED
      BY <1>0, <1>6, <2>2, <3>1, <3>2 DEF Timer, SwitchInv, SwitchTypeOK,
         HighOnlyWhenCommanded, OffTimerNeverWraps, OffMeansTimerReset
  <2> QED
    BY <2>1, <2>2
<1>7. CASE Save
  <2>1. saved' \in Saved
    BY <1>0, <1>7 DEF Save, Saved, SwitchTypeOK
  <2> QED
    BY <1>0, <1>7, <2>1 DEF Save, SwitchInv, SwitchTypeOK, HighOnlyWhenCommanded,
       OffTimerNeverWraps, OffMeansTimerReset, switchVars
<1>8. CASE Restart
  <2>1. CASE saved.function = "Switch"
    <3>1. saved.config \in Config /\ saved.off_delay \in Word
      BY <1>0, <2>1 DEF SwitchTypeOK, Saved
    <3>2. /\ function' = "Switch" /\ off_timer' = 0 /\ config' = saved.config
          /\ off_delay' = saved.off_delay /\ mode' \in {"Off", "On"}
          /\ pin' = Level(mode', config') /\ saved' = saved
      BY <1>8, <2>1 DEF Restart
    <3> QED
      BY <1>0, <1>w, <3>1, <3>2, LevelIsDriven DEF SwitchInv, SwitchTypeOK,
         HighOnlyWhenCommanded, OffTimerNeverWraps, OffMeansTimerReset
  <2>2. CASE saved.function = "None"
    <3>1. {} \in Config
      BY DEF Config
    <3>2. /\ function' = "None" /\ off_timer' = 0 /\ config' = {} /\ off_delay' = 0
          /\ mode' = "Off" /\ pin' = "input" /\ saved' = saved
      BY <1>8, <2>2 DEF Restart
    <3> QED
      BY <1>0, <1>w, <3>1, <3>2 DEF SwitchInv, SwitchTypeOK, HighOnlyWhenCommanded,
         OffTimerNeverWraps, OffMeansTimerReset
  <2> QED
    BY <1>8, <2>1, <2>2 DEF Restart
<1>9. CASE UNCHANGED channelVars
  BY <1>0, <1>9 DEF channelVars, switchVars, SwitchInv, SwitchTypeOK,
     HighOnlyWhenCommanded, OffTimerNeverWraps, OffMeansTimerReset
<1> QED
  BY <1>1, <1>2, <1>3, <1>4, <1>5, <1>6, <1>7, <1>8, <1>9 DEF SwitchNext

LEMMA SwitchInvariant == SwitchSpec => []SwitchInv
  BY SwitchInitial, SwitchInductive, PTL DEF SwitchSpec

\* The variables of mod_switch.c keep their types, the pin and the stored
\* settings included.
THEOREM SwitchTypeCorrect == SwitchSpec => []SwitchTypeOK
<1>1. SwitchInv => SwitchTypeOK
  BY DEF SwitchInv
<1> QED
  BY SwitchInvariant, <1>1, PTL

\* No sequence of writes, ticks, reassignments and restarts drives the pin of a
\* switch high while mode and polarity ask for low.
THEOREM SwitchNeverHighUncommanded == SwitchSpec => []HighOnlyWhenCommanded
<1>1. SwitchInv => HighOnlyWhenCommanded
  BY DEF SwitchInv
<1> QED
  BY SwitchInvariant, <1>1, PTL

\* The off timer never wraps, for any width of the word.
THEOREM SwitchTimerNeverWraps == SwitchSpec => []OffTimerNeverWraps
<1>1. SwitchInv => OffTimerNeverWraps
  BY DEF SwitchInv
<1> QED
  BY SwitchInvariant, <1>1, PTL

\* A switch that is turned on starts its delay at zero, and while it is on the delay
\* advances with every tick and is never set back by a step other than a write of the
\* value or a restart.
THEOREM SwitchKeepsWholeDelay == SwitchSpec => WholeDelay
<1> DEFINE A == mode' = "On" =>
                   IF mode = "On"
                     THEN \/ off_timer' = off_timer + (IF Timer THEN 1 ELSE 0)
                          \/ WriteValue("On")
                          \/ Restart
                     ELSE off_timer' = 0
<1>0. ASSUME SwitchInv, [SwitchNext]_channelVars, mode' = "On", mode # "On"
      PROVE  off_timer' = 0
  <2>1. mode = "Off" /\ off_timer = 0
    BY <1>0 DEF SwitchInv, SwitchTypeOK, OffMeansTimerReset
  <2>2. CASE \E m \in {"Off", "On"} : WriteValue(m)
    BY <2>2 DEF WriteValue
  <2>3. CASE Restart
    BY <2>3 DEF Restart
  <2>4. CASE Timer
    BY <2>1, <2>4 DEF Timer, Delayed
  <2> QED
    BY <1>0, <2>1, <2>2, <2>3, <2>4 DEF SwitchNext, channelVars, switchVars, SetSwitchChannel,
       WriteConfig, WriteOffDelay, WriteIgnored, Save
<1>1. ASSUME SwitchInv, [SwitchNext]_channelVars PROVE A
  <2> SUFFICES ASSUME mode = "On", mode' = "On", ~ WriteValue("On"), ~ Restart
               PROVE  off_timer' = off_timer + (IF Timer THEN 1 ELSE 0)
    BY <1>0, <1>1
  <2>1. off_timer \in Nat /\ off_timer < MaxWord
    BY <1>1, WordAssumption DEF SwitchInv, SwitchTypeOK, Word, OffTimerNeverWraps
  <2>2. CASE Timer
    <3>1. off_timer' = NextTimer
      BY <2>2 DEF Timer
    <3>2. NextTimer = off_timer + 1
      BY <2>1, IncrementBelowLimit DEF NextTimer
    <3> QED
      BY <2>2, <3>1, <3>2
  <2>3. CASE ~ Timer
    <3>1. off_timer' = off_timer
      <4>1. \A m \in {"Off", "On"} : ~ WriteValue(m)
        BY DEF WriteValue
      <4> QED
        BY <1>1, <2>3, <4>1 DEF SwitchNext, channelVars, switchVars, SetSwitchChannel,
           WriteConfig, WriteOffDelay, WriteIgnored, Save
    <3> QED
      BY <2>1, <2>3, <3>1
  <2> QED
    BY <2>2, <2>3
<1>2. SwitchInv /\ [SwitchNext]_channelVars => [A]_channelVars
  BY <1>1
<1> QED
  BY <1>2, SwitchInvariant, PTL DEF SwitchSpec, WholeDelay

=============================================================================
