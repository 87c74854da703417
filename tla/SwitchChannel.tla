--------------------------- MODULE SwitchChannel ---------------------------
(***************************************************************************)
(* firmware/stm8/can_node/mod_switch.c: one channel of a CAN node used as  *)
(* a digital output with an optional delayed switch-off, through the life  *)
(* module.c gives it: assigned to the function, written, ticked every      *)
(* 20 ms, taken away, saved, restarted.                                    *)
(*                                                                         *)
(* The node runs one main loop without interrupts, so every handler is one *)
(* action.  What interleaves is the order of packets and timer ticks.      *)
(***************************************************************************)
EXTENDS Naturals

CONSTANT
    MaxWord    \* the largest off_delay and off_timer, 2^16 - 1

ASSUME WordAssumption == MaxWord \in Nat \ {0}

\* HA_CAN_Node_SwitchConfig, as the set of the bits that are 1.
Config == SUBSET {"Polarity", "DefaultOn", "OffDelay"}

Word == 0 .. MaxWord

\* What the configuration area holds for this channel: its function and, for a
\* switch, what switch_save() writes.  "None" stands for every function whose
\* pin is an input or not driven.
Saved == [ function : {"None"} ]
         \cup [ function : {"Switch"}, config : Config, off_delay : Word ]

VARIABLES
    function,    \* module_ids[channel]
    config,      \* switches[channel].config
    mode,        \* switches[channel].mode
    off_delay,   \* switches[channel].off_delay
    off_timer,   \* switches[channel].off_timer
    pin,         \* the GPIO pin: an input, or driven low or high
    saved        \* the channel's part of the EEPROM

switchVars  == << config, mode, off_delay, off_timer >>
channelVars == << function, switchVars, pin, saved >>

SwitchTypeOK ==
    /\ function \in {"None", "Switch"}
    /\ config \in Config
    /\ mode \in {"Off", "On"}
    /\ off_delay \in Word
    /\ off_timer \in Word
    /\ pin \in {"input", "low", "high"}
    /\ saved \in Saved

\* A new node: nothing was ever saved.
SwitchInit ==
    /\ function = "None"
    /\ config = {}
    /\ mode = "Off"
    /\ off_delay = 0
    /\ off_timer = 0
    /\ pin = "input"
    /\ saved = [function |-> "None"]

\* switch_update(): the level for mode m under configuration c.
Level(m, c) == IF (m = "On") # ("Polarity" \in c) THEN "high" ELSE "low"

\* CAN_Node_set_channel(): switch_deinit() makes the pin an input and
\* switch_init() drives it low; neither touches switches[channel].
SetSwitchChannel(f) ==
    /\ function' = f
    /\ pin' = IF f = "Switch" THEN "low" ELSE "input"
    /\ UNCHANGED << switchVars, saved >>

-----------------------------------------------------------------------------
(***************************************************************************)
(* switch_write(): whatever the write is, switch_update() ends it.         *)
(***************************************************************************)

WriteConfig(c) ==
    /\ function = "Switch"
    /\ config' = c
    /\ pin' = Level(mode, c)
    /\ UNCHANGED << function, mode, off_delay, off_timer, saved >>

\* Mutant: the timer of the last time the switch was on goes on.
WriteValueKeepingTimer(m) ==
    /\ function = "Switch"
    /\ mode' = m
    /\ pin' = Level(m, config)
    /\ UNCHANGED << function, config, off_delay, off_timer, saved >>

WriteValue(m) ==
    /\ function = "Switch"
    /\ mode' = m
    /\ off_timer' = 0
    /\ pin' = Level(m, config)
    /\ UNCHANGED << function, config, off_delay, saved >>

WriteOffDelay(d) ==
    /\ function = "Switch"
    /\ off_delay' = d
    /\ pin' = Level(mode, config)
    /\ UNCHANGED << function, config, mode, off_timer, saved >>

\* A write to another field, or of the wrong length.
WriteIgnored ==
    /\ function = "Switch"
    /\ pin' = Level(mode, config)
    /\ UNCHANGED << function, switchVars, saved >>

-----------------------------------------------------------------------------
\* The switch is on and waits for its delay to end.
Delayed == function = "Switch" /\ mode = "On" /\ "OffDelay" \in config

\* ++off_timer, a uint16_t.
NextTimer == (off_timer + 1) % (MaxWord + 1)

\* Mutant: the delay has to be exceeded.
DelayExceeded == NextTimer > off_delay

DelayOver == NextTimer >= off_delay

\* Mutant: the pin stays as it is until the next write.
TimerWithoutUpdate ==
    /\ Delayed
    /\ mode' = IF DelayOver THEN "Off" ELSE "On"
    /\ off_timer' = IF DelayOver THEN 0 ELSE NextTimer
    /\ UNCHANGED << function, config, off_delay, pin, saved >>

\* switch_timer(), called every 20 ms for a switch.
Timer ==
    /\ Delayed
    /\ \/ /\ DelayOver
          /\ mode' = "Off"
          /\ off_timer' = 0
          /\ pin' = Level("Off", config)
       \/ /\ ~ DelayOver
          /\ off_timer' = NextTimer
          /\ UNCHANGED << mode, pin >>
    /\ UNCHANGED << function, config, off_delay, saved >>

-----------------------------------------------------------------------------
\* CAN_Node_save_modules(), as far as this channel goes: switch_save().
Save ==
    /\ saved' = IF function = "Switch"
                  THEN [function |-> "Switch", config |-> config, off_delay |-> off_delay]
                  ELSE [function |-> "None"]
    /\ UNCHANGED << function, switchVars, pin >>

\* A reset or a power cycle: the statics are initialised again, then
\* CAN_Node_load_modules() assigns the function and calls switch_load().
Restart ==
    /\ function' = saved.function
    /\ off_timer' = 0
    /\ \/ /\ saved.function = "Switch"
          /\ config' = saved.config
          /\ off_delay' = saved.off_delay
          /\ mode' = IF "DefaultOn" \in saved.config THEN "On" ELSE "Off"
          /\ pin' = Level(mode', saved.config)
       \/ /\ saved.function = "None"
          /\ config' = {}
          /\ off_delay' = 0
          /\ mode' = "Off"
          /\ pin' = "input"
    /\ UNCHANGED saved

SwitchNext ==
    \/ \E f \in {"None", "Switch"} : SetSwitchChannel(f)
    \/ \E c \in Config : WriteConfig(c)
    \/ \E m \in {"Off", "On"} : WriteValue(m)
    \/ \E d \in Word : WriteOffDelay(d)
    \/ WriteIgnored
    \/ Timer
    \/ Save
    \/ Restart

SwitchSpec == SwitchInit /\ [][SwitchNext]_channelVars

\* The main loop polls the clock again after the packets that have arrived, so
\* as long as the bus falls silent now and then, ticks keep coming.
SwitchFairSpec == SwitchSpec /\ WF_channelVars(Timer)

-----------------------------------------------------------------------------
(***************************************************************************)
(* Properties                                                              *)
(***************************************************************************)

\* The output is driven high only while mode and polarity ask for it: every
\* handler that changes one of them ends in switch_update(), and switch_init()
\* starts low.
HighOnlyWhenCommanded ==
    function = "Switch" /\ pin = "high" => Level(mode, config) = "high"

\* off_timer is never incremented past 2^16 - 1, whatever delay is written while
\* it runs and however often the delay is switched off and on: a wrapped timer
\* would keep the output on for another 22 minutes.
OffTimerNeverWraps == off_timer < MaxWord

\* A switch that is turned on gets its whole delay, and gets it once: it starts at zero,
\* whatever was counted before; and while it is on, its timer only goes forward, by one
\* in each tick with the delay enabled.  Writing the configuration, the delay or the
\* function, or taking the delay away and giving it back, never starts it again; a
\* write of the value or a restart does.  As the timer stays below MaxWord, the
\* switch-off is at most that many such ticks away.
WholeDelay ==
    [][ mode' = "On" =>
          IF mode = "On"
            THEN \/ off_timer' = off_timer + (IF Timer THEN 1 ELSE 0)
                 \/ WriteValue("On")
                 \/ Restart
            ELSE off_timer' = 0 ]_channelVars

\* The delayed switch-off happens, even if the delay and the configuration are
\* rewritten for ever: a switch does not stay on with its delay enabled unless the
\* value is written, or the node restarted, again and again.
DelayedOffHappens ==
    []<>(~ Delayed) \/ []<><<WriteValue("On") \/ Restart>>_channelVars
=============================================================================
