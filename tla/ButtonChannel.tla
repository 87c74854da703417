--------------------------- MODULE ButtonChannel ---------------------------
(***************************************************************************)
(* firmware/stm8/can_node/mod_button.c: one channel of a CAN node used as  *)
(* a digital input.  The pin is sampled every 20 ms and after a write; the *)
(* button may lock a press until it is reset, and may announce its state   *)
(* on the bus without being asked.                                         *)
(*                                                                         *)
(* The contact is the environment's.  A contact that is open leaves the    *)
(* pin to the pull-up resistor; without it the level is undefined.         *)
(***************************************************************************)
EXTENDS Naturals

\* HA_CAN_Node_ButtonConfig, as the set of the bits that are 1.
Config == SUBSET {"Polarity", "PullUp", "Lock", "Active"}

State == {"Released", "Pressed"}

\* The channel's part of the EEPROM.  "None" stands for every other function.
Saved == [ function : {"None"} ] \cup [ function : {"Button"}, config : Config ]

VARIABLES
    function,   \* module_ids[channel]
    config,     \* buttons[channel].config
    state,      \* buttons[channel].state
    pull_up,    \* is the pin an input with a pull-up resistor
    contact,    \* what the contact does to the pin
    told,       \* history: the last announcement that reached the bus
    read,       \* history: was the value requested since it last changed
    saved       \* what button_save() wrote

buttonVars  == << config, state, pull_up >>
channelVars == << function, buttonVars, contact, told, read, saved >>

ButtonTypeOK ==
    /\ function \in {"None", "Button"}
    /\ config \in Config
    /\ state \in State
    /\ pull_up \in BOOLEAN
    /\ contact \in {"high", "low", "open"}
    /\ told \in State \cup {"nothing"}
    /\ read \in BOOLEAN
    /\ saved \in Saved

ButtonInit ==
    /\ function = "None"
    /\ config = {}
    /\ state = "Released"
    /\ pull_up = FALSE
    /\ contact = "open"
    /\ told = "nothing"
    /\ read = FALSE
    /\ saved = [function |-> "None"]

\* The levels that the input register may show.
PinStates(up) ==
    CASE contact = "high" -> {1}
      [] contact = "low"  -> {0}
      [] contact = "open" -> IF up THEN {1} ELSE {0, 1}

\* The values that current_state may have in button_set_state().
Sampled(cfg, up) ==
    {IF (p = 1) # ("Polarity" \in cfg) THEN "Pressed" ELSE "Released" : p \in PinStates(up)}

\* Mutant: the lock is not looked at.
SetStateWithoutLock(before, cfg, up) ==
    \E current \in Sampled(cfg, up) :
       /\ state' = current
       /\ told' \in {told} \cup
             (IF current # before /\ "Active" \in cfg THEN {current} ELSE {})

\* Mutant: only presses are noticed.
SetStateOnPress(before, cfg, up) ==
    \E current \in Sampled(cfg, up) :
       LET changes == current = "Pressed" /\ before = "Released" IN
       /\ state' = IF changes THEN current ELSE before
       /\ told' \in {told} \cup
             (IF changes /\ "Active" \in cfg THEN {current} ELSE {})

\* Mutant: what was sampled is announced although the press is locked.
SetStateAnnouncingLocked(before, cfg, up) ==
    \E current \in Sampled(cfg, up) :
       /\ state' = IF "Lock" \in cfg /\ before = "Pressed" THEN before ELSE current
       /\ told' \in {told} \cup
             (IF current # before /\ "Active" \in cfg THEN {current} ELSE {})

\* button_set_state() when buttons[channel].state is before.  An announcement
\* is lost when CAN_Transmit() finds no free mailbox.
SetState(before, cfg, up) ==
    \E current \in Sampled(cfg, up) :
       LET changes == current # before /\ ~ ("Lock" \in cfg /\ before = "Pressed") IN
       /\ state' = IF changes THEN current ELSE before
       /\ told' \in {told} \cup
             (IF changes /\ "Active" \in cfg THEN {current} ELSE {})

-----------------------------------------------------------------------------
\* Somebody uses the button.
ContactMoves(c) ==
    /\ contact' = c
    /\ UNCHANGED << function, buttonVars, told, read, saved >>

\* CAN_Node_set_channel(): button_init() and button_deinit() set up the pin and
\* leave buttons[channel] alone.
SetChannel(f) ==
    /\ function' = f
    /\ pull_up' = (f = "Button" /\ "PullUp" \in config)
    /\ UNCHANGED << config, state, contact, told, read, saved >>

\* button_request() of the value: the reply is the stored state, which stays.
RequestValue ==
    /\ function = "Button"
    /\ read' = TRUE
    /\ UNCHANGED << function, buttonVars, contact, told, saved >>

\* button_write() of the configuration; an equal one changes nothing.
WriteConfig(c) ==
    /\ function = "Button"
    /\ c # config
    /\ config' = c
    /\ pull_up' = ("PullUp" \in c)
    /\ SetState(state, c, "PullUp" \in c)
    /\ read' = (read /\ state' = state)
    /\ UNCHANGED << function, contact, saved >>

\* button_write() of the value 0: the state is reset, then sampled.
WriteValueZero ==
    /\ function = "Button"
    /\ SetState("Released", config, pull_up)
    /\ read' = FALSE
    /\ UNCHANGED << function, config, pull_up, contact, saved >>

\* button_timer(), every 20 ms.
Timer ==
    /\ function = "Button"
    /\ SetState(state, config, pull_up)
    /\ read' = (read /\ state' = state)
    /\ UNCHANGED << function, config, pull_up, contact, saved >>

\* CAN_Node_save_modules(), as far as this channel goes: button_save().
Save ==
    /\ saved' = IF function = "Button" THEN [function |-> "Button", config |-> config]
                                       ELSE [function |-> "None"]
    /\ UNCHANGED << function, buttonVars, contact, told, read >>

\* A reset or a power cycle.  CAN_Node_load_modules() calls button_load() before
\* main() initialises the CAN controller.
ButtonRestart ==
    /\ function' = saved.function
    /\ \/ /\ saved.function = "Button"
          /\ config' = saved.config
          /\ pull_up' = ("PullUp" \in saved.config)
          /\ \E current \in Sampled(saved.config, "PullUp" \in saved.config) :
                state' = current
       \/ /\ saved.function = "None"
          /\ config' = {}
          /\ state' = "Released"
          /\ pull_up' = FALSE
    /\ told' = "nothing"
    /\ read' = FALSE
    /\ UNCHANGED << contact, saved >>

ButtonNext ==
    \/ \E c \in {"high", "low", "open"} : ContactMoves(c)
    \/ \E f \in {"None", "Button"} : SetChannel(f)
    \/ RequestValue
    \/ \E c \in Config : WriteConfig(c)
    \/ WriteValueZero
    \/ Timer
    \/ Save
    \/ ButtonRestart

ButtonSpec == ButtonInit /\ [][ButtonNext]_channelVars

\* The main loop polls the clock again after the packets that have arrived, so
\* as long as the bus falls silent now and then, ticks keep coming.
ButtonFairSpec == ButtonSpec /\ WF_channelVars(Timer)

-----------------------------------------------------------------------------
(***************************************************************************)
(* Properties                                                              *)
(***************************************************************************)

\* A press that is locked is only forgotten when the value is reset, or by a
\* restart: neither a tick, nor a new configuration that still locks, nor the
\* loss and return of the function undoes it before it was read.  can_node.h promises
\* no more ("until it's read"); that reading does not end the lock in the code is not
\* said here.
LockedPressKept ==
    [][ state = "Pressed" /\ ~ read /\ state' = "Released" /\ "Lock" \in config'
          => WriteValueZero \/ ButtonRestart ]_channelVars

\* The pin shows value v for sure.
Shows(v) == function = "Button" /\ Sampled(config, pull_up) = {v}

\* "always report current state" (can_node.h, without Lock): the state comes to
\* what the pin shows, under every polarity and resistor.
FollowsContact ==
    \A v \in State :
       (Shows(v) /\ "Lock" \notin config) ~> (state = v \/ ~ Shows(v) \/ "Lock" \in config)

\* What a button announces is what it reports when it is asked, also while a press
\* is locked (button_set_state): whoever listens and whoever polls agree.
AnnouncesState ==
    [][ told' \notin {told, "nothing"} => told' = state' /\ "Active" \in config' ]_channelVars
=============================================================================
