----------------------------- MODULE NodeConfig -----------------------------
(***************************************************************************)
(* firmware/stm8/can_node: the configuration of a node (module.c,          *)
(* sysinfo.c, mod_proto.c, eestream.c and the save and load handlers of    *)
(* the channel functions), in RAM and in the EEPROM.                       *)
(*                                                                         *)
(* A save writes the EEPROM in place, byte by byte; the power may fail     *)
(* between two bytes.  The stream has no index: where a channel's data     *)
(* starts depends on the functions of the channels before it.              *)
(*                                                                         *)
(* A packet is handled to its end before the next one, so nothing but a    *)
(* power failure comes between the bytes of a save.                        *)
(***************************************************************************)
EXTENDS Naturals

CONSTANTS
    ChannelCount,   \* CAN_Node_ChannelCount, 4
    LabelSize,      \* sizeof(label), 8
    Functions,      \* the functions that are assigned, a subset of Function
    DeviceIds,      \* the device ids that are assigned
    FieldBytes,     \* the bytes that are written to fields and labels
    MaxChanges      \* bound: writes to the node

Byte     == 0 .. 255
Channel  == 0 .. ChannelCount - 1
LabelPos == 0 .. LabelSize - 1

\* HA_CAN_Node_Function
None    == 0
Switch  == 1
Button  == 2
Analog  == 3
PWM     == 4
DS18B20 == 5
FunctionCount == 6
Function == 0 .. FunctionCount - 1

ASSUME NodeAssumption ==
    /\ ChannelCount \in Nat \ {0} /\ LabelSize \in Nat \ {0} /\ MaxChanges \in Nat
    /\ Functions \subseteq Function
    /\ DeviceIds \subseteq Byte
    /\ FieldBytes \subseteq Byte

Header      == 83      \* 0x53
NoDeviceId  == 255     \* device_id before one is assigned
FactoryByte == 0       \* what an EEPROM that was never written holds

\* The bytes that the on_save handler of a function writes.
SaveSize(f) == CASE f = Switch -> 3 [] f = Button -> 1 [] f = Analog -> 5 [] OTHER -> 0

\* The fields of a function that are saved, as the bytes each occupies:
\* configuration and delay, configuration, configuration and range.
Fields(f) == CASE f = Switch -> {0 .. 0, 1 .. 2}
               [] f = Button -> {0 .. 0}
               [] f = Analog -> {0 .. 0, 1 .. 4}
               [] OTHER -> {}

\* The settings of a channel for every function it may have: the statics of
\* mod_switch.c, mod_button.c and mod_analog.c.
NoSettings == [f \in Function |-> [i \in 0 .. SaveSize(f) - 1 |-> 0]]

FirstFunction == LabelSize + 2
FirstData     == FirstFunction + ChannelCount
EESize        == FirstData + 5 * ChannelCount

VARIABLES
    device_id,    \* sysinfo.c
    label,        \* sysinfo.c
    module_ids,   \* module.c
    settings,     \* of each channel
    eeprom,
    image,        \* the bytes that the save under way writes, in order
    offset,       \* CAN_Node_EEStream::offset of the save under way
    status,       \* handling packets, saving, or saving before a reset
    changes,      \* bound: counts the writes to the node
    commanded     \* history: the ids and functions the node was ever given

ram     == << device_id, label, module_ids, settings >>
saveVars == << image, offset, status >>
vars    == << ram, eeprom, saveVars, changes, commanded >>

TypeOK ==
    /\ device_id \in Byte
    /\ label \in [LabelPos -> Byte]
    /\ module_ids \in [Channel -> Function]
    /\ \A c \in Channel, f \in Function :
          settings[c][f] \in [0 .. SaveSize(f) - 1 -> Byte]
    /\ eeprom \in [0 .. EESize - 1 -> Byte]
    /\ status \in {"running", "saving", "resetting"}
    /\ offset \in Nat
    /\ commanded \in [ids : SUBSET Byte, functions : [Channel -> SUBSET Function]]

-----------------------------------------------------------------------------
(***************************************************************************)
(* The layout of the EEPROM                                                *)
(***************************************************************************)

\* Where the data of each channel starts, under the functions ids; the last
\* entry is the end of the stream.
DataStart(ids) ==
    LET start[c \in 0 .. ChannelCount] ==
          IF c = 0 THEN FirstData ELSE start[c - 1] + SaveSize(ids[c - 1])
    IN start

\* Mutant: button_save() is called with the settings of a switch.
SavedByteOfSwitch(f, data, junk, i) ==
    CASE f = Analog -> IF i < 2 THEN data[f][i + 3] ELSE junk[i]
      [] f = Button -> data[Switch][i]
      [] OTHER      -> data[f][i]

\* The i-th byte that the on_save handler of f writes.  analog_save() writes the
\* range's upper bound over the configuration and leaves three bytes of its
\* buffer uninitialised: these are junk.
SavedByte(f, data, junk, i) ==
    IF f = Analog THEN (IF i < 2 THEN data[f][i + 3] ELSE junk[i]) ELSE data[f][i]

\* CAN_Node_save_modules(): the bytes that are written.
Image(id, text, ids, data, junk) ==
    LET start == DataStart(ids)
        owner(o) == CHOOSE c \in Channel : start[c] <= o /\ o < start[c + 1]
    IN [o \in 0 .. start[ChannelCount] - 1 |->
          CASE o = 0 -> Header
            [] o = 1 -> id
            [] o \in 2 .. LabelSize + 1 -> text[o - 2]
            [] o \in FirstFunction .. FirstData - 1 -> ids[o - FirstFunction]
            [] OTHER -> SavedByte(ids[owner(o)], data[owner(o)], junk[owner(o)],
                                  o - start[owner(o)])]

\* CAN_Node_load_modules() finds its magic number.
HasConfiguration(e) == e[0] = Header

\* The functions that CAN_Node_load_modules() assigns.
LoadedFunctions(e) ==
    [c \in Channel |-> IF e[FirstFunction + c] < FunctionCount THEN e[FirstFunction + c] ELSE None]

\* The on_load handlers: of the function that each channel has.
LoadedSettings(e, ids) ==
    [c \in Channel |-> [f \in Function |->
       IF f = ids[c] THEN [i \in 0 .. SaveSize(f) - 1 |-> e[DataStart(ids)[c] + i]]
                     ELSE NoSettings[f]]]

\* main() from its start to its loop: the statics are initialised, the modules
\* registered and the configuration loaded, if there is one.
Load ==
    \/ /\ HasConfiguration(eeprom)
       /\ device_id' = eeprom[1]
       /\ label' = [p \in LabelPos |-> eeprom[p + 2]]
       /\ module_ids' = LoadedFunctions(eeprom)
       /\ settings' = LoadedSettings(eeprom, LoadedFunctions(eeprom))
    \/ /\ ~ HasConfiguration(eeprom)
       /\ device_id' = NoDeviceId
       /\ label' = [p \in LabelPos |-> 0]
       /\ module_ids' = [c \in Channel |-> None]
       /\ settings' = [c \in Channel |-> NoSettings]

-----------------------------------------------------------------------------
\* A node that was never configured, or one that has been given an id.
Init ==
    /\ label = [p \in LabelPos |-> 0]
    /\ module_ids = [c \in Channel |-> None]
    /\ settings = [c \in Channel |-> NoSettings]
    /\ \/ /\ device_id = NoDeviceId
          /\ eeprom = [o \in 0 .. EESize - 1 |-> FactoryByte]
          /\ commanded = [ids |-> {NoDeviceId, FactoryByte},
                          functions |-> [c \in Channel |-> {None}]]
       \/ /\ device_id \in DeviceIds
          /\ eeprom = [o \in 0 .. EESize - 1 |->
                         CASE o = 0 -> Header [] o = 1 -> device_id [] OTHER -> FactoryByte]
          /\ commanded = [ids |-> {device_id}, functions |-> [c \in Channel |-> {None}]]
    /\ image = << >>
    /\ offset = 0
    /\ status = "running"
    /\ changes = 0

\* The header of handle_received_data(): a packet for this node.  The device id
\* of a packet has 7 bits, so a node without an id is not reached.
Addressed == status = "running" /\ device_id < 128

Counted == changes < MaxChanges /\ changes' = changes + 1

\* CAN_Node_save_modules() is entered; data[2] to data[4] of analog_save() are
\* what the stack holds.
StartSave(next) ==
    /\ \E junk \in [{c \in Channel : module_ids[c] = Analog} -> [2 .. 4 -> FieldBytes]] :
          image' = Image(device_id', label', module_ids, settings,
                         [c \in Channel |-> IF c \in DOMAIN junk THEN junk[c] ELSE << >>])
    /\ offset' = 0
    /\ status' = next

\* The special packet 0x1fffffff with the node's id and a new one:
\* CAN_Node_Sysinfo_set_device_id() saves and resets the node.
SetDeviceId(id) ==
    /\ status = "running"
    /\ Counted
    /\ device_id' = id
    /\ label' = label
    /\ StartSave("resetting")
    /\ commanded' = [commanded EXCEPT !.ids = @ \cup {id}]
    /\ UNCHANGED << module_ids, settings, eeprom >>

\* sysinfo_write() of the label saves everything.
WriteLabel(text) ==
    /\ Addressed
    /\ Counted
    /\ label' = text
    /\ device_id' = device_id
    /\ StartSave("saving")
    /\ UNCHANGED << module_ids, settings, eeprom, commanded >>

\* proto_write() of ChannelSaveConfig.
SaveConfig ==
    /\ Addressed
    /\ Counted
    /\ label' = label
    /\ device_id' = device_id
    /\ StartSave("saving")
    /\ UNCHANGED << module_ids, settings, eeprom, commanded >>

\* proto_write() of a channel's function: CAN_Node_set_channel().
SetChannel(c, f) ==
    /\ Addressed
    /\ Counted
    /\ module_ids' = [module_ids EXCEPT ![c] = f]
    /\ commanded' = [commanded EXCEPT !.functions[c] = @ \cup {f}]
    /\ UNCHANGED << device_id, label, settings, eeprom, saveVars >>

\* The on_write handler of the channel's function, for a field that is saved.
WriteField(c, field, bytes) ==
    /\ Addressed
    /\ Counted
    /\ settings' = [settings EXCEPT ![c][module_ids[c]] =
                      [i \in DOMAIN @ |-> IF i \in field THEN bytes[i] ELSE @[i]]]
    /\ UNCHANGED << device_id, label, module_ids, eeprom, saveVars, commanded >>

Saving == status # "running"

\* Mutant: the first two bytes are swapped.
ProgramByteSwapped ==
    /\ Saving
    /\ offset \in DOMAIN image
    /\ eeprom' = [eeprom EXCEPT ![IF offset < 2 THEN 1 - offset ELSE offset] = image[offset]]
    /\ offset' = offset + 1
    /\ UNCHANGED << ram, image, status, changes, commanded >>

\* CAN_Node_EEStream_write_byte()
ProgramByte ==
    /\ Saving
    /\ offset \in DOMAIN image
    /\ eeprom' = [eeprom EXCEPT ![offset] = image[offset]]
    /\ offset' = offset + 1
    /\ UNCHANGED << ram, image, status, changes, commanded >>

\* Every byte of the save under way is written.
Written == Saving /\ offset \notin DOMAIN image

\* CAN_Node_save_modules() returns.
SaveDone ==
    /\ Written
    /\ status = "saving"
    /\ status' = "running"
    /\ image' = << >>
    /\ offset' = 0
    /\ UNCHANGED << ram, eeprom, changes, commanded >>

Restarted ==
    /\ Load
    /\ status' = "running"
    /\ image' = << >>
    /\ offset' = 0
    /\ UNCHANGED << eeprom, changes, commanded >>

\* WWDG_SWReset() at the end of CAN_Node_Sysinfo_set_device_id().
Reset ==
    /\ Written
    /\ status = "resetting"
    /\ Restarted

\* The power fails and comes back, whatever the node is doing.
PowerCycle == Restarted

Next ==
    \/ \E id \in DeviceIds : SetDeviceId(id)
    \/ \E text \in [LabelPos -> FieldBytes] : WriteLabel(text)
    \/ SaveConfig
    \/ \E c \in Channel, f \in Functions : SetChannel(c, f)
    \/ \E c \in Channel : \E field \in Fields(module_ids[c]) :
          \E bytes \in [field -> FieldBytes] : WriteField(c, field, bytes)
    \/ ProgramByte
    \/ SaveDone
    \/ Reset
    \/ PowerCycle

Spec == Init /\ [][Next]_vars

-----------------------------------------------------------------------------
(***************************************************************************)
(* Properties                                                              *)
(***************************************************************************)

\* "save device configuration" (can_node.h): a node that restarts after a save
\* comes up with the id, label and functions it had, and with the settings of
\* each channel's function, wherever the layout put them.  The settings of an
\* analog channel are excepted: analog_save() writes the two ranges over the
\* configuration and leaves the rest of its bytes uninitialised.  Its neighbours
\* are not.
SaveLoads ==
    Written =>
       /\ HasConfiguration(eeprom)
       /\ eeprom[1] = device_id
       /\ \A p \in LabelPos : eeprom[p + 2] = label[p]
       /\ LoadedFunctions(eeprom) = module_ids
       /\ \A c \in Channel : module_ids[c] # Analog =>
             LoadedSettings(eeprom, module_ids)[c][module_ids[c]] = settings[c][module_ids[c]]

\* Power failures in the middle of saves never give a node an identity or a function
\* that it was not assigned, and so no pin becomes an output that was not made one: the
\* id and each function are one byte, written whole.  The exception is a node that had
\* no configuration at all, whose first save is interrupted between the magic number
\* and the id: it comes up with the id 0 of an empty EEPROM.
NothingInvented ==
    /\ device_id \in commanded.ids
    /\ \A c \in Channel : module_ids[c] \in commanded.functions[c]
=============================================================================
