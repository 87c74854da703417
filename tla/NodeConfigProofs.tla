-------------------------- MODULE NodeConfigProofs --------------------------
(***************************************************************************)
(* Power failures in the middle of saves never invent an id or a function, *)
(* and a save that is complete loads as it was, for any number of channels, *)
(* any label size and any number of writes.                                *)
(*                                                                         *)
(* What the node loads is what the EEPROM holds, and what the EEPROM holds *)
(* comes from the image of a save, so the first inductive invariant says   *)
(* of all three that their id and functions were commanded.  It does not   *)
(* need to know where the layout puts the channels' data.                  *)
(*                                                                         *)
(* The second says what a save under way has written so far.  That the     *)
(* data of a channel is found again rests on the layout: the channels'     *)
(* data lies in the order of the channels, so every cell has one owner.    *)
(***************************************************************************)
EXTENDS NodeConfig, WellFoundedInduction, TLAPS

\* The types that the argument needs.
Typed ==
    /\ commanded \in [ids : SUBSET Byte, functions : [Channel -> SUBSET Function]]
    /\ \A c \in Channel : None \in commanded.functions[c]
    /\ module_ids \in [Channel -> Function]
    /\ eeprom = [o \in 0 .. EESize - 1 |-> eeprom[o]]

\* What a restart would load was commanded.
EepromCommanded ==
    /\ eeprom[1] \in commanded.ids
    /\ eeprom[0] # Header => NoDeviceId \in commanded.ids
    /\ \A c \in Channel : eeprom[FirstFunction + c] \in commanded.functions[c]

\* What a save under way writes was commanded.
ImageCommanded ==
    \A o \in DOMAIN image :
       /\ o = 0 => image[o] = Header
       /\ o = 1 => image[o] \in commanded.ids
       /\ \A c \in Channel : o = FirstFunction + c => image[o] \in commanded.functions[c]

ConfigInv ==
    /\ Typed
    /\ NothingInvented
    /\ EepromCommanded
    /\ ImageCommanded

\* The cells of the functions come after the id and the label, and are cells.
LEMMA Layout ==
    /\ FirstFunction \in Nat /\ FirstFunction > 2
    /\ EESize \in Nat /\ 0 \in 0 .. EESize - 1 /\ 1 \in 0 .. EESize - 1
    /\ \A c \in Channel : /\ c \in Nat
                          /\ FirstFunction + c \in FirstFunction .. FirstData - 1
                          /\ FirstFunction + c \in 0 .. EESize - 1
                          /\ FirstFunction + c \notin 2 .. LabelSize + 1
                          /\ (FirstFunction + c) - FirstFunction = c
  BY NodeAssumption DEF FirstFunction, FirstData, EESize, Channel

\* The cells of an image that a restart takes the id and the functions from.
LEMMA ImageCells ==
    ASSUME NEW id, NEW text, NEW ids, NEW data, NEW junk,
           NEW o \in DOMAIN Image(id, text, ids, data, junk)
    PROVE  LET i == Image(id, text, ids, data, junk) IN
           /\ o = 0 => i[o] = Header
           /\ o = 1 => i[o] = id
           /\ \A c \in Channel : o = FirstFunction + c => i[o] = ids[c]
<1> DEFINE i == Image(id, text, ids, data, junk)
<1>1. CASE o = 0
  <2>1. o \notin 2 .. LabelSize + 1 /\ o \notin FirstFunction .. FirstData - 1
    BY <1>1, Layout
  <2>2. i[o] = Header
    BY <1>1, <2>1 DEF Image
  <2> QED
    BY <1>1, <2>2, Layout
<1>2. CASE o = 1
  <2>1. o # 0 /\ o \notin 2 .. LabelSize + 1 /\ o \notin FirstFunction .. FirstData - 1
    BY <1>2, Layout
  <2>2. i[o] = id
    BY <1>2, <2>1 DEF Image
  <2> QED
    BY <1>2, <2>2, Layout
<1>3. ASSUME NEW c \in Channel, o = FirstFunction + c
      PROVE  i[o] = ids[c]
  <2>1. /\ o # 0 /\ o # 1
        /\ o \notin 2 .. LabelSize + 1
        /\ o \in FirstFunction .. FirstData - 1
        /\ o - FirstFunction = c
    BY <1>3, Layout
  <2>2. i[o] = ids[o - FirstFunction]
    BY <2>1 DEF Image
  <2> QED
    BY <2>1, <2>2
<1> QED
  BY <1>1, <1>2, <1>3

LEMMA ConfigInitial == Init => ConfigInv
<1> SUFFICES ASSUME Init PROVE ConfigInv
  OBVIOUS
<1>1. /\ module_ids = [c \in Channel |-> None]
      /\ image = << >>
  BY DEF Init
<1>2. None \in Function /\ FactoryByte = None
  BY DEF None, Function, FunctionCount, FactoryByte
<1>3. ImageCommanded
  BY <1>1 DEF ImageCommanded
<1>4. CASE /\ device_id = NoDeviceId
           /\ eeprom = [o \in 0 .. EESize - 1 |-> FactoryByte]
           /\ commanded = [ids |-> {NoDeviceId, FactoryByte},
                           functions |-> [c \in Channel |-> {None}]]
  <2>1. commanded.ids \in SUBSET Byte
    BY <1>4 DEF NoDeviceId, FactoryByte, Byte
  <2>2. Typed
    BY <1>1, <1>2, <1>4, <2>1 DEF Typed
  <2>3. EepromCommanded
    BY <1>2, <1>4, Layout DEF EepromCommanded
  <2>4. NothingInvented
    BY <1>1, <1>4 DEF NothingInvented
  <2> QED
    BY <1>3, <2>2, <2>3, <2>4 DEF ConfigInv
<1>5. CASE /\ device_id \in DeviceIds
           /\ eeprom = [o \in 0 .. EESize - 1 |->
                          CASE o = 0 -> Header [] o = 1 -> device_id [] OTHER -> FactoryByte]
           /\ commanded = [ids |-> {device_id}, functions |-> [c \in Channel |-> {None}]]
  <2>1. commanded.ids \in SUBSET Byte
    BY <1>5, NodeAssumption
  <2>2. Typed
    BY <1>1, <1>2, <1>5, <2>1 DEF Typed
  <2>3. eeprom[0] = Header /\ eeprom[1] = device_id
    BY <1>5, Layout
  <2>4. \A c \in Channel : eeprom[FirstFunction + c] = None
    BY <1>2, <1>5, Layout
  <2>5. EepromCommanded
    BY <1>5, <2>3, <2>4 DEF EepromCommanded
  <2>6. NothingInvented
    BY <1>1, <1>5 DEF NothingInvented
  <2> QED
    BY <1>3, <2>2, <2>5, <2>6 DEF ConfigInv
<1> QED
  BY <1>4, <1>5 DEF Init

\* A save writes the id and the functions the node has.
LEMMA StartSaveCommanded ==
    ASSUME Typed, NothingInvented, NEW next, StartSave(next),
           device_id' \in commanded'.ids,
           commanded'.functions = commanded.functions
    PROVE  ImageCommanded'
<1>1. PICK junk : image' = Image(device_id', label', module_ids, settings, junk)
  BY DEF StartSave
<1>2. ASSUME NEW o \in DOMAIN image'
      PROVE  /\ o = 0 => image'[o] = Header
             /\ o = 1 => image'[o] = device_id'
             /\ \A c \in Channel : o = FirstFunction + c => image'[o] = module_ids[c]
  BY <1>1, <1>2, ImageCells
<1>3. \A c \in Channel : module_ids[c] \in commanded'.functions[c]
  BY DEF NothingInvented
<1> QED
  BY <1>2, <1>3 DEF ImageCommanded

\* A restart takes the id and the functions from the EEPROM.
LEMMA RestartCommanded ==
    ASSUME ConfigInv, Restarted
    PROVE  ConfigInv'
<1>1. /\ eeprom' = eeprom /\ commanded' = commanded /\ image' = << >>
  BY DEF Restarted
<1>2. ImageCommanded'
  BY <1>1 DEF ImageCommanded
<1>3. EepromCommanded'
  BY <1>1 DEF ConfigInv, EepromCommanded
<1>4. CASE HasConfiguration(eeprom)
  <2>1. device_id' = eeprom[1] /\ module_ids' = LoadedFunctions(eeprom)
    BY <1>4 DEF Restarted, Load
  <2>2. \A c \in Channel : eeprom[FirstFunction + c] \in Function
    BY DEF ConfigInv, Typed, EepromCommanded
  <2>3. \A c \in Channel : eeprom[FirstFunction + c] < FunctionCount
    BY <2>2 DEF Function, FunctionCount
  <2>4. module_ids' = [c \in Channel |-> eeprom[FirstFunction + c]]
    BY <2>1, <2>3 DEF LoadedFunctions
  <2>5. Typed'
    BY <1>1, <2>2, <2>4 DEF ConfigInv, Typed
  <2>6. NothingInvented'
    BY <1>1, <2>1, <2>4 DEF ConfigInv, EepromCommanded, NothingInvented
  <2> QED
    BY <1>2, <1>3, <2>5, <2>6 DEF ConfigInv
<1>5. CASE ~ HasConfiguration(eeprom)
  <2>1. device_id' = NoDeviceId /\ module_ids' = [c \in Channel |-> None]
    BY <1>5 DEF Restarted, Load
  <2>2. None \in Function
    BY DEF None, Function, FunctionCount
  <2>3. Typed'
    BY <1>1, <2>1, <2>2 DEF ConfigInv, Typed
  <2>4. NoDeviceId \in commanded.ids
    BY <1>5 DEF ConfigInv, EepromCommanded, HasConfiguration
  <2>5. NothingInvented'
    BY <1>1, <2>1, <2>4 DEF ConfigInv, Typed, NothingInvented
  <2> QED
    BY <1>2, <1>3, <2>3, <2>5 DEF ConfigInv
<1> QED
  BY <1>4, <1>5

\* Every step keeps the invariant.
LEMMA ConfigInductive == ConfigInv /\ [Next]_vars => ConfigInv'
<1> SUFFICES ASSUME ConfigInv, [Next]_vars PROVE ConfigInv'
  OBVIOUS
<1>0. Typed /\ NothingInvented /\ EepromCommanded /\ ImageCommanded
  BY DEF ConfigInv
<1>1. ASSUME NEW id \in DeviceIds, SetDeviceId(id)
      PROVE  ConfigInv'
  <2>1. /\ device_id' = id /\ module_ids' = module_ids /\ eeprom' = eeprom
        /\ commanded' = [commanded EXCEPT !.ids = @ \cup {id}]
        /\ StartSave("resetting")
    BY <1>1 DEF SetDeviceId
  <2>2. /\ commanded'.ids = commanded.ids \cup {id}
        /\ commanded'.functions = commanded.functions
        /\ commanded' \in [ids : SUBSET Byte, functions : [Channel -> SUBSET Function]]
    BY <1>0, <2>1, NodeAssumption DEF Typed
  <2>3. ImageCommanded'
    BY <1>0, <2>1, <2>2, StartSaveCommanded
  <2>4. Typed'
    BY <1>0, <2>1, <2>2 DEF Typed
  <2>5. NothingInvented' /\ EepromCommanded'
    BY <1>0, <2>1, <2>2 DEF NothingInvented, EepromCommanded
  <2> QED
    BY <2>3, <2>4, <2>5 DEF ConfigInv
<1>2. ASSUME /\ device_id' = device_id /\ module_ids' = module_ids
             /\ eeprom' = eeprom /\ commanded' = commanded,
             StartSave("saving")
      PROVE  ConfigInv'
  <2>1. ImageCommanded'
    BY <1>0, <1>2, StartSaveCommanded DEF NothingInvented
  <2>2. Typed' /\ NothingInvented' /\ EepromCommanded'
    BY <1>0, <1>2 DEF Typed, NothingInvented, EepromCommanded
  <2> QED
    BY <2>1, <2>2 DEF ConfigInv
<1>3. ASSUME NEW text \in [LabelPos -> FieldBytes], WriteLabel(text)
      PROVE  ConfigInv'
  BY <1>2, <1>3 DEF WriteLabel
<1>4. CASE SaveConfig
  BY <1>2, <1>4 DEF SaveConfig
<1>5. ASSUME NEW c \in Channel, NEW f \in Functions, SetChannel(c, f)
      PROVE  ConfigInv'
  <2>1. /\ device_id' = device_id /\ eeprom' = eeprom /\ image' = image
        /\ module_ids' = [module_ids EXCEPT ![c] = f]
        /\ commanded' = [commanded EXCEPT !.functions[c] = @ \cup {f}]
    BY <1>5 DEF SetChannel, saveVars
  <2>2. f \in Function
    BY NodeAssumption
  <2>3. /\ commanded'.ids = commanded.ids
        /\ commanded'.functions = [commanded.functions EXCEPT ![c] = @ \cup {f}]
        /\ commanded' \in [ids : SUBSET Byte, functions : [Channel -> SUBSET Function]]
    BY <1>0, <2>1, <2>2 DEF Typed
  <2>4. \A d \in Channel : commanded.functions[d] \subseteq commanded'.functions[d]
    BY <1>0, <2>3 DEF Typed
  <2>5. Typed'
    BY <1>0, <2>1, <2>2, <2>3, <2>4 DEF Typed
  <2>6. NothingInvented'
    BY <1>0, <2>1, <2>3, <2>4 DEF Typed, NothingInvented
  <2>7. EepromCommanded' /\ ImageCommanded'
    BY <1>0, <2>1, <2>3, <2>4 DEF EepromCommanded, ImageCommanded
  <2> QED
    BY <2>5, <2>6, <2>7 DEF ConfigInv
<1>6. ASSUME NEW c \in Channel, NEW field, NEW bytes, WriteField(c, field, bytes)
      PROVE  ConfigInv'
  <2>1. /\ device_id' = device_id /\ module_ids' = module_ids /\ eeprom' = eeprom
        /\ commanded' = commanded /\ image' = image
    BY <1>6 DEF WriteField, saveVars
  <2> QED
    BY <1>0, <2>1 DEF ConfigInv, Typed, NothingInvented,
       EepromCommanded, ImageCommanded
<1>7. CASE ProgramByte
  <2>1. /\ device_id' = device_id /\ module_ids' = module_ids
        /\ commanded' = commanded /\ image' = image
        /\ offset \in DOMAIN image
        /\ eeprom' = [eeprom EXCEPT ![offset] = image[offset]]
    BY <1>7 DEF ProgramByte, ram
  <2>2. /\ offset = 0 => image[offset] = Header
        /\ offset = 1 => image[offset] \in commanded.ids
        /\ \A c \in Channel : offset = FirstFunction + c
                                => image[offset] \in commanded.functions[c]
    BY <1>0, <2>1 DEF ImageCommanded
  <2>3. \A o \in 0 .. EESize - 1 :
           eeprom'[o] = IF o = offset THEN image[offset] ELSE eeprom[o]
    BY <1>0, <2>1 DEF Typed
  <2>4. EepromCommanded'
    BY <1>0, <2>1, <2>2, <2>3, Layout DEF EepromCommanded
  <2>5. eeprom' = [o \in 0 .. EESize - 1 |-> eeprom'[o]]
    BY <1>0, <2>1 DEF Typed
  <2>6. Typed'
    BY <1>0, <2>1, <2>5 DEF Typed
  <2>7. NothingInvented' /\ ImageCommanded'
    BY <1>0, <2>1 DEF NothingInvented, ImageCommanded
  <2> QED
    BY <2>4, <2>6, <2>7 DEF ConfigInv
<1>8. CASE SaveDone
  <2>1. /\ device_id' = device_id /\ module_ids' = module_ids /\ eeprom' = eeprom
        /\ commanded' = commanded /\ image' = << >>
    BY <1>8 DEF SaveDone, ram
  <2>2. ImageCommanded'
    BY <2>1 DEF ImageCommanded
  <2> QED
    BY <1>0, <2>1, <2>2 DEF ConfigInv, Typed, NothingInvented,
       EepromCommanded
<1>9. CASE Reset \/ PowerCycle
  BY <1>9, RestartCommanded DEF Reset, PowerCycle
<1>10. CASE UNCHANGED vars
  BY <1>0, <1>10 DEF vars, ram, saveVars, ConfigInv, Typed, NothingInvented,
     EepromCommanded, ImageCommanded
<1> QED
  BY <1>1, <1>3, <1>4, <1>5, <1>6, <1>7, <1>8, <1>9, <1>10 DEF Next

LEMMA ConfigInvariant == Spec => []ConfigInv
  BY ConfigInitial, ConfigInductive, PTL DEF Spec

\* However saves are interrupted, the node's id is one it was given (or that of
\* an empty EEPROM, for a node that had none), and so is every channel's function.
THEOREM ConfigurationNeverInvented == Spec => []NothingInvented
<1>1. ConfigInv => NothingInvented
  BY DEF ConfigInv
<1> QED
  BY ConfigInvariant, <1>1, PTL

-----------------------------------------------------------------------------
(***************************************************************************)
(* The layout of the stream                                                *)
(***************************************************************************)

\* A nonempty set of natural numbers has a least element: induction, in the form
\* of a least counterexample.
LEMMA LeastNatural ==
    ASSUME NEW T, T \subseteq Nat, T # {}
    PROVE  \E x \in T : \A y \in T : x <= y
<1> DEFINE R == OpToRel(<, Nat)
<1>1. R = {ss \in Nat \X Nat : ss[1] < ss[2]}
  BY Zenon DEF OpToRel
<1>2. \E x \in T : \A y \in T : ~ (<<y, x>> \in R)
  <2>1. IsWellFoundedOn(R, Nat)
    BY NatLessThanWellFounded
  <2> HIDE DEF R
  <2>2. QED
    BY <2>1, WFMin
<1> HIDE DEF R
<1>3. PICK x \in T : \A y \in T : ~ (<<y, x>> \in R)
  BY <1>2
<1>4. \A y, z \in Nat : <<y, z>> \in R <=> y < z
  BY <1>1
<1>5. ASSUME NEW y \in T PROVE x <= y
  <2>1. x \in Nat /\ y \in Nat
    OBVIOUS
  <2>2. ~ (y < x)
    BY <1>3, <1>4, <2>1
  <2>3. QED
    BY <2>1, <2>2
<1>6. QED
  BY <1>5

\* Induction up to a bound, over a set.
LEMMA UpTo ==
    ASSUME NEW n \in Nat, NEW T, 0 \in T, \A k \in 0 .. n - 1 : k \in T => k + 1 \in T
    PROVE  \A k \in 0 .. n : k \in T
<1> DEFINE Bad == {k \in 0 .. n : k \notin T}
<1>1. SUFFICES ASSUME Bad # {} PROVE FALSE
  OBVIOUS
<1>2. PICK k \in Bad : \A m \in Bad : k <= m
  <2>1. Bad \subseteq Nat
    OBVIOUS
  <2> HIDE DEF Bad
  <2> QED
    BY <1>1, <2>1, LeastNatural
<1>3. k # 0 /\ k \in 0 .. n
  OBVIOUS
<1>4. k - 1 \in 0 .. n - 1 /\ (k - 1) + 1 = k /\ ~ (k <= k - 1) /\ k - 1 \in 0 .. n
  BY <1>3
<1>5. k - 1 \in T
  BY <1>2, <1>4
<1>6. (k - 1) + 1 \in T
  BY <1>4, <1>5
<1> QED
  BY <1>2, <1>4, <1>6

LEMMA SaveSizes ==
    \A f \in Function : /\ SaveSize(f) \in Nat /\ SaveSize(f) <= 5
                        /\ f = Analog => SaveSize(f) = 5
<1> SUFFICES ASSUME NEW f \in Function
             PROVE  /\ SaveSize(f) \in Nat /\ SaveSize(f) <= 5
                    /\ f = Analog => SaveSize(f) = 5
  OBVIOUS
<1>1. f \in Nat
  BY DEF Function, FunctionCount
<1>2. SaveSize(f) \in {0, 1, 3, 5}
  BY DEF SaveSize, Switch, Button, Analog
<1>3. f = Analog => SaveSize(f) = 5
  BY DEF SaveSize, Switch, Button, Analog
<1> QED
  BY <1>2, <1>3

\* One step of the recursion in DataStart.
StartStep(ids, start, c) ==
    IF c = 0 THEN FirstData ELSE start[c - 1] + SaveSize(ids[c - 1])

\* The recursive function in the definition of DataStart exists.
LEMMA StartExists ==
    ASSUME NEW ids
    PROVE  \E F : F = [c \in 0 .. ChannelCount |-> StartStep(ids, F, c)]
<1> DEFINE T == {n \in Nat : \E F : F = [c \in 0 .. n |-> StartStep(ids, F, c)]}
<1>0. ChannelCount \in Nat
  BY NodeAssumption
<1>1. 0 \in T
  <2>1. PICK F : F = [c \in 0 .. 0 |-> FirstData]
    OBVIOUS
  <2>2. F = [c \in 0 .. 0 |-> StartStep(ids, F, c)]
    BY <2>1 DEF StartStep
  <2> QED
    BY <2>2
<1>2. ASSUME NEW n \in 0 .. ChannelCount - 1, n \in T
      PROVE  n + 1 \in T
  <2>0. n \in Nat
    BY <1>0
  <2>1. PICK F : F = [c \in 0 .. n |-> StartStep(ids, F, c)]
    BY <1>2
  <2>2. PICK G : G = [c \in 0 .. n + 1 |->
                        IF c = n + 1 THEN F[n] + SaveSize(ids[n]) ELSE F[c]]
    OBVIOUS
  <2>3. ASSUME NEW c \in 0 .. n + 1
        PROVE  G[c] = StartStep(ids, G, c)
    <3>1. CASE c = n + 1
      <4>1. c # 0 /\ c - 1 = n /\ n \in 0 .. n + 1 /\ n # n + 1
        BY <2>0, <3>1
      <4>2. G[c] = F[n] + SaveSize(ids[n]) /\ G[n] = F[n]
        BY <2>2, <3>1, <4>1
      <4> QED
        BY <4>1, <4>2 DEF StartStep
    <3>2. CASE c # n + 1
      <4>1. c \in 0 .. n
        BY <2>0, <3>2
      <4>2. G[c] = F[c]
        BY <2>2, <3>2
      <4>3. F[c] = StartStep(ids, F, c)
        BY <2>1, <4>1
      <4>4. c # 0 => c - 1 \in 0 .. n + 1 /\ c - 1 # n + 1
        BY <2>0, <4>1
      <4>5. c # 0 => G[c - 1] = F[c - 1]
        BY <2>2, <4>4
      <4> QED
        BY <4>2, <4>3, <4>5 DEF StartStep
    <3> QED
      BY <3>1, <3>2
  <2>4. G = [c \in 0 .. n + 1 |-> G[c]]
    BY <2>2
  <2>5. G = [c \in 0 .. n + 1 |-> StartStep(ids, G, c)]
    BY <2>3, <2>4
  <2> QED
    BY <2>0, <2>5
<1> HIDE DEF T
<1>3. \A n \in 0 .. ChannelCount : n \in T
  BY <1>0, <1>1, <1>2, UpTo
<1>4. ChannelCount \in T
  BY <1>0, <1>3
<1> QED
  BY <1>4 DEF T

LEMMA StartUnfold ==
    ASSUME NEW ids
    PROVE  \A c \in 0 .. ChannelCount : DataStart(ids)[c] = StartStep(ids, DataStart(ids), c)
<1> DEFINE S == CHOOSE F : F = [c \in 0 .. ChannelCount |-> StartStep(ids, F, c)]
<1>1. DataStart(ids) = S
  BY DEF DataStart, StartStep
<1>2. S = [c \in 0 .. ChannelCount |-> StartStep(ids, S, c)]
  BY StartExists
<1> HIDE DEF S
<1>3. \A c \in 0 .. ChannelCount : S[c] = StartStep(ids, S, c)
  BY <1>2
<1> QED
  BY <1>1, <1>3

LEMMA StartStepwise ==
    ASSUME NEW ids \in [Channel -> Function]
    PROVE  /\ DataStart(ids)[0] = FirstData
           /\ \A c \in Channel : DataStart(ids)[c + 1] = DataStart(ids)[c] + SaveSize(ids[c])
<1>1. ChannelCount \in Nat
  BY NodeAssumption
<1>2. DataStart(ids)[0] = FirstData
  BY <1>1, StartUnfold DEF StartStep
<1>3. ASSUME NEW c \in Channel
      PROVE  DataStart(ids)[c + 1] = DataStart(ids)[c] + SaveSize(ids[c])
  <2>1. c + 1 \in 0 .. ChannelCount /\ c + 1 # 0 /\ (c + 1) - 1 = c
    BY <1>1 DEF Channel
  <2>2. DataStart(ids)[c + 1] = StartStep(ids, DataStart(ids), c + 1)
    BY <2>1, StartUnfold
  <2> QED
    BY <2>1, <2>2 DEF StartStep
<1> QED
  BY <1>2, <1>3

\* The data of every channel is in the EEPROM: no function saves more than 5 bytes.
LEMMA StartBounds ==
    ASSUME NEW ids \in [Channel -> Function]
    PROVE  \A c \in 0 .. ChannelCount : /\ DataStart(ids)[c] \in Nat
                                        /\ FirstData <= DataStart(ids)[c]
                                        /\ DataStart(ids)[c] <= FirstData + 5 * c
<1> DEFINE T == {c \in Nat : /\ DataStart(ids)[c] \in Nat
                             /\ FirstData <= DataStart(ids)[c]
                             /\ DataStart(ids)[c] <= FirstData + 5 * c}
<1>1. ChannelCount \in Nat /\ FirstData \in Nat
  BY NodeAssumption DEF FirstData, FirstFunction
<1>2. 0 \in T
  BY <1>1, StartStepwise
<1>3. ASSUME NEW c \in 0 .. ChannelCount - 1, c \in T
      PROVE  c + 1 \in T
  <2>1. c \in Channel /\ c \in Nat
    BY <1>1 DEF Channel
  <2>2. DataStart(ids)[c + 1] = DataStart(ids)[c] + SaveSize(ids[c])
    BY <2>1, StartStepwise
  <2>3. SaveSize(ids[c]) \in Nat /\ SaveSize(ids[c]) <= 5
    BY <2>1, SaveSizes
  <2>4. PICK s \in Nat, z \in Nat : s = DataStart(ids)[c] /\ z = SaveSize(ids[c])
    BY <1>3, <2>3
  <2>5. FirstData <= s /\ s <= FirstData + 5 * c /\ z <= 5
    BY <1>3, <2>3, <2>4
  <2>6. s + z \in Nat /\ FirstData <= s + z /\ s + z <= FirstData + 5 * (c + 1)
    BY <1>1, <2>1, <2>5
  <2> QED
    BY <2>1, <2>2, <2>4, <2>6
<1> HIDE DEF T
<1>4. \A c \in 0 .. ChannelCount : c \in T
  BY <1>1, <1>2, <1>3, UpTo
<1> QED
  BY <1>4 DEF T

\* The data of the channels lies in the order of the channels.
LEMMA StartMonotone ==
    ASSUME NEW ids \in [Channel -> Function], NEW c \in 0 .. ChannelCount,
           NEW d \in 0 .. ChannelCount, c <= d
    PROVE  DataStart(ids)[c] <= DataStart(ids)[d]
<1> DEFINE T == {n \in Nat : c <= n => DataStart(ids)[c] <= DataStart(ids)[n]}
<1>1. ChannelCount \in Nat
  BY NodeAssumption
<1>2. \A n \in 0 .. ChannelCount : DataStart(ids)[n] \in Nat
  BY StartBounds
<1>3. c = 0 => DataStart(ids)[c] <= DataStart(ids)[0]
  BY <1>1, <1>2
<1>4. 0 \in T
  BY <1>1, <1>3
<1>5. ASSUME NEW n \in 0 .. ChannelCount - 1, n \in T
      PROVE  n + 1 \in T
  <2>1. n \in Channel /\ n \in Nat /\ n \in 0 .. ChannelCount /\ n + 1 \in 0 .. ChannelCount
    BY <1>1 DEF Channel
  <2>2. DataStart(ids)[n + 1] = DataStart(ids)[n] + SaveSize(ids[n])
    BY <2>1, StartStepwise
  <2>3. SaveSize(ids[n]) \in Nat
    BY <2>1, SaveSizes
  <2>4. PICK s \in Nat, z \in Nat, t \in Nat :
           s = DataStart(ids)[n] /\ z = SaveSize(ids[n]) /\ t = DataStart(ids)[c]
    BY <1>2, <2>1, <2>3
  <2>5. CASE c <= n
    BY <1>5, <2>1, <2>2, <2>4, <2>5
  <2>6. CASE c = n + 1
    <3>1. DataStart(ids)[c] <= DataStart(ids)[n + 1]
      BY <1>2, <2>1, <2>6
    <3> QED
      BY <2>1, <3>1
  <2>7. CASE n + 1 < c
    BY <2>1, <2>7
  <2> QED
    BY <1>1, <2>1, <2>5, <2>6, <2>7
<1> HIDE DEF T
<1>6. d \in T
  BY <1>1, <1>4, <1>5, UpTo
<1> QED
  BY <1>6 DEF T

\* So every cell of the data has one owner.
LEMMA OwnerOf ==
    ASSUME NEW ids \in [Channel -> Function], NEW c \in Channel, NEW o \in Nat,
           DataStart(ids)[c] <= o, o < DataStart(ids)[c + 1]
    PROVE  c = CHOOSE d \in Channel : DataStart(ids)[d] <= o /\ o < DataStart(ids)[d + 1]
<1> DEFINE Owns(d) == DataStart(ids)[d] <= o /\ o < DataStart(ids)[d + 1]
<1>1. \A d \in Channel : /\ d \in Nat /\ d \in 0 .. ChannelCount /\ d + 1 \in 0 .. ChannelCount
                         /\ DataStart(ids)[d] \in Nat /\ DataStart(ids)[d + 1] \in Nat
  BY NodeAssumption, StartBounds DEF Channel
<1>2. ASSUME NEW d \in Channel, Owns(d), d # c
      PROVE  FALSE
  <2>1. CASE d < c
    <3>1. d + 1 <= c
      BY <1>1, <2>1
    <3>2. DataStart(ids)[d + 1] <= DataStart(ids)[c]
      BY <1>1, <3>1, StartMonotone
    <3> QED
      BY <1>1, <1>2, <3>2
  <2>2. CASE c < d
    <3>1. c + 1 <= d
      BY <1>1, <2>2
    <3>2. DataStart(ids)[c + 1] <= DataStart(ids)[d]
      BY <1>1, <3>1, StartMonotone
    <3> QED
      BY <1>1, <1>2, <3>2
  <2> QED
    BY <1>1, <1>2, <2>1, <2>2
<1>3. Owns(c)
  OBVIOUS
<1> HIDE DEF Owns
<1>4. c = CHOOSE d \in Channel : Owns(d)
  BY <1>2, <1>3
<1> QED
  BY <1>4 DEF Owns

LEMMA OwnerExists ==
    ASSUME NEW ids \in [Channel -> Function], NEW o \in Nat,
           FirstData <= o, o < DataStart(ids)[ChannelCount]
    PROVE  \E c \in Channel : DataStart(ids)[c] <= o /\ o < DataStart(ids)[c + 1]
<1> DEFINE T == {c \in 0 .. ChannelCount : o < DataStart(ids)[c]}
<1>1. ChannelCount \in Nat /\ ChannelCount \in 0 .. ChannelCount
  BY NodeAssumption
<1>2. T \subseteq Nat /\ T # {}
  BY <1>1
<1>3. \A c \in T : c \in 0 .. ChannelCount /\ o < DataStart(ids)[c]
  OBVIOUS
<1>4. \A c \in 0 .. ChannelCount : c \notin T => ~ (o < DataStart(ids)[c])
  OBVIOUS
<1> HIDE DEF T
<1>5. PICK c \in T : \A d \in T : c <= d
  BY <1>2, LeastNatural
<1>6. c # 0
  BY <1>3, StartStepwise, NodeAssumption DEF FirstData, FirstFunction
<1>7. c - 1 \in Channel /\ c - 1 \in 0 .. ChannelCount /\ (c - 1) + 1 = c /\ ~ (c <= c - 1)
  BY <1>1, <1>3, <1>6 DEF Channel
<1>8. ~ (o < DataStart(ids)[c - 1])
  BY <1>4, <1>5, <1>7
<1>9. DataStart(ids)[c - 1] \in Nat
  BY <1>7, StartBounds
<1>10. DataStart(ids)[c - 1] <= o
  BY <1>8, <1>9
<1> QED
  BY <1>3, <1>7, <1>10

LEMMA ImageDomain ==
    ASSUME NEW id, NEW text, NEW ids \in [Channel -> Function], NEW data, NEW junk
    PROVE  /\ DOMAIN Image(id, text, ids, data, junk) = 0 .. DataStart(ids)[ChannelCount] - 1
           /\ DataStart(ids)[ChannelCount] \in Nat
           /\ FirstData <= DataStart(ids)[ChannelCount]
           /\ DataStart(ids)[ChannelCount] <= EESize
<1>1. DOMAIN Image(id, text, ids, data, junk) = 0 .. DataStart(ids)[ChannelCount] - 1
  BY DEF Image
<1>2. ChannelCount \in Nat /\ ChannelCount \in 0 .. ChannelCount
  BY NodeAssumption
<1>3. /\ DataStart(ids)[ChannelCount] \in Nat
      /\ FirstData <= DataStart(ids)[ChannelCount]
      /\ DataStart(ids)[ChannelCount] <= FirstData + 5 * ChannelCount
  BY <1>2, StartBounds
<1> QED
  BY <1>1, <1>3 DEF EESize

\* The bytes m are those of a save.
IsImage(m, id, text, ids, data, junk) ==
    ids \in [Channel -> Function] /\ m = Image(id, text, ids, data, junk)

\* The cells before the data.
LEMMA ImageHead ==
    ASSUME NEW m, NEW id, NEW text, NEW ids, NEW data, NEW junk,
           IsImage(m, id, text, ids, data, junk)
    PROVE  /\ m[0] = Header
           /\ m[1] = id
           /\ \A p \in LabelPos : m[p + 2] = text[p]
           /\ \A c \in Channel : m[FirstFunction + c] = ids[c]
<1> DEFINE i == Image(id, text, ids, data, junk)
<1>0. ids \in [Channel -> Function] /\ m = i
  BY DEF IsImage
<1>1. FirstData \in Nat /\ FirstData > FirstFunction /\ FirstFunction = LabelSize + 2 /\ LabelSize \in Nat
  BY NodeAssumption DEF FirstData, FirstFunction
<1>2. \A o \in 0 .. FirstData - 1 : o \in DOMAIN i
  <2>1. /\ DOMAIN i = 0 .. DataStart(ids)[ChannelCount] - 1
        /\ DataStart(ids)[ChannelCount] \in Nat /\ FirstData <= DataStart(ids)[ChannelCount]
    BY <1>0, ImageDomain
  <2> HIDE DEF i
  <2> QED
    BY <1>1, <2>1
<1>3. 0 \in DOMAIN i /\ 1 \in DOMAIN i /\ \A c \in Channel : FirstFunction + c \in DOMAIN i
  <2>1. 0 \in 0 .. FirstData - 1 /\ 1 \in 0 .. FirstData - 1
    BY <1>1
  <2>2. \A c \in Channel : FirstFunction + c \in 0 .. FirstData - 1
    BY <1>1, NodeAssumption DEF Channel, FirstData
  <2> QED
    BY <1>2, <2>1, <2>2, Zenon
<1>4. i[0] = Header /\ i[1] = id /\ \A c \in Channel : i[FirstFunction + c] = ids[c]
  BY <1>3, ImageCells
<1>5. ASSUME NEW p \in LabelPos
      PROVE  i[p + 2] = text[p]
  <2>1. /\ p + 2 \in 0 .. FirstData - 1 /\ p + 2 # 0 /\ p + 2 # 1
        /\ p + 2 \in 2 .. LabelSize + 1 /\ p + 2 \notin FirstFunction .. FirstData - 1
    BY <1>1 DEF LabelPos
  <2>2. p + 2 \in DOMAIN i
    BY <1>2, <2>1, Zenon
  <2>3. PICK o : o = p + 2
    OBVIOUS
  <2>4. /\ o \in DOMAIN i /\ o # 0 /\ o # 1 /\ o \in 2 .. LabelSize + 1
        /\ o \notin FirstFunction .. FirstData - 1
    BY <2>1, <2>2, <2>3
  <2>5. i[o] = text[o - 2]
    BY <2>4 DEF Image
  <2>6. o - 2 = p
    BY <2>3 DEF LabelPos
  <2> HIDE DEF i
  <2> QED
    BY <2>3, <2>5, <2>6
<1> HIDE DEF i
<1> QED
  BY <1>0, <1>4, <1>5

\* The cells of the data.
LEMMA ImageData ==
    ASSUME NEW m, NEW id, NEW text, NEW ids, NEW data, NEW junk,
           IsImage(m, id, text, ids, data, junk),
           NEW c \in Channel, NEW o \in Nat,
           DataStart(ids)[c] <= o, o < DataStart(ids)[c + 1]
    PROVE  /\ o \in 0 .. DataStart(ids)[ChannelCount] - 1
           /\ m[o] = SavedByte(ids[c], data[c], junk[c], o - DataStart(ids)[c])
<1> DEFINE i == Image(id, text, ids, data, junk)
           owner == CHOOSE d \in Channel : DataStart(ids)[d] <= o /\ o < DataStart(ids)[d + 1]
<1>0. ids \in [Channel -> Function] /\ m = i
  BY DEF IsImage
<1>1. /\ c \in 0 .. ChannelCount /\ c + 1 \in 0 .. ChannelCount /\ ChannelCount \in 0 .. ChannelCount
      /\ c + 1 <= ChannelCount
  BY NodeAssumption DEF Channel
<1>2. DataStart(ids)[c + 1] <= DataStart(ids)[ChannelCount]
  BY <1>0, <1>1, StartMonotone
<1>3. /\ DataStart(ids)[c] \in Nat /\ DataStart(ids)[c + 1] \in Nat
      /\ DataStart(ids)[ChannelCount] \in Nat /\ FirstData <= DataStart(ids)[c]
  BY <1>0, <1>1, StartBounds
<1>4. o < DataStart(ids)[ChannelCount] /\ FirstData <= o
  <2>1. FirstData \in Nat
    BY NodeAssumption DEF FirstData, FirstFunction
  <2> QED
    BY <1>2, <1>3, <2>1
<1>5. o \in 0 .. DataStart(ids)[ChannelCount] - 1
  BY <1>3, <1>4
<1>6. o # 0 /\ o # 1 /\ o \notin 2 .. LabelSize + 1 /\ o \notin FirstFunction .. FirstData - 1
  BY <1>4, NodeAssumption DEF FirstData, FirstFunction
<1>7. owner = c
  BY <1>0, OwnerOf
<1>8. i[o] = SavedByte(ids[owner], data[owner], junk[owner], o - DataStart(ids)[owner])
  BY <1>5, <1>6 DEF Image
<1> HIDE DEF i, owner
<1> QED
  BY <1>0, <1>5, <1>7, <1>8

\* Every byte of an image is a byte, the junk of analog_save() included.
LEMMA ImageTyped ==
    ASSUME NEW i, NEW id \in Byte, NEW text \in [LabelPos -> Byte], NEW ids, NEW data, NEW junk,
           IsImage(i, id, text, ids, data, junk),
           \A c \in Channel, f \in Function : data[c][f] \in [0 .. SaveSize(f) - 1 -> Byte],
           \A c \in Channel : ids[c] = Analog => junk[c] \in [2 .. 4 -> Byte],
           NEW o \in 0 .. DataStart(ids)[ChannelCount] - 1
    PROVE  i[o] \in Byte
<1>0. ids \in [Channel -> Function]
  BY DEF IsImage
<1>1. /\ LabelSize \in Nat /\ ChannelCount \in Nat /\ FirstFunction = LabelSize + 2
      /\ FirstData = FirstFunction + ChannelCount
  BY NodeAssumption DEF FirstData, FirstFunction
<1>2. o \in Nat /\ o < DataStart(ids)[ChannelCount]
  <2>1. ChannelCount \in 0 .. ChannelCount
    BY <1>1
  <2>2. DataStart(ids)[ChannelCount] \in Nat
    BY <1>0, <2>1, StartBounds
  <2> QED
    BY <2>2
<1>3. /\ i[0] = Header /\ i[1] = id
      /\ \A p \in LabelPos : i[p + 2] = text[p]
      /\ \A c \in Channel : i[FirstFunction + c] = ids[c]
  BY ImageHead
<1>4. CASE FirstData <= o
  <2>1. PICK c \in Channel : DataStart(ids)[c] <= o /\ o < DataStart(ids)[c + 1]
    BY <1>2, <1>4, <1>0, OwnerExists
  <2>2. i[o] = SavedByte(ids[c], data[c], junk[c], o - DataStart(ids)[c])
    BY <1>2, <2>1, ImageData
  <2>3. /\ DataStart(ids)[c] \in Nat /\ DataStart(ids)[c + 1] = DataStart(ids)[c] + SaveSize(ids[c])
        /\ SaveSize(ids[c]) \in Nat /\ (ids[c] = Analog => SaveSize(ids[c]) = 5)
    <3>1. c \in 0 .. ChannelCount
      BY <1>1 DEF Channel
    <3>2. DataStart(ids)[c] \in Nat
      BY <1>0, <3>1, StartBounds
    <3>3. DataStart(ids)[c + 1] = DataStart(ids)[c] + SaveSize(ids[c])
      BY <1>0, StartStepwise
    <3>4. SaveSize(ids[c]) \in Nat /\ (ids[c] = Analog => SaveSize(ids[c]) = 5)
      BY <1>0, SaveSizes
    <3> QED
      BY <3>2, <3>3, <3>4
  <2>4. PICK k : k = o - DataStart(ids)[c]
    OBVIOUS
  <2>5. k \in Nat /\ k \in 0 .. SaveSize(ids[c]) - 1
    BY <1>2, <2>1, <2>3, <2>4
  <2>6. data[c][ids[c]] \in [0 .. SaveSize(ids[c]) - 1 -> Byte]
    BY <1>0
  <2>7. CASE ids[c] = Analog
    <3>1. k < 2 => k + 3 \in 0 .. SaveSize(ids[c]) - 1
      BY <2>3, <2>5, <2>7
    <3>2. ~ (k < 2) => k \in 2 .. 4
      BY <2>3, <2>5, <2>7
    <3>3. junk[c] \in [2 .. 4 -> Byte]
      BY <2>7
    <3>4. i[o] = IF k < 2 THEN data[c][ids[c]][k + 3] ELSE junk[c][k]
      BY <2>2, <2>4, <2>7 DEF SavedByte
    <3> QED
      BY <2>6, <3>1, <3>2, <3>3, <3>4
  <2>8. CASE ids[c] # Analog
    <3>1. i[o] = data[c][ids[c]][k]
      BY <2>2, <2>4, <2>8 DEF SavedByte
    <3> QED
      BY <2>5, <2>6, <3>1
  <2> QED
    BY <2>7, <2>8
<1>5. CASE o < FirstData
  <2>0. o = 0 \/ o = 1 \/ o \in 2 .. LabelSize + 1 \/ o \in FirstFunction .. FirstData - 1
    BY <1>1, <1>2, <1>5
  <2>1. Header \in Byte /\ Function \subseteq Byte
    BY DEF Header, Byte, Function, FunctionCount
  <2>2. CASE o = 0 \/ o = 1
    BY <1>3, <2>1, <2>2
  <2>3. CASE o \in 2 .. LabelSize + 1
    <3>1. o - 2 \in LabelPos /\ (o - 2) + 2 = o
      BY <1>1, <1>2, <2>3 DEF LabelPos
    <3>2. i[o] = text[o - 2]
      BY <1>3, <3>1
    <3> QED
      BY <3>1, <3>2
  <2>4. CASE o \in FirstFunction .. FirstData - 1
    <3>1. o - FirstFunction \in Channel /\ FirstFunction + (o - FirstFunction) = o
      BY <1>1, <1>2, <2>4 DEF Channel
    <3>2. i[o] = ids[o - FirstFunction]
      BY <1>3, <3>1
    <3> QED
      BY <1>0, <2>1, <3>1, <3>2
  <2> QED
    BY <2>0, <2>2, <2>3, <2>4
<1> QED
  BY <1>1, <1>2, <1>4, <1>5

-----------------------------------------------------------------------------
(***************************************************************************)
(* What a save leaves                                                      *)
(***************************************************************************)

StoredTypes ==
    /\ device_id \in Byte
    /\ label \in [LabelPos -> Byte]
    /\ module_ids \in [Channel -> Function]
    /\ DOMAIN settings = Channel
    /\ \A c \in Channel : DOMAIN settings[c] = Function
    /\ \A c \in Channel, f \in Function :
          settings[c][f] \in [0 .. SaveSize(f) - 1 -> Byte]
    /\ eeprom \in [0 .. EESize - 1 -> Byte]
    /\ status \in {"running", "saving", "resetting"}
    /\ offset \in Nat

\* A save writes the image of what the node still has, and has written what comes
\* before its offset.
SaveUnderWay ==
    Saving =>
       /\ \E junk : /\ \A c \in Channel : module_ids[c] = Analog => junk[c] \in [2 .. 4 -> Byte]
                    /\ image = Image(device_id, label, module_ids, settings, junk)
       /\ offset <= DataStart(module_ids)[ChannelCount]
       /\ \A o \in 0 .. offset - 1 : eeprom[o] = image[o]

SaveInv == StoredTypes /\ SaveUnderWay

\* The invariant is what the property needs: the last byte is written, so the EEPROM
\* agrees with the image.
LEMMA SaveInvImplies == SaveInv => SaveLoads
<1> SUFFICES ASSUME SaveInv, Written
             PROVE  /\ HasConfiguration(eeprom)
                    /\ eeprom[1] = device_id
                    /\ \A p \in LabelPos : eeprom[p + 2] = label[p]
                    /\ LoadedFunctions(eeprom) = module_ids
                    /\ \A c \in Channel : module_ids[c] # Analog =>
                          LoadedSettings(eeprom, module_ids)[c][module_ids[c]]
                             = settings[c][module_ids[c]]
  BY DEF SaveLoads
<1> DEFINE end == DataStart(module_ids)[ChannelCount]
<1>1. Saving /\ offset \notin DOMAIN image
  BY DEF Written
<1>2. PICK junk : image = Image(device_id, label, module_ids, settings, junk)
  BY <1>1 DEF SaveInv, SaveUnderWay
<1>3. offset <= end /\ \A o \in 0 .. offset - 1 : eeprom[o] = image[o]
  BY <1>1 DEF SaveInv, SaveUnderWay
<1>4. module_ids \in [Channel -> Function] /\ offset \in Nat
  BY DEF SaveInv, StoredTypes
<1>0. IsImage(image, device_id, label, module_ids, settings, junk)
  BY <1>2, <1>4 DEF IsImage
<1>5. DOMAIN image = 0 .. end - 1 /\ end \in Nat /\ FirstData <= end
  BY <1>2, <1>4, ImageDomain
<1> HIDE DEF end
<1>6. \A o \in 0 .. end - 1 : eeprom[o] = image[o]
  BY <1>1, <1>3, <1>4, <1>5
<1>7. /\ image[0] = Header
      /\ image[1] = device_id
      /\ \A p \in LabelPos : image[p + 2] = label[p]
      /\ \A c \in Channel : image[FirstFunction + c] = module_ids[c]
  BY <1>0, ImageHead
<1>8. FirstData = LabelSize + 2 + ChannelCount /\ LabelSize \in Nat /\ ChannelCount \in Nat
  BY NodeAssumption DEF FirstData, FirstFunction
<1>9. 0 \in 0 .. end - 1 /\ 1 \in 0 .. end - 1
  BY <1>5, <1>8
<1>10. \A p \in LabelPos : p + 2 \in 0 .. end - 1
  BY <1>5, <1>8 DEF LabelPos
<1>11. \A c \in Channel : FirstFunction + c \in 0 .. end - 1
  BY <1>5, <1>8 DEF Channel, FirstFunction
<1>12. HasConfiguration(eeprom) /\ eeprom[1] = device_id
  BY <1>6, <1>7, <1>9 DEF HasConfiguration
<1>13. \A p \in LabelPos : eeprom[p + 2] = label[p]
  BY <1>6, <1>7, <1>10
<1>14. LoadedFunctions(eeprom) = module_ids
  <2>1. \A c \in Channel : eeprom[FirstFunction + c] = module_ids[c]
    BY <1>6, <1>7, <1>11
  <2>2. \A c \in Channel : module_ids[c] < FunctionCount
    BY <1>4 DEF Function, FunctionCount
  <2>3. LoadedFunctions(eeprom) = [c \in Channel |-> module_ids[c]]
    BY <2>1, <2>2 DEF LoadedFunctions
  <2> QED
    BY <1>4, <2>3
<1>15. ASSUME NEW c \in Channel, module_ids[c] # Analog
       PROVE  LoadedSettings(eeprom, module_ids)[c][module_ids[c]] = settings[c][module_ids[c]]
  <2> DEFINE f == module_ids[c]
             start == DataStart(module_ids)[c]
  <2>1. f \in Function /\ settings[c][f] \in [0 .. SaveSize(f) - 1 -> Byte]
    BY DEF SaveInv, StoredTypes
  <2>2. LoadedSettings(eeprom, module_ids)[c][f]
          = [k \in 0 .. SaveSize(f) - 1 |-> eeprom[DataStart(module_ids)[c] + k]]
    BY <2>1 DEF LoadedSettings
  <2>3. /\ start \in Nat /\ DataStart(module_ids)[c + 1] = start + SaveSize(f)
        /\ SaveSize(f) \in Nat
    <3>1. c \in 0 .. ChannelCount
      BY <1>8 DEF Channel
    <3>2. start \in Nat
      BY <1>4, <3>1, StartBounds
    <3>3. DataStart(module_ids)[c + 1] = start + SaveSize(f)
      BY <1>4, StartStepwise
    <3>4. SaveSize(f) \in Nat
      BY <2>1, SaveSizes
    <3> QED
      BY <3>2, <3>3, <3>4
  <2>4. ASSUME NEW k \in 0 .. SaveSize(f) - 1
        PROVE  eeprom[start + k] = settings[c][f][k]
    <3>1. PICK o : o = start + k
      OBVIOUS
    <3>2. o \in Nat /\ DataStart(module_ids)[c] <= o /\ o < DataStart(module_ids)[c + 1] /\ o - start = k
      BY <2>3, <3>1
    <3>3. /\ o \in 0 .. DataStart(module_ids)[ChannelCount] - 1
          /\ image[o] = SavedByte(module_ids[c], settings[c], junk[c], o - DataStart(module_ids)[c])
      BY <1>0, <3>2, ImageData
    <3>4. eeprom[o] = image[o]
      BY <1>6, <3>3 DEF end
    <3>5. image[o] = settings[c][f][k]
      BY <1>15, <3>2, <3>3 DEF SavedByte
    <3> QED
      BY <3>1, <3>4, <3>5
  <2>5. settings[c][f] = [k \in 0 .. SaveSize(f) - 1 |-> settings[c][f][k]]
    BY <2>1
  <2>6. [k \in 0 .. SaveSize(f) - 1 |-> eeprom[start + k]]
          = [k \in 0 .. SaveSize(f) - 1 |-> settings[c][f][k]]
    BY <2>4
  <2> QED
    BY <2>2, <2>5, <2>6
<1> QED
  BY <1>12, <1>13, <1>14, <1>15

LEMMA NoSettingsTyped ==
    /\ DOMAIN NoSettings = Function
    /\ \A f \in Function : NoSettings[f] \in [0 .. SaveSize(f) - 1 -> Byte]
  BY DEF NoSettings, Byte

LEMMA SaveInitially == Init => SaveInv
<1> SUFFICES ASSUME Init
             PROVE  SaveInv
  OBVIOUS
<1>1. NoDeviceId \in Byte /\ FactoryByte \in Byte /\ Header \in Byte /\ None \in Function /\ 0 \in Byte
  BY DEF NoDeviceId, FactoryByte, Header, Byte, None, Function, FunctionCount
<1>2. device_id \in Byte /\ eeprom \in [0 .. EESize - 1 -> Byte]
  BY <1>1, NodeAssumption DEF Init
<1>3. /\ label \in [LabelPos -> Byte]
      /\ module_ids \in [Channel -> Function]
  BY <1>1 DEF Init
<1>4. /\ DOMAIN settings = Channel
      /\ \A c \in Channel : settings[c] = NoSettings
  BY DEF Init
<1>5. StoredTypes
  BY <1>2, <1>3, <1>4, NoSettingsTyped DEF Init, StoredTypes
<1>6. SaveUnderWay
  BY DEF Init, SaveUnderWay, Saving
<1> QED
  BY <1>5, <1>6 DEF SaveInv

\* A save starts with the image of what the node has, and nothing written.
LEMMA SaveStarts ==
    ASSUME StoredTypes, NEW next, StartSave(next),
           module_ids' = module_ids, settings' = settings
    PROVE  SaveUnderWay'
<1>1. PICK j \in [{c \in Channel : module_ids[c] = Analog} -> [2 .. 4 -> FieldBytes]] :
         image' = Image(device_id', label', module_ids, settings,
                        [c \in Channel |-> IF c \in DOMAIN j THEN j[c] ELSE << >>])
  BY DEF StartSave
<1>2. PICK junk : junk = [c \in Channel |-> IF c \in DOMAIN j THEN j[c] ELSE << >>]
  OBVIOUS
<1>3. \A c \in Channel : module_ids[c] = Analog => junk[c] \in [2 .. 4 -> Byte]
  <2> SUFFICES ASSUME NEW c \in Channel, module_ids[c] = Analog
               PROVE  junk[c] \in [2 .. 4 -> Byte]
    OBVIOUS
  <2>1. c \in DOMAIN j /\ j[c] \in [2 .. 4 -> FieldBytes]
    OBVIOUS
  <2>2. junk[c] = j[c]
    BY <1>2, <2>1
  <2> QED
    BY <2>1, <2>2, NodeAssumption
<1>4. image' = Image(device_id', label', module_ids', settings', junk)
  BY <1>1, <1>2
<1>5. offset' = 0 /\ 0 .. offset' - 1 = {}
  BY DEF StartSave
<1>6. offset' <= DataStart(module_ids')[ChannelCount]
  <2>1. ChannelCount \in 0 .. ChannelCount
    BY NodeAssumption
  <2>2. DataStart(module_ids)[ChannelCount] \in Nat
    BY <2>1, StartBounds DEF StoredTypes
  <2> QED
    BY <1>5, <2>2
<1>7. \E k : /\ \A c \in Channel : module_ids'[c] = Analog => k[c] \in [2 .. 4 -> Byte]
             /\ image' = Image(device_id', label', module_ids', settings', k)
  BY <1>3, <1>4
<1> QED
  BY <1>5, <1>6, <1>7 DEF SaveUnderWay

\* What a restart loads has its type, whatever bytes the EEPROM holds.
LEMMA RestartTyped ==
    ASSUME StoredTypes, Restarted
    PROVE  SaveInv'
<1>1. /\ status' = "running" /\ offset' = 0 /\ eeprom' = eeprom
  BY DEF Restarted
<1>2. SaveUnderWay'
  BY <1>1 DEF SaveUnderWay, Saving
<1>3. \A o \in 0 .. EESize - 1 : eeprom[o] \in Byte
  BY DEF StoredTypes
<1>4. NoDeviceId \in Byte /\ None \in Function /\ 0 \in Byte
  BY DEF NoDeviceId, Byte, None, Function, FunctionCount
<1>5. CASE HasConfiguration(eeprom)
  <2> DEFINE ids == LoadedFunctions(eeprom)
  <2>1. /\ device_id' = eeprom[1]
        /\ label' = [p \in LabelPos |-> eeprom[p + 2]]
        /\ module_ids' = ids
        /\ settings' = LoadedSettings(eeprom, ids)
    BY <1>5 DEF Restarted, Load
  <2>2. device_id' \in Byte
    BY <1>3, <2>1, Layout
  <2>3. label' \in [LabelPos -> Byte]
    <3>1. \A p \in LabelPos : p + 2 \in 0 .. EESize - 1
      BY NodeAssumption DEF LabelPos, EESize, FirstData, FirstFunction
    <3> QED
      BY <1>3, <2>1, <3>1
  <2>4. ids \in [Channel -> Function]
    <3>1. ASSUME NEW c \in Channel
          PROVE  ids[c] \in Function
      <4>1. eeprom[FirstFunction + c] \in Byte
        BY <1>3, Layout
      <4>2. eeprom[FirstFunction + c] < FunctionCount => eeprom[FirstFunction + c] \in Function
        BY <4>1 DEF Byte, Function, FunctionCount
      <4> QED
        BY <1>4, <4>2 DEF LoadedFunctions
    <3>2. ids = [c \in Channel |-> ids[c]]
      BY DEF LoadedFunctions
    <3> QED
      BY <3>1, <3>2
  <2> HIDE DEF ids
  <2>5. DOMAIN settings' = Channel /\ \A c \in Channel : DOMAIN settings'[c] = Function
    BY <2>1 DEF LoadedSettings
  <2>6. ASSUME NEW c \in Channel, NEW f \in Function
        PROVE  settings'[c][f] \in [0 .. SaveSize(f) - 1 -> Byte]
    <3>1. CASE f # ids[c]
      BY <2>1, <3>1, NoSettingsTyped DEF LoadedSettings
    <3>2. CASE f = ids[c]
      <4>1. settings'[c][f] = [k \in 0 .. SaveSize(f) - 1 |-> eeprom[DataStart(ids)[c] + k]]
        BY <2>1, <3>2 DEF LoadedSettings
      <4>2. c \in 0 .. ChannelCount /\ c \in Nat /\ c + 1 <= ChannelCount /\ ChannelCount \in Nat
        BY NodeAssumption DEF Channel
      <4>3. DataStart(ids)[c] \in Nat /\ DataStart(ids)[c] <= FirstData + 5 * c
        BY <2>4, <4>2, StartBounds
      <4>4. SaveSize(f) \in Nat /\ SaveSize(f) <= 5
        BY SaveSizes
      <4>5. EESize = FirstData + 5 * ChannelCount /\ FirstData \in Nat
        BY NodeAssumption DEF EESize, FirstData, FirstFunction
      <4>6. ASSUME NEW k \in 0 .. SaveSize(f) - 1
            PROVE  DataStart(ids)[c] + k \in 0 .. EESize - 1
        <5>1. PICK s \in Nat, z \in Nat : s = DataStart(ids)[c] /\ z = SaveSize(f)
          BY <4>3, <4>4
        <5>2. s <= FirstData + 5 * c /\ z <= 5 /\ k \in 0 .. z - 1
          BY <4>3, <4>4, <5>1
        <5>3. s + k \in 0 .. (FirstData + 5 * ChannelCount) - 1
          BY <4>2, <4>5, <5>2
        <5> QED
          BY <4>5, <5>1, <5>3
      <4>7. \A k \in 0 .. SaveSize(f) - 1 : eeprom[DataStart(ids)[c] + k] \in Byte
        BY <1>3, <4>6
      <4> QED
        BY <4>1, <4>7
    <3> QED
      BY <3>1, <3>2
  <2>7. StoredTypes'
    BY <1>1, <2>1, <2>2, <2>3, <2>4, <2>5, <2>6 DEF StoredTypes
  <2> QED
    BY <1>2, <2>7 DEF SaveInv
<1>6. CASE ~ HasConfiguration(eeprom)
  <2>1. /\ device_id' = NoDeviceId
        /\ label' = [p \in LabelPos |-> 0]
        /\ module_ids' = [c \in Channel |-> None]
        /\ settings' = [c \in Channel |-> NoSettings]
    BY <1>6 DEF Restarted, Load
  <2>2. DOMAIN settings' = Channel /\ \A c \in Channel : settings'[c] = NoSettings
    BY <2>1
  <2>3. label' \in [LabelPos -> Byte] /\ module_ids' \in [Channel -> Function]
    BY <1>4, <2>1
  <2>4. StoredTypes'
    BY <1>1, <1>4, <2>1, <2>2, <2>3, NoSettingsTyped DEF StoredTypes
  <2> QED
    BY <1>2, <2>4 DEF SaveInv
<1> QED
  BY <1>5, <1>6

\* Every step keeps the invariant: while a save is under way no packet is handled, so
\* nothing the image was made of changes under it.
LEMMA SaveInductive == SaveInv /\ [Next]_vars => SaveInv'
<1> SUFFICES ASSUME SaveInv, [Next]_vars
             PROVE  SaveInv'
  OBVIOUS
<1>0. StoredTypes /\ SaveUnderWay
  BY DEF SaveInv
<1>1. ASSUME NEW next \in {"saving", "resetting"}, StartSave(next),
             module_ids' = module_ids, settings' = settings, eeprom' = eeprom,
             device_id' \in Byte, label' \in [LabelPos -> Byte]
      PROVE  SaveInv'
  <2>1. SaveUnderWay'
    BY <1>0, <1>1, SaveStarts
  <2>2. offset' = 0 /\ status' = next
    BY <1>1 DEF StartSave
  <2>3. StoredTypes'
    BY <1>0, <1>1, <2>2 DEF StoredTypes
  <2> QED
    BY <2>1, <2>3 DEF SaveInv
<1>2. ASSUME NEW id \in DeviceIds, SetDeviceId(id)
      PROVE  SaveInv'
  BY <1>0, <1>1, <1>2, NodeAssumption DEF SetDeviceId, StoredTypes
<1>3. ASSUME NEW text \in [LabelPos -> FieldBytes], WriteLabel(text)
      PROVE  SaveInv'
  <2>1. text \in [LabelPos -> Byte]
    BY NodeAssumption
  <2> QED
    BY <1>0, <1>1, <1>3, <2>1 DEF WriteLabel, StoredTypes
<1>4. CASE SaveConfig
  BY <1>0, <1>1, <1>4 DEF SaveConfig, StoredTypes
<1>5. ASSUME NEW c \in Channel, NEW f \in Functions, SetChannel(c, f)
      PROVE  SaveInv'
  <2>1. /\ module_ids' = [module_ids EXCEPT ![c] = f] /\ f \in Function
        /\ UNCHANGED << device_id, label, settings, eeprom, offset, status >>
        /\ status = "running"
    BY <1>5, NodeAssumption DEF SetChannel, saveVars, Addressed
  <2>2. StoredTypes'
    BY <1>0, <2>1 DEF StoredTypes
  <2>3. SaveUnderWay'
    BY <2>1 DEF SaveUnderWay, Saving
  <2> QED
    BY <2>2, <2>3 DEF SaveInv
<1>6. ASSUME NEW c \in Channel, NEW field \in Fields(module_ids[c]),
             NEW bytes \in [field -> FieldBytes], WriteField(c, field, bytes)
      PROVE  SaveInv'
  <2> DEFINE m == module_ids[c]
             new == [i \in DOMAIN settings[c][m] |->
                       IF i \in field THEN bytes[i] ELSE settings[c][m][i]]
  <2>1. /\ settings' = [settings EXCEPT ![c][m] = new]
        /\ UNCHANGED << device_id, label, module_ids, eeprom, offset, status >>
        /\ status = "running"
    BY <1>6 DEF WriteField, saveVars, Addressed
  <2>2. m \in Function /\ settings[c][m] \in [0 .. SaveSize(m) - 1 -> Byte]
    BY <1>0 DEF StoredTypes
  <2>3. new \in [0 .. SaveSize(m) - 1 -> Byte]
    <3>1. \A i \in field : bytes[i] \in Byte
      BY NodeAssumption
    <3> QED
      BY <2>2, <3>1
  <2> HIDE DEF new
  <2>4. DOMAIN settings' = Channel
    BY <1>0, <2>1 DEF StoredTypes
  <2>5. ASSUME NEW d \in Channel
        PROVE  /\ DOMAIN settings'[d] = Function
               /\ \A f \in Function : settings'[d][f] \in [0 .. SaveSize(f) - 1 -> Byte]
    <3>1. DOMAIN settings = Channel
      BY <1>0 DEF StoredTypes
    <3>2. /\ DOMAIN settings[d] = Function
          /\ \A f \in Function : settings[d][f] \in [0 .. SaveSize(f) - 1 -> Byte]
      BY <1>0 DEF StoredTypes
    <3>3. CASE d # c
      <4>1. settings'[d] = settings[d]
        BY <2>1, <3>1, <3>3
      <4> QED
        BY <3>2, <4>1
    <3>4. CASE d = c
      <4>1. settings'[d] = [settings[d] EXCEPT ![m] = new]
        BY <2>1, <3>1, <3>4
      <4>2. DOMAIN settings'[d] = Function
        BY <3>2, <4>1
      <4>3. \A f \in Function : settings'[d][f] = IF f = m THEN new ELSE settings[d][f]
        BY <3>2, <4>1
      <4> QED
        BY <2>3, <3>2, <4>2, <4>3
    <3> QED
      BY <3>3, <3>4
  <2>6. StoredTypes'
    BY <1>0, <2>1, <2>4, <2>5 DEF StoredTypes
  <2>7. SaveUnderWay'
    BY <2>1 DEF SaveUnderWay, Saving
  <2> QED
    BY <2>6, <2>7 DEF SaveInv
<1>7. CASE ProgramByte
  <2> DEFINE end == DataStart(module_ids)[ChannelCount]
  <2>1. /\ Saving /\ offset \in DOMAIN image
        /\ eeprom' = [eeprom EXCEPT ![offset] = image[offset]]
        /\ offset' = offset + 1
        /\ UNCHANGED << device_id, label, module_ids, settings, image, status >>
    BY <1>7 DEF ProgramByte, ram
  <2>2. PICK junk :
           /\ \A c \in Channel : module_ids[c] = Analog => junk[c] \in [2 .. 4 -> Byte]
           /\ image = Image(device_id, label, module_ids, settings, junk)
    BY <1>0, <2>1 DEF SaveUnderWay
  <2>3. IsImage(image, device_id, label, module_ids, settings, junk)
    BY <1>0, <2>2 DEF IsImage, StoredTypes
  <2>4. DOMAIN image = 0 .. end - 1 /\ end \in Nat /\ end <= EESize
    BY <1>0, <2>2, ImageDomain DEF StoredTypes
  <2>5. image[offset] \in Byte
    <3>1. offset \in 0 .. end - 1
      BY <2>1, <2>4
    <3>2. \A c \in Channel, f \in Function : settings[c][f] \in [0 .. SaveSize(f) - 1 -> Byte]
      BY <1>0 DEF StoredTypes
    <3>3. device_id \in Byte /\ label \in [LabelPos -> Byte]
      BY <1>0 DEF StoredTypes
    <3> QED
      BY <2>2, <2>3, <3>1, <3>2, <3>3, ImageTyped
  <2> HIDE DEF end
  <2>6. /\ offset \in Nat /\ offset + 1 <= end /\ EESize \in Nat /\ offset \in 0 .. EESize - 1
        /\ eeprom \in [0 .. EESize - 1 -> Byte]
    BY <1>0, <2>1, <2>4, Layout DEF StoredTypes
  <2>7. StoredTypes'
    BY <1>0, <2>1, <2>5, <2>6 DEF StoredTypes
  <2>8. \A o \in 0 .. offset - 1 : eeprom[o] = image[o]
    BY <1>0, <2>1 DEF SaveUnderWay
  <2>9. ASSUME NEW o \in 0 .. (offset + 1) - 1
        PROVE  eeprom'[o] = image[o]
    <3>1. o \in 0 .. EESize - 1 /\ (o = offset \/ (o # offset /\ o \in 0 .. offset - 1))
      BY <2>4, <2>6
    <3> QED
      BY <2>1, <2>6, <2>8, <3>1
  <2>10. /\ offset' <= DataStart(module_ids')[ChannelCount]
         /\ \A o \in 0 .. offset' - 1 : eeprom'[o] = image'[o]
    BY <2>1, <2>6, <2>9 DEF end
  <2>11. \E k : /\ \A c \in Channel : module_ids'[c] = Analog => k[c] \in [2 .. 4 -> Byte]
                /\ image' = Image(device_id', label', module_ids', settings', k)
    BY <2>1, <2>2
  <2>12. SaveUnderWay'
    BY <2>10, <2>11 DEF SaveUnderWay
  <2> QED
    BY <2>7, <2>12 DEF SaveInv
<1>8. CASE SaveDone
  <2>1. /\ UNCHANGED << device_id, label, module_ids, settings, eeprom >>
        /\ status' = "running" /\ offset' = 0
    BY <1>8 DEF SaveDone, ram
  <2> QED
    BY <1>0, <2>1 DEF SaveInv, StoredTypes, SaveUnderWay, Saving
<1>9. CASE Reset \/ PowerCycle
  BY <1>0, <1>9, RestartTyped DEF Reset, PowerCycle
<1>10. CASE UNCHANGED vars
  BY <1>0, <1>10 DEF vars, ram, saveVars, SaveInv, StoredTypes, SaveUnderWay, Saving
<1> QED
  BY <1>2, <1>3, <1>4, <1>5, <1>6, <1>7, <1>8, <1>9, <1>10 DEF Next

LEMMA SaveInvariant == Spec => []SaveInv
  BY SaveInitially, SaveInductive, PTL DEF Spec

\* "save device configuration" (can_node.h): when a save has written its last byte, a
\* restart gives the node the id, label, functions and settings it has, for any number
\* of channels with any functions, wherever that puts their data in the stream.
THEOREM SavesAlwaysLoad == Spec => []SaveLoads
  BY SaveInvariant, SaveInvImplies, PTL

\* What a restart loads is of its type, whatever mixture of two configurations an
\* interrupted save has left in the EEPROM (CAN_Node_load_modules).
THEOREM ConfigTypeCorrect == Spec => []TypeOK
<1>1. SaveInv /\ ConfigInv => TypeOK
  BY DEF SaveInv, StoredTypes, ConfigInv, Typed, TypeOK
<1> QED
  BY <1>1, SaveInvariant, ConfigInvariant, PTL
=============================================================================
